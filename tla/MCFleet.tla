------------------------------ MODULE MCFleet ------------------------------
(* Instances of Fleet for TLC. *)
EXTENDS Fleet, TLC

CONSTANTS w1, s1, s2

PCRs(image, parent) == (0 :> image) @@ (4 :> parent)
MCLeaderPCRs == PCRs("image", "i-0")
MCWorkerPCRs == [w \in Worker |-> PCRs("image", "i-1")]
MCNone == {}

=============================================================================
