----------------------------- MODULE MCKeySync -----------------------------
(* Instances of KeySync for TLC. *)
EXTENDS KeySyncDistribution, TLC

CONSTANTS w1, w2, s1, s2, s3

(* PCR0 is the image, PCR4 the parent instance. *)
PCRs(image, parent) == (0 :> image) @@ (4 :> parent)
MCLeaderPCRs == PCRs("image", "i-0")
(* One worker runs the leader's image on another instance. *)
MCOneWorker == w1 :> PCRs("image", "i-1")
(* A second worker runs another image. *)
MCTwoWorkers == MCOneWorker @@ (w2 :> PCRs("other", "i-2"))
MCNone == {}

Symmetry == Permutations(Sync)

=============================================================================
