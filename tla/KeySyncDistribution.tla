------------------------ MODULE KeySyncDistribution ------------------------
(***************************************************************************)
(* Key synchronization as an implementation of KeyDistribution.  The seat  *)
(* of a worker is its channel s.ephemeralKeys; a transfer's copy is under  *)
(* way from the POST to the end of finishSync.                             *)
(***************************************************************************)
EXTENDS KeySync

Copies == [worker : Worker, keys : EnclaveKeys,
           at : {"sent", "accepted", "app", "nitriding"}]

ASSUME NoBodyAssumption == NoBody \notin Copies

(* Where the copy is, by the state of the POST. *)
CopyAt ==
  [sent |-> "sent", read |-> "sent", verified |-> "sent",
   opened |-> "accepted", appset |-> "app", keysset |-> "nitriding"]

CopyOf(s) ==
  IF post[s] \in DOMAIN CopyAt
  THEN [worker |-> target[s], keys |-> Received(s), at |-> CopyAt[post[s]]]
  ELSE NoBody

Distribution == INSTANCE KeyDistribution WITH
  Transfer <- Sync, Identical <- {w \in Worker : SameRegisters(w)}, NoCopy <- NoBody,
  carried <- [s \in Sync |-> CopyOf(s)], seat <- ephemeralCh, cert <- httpsCert

(***************************************************************************)
(* Key synchronization implements KeyDistribution.  Whatever requests,     *)
(* handlers, timeouts and restarts interleave, a worker installs only a    *)
(* copy that the leader made after the worker answered that sync, in the   *)
(* order of the setters, and errFailedToDecrypt never costs a worker its   *)
(* ephemeral key.                                                          *)
(***************************************************************************)
ImplementsKeyDistribution == Distribution!Spec

=============================================================================
