-------------------------- MODULE KeyDistribution --------------------------
(***************************************************************************)
(* What key synchronization promises, without the nonces, the attestation  *)
(* documents and the encryption that achieve it (sync_leader.go,           *)
(* sync_worker.go and setupWorkerPostSync in enclave.go): the leader hands *)
(* copies of its keys to identical enclaves; a worker has one seat, holds  *)
(* it for one transfer from its answer to the initial request until it     *)
(* accepts that very transfer's copy, and installs only what it accepted.  *)
(* A copy may get lost until then, but the seat stays taken: only the      *)
(* acceptance and a restart of the worker free it.                         *)
(***************************************************************************)
EXTENDS Naturals

CONSTANTS
  Worker,     \* worker enclaves
  Transfer,   \* identifiers of the transfers under way at one time
  Identical,  \* the workers that run the leader's image
  Empty,      \* nobody is in the seat
  NoCopy      \* no copy of the keys is under way

VARIABLES
  leaderKeys, \* the leader's keys
  carried,    \* the copy that each transfer carries
  seat,       \* the transfer that each worker expects keys from
  keys,       \* each worker's keys
  cert        \* the certificate each worker presents

vars == <<leaderKeys, carried, seat, keys, cert>>

Init ==
  /\ leaderKeys = [nitriding |-> 1, app |-> 0]
  /\ carried = [t \in Transfer |-> NoCopy]
  /\ seat = [w \in Worker |-> Empty]
  /\ keys = [w \in Worker |-> [nitriding |-> 0, app |-> 0]]
  /\ cert = [w \in Worker |-> 0]

(* The application replaces its keys, or the leader starts over. *)
NewAppKeys ==
  /\ leaderKeys' \in [nitriding : {leaderKeys.nitriding}, app : Nat]
  /\ UNCHANGED <<carried, seat, keys, cert>>

NewLeader ==
  /\ leaderKeys' \in [nitriding : Nat, app : {0}]
  /\ UNCHANGED <<carried, seat, keys, cert>>

(* The worker expects the keys of a transfer that carries none yet. *)
Expect(t, w) ==
  /\ carried[t] = NoCopy
  /\ seat[w] = Empty
  /\ seat' = [seat EXCEPT ![w] = t]
  /\ UNCHANGED <<leaderKeys, carried, keys, cert>>

(* The leader copies its keys for an identical enclave, and the copy may get lost. *)
Copy(t, w) ==
  /\ carried[t] = NoCopy
  /\ w \in Identical
  /\ carried' = [carried EXCEPT ![t] = [worker |-> w, keys |-> leaderKeys, at |-> "sent"]]
  /\ UNCHANGED <<leaderKeys, seat, keys, cert>>

Lose(t) ==
  /\ carried[t] # NoCopy
  /\ carried[t].at = "sent"
  /\ carried' = [carried EXCEPT ![t] = NoCopy]
  /\ UNCHANGED <<leaderKeys, seat, keys, cert>>

(***************************************************************************)
(* The worker accepts the copy of the transfer it expects.  Since it began *)
(* to expect it before there was a copy, the keys were the leader's then   *)
(* or later.                                                               *)
(***************************************************************************)
Accept(t) ==
  /\ carried[t] # NoCopy
  /\ carried[t].at = "sent"
  /\ seat[carried[t].worker] = t
  /\ seat' = [seat EXCEPT ![carried[t].worker] = Empty]
  /\ carried' = [carried EXCEPT ![t].at = "accepted"]
  /\ UNCHANGED <<leaderKeys, keys, cert>>

(* The three steps of the installation; those of two transfers may overlap. *)
InstallApp(t) ==
  /\ carried[t] # NoCopy
  /\ carried[t].at = "accepted"
  /\ keys' = [keys EXCEPT ![carried[t].worker].app = carried[t].keys.app]
  /\ carried' = [carried EXCEPT ![t].at = "app"]
  /\ UNCHANGED <<leaderKeys, seat, cert>>

InstallNitriding(t) ==
  /\ carried[t] # NoCopy
  /\ carried[t].at = "app"
  /\ keys' = [keys EXCEPT ![carried[t].worker].nitriding = carried[t].keys.nitriding]
  /\ carried' = [carried EXCEPT ![t].at = "nitriding"]
  /\ UNCHANGED <<leaderKeys, seat, cert>>

Present(t) ==
  /\ carried[t] # NoCopy
  /\ carried[t].at = "nitriding"
  /\ cert' = [cert EXCEPT ![carried[t].worker] = carried[t].keys.nitriding]
  /\ carried' = [carried EXCEPT ![t] = NoCopy]
  /\ UNCHANGED <<leaderKeys, seat, keys>>

(* A worker starts over; the copies it accepted are gone, others may be. *)
Restart(w) ==
  /\ \E lost \in SUBSET Transfer :
       /\ \A t \in lost : carried[t] # NoCopy /\ carried[t].worker = w
       /\ \A t \in Transfer : carried[t] # NoCopy /\ carried[t].worker = w =>
            carried[t].at = "sent" \/ t \in lost
       /\ carried' = [t \in Transfer |-> IF t \in lost THEN NoCopy ELSE carried[t]]
  /\ seat' = [seat EXCEPT ![w] = Empty]
  /\ keys' = [keys EXCEPT ![w] = [nitriding |-> 0, app |-> 0]]
  /\ cert' = [cert EXCEPT ![w] = 0]
  /\ UNCHANGED leaderKeys

Next ==
  \/ NewAppKeys \/ NewLeader
  \/ \E t \in Transfer, w \in Worker : Expect(t, w) \/ Copy(t, w)
  \/ \E t \in Transfer :
       Lose(t) \/ Accept(t) \/ InstallApp(t) \/ InstallNitriding(t) \/ Present(t)
  \/ \E w \in Worker : Restart(w)

Spec == Init /\ [][Next]_vars

=============================================================================
