----------------------------- MODULE WorkerSet -----------------------------
(***************************************************************************)
(* What workerManager (workers.go) promises to its callers, without the    *)
(* event loop, its channels and its clock: a set in which every call takes *)
(* effect at one moment before it returns, from which workers may vanish,  *)
(* and which, once stopped, neither changes nor answers any more.  The     *)
(* number that length() returns is only logged and left out.  Module Fleet *)
(* relies on such a set.                                                   *)
(***************************************************************************)
CONSTANTS
  Worker,   \* URLs of worker enclaves
  Caller    \* goroutines that call the worker manager

VARIABLES
  workers,  \* the registered workers
  pending,  \* the call that each goroutine is in
  stopped   \* has the worker manager stopped?

vars == <<workers, pending, stopped>>

NoCall  == [op |-> "none"]
Updates == [op : {"register", "unregister"}, worker : Worker]
Reads   == [op : {"forAll", "length"}]

Init ==
  /\ workers = {}
  /\ pending = [c \in Caller |-> NoCall]
  /\ stopped = FALSE

Invoke(c) ==
  /\ pending[c] = NoCall
  /\ \E call \in Updates \cup Reads : pending' = [pending EXCEPT ![c] = call]
  /\ UNCHANGED <<workers, stopped>>

(* What a call does to the set when it returns. *)
After(call) ==
  CASE call.op = "register"   -> workers \cup {call.worker}
    [] call.op = "unregister" -> workers \ {call.worker}
    [] OTHER                  -> workers

Return(c) ==
  /\ ~stopped
  /\ pending[c] # NoCall
  /\ workers' = After(pending[c])
  /\ pending' = [pending EXCEPT ![c] = NoCall]
  /\ UNCHANGED stopped

(* Workers that were not heard from vanish. *)
Forget ==
  /\ ~stopped
  /\ workers' \in SUBSET workers
  /\ UNCHANGED <<pending, stopped>>

Stop ==
  /\ stopped' = TRUE
  /\ UNCHANGED <<workers, pending>>

Next == (\E c \in Caller : Invoke(c) \/ Return(c)) \/ Forget \/ Stop

Spec == Init /\ [][Next]_vars

=============================================================================
