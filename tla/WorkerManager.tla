--------------------------- MODULE WorkerManager ---------------------------
(***************************************************************************)
(* workerManager (workers.go): an event loop that owns the set of workers, *)
(* and the goroutines that talk to it over unbuffered channels: HTTP       *)
(* handlers (heartbeatHandler, putStateHandler) and the goroutines they    *)
(* start.  A communication over an unbuffered channel is one step of both  *)
(* partners.  length() sends and receives on the same channel, w.len; the  *)
(* number it returns is only logged, and left out.                         *)
(***************************************************************************)
EXTENDS Naturals

CONSTANTS
  Worker,   \* URLs of worker enclaves
  Handler,  \* goroutines that serve HTTP requests; Stop waits for them
  Routine,  \* goroutines that nobody waits for
  Never,    \* the last time we heard from a worker that is not in the set
  timeout,  \* w.timeout
  MaxTime   \* bound on the time that passes

ASSUME NeverAssumption == Never \notin Nat
ASSUME TimeoutAssumption == timeout \in Nat \ {0} /\ MaxTime \in Nat

VARIABLES
  loop,      \* the event loop: "select", "reply" (in w.len <- len(set)), "stopped"
  lastSeen,  \* the set: when we last heard from each of the workers in it
  now,       \* the current time
  lastTick,  \* when the timer last ticked (or was started)
  ticks,     \* the number of ticks in timer.C (capacity 1)
  call,      \* what each goroutine wants of the event loop
  stop       \* Stop: not called, shutting the servers down, returned

vars == <<loop, lastSeen, now, lastTick, ticks, call, stop>>

Caller == Handler \cup Routine
NoCall == [op |-> "none"]
Calls  == [op : {"register", "unregister"}, worker : Worker]
            \cup [op : {"forAll", "length", "await"}] \cup {NoCall}

set == {w \in Worker : lastSeen[w] # Never}

Init ==
  /\ loop = "select"
  /\ lastSeen = [w \in Worker |-> Never]
  /\ now = 0
  /\ lastTick = 0
  /\ ticks = 0
  /\ call = [c \in Caller |-> NoCall]
  /\ stop = "no"

(***************************************************************************)
(* A goroutine calls register, unregister, forAll or length.  Handlers do  *)
(* so until Stop has returned: Shutdown lets them finish, and the servers  *)
(* are shut down one after the other.                                      *)
(***************************************************************************)
Call(c) ==
  /\ call[c] = NoCall
  /\ c \in Handler => stop # "returned"
  /\ \E op \in Calls \ {NoCall, [op |-> "await"]} : call' = [call EXCEPT ![c] = op]
  /\ UNCHANGED <<loop, lastSeen, now, lastTick, ticks, stop>>

Return(c) == call' = [call EXCEPT ![c] = NoCall]

register(c) ==
  /\ loop = "select" /\ call[c].op = "register"
  /\ lastSeen' = [lastSeen EXCEPT ![call[c].worker] = now]
  /\ Return(c)
  /\ UNCHANGED <<loop, now, lastTick, ticks, stop>>

(* A mutant: the worker's last heartbeat is backdated past the timeout. *)
unregisterByAge(c) ==
  /\ loop = "select" /\ call[c].op = "unregister"
  /\ lastSeen' = [lastSeen EXCEPT ![call[c].worker] = now - (timeout + 1)]
  /\ Return(c)
  /\ UNCHANGED <<loop, now, lastTick, ticks, stop>>

unregister(c) ==
  /\ loop = "select" /\ call[c].op = "unregister"
  /\ lastSeen' = [lastSeen EXCEPT ![call[c].worker] = Never]
  /\ Return(c)
  /\ UNCHANGED <<loop, now, lastTick, ticks, stop>>

(* The loop starts a goroutine per worker and is free again. *)
forAll(c) ==
  /\ loop = "select" /\ call[c].op = "forAll"
  /\ Return(c)
  /\ UNCHANGED <<loop, lastSeen, now, lastTick, ticks, stop>>

(* w.len <- 0 meets <-w.len in the event loop. *)
LengthAsk(c) ==
  /\ loop = "select" /\ call[c].op = "length"
  /\ loop' = "reply"
  /\ call' = [call EXCEPT ![c] = [op |-> "await"]]
  /\ UNCHANGED <<lastSeen, now, lastTick, ticks, stop>>

(* A mutant: the loop does not go back to its select. *)
LengthReplyNoSelect(c) ==
  /\ loop = "reply" /\ call[c].op = "await"
  /\ Return(c)
  /\ UNCHANGED <<loop, lastSeen, now, lastTick, ticks, stop>>

(* w.len <- len(set) in the event loop meets return <-w.len. *)
LengthReply(c) ==
  /\ loop = "reply" /\ call[c].op = "await"
  /\ loop' = "select"
  /\ Return(c)
  /\ UNCHANGED <<lastSeen, now, lastTick, ticks, stop>>

(* Another caller's w.len <- 0 meets return <-w.len, which returns that 0. *)
LengthCross(c, d) ==
  /\ call[c].op = "await" /\ call[d].op = "length"
  /\ call' = [call EXCEPT ![c] = NoCall, ![d] = [op |-> "await"]]
  /\ UNCHANGED <<loop, lastSeen, now, lastTick, ticks, stop>>

(* A mutant: twice the timeout. *)
TimedOutLate(w) == now - lastSeen[w] > 2 * timeout

(* now.Sub(lastSeen) > w.timeout *)
TimedOut(w) == now - lastSeen[w] > timeout

(* The timer's case of the event loop. *)
Prune ==
  /\ loop = "select" /\ ticks = 1
  /\ ticks' = 0
  /\ lastSeen' = [w \in Worker |->
       IF w \in set /\ TimedOut(w) THEN Never ELSE lastSeen[w]]
  /\ UNCHANGED <<loop, now, lastTick, call, stop>>

(* Time passes; the loop serves a tick before the next unit is over. *)
Pass ==
  /\ now < MaxTime
  /\ ticks = 1 => loop = "stopped"
  /\ now' = now + 1
  /\ IF now' = lastTick + timeout
     THEN lastTick' = now' /\ ticks' = 1
     ELSE UNCHANGED <<lastTick, ticks>>
  /\ UNCHANGED <<loop, lastSeen, call, stop>>

(* Enclave.Stop closes the stop channel and shuts the servers down ... *)
Stop ==
  /\ stop = "no"
  /\ stop' = "shutdown"
  /\ UNCHANGED <<loop, lastSeen, now, lastTick, ticks, call>>

(* A mutant: the event loop ends wherever it is. *)
LoopStopsAnywhere ==
  /\ stop # "no"
  /\ loop' = "stopped"
  /\ UNCHANGED <<lastSeen, now, lastTick, ticks, call, stop>>

(* ... the event loop ends ... *)
LoopStops ==
  /\ loop = "select" /\ stop # "no"
  /\ loop' = "stopped"
  /\ UNCHANGED <<lastSeen, now, lastTick, ticks, call, stop>>

(* A mutant: Stop waits for every goroutine. *)
StopReturnsLast ==
  /\ stop = "shutdown"
  /\ \A c \in Caller : call[c] = NoCall
  /\ stop' = "returned"
  /\ UNCHANGED <<loop, lastSeen, now, lastTick, ticks, call>>

(* ... and Stop returns when all handlers have. *)
StopReturns ==
  /\ stop = "shutdown"
  /\ \A c \in Handler : call[c] = NoCall
  /\ stop' = "returned"
  /\ UNCHANGED <<loop, lastSeen, now, lastTick, ticks, call>>

Serve(c) == \/ register(c) \/ unregister(c) \/ forAll(c)
            \/ LengthAsk(c) \/ LengthReply(c)

Next ==
  \/ \E c \in Caller : Call(c) \/ Serve(c)
  \/ \E c, d \in Caller : LengthCross(c, d)
  \/ Prune \/ Pass \/ Stop \/ LoopStops \/ StopReturns

Spec == Init /\ [][Next]_vars

(***************************************************************************)
(* The event loop and its timer run.  A goroutine whose partner is ready   *)
(* again and again is served, the event loop sending its reply included,   *)
(* and the closed stop channel is noticed: a select chooses among ready    *)
(* cases at random, and the senders waiting on one channel are queued.     *)
(***************************************************************************)
Fairness ==
  /\ WF_vars(Prune) /\ SF_vars(LoopStops) /\ WF_vars(StopReturns)
  /\ SF_vars(\E c \in Caller : LengthReply(c))
  /\ \A c \in Caller : SF_vars(Serve(c))

FairSpec == Spec /\ Fairness

-----------------------------------------------------------------------------
(* Every variable has its type. *)
TypeOK ==
  /\ loop \in {"select", "reply", "stopped"}
  /\ lastSeen \in [Worker -> Nat \cup {Never}]
  /\ now \in Nat
  /\ lastTick \in Nat
  /\ ticks \in 0 .. 1
  /\ call \in [Caller -> Calls]
  /\ stop \in {"no", "shutdown", "returned"}

(***************************************************************************)
(* The event loop is in w.len <- len(set) exactly when one caller of       *)
(* length() is in its receive, though callers also receive from each other *)
(* on that channel: the loop is never left without a receiver, nor a       *)
(* receiver without the loop, even when the loop stops.                    *)
(***************************************************************************)
Awaiting(c) == call[c].op = "await"
ReplyIsAwaited ==
  /\ loop = "reply" <=> \E c \in Caller : Awaiting(c)
  /\ \A c, d \in Caller : Awaiting(c) /\ Awaiting(d) => c = d

(***************************************************************************)
(* While the event loop runs, a worker that sends no more heartbeats stays *)
(* in the set for at most two timeouts: the timer has the period of the    *)
(* timeout and is not aligned with the heartbeats.                         *)
(***************************************************************************)
NoStaleWorkers ==
  loop # "stopped" => \A w \in set : now - lastSeen[w] <= 2 * timeout

(* The calls as the callers see them: in length() until its second half is done. *)
InCall(c) == IF Awaiting(c) THEN [op |-> "length"] ELSE call[c]

Atomic == INSTANCE WorkerSet WITH
  workers <- set, pending <- [c \in Caller |-> InCall(c)], stopped <- loop = "stopped"

(***************************************************************************)
(* The event loop and its channels implement an atomic set: every call     *)
(* takes effect once, at one moment, and returns then, callers of length() *)
(* that answer each other included; workers leave the set by unregister    *)
(* and by pruning only; and nobody is answered by a loop that has ended.   *)
(***************************************************************************)
ImplementsWorkerSet == Atomic!Spec

(* As long as Stop is not called, every call of the worker manager returns. *)
CallsReturn ==
  \A c \in Caller : call[c] # NoCall ~> (call[c] = NoCall \/ stop # "no")

(***************************************************************************)
(* Stop returns, unless the event loop, which ends at once, left a handler *)
(* in its call: Shutdown waits for that handler without a deadline.  The   *)
(* goroutines that handlers started never keep it from returning.          *)
(***************************************************************************)
StopReturnsUnlessHandlerLeft ==
  stop = "shutdown" ~> \/ stop = "returned"
                       \/ loop = "stopped" /\ \E c \in Handler : call[c] # NoCall

=============================================================================
