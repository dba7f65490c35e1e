------------------------ MODULE WorkerManagerProofs ------------------------
(***************************************************************************)
(* Proofs about WorkerManager, for every number of workers and goroutines, *)
(* every timeout and every length of time.                                 *)
(***************************************************************************)
EXTENDS WorkerManager, TLAPS

-----------------------------------------------------------------------------
(* Types and the rendezvous on w.len. *)

LInv == TypeOK /\ ReplyIsAwaited

LEMMA LInvInit ==
  Init => LInv
<1> SUFFICES ASSUME Init PROVE LInv
  OBVIOUS
<1>1. TypeOK
  BY DEF Init, TypeOK, Calls
<1>2. ReplyIsAwaited
  BY DEF Init, ReplyIsAwaited, Awaiting, NoCall
<1> QED
  BY <1>1, <1>2 DEF LInv

LEMMA LInvNext ==
  ASSUME LInv, [Next]_vars
  PROVE  LInv'
<1> USE DEF LInv
<1>1. ASSUME NEW c \in Caller, Call(c)
      PROVE  LInv'
  <2>1. TypeOK'
    BY <1>1 DEF Call, TypeOK
  <2>2. ReplyIsAwaited'
    BY <1>1 DEF Call, TypeOK, ReplyIsAwaited, Awaiting, Calls, NoCall
  <2> QED
    BY <2>1, <2>2
<1>2. ASSUME NEW c \in Caller, register(c) \/ unregister(c) \/ forAll(c)
      PROVE  LInv'
  <2>1. TypeOK'
    BY <1>2 DEF register, unregister, forAll, Return, TypeOK, Calls, NoCall
  <2>2. ReplyIsAwaited'
    BY <1>2 DEF register, unregister, forAll, Return, TypeOK, ReplyIsAwaited, Awaiting,
                NoCall
  <2> QED
    BY <2>1, <2>2
<1>3. ASSUME NEW c \in Caller, LengthAsk(c)
      PROVE  LInv'
  <2>1. TypeOK'
    BY <1>3 DEF LengthAsk, TypeOK, Calls
  <2>2. ReplyIsAwaited'
    BY <1>3 DEF LengthAsk, TypeOK, ReplyIsAwaited, Awaiting
  <2> QED
    BY <2>1, <2>2
<1>4. ASSUME NEW c \in Caller, LengthReply(c)
      PROVE  LInv'
  <2>1. TypeOK'
    BY <1>4 DEF LengthReply, Return, TypeOK, Calls, NoCall
  <2>2. ReplyIsAwaited'
    BY <1>4 DEF LengthReply, Return, TypeOK, ReplyIsAwaited, Awaiting, NoCall
  <2> QED
    BY <2>1, <2>2
<1>5. ASSUME NEW c \in Caller, NEW d \in Caller, LengthCross(c, d)
      PROVE  LInv'
  <2>1. TypeOK'
    BY <1>5 DEF LengthCross, TypeOK, Calls, NoCall
  <2>2. ReplyIsAwaited'
    BY <1>5 DEF LengthCross, TypeOK, ReplyIsAwaited, Awaiting, NoCall
  <2> QED
    BY <2>1, <2>2
<1>6. CASE Prune
  BY <1>6 DEF Prune, TypeOK, ReplyIsAwaited, Awaiting
<1>7. CASE Pass
  <2>1. TypeOK'
    BY <1>7 DEF Pass, TypeOK
  <2>2. ReplyIsAwaited'
    BY <1>7 DEF Pass, ReplyIsAwaited, Awaiting
  <2> QED
    BY <2>1, <2>2
<1>8. CASE Stop \/ LoopStops \/ StopReturns
  BY <1>8 DEF Stop, LoopStops, StopReturns, TypeOK, ReplyIsAwaited, Awaiting
<1>9. CASE UNCHANGED vars
  BY <1>9 DEF vars, TypeOK, ReplyIsAwaited, Awaiting
<1> QED
  BY <1>1, <1>2, <1>3, <1>4, <1>5, <1>6, <1>7, <1>8, <1>9 DEF Next, Serve

(* Type correctness. *)
THEOREM TypeCorrectness == Spec => []TypeOK
<1>1. LInv => TypeOK
  BY DEF LInv
<1> QED
  BY <1>1, LInvInit, LInvNext, PTL DEF Spec

(***************************************************************************)
(* The event loop waits in w.len <- len(set) exactly when one caller of    *)
(* length() waits to receive, however the callers' own sends and receives  *)
(* on that channel cross.                                                  *)
(***************************************************************************)
THEOREM LoopIsNeverAlone == Spec => []ReplyIsAwaited
<1>1. LInv => ReplyIsAwaited
  BY DEF LInv
<1> QED
  BY <1>1, LInvInit, LInvNext, PTL DEF Spec

-----------------------------------------------------------------------------
(***************************************************************************)
(* Pruning.  Right after a tick has been served no worker in the set is    *)
(* older than one timeout; it ages by less than another one until the next *)
(* tick, and by nothing while that tick waits to be served.                *)
(***************************************************************************)
PInv ==
  /\ TypeOK
  /\ lastTick <= now
  /\ loop # "stopped" =>
       /\ now < lastTick + timeout
       /\ ticks = 1 => now = lastTick
       /\ \A w \in set : lastSeen[w] + (IF ticks = 1 THEN 2 * timeout ELSE timeout) >= lastTick

LEMMA PInvInit ==
  Init => PInv
BY LInvInit, TimeoutAssumption DEF Init, PInv, LInv, set

LEMMA PInvNext ==
  ASSUME PInv, TypeOK', [Next]_vars
  PROVE  PInv'
<1> USE NeverAssumption, TimeoutAssumption DEF PInv
<1>1. ASSUME NEW c \in Caller, Call(c) \/ Serve(c)
      PROVE  PInv'
  <2>1. CASE register(c)
    BY <2>1 DEF register, TypeOK, set
  <2>2. CASE unregister(c)
    BY <2>2 DEF unregister, TypeOK, set
  <2>3. CASE Call(c) \/ forAll(c) \/ LengthAsk(c) \/ LengthReply(c)
    BY <2>3 DEF Call, forAll, LengthAsk, LengthReply, set
  <2> QED
    BY <1>1, <2>1, <2>2, <2>3 DEF Serve
<1>2. ASSUME NEW c \in Caller, NEW d \in Caller, LengthCross(c, d)
      PROVE  PInv'
  BY <1>2 DEF LengthCross, set
<1>3. CASE Prune
  BY <1>3 DEF Prune, TimedOut, TypeOK, set
<1>4. CASE Pass
  <2>1. CASE now' = lastTick + timeout
    <3>1. lastTick' = now' /\ ticks' = 1 /\ loop' = loop /\ set' = set /\ lastSeen' = lastSeen
      BY <1>4, <2>1 DEF Pass, set
    <3>2. ASSUME NEW w \in set, loop # "stopped"
          PROVE  lastSeen[w] + 2 * timeout >= now'
      <4>1. lastSeen[w] \in Nat /\ lastSeen[w] + timeout >= lastTick
        BY <1>4, <3>2 DEF Pass, TypeOK, set
      <4> QED
        BY <2>1, <4>1 DEF TypeOK
    <3> QED
      BY <2>1, <3>1, <3>2 DEF TypeOK
  <2>2. CASE now' # lastTick + timeout
    BY <1>4, <2>2 DEF Pass, TypeOK, set
  <2> QED
    BY <2>1, <2>2
<1>5. CASE Stop \/ LoopStops \/ StopReturns
  BY <1>5 DEF Stop, LoopStops, StopReturns, set
<1>6. CASE UNCHANGED vars
  BY <1>6 DEF vars, set
<1> QED
  BY <1>1, <1>2, <1>3, <1>4, <1>5, <1>6 DEF Next

(***************************************************************************)
(* While the event loop runs, a worker that sends no more heartbeats is    *)
(* removed within two timeouts.                                            *)
(***************************************************************************)
THEOREM StaleWorkersArePruned == Spec => []NoStaleWorkers
<1>1. PInv => NoStaleWorkers
  <2> SUFFICES ASSUME PInv, loop # "stopped", NEW w \in set
               PROVE  now - lastSeen[w] <= 2 * timeout
    BY DEF NoStaleWorkers
  <2>1. /\ lastSeen[w] \in Nat /\ now \in Nat /\ lastTick \in Nat /\ timeout \in Nat
        /\ ticks = 0 \/ ticks = 1
    BY TimeoutAssumption DEF PInv, TypeOK, set
  <2>2. CASE ticks = 1
    BY <2>1, <2>2 DEF PInv
  <2>3. CASE ticks = 0
    BY <2>1, <2>3 DEF PInv
  <2> QED
    BY <2>1, <2>2, <2>3
<1> QED
  BY <1>1, TypeCorrectness, PInvInit, PInvNext, PTL DEF Spec

-----------------------------------------------------------------------------
(* The refinement of WorkerSet. *)

Pending == [c \in Caller |-> InCall(c)]

(* The call of one goroutine changes. *)
LEMMA OnePending ==
  ASSUME NEW c \in Caller, NEW x, LInv, call' = [call EXCEPT ![c] = x]
  PROVE  Pending' = [Pending EXCEPT ![c] = IF x.op = "await" THEN [op |-> "length"] ELSE x]
<1>1. \A d \in Caller : call'[d] = IF d = c THEN x ELSE call[d]
  BY DEF LInv, TypeOK
<1>2. \A d \in Caller \ {c} : InCall(d)' = InCall(d)
  BY <1>1 DEF InCall, Awaiting
<1>3. InCall(c)' = IF x.op = "await" THEN [op |-> "length"] ELSE x
  BY <1>1 DEF InCall, Awaiting
<1> QED
  BY <1>2, <1>3, Zenon DEF Pending

(* A goroutine calls. *)
LEMMA CallInvokes ==
  ASSUME LInv, NEW c \in Caller, Call(c)
  PROVE  Atomic!Invoke(c)
<1>1. PICK x \in Calls \ {NoCall, [op |-> "await"]} : call' = [call EXCEPT ![c] = x]
  BY Zenon DEF Call
<1>2. x \in Atomic!Updates \cup Atomic!Reads /\ x.op # "await"
  BY DEF Calls, NoCall, Atomic!Updates, Atomic!Reads
<1>3. Pending' = [Pending EXCEPT ![c] = x]
  BY <1>1, <1>2, OnePending, Zenon
<1>4. Pending[c] = Atomic!NoCall
  BY DEF Call, Pending, InCall, Awaiting, NoCall, Atomic!NoCall
<1>5. UNCHANGED <<set, loop>>
  BY DEF Call, set
<1> QED
  BY <1>2, <1>3, <1>4, <1>5, Zenon DEF Atomic!Invoke, Pending

(* A call returns, with its effect on the set. *)
LEMMA ReturnReturns ==
  ASSUME LInv, NEW c \in Caller, call[c] # NoCall, Return(c), loop # "stopped",
         loop' # "stopped",
         set' = CASE call[c].op = "register"   -> set \cup {call[c].worker}
                  [] call[c].op = "unregister" -> set \ {call[c].worker}
                  [] OTHER                     -> set
  PROVE  Atomic!Return(c)
<1>1. Pending' = [Pending EXCEPT ![c] = Atomic!NoCall]
  BY OnePending, Zenon DEF Return, NoCall, Atomic!NoCall
<1>2. /\ Pending[c] # Atomic!NoCall
      /\ call[c].op \in {"register", "unregister"} => Pending[c] = call[c]
      /\ call[c].op \notin {"register", "unregister"} =>
           Pending[c].op \notin {"register", "unregister"}
  BY DEF Pending, InCall, Awaiting, NoCall, Atomic!NoCall
<1>3. set' = Atomic!After(Pending[c])
  BY <1>2 DEF Atomic!After
<1> QED
  BY <1>1, <1>2, <1>3 DEF Atomic!Return, Pending

LEMMA UpdateReturns ==
  ASSUME LInv, NEW c \in Caller, register(c) \/ unregister(c) \/ forAll(c)
  PROVE  Atomic!Return(c)
<1>1. call[c] # NoCall /\ Return(c) /\ loop = "select" /\ UNCHANGED loop
  BY DEF register, unregister, forAll, NoCall
<1>2. CASE register(c)
  <2>1. call[c].worker \in Worker
    BY <1>2 DEF register, LInv, TypeOK, Calls, NoCall
  <2>2. set' = set \cup {call[c].worker}
    BY <1>2, <2>1, NeverAssumption DEF register, set, LInv, TypeOK
  <2> QED
    BY <1>1, <1>2, <2>2, ReturnReturns DEF register
<1>3. CASE unregister(c)
  <2>1. call[c].worker \in Worker
    BY <1>3 DEF unregister, LInv, TypeOK, Calls, NoCall
  <2>2. set' = set \ {call[c].worker}
    BY <1>3, <2>1 DEF unregister, set, LInv, TypeOK
  <2> QED
    BY <1>1, <1>3, <2>2, ReturnReturns DEF unregister
<1>4. CASE forAll(c)
  BY <1>1, <1>4, ReturnReturns DEF forAll, set
<1> QED
  BY <1>2, <1>3, <1>4

(* length() is not done when the event loop has taken its request. *)
LEMMA LengthAskStutters ==
  ASSUME LInv, NEW c \in Caller, LengthAsk(c)
  PROVE  UNCHANGED Atomic!vars
<1>1. Pending' = [Pending EXCEPT ![c] = [op |-> "length"]]
  <2>1. call' = [call EXCEPT ![c] = [op |-> "await"]]
    BY DEF LengthAsk
  <2> QED
    BY <2>1, OnePending, Zenon
<1>2. Pending[c] = [op |-> "length"]
  BY DEF LengthAsk, Pending, InCall, Awaiting, LInv, TypeOK, Calls, NoCall
<1>3. UNCHANGED Pending
  BY <1>1, <1>2, Zenon DEF Pending
<1> QED
  BY <1>3 DEF LengthAsk, set, Pending, Atomic!vars

(* It is done when it has received a number, from the event loop or ... *)
LEMMA LengthReplyReturns ==
  ASSUME LInv, NEW c \in Caller, LengthReply(c)
  PROVE  Atomic!Return(c)
BY ReturnReturns DEF LengthReply, NoCall, set

(* ... from another caller, which the event loop owes an answer now. *)
LEMMA LengthCrossReturns ==
  ASSUME LInv, NEW c \in Caller, NEW d \in Caller, LengthCross(c, d)
  PROVE  Atomic!Return(c)
<1>1. loop = "reply" /\ c # d
  BY DEF LengthCross, LInv, ReplyIsAwaited, Awaiting
<1>2. /\ call[d] = [op |-> "length"]
      /\ call[c] = [op |-> "await"]
  BY DEF LengthCross, LInv, TypeOK, Calls, NoCall
<1>3. \A e \in Caller : call'[e] = IF e = c THEN NoCall
                                   ELSE IF e = d THEN [op |-> "await"] ELSE call[e]
  BY <1>1 DEF LengthCross, LInv, TypeOK
<1>4. \A e \in Caller : InCall(e)' = IF e = c THEN NoCall ELSE InCall(e)
  BY <1>1, <1>2, <1>3 DEF InCall, Awaiting, NoCall
<1>5. Pending' = [Pending EXCEPT ![c] = Atomic!NoCall]
  BY <1>4, Zenon DEF Pending, NoCall, Atomic!NoCall
<1>6. Pending[c] = [op |-> "length"]
  BY <1>2 DEF Pending, InCall, Awaiting
<1>7. UNCHANGED <<set, loop>>
  BY DEF LengthCross, set
<1> QED
  BY <1>1, <1>5, <1>6, <1>7 DEF Pending, Atomic!Return, Atomic!After, Atomic!NoCall

(* The timer's case takes workers out of the set. *)
LEMMA PruneForgets ==
  ASSUME LInv, Prune
  PROVE  Atomic!Forget
<1>1. set' \subseteq set
  BY DEF Prune, set, LInv, TypeOK
<1>2. UNCHANGED Pending
  BY DEF Prune, Pending, InCall, Awaiting
<1> QED
  BY <1>1, <1>2 DEF Prune, Pending, Atomic!Forget

(***************************************************************************)
(* The worker manager implements WorkerSet: one step of the event loop or  *)
(* of two callers of length() is one step of the set, or none.             *)
(***************************************************************************)
THEOREM SetIsAtomic == Spec => ImplementsWorkerSet
<1>1. Init => Atomic!Init
  <2> SUFFICES ASSUME Init PROVE Atomic!Init
    OBVIOUS
  <2>1. set = {} /\ loop # "stopped"
    BY DEF Init, set
  <2>2. Pending = [c \in Caller |-> Atomic!NoCall]
    BY DEF Init, Pending, InCall, Awaiting, NoCall, Atomic!NoCall
  <2> QED
    BY <2>1, <2>2 DEF Atomic!Init, Pending
<1>2. LInv /\ [Next]_vars => [Atomic!Next]_(Atomic!vars)
  <2> SUFFICES ASSUME LInv, [Next]_vars PROVE [Atomic!Next]_(Atomic!vars)
    OBVIOUS
  <2>1. ASSUME NEW c \in Caller, Call(c) PROVE Atomic!Next
    BY <2>1, CallInvokes DEF Atomic!Next
  <2>2. ASSUME NEW c \in Caller, Serve(c) PROVE [Atomic!Next]_(Atomic!vars)
    BY <2>2, UpdateReturns, LengthAskStutters, LengthReplyReturns DEF Serve, Atomic!Next
  <2>3. ASSUME NEW c \in Caller, NEW d \in Caller, LengthCross(c, d) PROVE Atomic!Next
    BY <2>3, LengthCrossReturns DEF Atomic!Next
  <2>4. CASE Prune
    BY <2>4, PruneForgets DEF Atomic!Next
  <2>5. CASE LoopStops
    <3>1. UNCHANGED <<set, Pending>>
      BY <2>5 DEF LoopStops, set, Pending, InCall, Awaiting
    <3> QED
      BY <2>5, <3>1 DEF LoopStops, Pending, Atomic!Stop, Atomic!Next
  <2>6. CASE Pass \/ Stop \/ StopReturns \/ UNCHANGED vars
    <3>1. UNCHANGED <<loop, lastSeen, call>>
      BY <2>6 DEF Pass, Stop, StopReturns, vars
    <3> QED
      BY <3>1 DEF set, InCall, Awaiting, Atomic!vars
  <2> QED
    BY <2>1, <2>2, <2>3, <2>4, <2>5, <2>6 DEF Next
<1> QED
  BY <1>1, <1>2, LInvInit, LInvNext, PTL DEF Spec, Atomic!Spec, ImplementsWorkerSet

=============================================================================
