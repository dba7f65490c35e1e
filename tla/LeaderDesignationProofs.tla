---------------------- MODULE LeaderDesignationProofs ----------------------
(***************************************************************************)
(* Proofs about LeaderDesignation, for every number of enclaves and of     *)
(* lost, late and stray requests, timeouts and restarts.                   *)
(***************************************************************************)
EXTENDS LeaderDesignation, TLAPS

(* Requests with the nonce of an enclave go to the leader's domain name. *)
NetInv == \A m \in net : m.nonce = Foreign \/ m.to = Leader

(* The roles that enclaves are about to take. *)
RoleInv ==
  \A e \in Enclave :
    /\ token[e] > 0 \/ pc[e] \in {"setup", "leader"} => e = Leader
    /\ pc[e] = "worker" => e # Leader /\ reply[e] = "gone"
    /\ syncState[e] = "isWorker" => pc[e] = "done" /\ reply[e] = "gone"

(* The leader does not answer 410 to itself before it knows its role. *)
AskingInv ==
  pc[Leader] \in {"boot", "ask", "select"} =>
    reply[Leader] # "gone" /\ route[Leader] # "gone"

(* What setupLeader has done when the outside can tell. *)
SetupInv ==
  /\ pc[Leader] = "setup" => loopRuns[Leader]
  /\ pc[Leader] = "leader" \/ route[Leader] = "gone" =>
       loopRuns[Leader] /\ heartbeatRoute[Leader]
  /\ pc[Leader] = "setup" => route[Leader] # "gone"

(* A 410 comes from this incarnation of the leader or an earlier one. *)
GoneInv ==
  \A e \in Enclave :
    /\ goneBy[e] <= restarts[Leader]
    /\ reply[e] = "gone" /\ goneBy[e] = restarts[Leader] =>
         loopRuns[Leader] /\ heartbeatRoute[Leader]

IInv ==
  /\ TypeOK
  /\ NetInv
  /\ RoleInv
  /\ AskingInv
  /\ SetupInv
  /\ GoneInv
  /\ LeaderIsDNSTarget
  /\ PutsFindEventLoop

-----------------------------------------------------------------------------
(* Every step preserves the invariant. *)

LEMMA InstallHandlerStep ==
  ASSUME IInv, NEW e \in Enclave, InstallHandler(e)
  PROVE  IInv'
<1>1. TypeOK'
  BY DEF IInv, InstallHandler, Goto, TypeOK
<1>2. RoleInv'
  BY LeaderAssumption DEF IInv, InstallHandler, Goto, TypeOK, RoleInv
<1>3. AskingInv'
  BY LeaderAssumption DEF IInv, InstallHandler, Goto, TypeOK, AskingInv
<1>4. SetupInv'
  BY LeaderAssumption DEF IInv, InstallHandler, Goto, TypeOK, SetupInv
<1>5. (NetInv /\ GoneInv /\ LeaderIsDNSTarget /\ PutsFindEventLoop)'
  BY DEF IInv, InstallHandler, Goto, NetInv, GoneInv, LeaderIsDNSTarget,
     PutsFindEventLoop
<1> QED
  BY <1>1, <1>2, <1>3, <1>4, <1>5 DEF IInv

LEMMA makeLeaderRequestStep ==
  ASSUME IInv, NEW e \in Enclave, makeLeaderRequest(e)
  PROVE  IInv'
<1>1. TypeOK'
  BY LeaderAssumption DEF IInv, makeLeaderRequest, Goto, TypeOK, Nonce
<1>2. NetInv'
  BY LeaderAssumption DEF IInv, makeLeaderRequest, Goto, TypeOK, NetInv
<1>3. RoleInv'
  BY LeaderAssumption DEF IInv, makeLeaderRequest, Goto, TypeOK, RoleInv
<1>4. AskingInv'
  BY LeaderAssumption DEF IInv, makeLeaderRequest, Goto, TypeOK, AskingInv
<1>5. SetupInv'
  BY LeaderAssumption DEF IInv, makeLeaderRequest, Goto, TypeOK, SetupInv
<1>6. GoneInv'
  BY LeaderAssumption DEF IInv, makeLeaderRequest, Goto, TypeOK, GoneInv
<1>7. (LeaderIsDNSTarget /\ PutsFindEventLoop)'
  BY DEF IInv, makeLeaderRequest, Goto, LeaderIsDNSTarget, PutsFindEventLoop
<1> QED
  BY <1>1, <1>2, <1>3, <1>4, <1>5, <1>6, <1>7 DEF IInv

LEMMA getLeaderHandlerStep ==
  ASSUME IInv, NEW m \in net, getLeaderHandler(m)
  PROVE  IInv'
<1>1. TypeOK'
  BY DEF IInv, getLeaderHandler, TypeOK, GetsToken, Answer
<1>2. NetInv'
  BY DEF IInv, getLeaderHandler, TypeOK, NetInv
<1>3. RoleInv'
  BY LeaderAssumption, ForeignAssumption DEF IInv, getLeaderHandler, TypeOK, RoleInv,
     NetInv, GetsToken, Nonce, Foreign, Answer
<1>4. AskingInv'
  BY LeaderAssumption, ForeignAssumption DEF IInv, getLeaderHandler, TypeOK, AskingInv,
     NetInv, Answer, Nonce, Foreign
<1>5. GoneInv'
  BY LeaderAssumption, ForeignAssumption DEF IInv, getLeaderHandler, TypeOK, GoneInv,
     NetInv, Answer, Nonce, Foreign, SetupInv
<1>6. (SetupInv /\ LeaderIsDNSTarget /\ PutsFindEventLoop)'
  BY DEF IInv, getLeaderHandler, SetupInv, LeaderIsDNSTarget, PutsFindEventLoop
<1> QED
  BY <1>1, <1>2, <1>3, <1>4, <1>5, <1>6 DEF IInv

LEMMA SelectErrStep ==
  ASSUME IInv, NEW e \in Enclave, SelectErr(e)
  PROVE  IInv'
<1>1. TypeOK'
  BY DEF IInv, SelectErr, Goto, TypeOK
<1>2. RoleInv'
  BY LeaderAssumption DEF IInv, SelectErr, Goto, TypeOK, RoleInv
<1>3. AskingInv'
  BY LeaderAssumption DEF IInv, SelectErr, Goto, TypeOK, AskingInv
<1>4. SetupInv'
  BY LeaderAssumption DEF IInv, SelectErr, Goto, TypeOK, SetupInv
<1>5. GoneInv'
  BY LeaderAssumption DEF IInv, SelectErr, Goto, TypeOK, GoneInv
<1>6. (NetInv /\ LeaderIsDNSTarget /\ PutsFindEventLoop)'
  BY DEF IInv, SelectErr, Goto, NetInv, LeaderIsDNSTarget, PutsFindEventLoop
<1> QED
  BY <1>1, <1>2, <1>3, <1>4, <1>5, <1>6 DEF IInv

LEMMA SelectGoneStep ==
  ASSUME IInv, NEW e \in Enclave, SelectGone(e)
  PROVE  IInv'
<1>1. TypeOK'
  BY DEF IInv, SelectGone, Goto, TypeOK
<1>2. RoleInv'
  BY LeaderAssumption DEF IInv, SelectGone, Goto, TypeOK, RoleInv, AskingInv
<1>3. AskingInv'
  BY LeaderAssumption DEF IInv, SelectGone, Goto, TypeOK, AskingInv
<1>4. SetupInv'
  BY LeaderAssumption DEF IInv, SelectGone, Goto, TypeOK, SetupInv
<1>5. (NetInv /\ GoneInv /\ LeaderIsDNSTarget /\ PutsFindEventLoop)'
  BY DEF IInv, SelectGone, Goto, NetInv, GoneInv, LeaderIsDNSTarget, PutsFindEventLoop
<1> QED
  BY <1>1, <1>2, <1>3, <1>4, <1>5 DEF IInv

LEMMA SelectTokenStep ==
  ASSUME IInv, NEW e \in Enclave, SelectToken(e)
  PROVE  IInv'
<1>1. TypeOK'
  BY DEF IInv, SelectToken, Goto, TypeOK
<1>2. RoleInv'
  BY LeaderAssumption DEF IInv, SelectToken, Goto, TypeOK, RoleInv
<1>3. AskingInv'
  BY LeaderAssumption DEF IInv, SelectToken, Goto, TypeOK, AskingInv
<1>4. SetupInv'
  BY LeaderAssumption DEF IInv, SelectToken, Goto, TypeOK, SetupInv, AskingInv, RoleInv
<1>5. GoneInv'
  BY LeaderAssumption DEF IInv, SelectToken, Goto, TypeOK, GoneInv
<1>6. PutsFindEventLoop'
  BY LeaderAssumption DEF IInv, SelectToken, Goto, TypeOK, PutsFindEventLoop
<1>7. (NetInv /\ LeaderIsDNSTarget)'
  BY DEF IInv, SelectToken, Goto, NetInv, LeaderIsDNSTarget
<1> QED
  BY <1>1, <1>2, <1>3, <1>4, <1>5, <1>6, <1>7 DEF IInv

LEMMA setupLeaderStep ==
  ASSUME IInv, NEW e \in Enclave, setupLeader(e)
  PROVE  IInv'
<1>1. TypeOK'
  BY DEF IInv, setupLeader, Goto, TypeOK
<1>2. RoleInv'
  BY LeaderAssumption DEF IInv, setupLeader, Goto, TypeOK, RoleInv
<1>3. AskingInv'
  BY LeaderAssumption DEF IInv, setupLeader, Goto, TypeOK, AskingInv
<1>4. SetupInv'
  BY LeaderAssumption DEF IInv, setupLeader, Goto, TypeOK, SetupInv, RoleInv
<1>5. GoneInv'
  BY LeaderAssumption DEF IInv, setupLeader, Goto, TypeOK, GoneInv
<1>6. (NetInv /\ LeaderIsDNSTarget /\ PutsFindEventLoop)'
  BY DEF IInv, setupLeader, Goto, NetInv, LeaderIsDNSTarget, PutsFindEventLoop
<1> QED
  BY <1>1, <1>2, <1>3, <1>4, <1>5, <1>6 DEF IInv

LEMMA ResetHandlerStep ==
  ASSUME IInv, NEW e \in Enclave, ResetHandler(e)
  PROVE  IInv'
<1>1. TypeOK'
  BY DEF IInv, ResetHandler, Returns, TypeOK
<1>2. AskingInv'
  BY LeaderAssumption DEF IInv, ResetHandler, Returns, TypeOK, AskingInv
<1>3. SetupInv'
  BY LeaderAssumption DEF IInv, ResetHandler, Returns, TypeOK, SetupInv, RoleInv
<1>4. (NetInv /\ RoleInv /\ GoneInv /\ LeaderIsDNSTarget /\ PutsFindEventLoop)'
  BY DEF IInv, ResetHandler, Returns, NetInv, RoleInv, GoneInv, LeaderIsDNSTarget,
     PutsFindEventLoop
<1> QED
  BY <1>1, <1>2, <1>3, <1>4 DEF IInv

LEMMA setSyncStateStep ==
  ASSUME IInv, NEW e \in Enclave, setSyncState(e)
  PROVE  IInv'
<1>1. TypeOK'
  BY DEF IInv, setSyncState, Returns, TypeOK
<1>2. RoleInv'
  BY LeaderAssumption DEF IInv, setSyncState, Returns, TypeOK, RoleInv
<1>3. AskingInv'
  BY LeaderAssumption DEF IInv, setSyncState, Returns, TypeOK, AskingInv
<1>4. SetupInv'
  BY LeaderAssumption DEF IInv, setSyncState, Returns, TypeOK, SetupInv
<1>5. LeaderIsDNSTarget'
  BY LeaderAssumption DEF IInv, setSyncState, Returns, TypeOK, LeaderIsDNSTarget,
     RoleInv
<1>6. PutsFindEventLoop'
  BY LeaderAssumption DEF IInv, setSyncState, Returns, TypeOK, PutsFindEventLoop,
     RoleInv, SetupInv
<1>7. (NetInv /\ GoneInv)'
  BY DEF IInv, setSyncState, Returns, NetInv, GoneInv
<1> QED
  BY <1>1, <1>2, <1>3, <1>4, <1>5, <1>6, <1>7 DEF IInv

LEMMA LoseStep ==
  ASSUME IInv, NEW m \in net, Lose(m)
  PROVE  IInv'
<1>1. TypeOK'
  BY DEF IInv, Lose, Fault, TypeOK
<1>2. NetInv'
  BY DEF IInv, Lose, Fault, TypeOK, NetInv
<1>3. (RoleInv /\ AskingInv /\ SetupInv /\ GoneInv /\ LeaderIsDNSTarget /\ PutsFindEventLoop)'
  BY DEF IInv, Lose, Fault, RoleInv, AskingInv, SetupInv, GoneInv, LeaderIsDNSTarget,
     PutsFindEventLoop
<1> QED
  BY <1>1, <1>2, <1>3 DEF IInv

LEMMA ClientTimeoutStep ==
  ASSUME IInv, NEW e \in Enclave, ClientTimeout(e)
  PROVE  IInv'
<1>1. TypeOK'
  BY DEF IInv, ClientTimeout, Fault, TypeOK
<1>2. RoleInv'
  BY LeaderAssumption DEF IInv, ClientTimeout, Fault, TypeOK, RoleInv
<1>3. AskingInv'
  BY LeaderAssumption DEF IInv, ClientTimeout, Fault, TypeOK, AskingInv
<1>4. GoneInv'
  BY LeaderAssumption DEF IInv, ClientTimeout, Fault, TypeOK, GoneInv
<1>5. (NetInv /\ SetupInv /\ LeaderIsDNSTarget /\ PutsFindEventLoop)'
  BY DEF IInv, ClientTimeout, Fault, NetInv, SetupInv, LeaderIsDNSTarget,
     PutsFindEventLoop
<1> QED
  BY <1>1, <1>2, <1>3, <1>4, <1>5 DEF IInv

LEMMA FatalStep ==
  ASSUME IInv, NEW e \in Enclave, Fatal(e)
  PROVE  IInv'
<1>1. TypeOK'
  BY DEF IInv, Fatal, Fault, Goto, TypeOK
<1>2. RoleInv'
  BY LeaderAssumption DEF IInv, Fatal, Fault, Goto, TypeOK, RoleInv
<1>3. AskingInv'
  BY LeaderAssumption DEF IInv, Fatal, Fault, Goto, TypeOK, AskingInv
<1>4. SetupInv'
  BY LeaderAssumption DEF IInv, Fatal, Fault, Goto, TypeOK, SetupInv
<1>5. (NetInv /\ GoneInv /\ LeaderIsDNSTarget /\ PutsFindEventLoop)'
  BY DEF IInv, Fatal, Fault, Goto, NetInv, GoneInv, LeaderIsDNSTarget, PutsFindEventLoop
<1> QED
  BY <1>1, <1>2, <1>3, <1>4, <1>5 DEF IInv

LEMMA StrayStep ==
  ASSUME IInv, NEW e \in Enclave, Stray(e)
  PROVE  IInv'
<1>1. TypeOK'
  BY DEF IInv, Stray, Fault, TypeOK
<1>2. NetInv'
  BY DEF IInv, Stray, Fault, TypeOK, NetInv
<1>3. (RoleInv /\ AskingInv /\ SetupInv /\ GoneInv /\ LeaderIsDNSTarget /\ PutsFindEventLoop)'
  BY DEF IInv, Stray, Fault, RoleInv, AskingInv, SetupInv, GoneInv, LeaderIsDNSTarget,
     PutsFindEventLoop
<1> QED
  BY <1>1, <1>2, <1>3 DEF IInv

LEMMA RestartStep ==
  ASSUME IInv, NEW e \in Enclave, Restart(e)
  PROVE  IInv'
<1>1. TypeOK'
  BY DEF IInv, Restart, Fault, TypeOK
<1>2. RoleInv'
  BY LeaderAssumption DEF IInv, Restart, Fault, TypeOK, RoleInv
<1>3. AskingInv'
  BY LeaderAssumption DEF IInv, Restart, Fault, TypeOK, AskingInv
<1>4. SetupInv'
  BY LeaderAssumption DEF IInv, Restart, Fault, TypeOK, SetupInv
<1>5. GoneInv'
  BY LeaderAssumption DEF IInv, Restart, Fault, TypeOK, GoneInv
<1>6. LeaderIsDNSTarget'
  BY LeaderAssumption DEF IInv, Restart, Fault, TypeOK, LeaderIsDNSTarget
<1>7. PutsFindEventLoop'
  BY LeaderAssumption DEF IInv, Restart, Fault, TypeOK, PutsFindEventLoop
<1>8. NetInv'
  BY DEF IInv, Restart, Fault, NetInv
<1> QED
  BY <1>1, <1>2, <1>3, <1>4, <1>5, <1>6, <1>7, <1>8 DEF IInv

LEMMA NextStep ==
  ASSUME IInv, [Next]_vars
  PROVE  IInv'
<1>1. ASSUME NEW e \in Enclave, EnclaveStep(e)
      PROVE  IInv'
  BY <1>1, InstallHandlerStep, makeLeaderRequestStep, SelectErrStep, SelectGoneStep,
     setupLeaderStep, ResetHandlerStep, setSyncStateStep, ClientTimeoutStep
  DEF EnclaveStep
<1>2. ASSUME NEW e \in Enclave, SelectToken(e) \/ Fatal(e) \/ Stray(e) \/ Restart(e)
      PROVE  IInv'
  BY <1>2, SelectTokenStep, FatalStep, StrayStep, RestartStep
<1>3. ASSUME NEW m \in net, getLeaderHandler(m) \/ Lose(m)
      PROVE  IInv'
  BY <1>3, getLeaderHandlerStep, LoseStep
<1>4. CASE UNCHANGED vars
  BY <1>4 DEF IInv, TypeOK, NetInv, RoleInv, AskingInv, SetupInv, GoneInv,
              LeaderIsDNSTarget, PutsFindEventLoop, vars
<1> QED
  BY <1>1, <1>2, <1>3, <1>4 DEF Next

LEMMA InitInv ==
  Init => IInv
<1> SUFFICES ASSUME Init PROVE IInv
  OBVIOUS
<1>1. TypeOK /\ NetInv
  BY DEF Init, TypeOK, NetInv
<1>2. RoleInv /\ AskingInv /\ SetupInv /\ GoneInv
  BY LeaderAssumption DEF Init, RoleInv, AskingInv, SetupInv, GoneInv
<1>3. LeaderIsDNSTarget /\ PutsFindEventLoop
  BY DEF Init, LeaderIsDNSTarget, PutsFindEventLoop
<1> QED
  BY <1>1, <1>2, <1>3 DEF IInv

(* The invariant holds in every reachable state. *)
THEOREM Invariance == Spec => []IInv
BY InitInv, NextStep, PTL DEF Spec

(* Type correctness; in particular the token channel never overflows. *)
THEOREM TypeCorrectness == Spec => []TypeOK
<1>1. IInv => TypeOK
  BY DEF IInv
<1> QED
  BY <1>1, Invariance, PTL

(***************************************************************************)
(* Only the enclave behind the leader's domain name becomes the leader,    *)
(* and it never becomes a worker.                                          *)
(***************************************************************************)
THEOREM OneLeader == Spec => []LeaderIsDNSTarget
<1>1. IInv => LeaderIsDNSTarget
  BY DEF IInv
<1> QED
  BY <1>1, Invariance, PTL

(***************************************************************************)
(* Whoever was answered 410 by the leader that now runs finds the          *)
(* heartbeat endpoint installed and the event loop started.                *)
(***************************************************************************)
THEOREM RegistrationIsServed == Spec => []WorkersCanRegister
<1>1. IInv => WorkersCanRegister
  BY DEF IInv, RoleInv, GoneInv, WorkersCanRegister
<1> QED
  BY <1>1, Invariance, PTL

(***************************************************************************)
(* An enclave whose putStateHandler accepts state has started the event    *)
(* loop that the handler waits for in workers.length().                    *)
(***************************************************************************)
THEOREM PutsAreServed == Spec => []PutsFindEventLoop
<1>1. IInv => PutsFindEventLoop
  BY DEF IInv
<1> QED
  BY <1>1, Invariance, PTL

=============================================================================
