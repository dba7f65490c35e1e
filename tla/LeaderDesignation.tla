------------------------- MODULE LeaderDesignation -------------------------
(***************************************************************************)
(* Leader designation: Enclave.weAreLeader (enclave.go), its designation   *)
(* endpoint getLeaderHandler (handlers.go) and its requests                *)
(* makeLeaderRequest (util.go).  Every enclave asks the enclave that the   *)
(* leader's domain name resolves to; the one that gets its own nonce back  *)
(* is the leader, those that are answered 410 are workers.                 *)
(*                                                                         *)
(* A nonce is the enclave that drew it and the number of its restarts.     *)
(* Requests in flight with the same nonce are counted once.  The case of   *)
(* weAreLeader's select that ends it on e.stop is left out: only tests     *)
(* stop an enclave.                                                        *)
(***************************************************************************)
EXTENDS Naturals

CONSTANTS
  Enclave,    \* the enclaves
  Leader,     \* the enclave that the leader's domain name resolves to
  MaxFaults   \* bound on lost requests, timeouts, stray requests and restarts

ASSUME LeaderAssumption == Leader \in Enclave
ASSUME ForeignAssumption == "foreign" \notin Enclave
ASSUME MaxFaultsAssumption == MaxFaults \in Nat

VARIABLES
  pc,             \* where each enclave is in weAreLeader
  route,          \* its designation endpoint: "none", the "handler", or "gone"
  heartbeatRoute, \* is its heartbeat endpoint installed?
  loopRuns,       \* has its worker event loop been started?
  syncState,      \* what its state endpoints go by
  token,          \* the number of tokens in its weAreLeader channel (capacity 1)
  reply,          \* the outcome of its request: "none", "wait", "err" or "gone"
  net,            \* requests in flight
  restarts,       \* how often each enclave has been restarted
  goneBy,         \* history: the restarts of the leader that answered 410
  faults

vars == <<pc, route, heartbeatRoute, loopRuns, syncState, token, reply, net,
          restarts, goneBy, faults>>

(* A nonce that no enclave drew. *)
Foreign == <<"foreign", 0>>
Nonce(e) == <<e, restarts[e]>>

Init ==
  /\ pc = [e \in Enclave |-> "boot"]
  /\ route = [e \in Enclave |-> "none"]
  /\ heartbeatRoute = [e \in Enclave |-> FALSE]
  /\ loopRuns = [e \in Enclave |-> FALSE]
  /\ syncState = [e \in Enclave |-> "inProgress"]
  /\ token = [e \in Enclave |-> 0]
  /\ reply = [e \in Enclave |-> "none"]
  /\ net = {}
  /\ restarts = [e \in Enclave |-> 0]
  /\ goneBy = [e \in Enclave |-> 0]
  /\ faults = 0

Fault == faults < MaxFaults /\ faults' = faults + 1

Goto(e, from, to) == pc[e] = from /\ pc' = [pc EXCEPT ![e] = to]

-----------------------------------------------------------------------------
(* Draw a nonce and install the designation endpoint. *)
InstallHandler(e) ==
  /\ Goto(e, "boot", "ask")
  /\ route' = [route EXCEPT ![e] = "handler"]
  /\ UNCHANGED <<heartbeatRoute, loopRuns, syncState, token, reply, net, restarts,
                 goneBy, faults>>

(* go makeLeaderRequest(...), then wait in the select. *)
makeLeaderRequest(e) ==
  /\ Goto(e, "ask", "select")
  /\ net' = net \cup {[nonce |-> Nonce(e), to |-> Leader]}
  /\ reply' = [reply EXCEPT ![e] = "wait"]
  /\ UNCHANGED <<route, heartbeatRoute, loopRuns, syncState, token, restarts, goneBy,
                 faults>>

(* Mutants: the nonce is not compared; the token is sent without a look. *)
GetsTokenAnyNonce(m) == route[m.to] = "handler" /\ token[m.to] = 0
GetsTokenAlways(m) == route[m.to] = "handler" /\ m.nonce = Nonce(m.to)

(* The handler is installed, the nonce is our own, the channel is empty. *)
GetsToken(m) ==
  /\ route[m.to] = "handler"
  /\ m.nonce = Nonce(m.to)
  /\ token[m.to] = 0

(* A mutant: the handler that replaces the first one answers 200. *)
AnswerNever410(e) == "err"

(* What the client makes of the status code: 410 is an answer. *)
Answer(e) == IF route[e] = "gone" THEN "gone" ELSE "err"

(***************************************************************************)
(* The designation endpoint serves a request: 404 before it is installed,  *)
(* 410 when it has been replaced, else 200 and, if the nonce is our own, a *)
(* token.  The client takes 410 for an answer and all else for an error.   *)
(***************************************************************************)
getLeaderHandler(m) ==
  /\ m \in net
  /\ net' = net \ {m}
  /\ token' = [token EXCEPT ![m.to] = IF GetsToken(m) THEN @ + 1 ELSE @]
  /\ LET asking == {e \in Enclave : Nonce(e) = m.nonce /\ reply[e] = "wait"} IN
       /\ reply' = [e \in Enclave |->
            IF e \in asking THEN Answer(m.to) ELSE reply[e]]
       /\ goneBy' = [e \in Enclave |->
            IF e \in asking /\ Answer(m.to) = "gone" THEN restarts[m.to] ELSE goneBy[e]]
  /\ UNCHANGED <<pc, route, heartbeatRoute, loopRuns, syncState, restarts, faults>>

(* case <-errChan: sleep and ask again. *)
SelectErr(e) ==
  /\ reply[e] = "err"
  /\ Goto(e, "select", "ask")
  /\ reply' = [reply EXCEPT ![e] = "none"]
  /\ UNCHANGED <<route, heartbeatRoute, loopRuns, syncState, token, net, restarts,
                 goneBy, faults>>

(* case result = <-areWeLeader: makeLeaderRequest only ever sends false. *)
SelectGone(e) ==
  /\ reply[e] = "gone"
  /\ Goto(e, "select", "worker")
  /\ UNCHANGED <<route, heartbeatRoute, loopRuns, syncState, token, reply, net,
                 restarts, goneBy, faults>>

(* A mutant: the event loop is not started. *)
SelectTokenNoLoop(e) ==
  /\ token[e] > 0
  /\ Goto(e, "select", "setup")
  /\ token' = [token EXCEPT ![e] = @ - 1]
  /\ UNCHANGED <<route, heartbeatRoute, loopRuns, syncState, reply, net, restarts, goneBy,
                 faults>>

(* case <-weAreLeader: setupLeader starts the event loop ... *)
SelectToken(e) ==
  /\ token[e] > 0
  /\ Goto(e, "select", "setup")
  /\ token' = [token EXCEPT ![e] = @ - 1]
  /\ loopRuns' = [loopRuns EXCEPT ![e] = TRUE]
  /\ UNCHANGED <<route, heartbeatRoute, syncState, reply, net, restarts, goneBy, faults>>

(* ... and installs the heartbeat endpoint. *)
setupLeader(e) ==
  /\ Goto(e, "setup", "leader")
  /\ heartbeatRoute' = [heartbeatRoute EXCEPT ![e] = TRUE]
  /\ UNCHANGED <<route, loopRuns, syncState, token, reply, net, restarts, goneBy, faults>>

(* A mutant: the endpoint is replaced before setupLeader is done. *)
ReturnsEarly(e) == pc[e] \in {"worker", "setup", "leader"}

(* The role is known and weAreLeader returns. *)
Returns(e) == pc[e] \in {"worker", "leader"}

(* First deferred call on return: the designation endpoint answers 410. *)
ResetHandler(e) ==
  /\ Returns(e)
  /\ route[e] = "handler"
  /\ route' = [route EXCEPT ![e] = "gone"]
  /\ UNCHANGED <<pc, heartbeatRoute, loopRuns, syncState, token, reply, net, restarts,
                 goneBy, faults>>

(* Second deferred call: setSyncState. *)
setSyncState(e) ==
  /\ Returns(e)
  /\ route[e] = "gone"
  /\ syncState' = [syncState EXCEPT ![e] = IF pc[e] = "leader" THEN "isLeader"
                                           ELSE "isWorker"]
  /\ pc' = [pc EXCEPT ![e] = "done"]
  /\ UNCHANGED <<route, heartbeatRoute, loopRuns, token, reply, net, restarts, goneBy,
                 faults>>

-----------------------------------------------------------------------------
(* A request is lost. *)
Lose(m) ==
  /\ m \in net
  /\ Fault
  /\ net' = net \ {m}
  /\ UNCHANGED <<pc, route, heartbeatRoute, loopRuns, syncState, token, reply, restarts,
                 goneBy>>

(* The client gives up after three seconds; the request may still arrive. *)
ClientTimeout(e) ==
  /\ reply[e] = "wait"
  /\ [nonce |-> Nonce(e), to |-> Leader] \in net => Fault
  /\ [nonce |-> Nonce(e), to |-> Leader] \notin net => UNCHANGED faults
  /\ reply' = [reply EXCEPT ![e] = "err"]
  /\ UNCHANGED <<pc, route, heartbeatRoute, loopRuns, syncState, token, net, restarts,
                 goneBy>>

(* case <-timeout.C: ten seconds are over, the process exits. *)
Fatal(e) ==
  /\ Fault
  /\ Goto(e, "select", "dead")
  /\ route' = [route EXCEPT ![e] = "none"]
  /\ UNCHANGED <<heartbeatRoute, loopRuns, syncState, token, reply, net, restarts, goneBy>>

(* Some other entity talks to an enclave's designation endpoint. *)
Stray(e) ==
  /\ Fault
  /\ net' = net \cup {[nonce |-> Foreign, to |-> e]}
  /\ UNCHANGED <<pc, route, heartbeatRoute, loopRuns, syncState, token, reply, restarts,
                 goneBy>>

(* An enclave is restarted. *)
Restart(e) ==
  /\ Fault
  /\ pc' = [pc EXCEPT ![e] = "boot"]
  /\ route' = [route EXCEPT ![e] = "none"]
  /\ heartbeatRoute' = [heartbeatRoute EXCEPT ![e] = FALSE]
  /\ loopRuns' = [loopRuns EXCEPT ![e] = FALSE]
  /\ syncState' = [syncState EXCEPT ![e] = "inProgress"]
  /\ token' = [token EXCEPT ![e] = 0]
  /\ reply' = [reply EXCEPT ![e] = "none"]
  /\ restarts' = [restarts EXCEPT ![e] = @ + 1]
  /\ UNCHANGED <<net, goneBy>>

EnclaveStep(e) ==
  \/ InstallHandler(e) \/ makeLeaderRequest(e) \/ SelectErr(e) \/ SelectGone(e)
  \/ setupLeader(e) \/ ResetHandler(e) \/ setSyncState(e) \/ ClientTimeout(e)

Next ==
  \/ \E e \in Enclave : \/ EnclaveStep(e) \/ SelectToken(e)
                        \/ Fatal(e) \/ Stray(e) \/ Restart(e)
  \/ \E m \in net : getLeaderHandler(m) \/ Lose(m)

Spec == Init /\ [][Next]_vars

(***************************************************************************)
(* Enclaves run, requests that are not lost are served, and a select       *)
(* chooses at random: a token that is there whenever the select is entered *)
(* is taken at last.                                                       *)
(***************************************************************************)
Requests == [nonce : {<<e, n>> : e \in Enclave, n \in 0 .. MaxFaults}, to : {Leader}]
Fairness ==
  /\ \A e \in Enclave : WF_vars(EnclaveStep(e))
  /\ SF_vars(SelectToken(Leader))
  /\ \A m \in Requests : WF_vars(getLeaderHandler(m))

FairSpec == Spec /\ Fairness

-----------------------------------------------------------------------------
(* Every variable has its type. *)
TypeOK ==
  /\ pc \in [Enclave -> {"boot", "ask", "select", "setup", "leader", "worker", "done",
                         "dead"}]
  /\ route \in [Enclave -> {"none", "handler", "gone"}]
  /\ heartbeatRoute \in [Enclave -> BOOLEAN]
  /\ loopRuns \in [Enclave -> BOOLEAN]
  /\ syncState \in [Enclave -> {"inProgress", "isLeader", "isWorker"}]
  /\ token \in [Enclave -> 0 .. 1]
  /\ reply \in [Enclave -> {"none", "wait", "err", "gone"}]
  /\ net \subseteq [nonce : (Enclave \X Nat) \cup {Foreign}, to : Enclave]
  /\ restarts \in [Enclave -> Nat]
  /\ goneBy \in [Enclave -> Nat]
  /\ faults \in Nat

(***************************************************************************)
(* Only the enclave that the leader's domain name resolves to becomes the  *)
(* leader, and it never becomes a worker, whatever strays, late requests   *)
(* of earlier incarnations and restarts there are.                         *)
(***************************************************************************)
LeaderIsDNSTarget ==
  \A e \in Enclave : /\ syncState[e] = "isLeader" => e = Leader
                     /\ syncState[e] = "isWorker" => e # Leader

(***************************************************************************)
(* An enclave that was told to be a worker by the leader that now runs     *)
(* finds the leader's heartbeat endpoint installed and its event loop      *)
(* started, so that registerWith succeeds and the handler does not block.  *)
(* weAreLeader's setupLeader and its deferred calls run in that order.     *)
(***************************************************************************)
WorkersCanRegister ==
  \A e \in Enclave :
    (reply[e] = "gone" \/ syncState[e] = "isWorker") /\ goneBy[e] = restarts[Leader] =>
      heartbeatRoute[Leader] /\ loopRuns[Leader]

(***************************************************************************)
(* The enclave accepts PUTs of state only when its event loop, which       *)
(* putStateHandler calls synchronously, has been started.                  *)
(***************************************************************************)
PutsFindEventLoop ==
  \A e \in Enclave : syncState[e] = "isLeader" => loopRuns[e]

(***************************************************************************)
(* Every enclave learns its role or exits: designation ends although       *)
(* workers may ask before the leader knows, and the leader's own request   *)
(* reports an error while the token arrives.                               *)
(***************************************************************************)
EveryoneDecides ==
  \A e \in Enclave : pc[e] = "boot" ~> pc[e] \in {"done", "dead"} \/ pc[Leader] = "dead"

=============================================================================
