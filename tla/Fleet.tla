------------------------------- MODULE Fleet -------------------------------
(***************************************************************************)
(* A fleet of enclaves: the leader's worker set and its two callers of     *)
(* syncWith (heartbeatHandler and putStateHandler in handlers.go), the     *)
(* workers' registration (registerWith in sync_worker.go) and heartbeat    *)
(* loops (workerHeartbeat in enclave.go), around the key synchronization   *)
(* of module KeySync.  Leader designation has already happened.            *)
(*                                                                         *)
(* workerManager (workers.go) appears as the set it maintains and the      *)
(* calls of register and unregister that goroutines have yet to make.      *)
(* Time is abstracted: a heartbeat may be sent at any time, and a          *)
(* registered worker may be pruned at any time.                            *)
(***************************************************************************)
EXTENDS KeySync

CONSTANTS
  NoHeartbeat,  \* no heartbeat of a worker is in flight
  MaxLoops,     \* heartbeat loops are counted up to this number
  SlowSyncs     \* may a sync last longer than the heartbeat's period?

ASSUME NoHeartbeatAssumption == NoHeartbeat \notin [sha256 : EnclaveKeys]
ASSUME MaxLoopsAssumption == MaxLoops \in Nat
ASSUME SlowSyncsAssumption == SlowSyncs \in BOOLEAN

VARIABLES
  workers,   \* the leader's set of registered workers
  calls,     \* calls of register and unregister about to be made
  forAlls,   \* calls of forAll about to be made
  resyncs,   \* per worker, goroutines that forAll started but that have not run
  caller,    \* who called syncWith: heartbeatHandler or putStateHandler
  start,     \* where each worker's Start is in registerWith
  loops,     \* each worker's number of heartbeat loops
  heartbeat, \* the hash that each worker's heartbeat in flight carries
  restarted  \* history: the workers that have restarted, or whose leader has

managerVars == <<workers, calls, forAlls, resyncs, caller>>
workerVars  == <<start, loops, heartbeat, restarted>>
fleetVars   == <<vars, managerVars, workerVars>>

FleetInit ==
  /\ Init
  /\ workers = {}
  /\ calls = {}
  /\ forAlls = 0
  /\ resyncs = [w \in Worker |-> 0]
  /\ caller = [s \in Sync |-> "none"]
  /\ start = [w \in Worker |-> "register"]
  /\ loops = [w \in Worker |-> 0]
  /\ heartbeat = [w \in Worker |-> NoHeartbeat]
  /\ restarted = {}

(* Mutants: the keys themselves instead of their hash; no application keys. *)
keysInTheClear(k)      == k
hashAndB64NoAppKeys(k) == Sum256([k EXCEPT !.app = 0])

(* enclaveKeys.hashAndB64; the hash is perfect. *)
hashAndB64(k) == Sum256(k)

-----------------------------------------------------------------------------
(* The worker's registration: a POST with an empty hash, retried on error. *)

Register(w) ==
  /\ start[w] = "register"
  /\ start' = [start EXCEPT ![w] = "sent"]
  /\ UNCHANGED <<vars, managerVars, loops, heartbeat, restarted>>

(* A mutant: Start starts the heartbeat. *)
RegisterReturnsAndHeartbeat(w) ==
  /\ start[w] = "handled"
  /\ start' = [start EXCEPT ![w] = "running"]
  /\ loops' = [loops EXCEPT ![w] = 1]
  /\ UNCHANGED <<vars, managerVars, heartbeat, restarted>>

(* The leader's 200 arrives, registerWith returns nil and Start returns. *)
RegisterReturns(w) ==
  /\ start[w] = "handled"
  /\ start' = [start EXCEPT ![w] = "running"]
  /\ UNCHANGED <<vars, managerVars, loops, heartbeat, restarted>>

(***************************************************************************)
(* The POST or its reply is lost; registerWith tries again.  This may      *)
(* happen any number of times and is not counted among the faults.         *)
(***************************************************************************)
RegisterLost(w) ==
  /\ "heartbeat" \in FaultKinds
  /\ start[w] \in {"sent", "handled"}
  /\ start' = [start EXCEPT ![w] = "register"]
  /\ UNCHANGED <<vars, managerVars, loops, heartbeat, restarted>>

(* A handler of the sync waits for another one to fill or empty a channel. *)
Blocked(s) ==
  \/ get[s] = "checked" /\ ~Room(nonceCh[target[s]])
  \/ get[s] = "nonced" /\ ~Room(ephemeralCh[target[s]])
  \/ post[s] = "read" /\ nonceCh[target[s]] = Empty

(***************************************************************************)
(* One of the worker's heartbeat loops posts the hash of the current keys. *)
(* Its ticker ticks every minute, while the two requests of a sync time    *)
(* out after three seconds each: unless SlowSyncs, the sync that the last  *)
(* heartbeat of the only loop caused has ended or is blocked.              *)
(***************************************************************************)
workerHeartbeat(w) ==
  /\ loops[w] > 0
  /\ heartbeat[w] = NoHeartbeat
  /\ SlowSyncs \/ \A s \in Sync : target[s] = w /\ caller[s] = "heartbeat" => Blocked(s)
  /\ heartbeat' = [heartbeat EXCEPT ![w] = hashAndB64(keys[w])]
  /\ UNCHANGED <<vars, managerVars, start, loops, restarted>>

(* The POST is lost, as often as it may be; the loop goes on. *)
HeartbeatLost(w) ==
  /\ "heartbeat" \in FaultKinds
  /\ heartbeat[w] # NoHeartbeat
  /\ heartbeat' = [heartbeat EXCEPT ![w] = NoHeartbeat]
  /\ UNCHANGED <<vars, managerVars, start, loops, restarted>>

-----------------------------------------------------------------------------
(* The leader's heartbeatHandler. *)

(* A mutant: register before the sync has ended. *)
syncAndRegisterAtOnce(w, s) ==
  /\ SyncWith(s, w)
  /\ caller' = [caller EXCEPT ![s] = "heartbeat"]
  /\ calls' = calls \cup {<<"register", w>>}
  /\ UNCHANGED <<workers, forAlls, resyncs>>

(* go syncAndRegister: sync, and register when that has succeeded. *)
syncAndRegister(w, s) ==
  /\ SyncWith(s, w)
  /\ caller' = [caller EXCEPT ![s] = "heartbeat"]
  /\ UNCHANGED <<workers, calls, forAlls, resyncs>>

(* A worker registers: the empty hash differs from every hash. *)
HandleRegistration(w, s) ==
  /\ start[w] = "sent"
  /\ start' = [start EXCEPT ![w] = "handled"]
  /\ syncAndRegister(w, s)
  /\ UNCHANGED <<loops, heartbeat, restarted>>

(* The hashes differ. *)
HandleStaleHeartbeat(w, s) ==
  /\ heartbeat[w] \notin {NoHeartbeat, hashAndB64(leaderKeys)}
  /\ heartbeat' = [heartbeat EXCEPT ![w] = NoHeartbeat]
  /\ syncAndRegister(w, s)
  /\ UNCHANGED <<start, loops, restarted>>

(* The hashes agree: register the worker. *)
HandleHeartbeat(w) ==
  /\ heartbeat[w] = hashAndB64(leaderKeys)
  /\ heartbeat' = [heartbeat EXCEPT ![w] = NoHeartbeat]
  /\ calls' = calls \cup {<<"register", w>>}
  /\ UNCHANGED <<vars, workers, forAlls, resyncs, caller, start, loops, restarted>>

-----------------------------------------------------------------------------
(* The leader's putStateHandler and the worker manager. *)

(* Set the application keys, then go workers.forAll(...). *)
PutState ==
  /\ SetLeaderAppKeys
  /\ forAlls' = forAlls + 1
  /\ UNCHANGED <<workers, calls, resyncs, caller, workerVars>>

(* runForAll starts a goroutine for every worker in the set. *)
ForAll ==
  /\ forAlls > 0
  /\ forAlls' = forAlls - 1
  /\ resyncs' = [w \in Worker |-> IF w \in workers THEN resyncs[w] + 1 ELSE resyncs[w]]
  /\ UNCHANGED <<vars, workers, calls, caller, workerVars>>

(* One of these goroutines calls syncWith. *)
Resync(w, s) ==
  /\ resyncs[w] > 0
  /\ resyncs' = [resyncs EXCEPT ![w] = @ - 1]
  /\ SyncWith(s, w)
  /\ caller' = [caller EXCEPT ![s] = "put"]
  /\ UNCHANGED <<workers, calls, forAlls, workerVars>>

(* The event loop serves a register or an unregister. *)
WorkerCall(op, w) ==
  /\ <<op, w>> \in calls
  /\ calls' = calls \ {<<op, w>>}
  /\ workers' = IF op = "register" THEN workers \cup {w} ELSE workers \ {w}
  /\ UNCHANGED <<vars, forAlls, resyncs, caller, workerVars>>

(* The event loop prunes a worker whose last heartbeat is too old. *)
Prune(w) ==
  /\ w \in workers
  /\ workers' = workers \ {w}
  /\ UNCHANGED <<vars, calls, forAlls, resyncs, caller, workerVars>>

-----------------------------------------------------------------------------
(* The steps of a sync, with what its caller does when it ends. *)

FleetSyncReturns(s) ==
  /\ SyncWithReturns(s)
  /\ calls' = IF caller[s] = "heartbeat" THEN calls \cup {<<"register", target[s]>>}
              ELSE calls
  /\ caller' = [caller EXCEPT ![s] = "none"]
  /\ UNCHANGED <<workers, forAlls, resyncs, workerVars>>

FleetSyncFails(s) ==
  /\ SyncWithFails(s)
  /\ calls' = IF caller[s] = "put" THEN calls \cup {<<"unregister", target[s]>>}
              ELSE calls
  /\ caller' = [caller EXCEPT ![s] = "none"]
  /\ UNCHANGED <<workers, forAlls, resyncs, workerVars>>

FleetSyncTimesOut(s) ==
  /\ SyncWithTimesOut(s)
  /\ calls' = IF caller[s] = "put" THEN calls \cup {<<"unregister", target[s]>>}
              ELSE calls
  /\ caller' = [caller EXCEPT ![s] = "none"]
  /\ UNCHANGED <<workers, forAlls, resyncs, workerVars>>

(* setupWorkerPostSync ends with go e.workerHeartbeat(worker). *)
SetupWorkerPostSync(s) ==
  /\ SetHTTPSCert(s)
  /\ loops' = [loops EXCEPT ![target[s]] = IF @ < MaxLoops THEN @ + 1 ELSE @]
  /\ UNCHANGED <<managerVars, start, heartbeat, restarted>>

FleetSyncStep(s) ==
  \/ /\ \/ SyncWithPost(s) \/ InitSync(s) \/ InitSyncNonce(s) \/ InitSyncKey(s)
        \/ FinishSync(s) \/ FinishSyncNonce(s) \/ FinishSyncKey(s)
        \/ SetAppKeys(s) \/ SetNitridingKeys(s)
     /\ UNCHANGED <<managerVars, workerVars>>
  \/ FleetSyncReturns(s)
  \/ FleetSyncFails(s)
  \/ SetupWorkerPostSync(s)

FleetSyncFault(s) ==
  \/ FleetSyncTimesOut(s)
  \/ /\ InitSyncFails(s) \/ LoseRequest(s)
     /\ UNCHANGED <<managerVars, workerVars>>

(* A restarted worker registers anew; its last heartbeat may still arrive. *)
FleetWorkerRestart(w) ==
  /\ WorkerRestart(w)
  /\ start' = [start EXCEPT ![w] = "register"]
  /\ loops' = [loops EXCEPT ![w] = 0]
  /\ restarted' = restarted \cup {w}
  /\ UNCHANGED <<managerVars, heartbeat>>

(* A restarted leader knows no worker. *)
FleetLeaderRestart ==
  /\ LeaderRestart
  /\ workers' = {}
  /\ calls' = {}
  /\ forAlls' = 0
  /\ resyncs' = [w \in Worker |-> 0]
  /\ caller' = [s \in Sync |-> "none"]
  /\ restarted' = Worker
  /\ UNCHANGED <<start, loops, heartbeat>>

FleetNext ==
  \/ \E w \in Worker : \/ Register(w) \/ RegisterReturns(w) \/ RegisterLost(w)
                       \/ workerHeartbeat(w) \/ HeartbeatLost(w)
                       \/ HandleHeartbeat(w) \/ Prune(w) \/ FleetWorkerRestart(w)
  \/ \E w \in Worker, s \in Sync : \/ HandleRegistration(w, s)
                                   \/ HandleStaleHeartbeat(w, s)
                                   \/ Resync(w, s)
  \/ \E s \in Sync : FleetSyncStep(s) \/ FleetSyncFault(s)
  \/ \E op \in {"register", "unregister"}, w \in Worker : WorkerCall(op, w)
  \/ PutState
  \/ ForAll
  \/ FleetLeaderRestart

FleetSpec == FleetInit /\ [][FleetNext]_fleetVars

(***************************************************************************)
(* Fairness: the goroutines of a sync run when they can, registerWith      *)
(* retries, the heartbeat's ticker ticks.  Registrations and heartbeats    *)
(* may get lost any number of times, but of those sent again and again     *)
(* some arrive (strong fairness).  Nothing is assumed of PUTs, pruning and *)
(* faults, nor of the goroutines that putStateHandler starts: they may be  *)
(* late for ever; nor of the order in which goroutines blocked on a        *)
(* channel are served.                                                     *)
(***************************************************************************)
Fairness ==
  /\ \A w \in Worker :
       /\ WF_fleetVars(Register(w))
       /\ SF_fleetVars(\E s \in Sync : HandleRegistration(w, s))
       /\ SF_fleetVars(RegisterReturns(w))
       /\ WF_fleetVars(workerHeartbeat(w))
       /\ SF_fleetVars(HandleHeartbeat(w) \/ \E s \in Sync : HandleStaleHeartbeat(w, s))
  /\ \A s \in Sync : WF_fleetVars(FleetSyncStep(s))

FairSpec == FleetSpec /\ Fairness

-----------------------------------------------------------------------------
(* Properties. *)

(* Every variable has its type. *)
FleetTypeOK ==
  /\ TypeOK
  /\ workers \in SUBSET Worker
  /\ calls \in SUBSET ({"register", "unregister"} \X Worker)
  /\ forAlls \in Nat
  /\ resyncs \in [Worker -> Nat]
  /\ caller \in [Sync -> {"none", "heartbeat", "put"}]
  /\ start \in [Worker -> {"register", "sent", "handled", "running"}]
  /\ loops \in [Worker -> 0 .. MaxLoops]
  /\ heartbeat \in [Worker -> [sha256 : EnclaveKeys] \cup {NoHeartbeat}]
  /\ restarted \in SUBSET Worker

(***************************************************************************)
(* While neither side restarts, every worker in the leader's set, or about *)
(* to enter it, holds the leader's certificate: heartbeatHandler registers *)
(* after a completed sync or on equal hashes, never on a request alone.    *)
(***************************************************************************)
RegisteredWorkersAreSynced ==
  \A w \in Worker \ restarted : w \in workers \/ <<"register", w>> \in calls =>
    keys[w].nitriding = leaderKeys.nitriding

(***************************************************************************)
(* Heartbeats begin only after a completed synchronization: no heartbeat   *)
(* loop runs, and no heartbeat is in flight, with the keys of a worker     *)
(* that never got the leader's, restarts included.                         *)
(***************************************************************************)
HeartbeatsFollowSync ==
  \A w \in Worker : /\ loops[w] > 0 => keys[w] # OwnKeys
                    /\ heartbeat[w] # hashAndB64(OwnKeys)

(***************************************************************************)
(* As long as no sync is cut off and nobody restarts, every worker ends up *)
(* with the leader's keys and presents its certificate, for good: whatever *)
(* PUTs, registrations, prunings and lost heartbeats raced, the heartbeats *)
(* repair it.                                                              *)
(***************************************************************************)
Converges ==
  [](faults = 0) => \A w \in Worker : <>[](/\ keys[w] = leaderKeys
                                           /\ httpsCert[w] = leaderKeys.nitriding)

(***************************************************************************)
(* Lost requests, timeouts, failures and restarts of either side keep a    *)
(* worker from the leader's keys in two ways only: the nonce or the key of *)
(* a sync that was cut off stays in its channel, or the first sync failed  *)
(* and there is no heartbeat loop.  All else is repaired, in particular    *)
(* what overlapping installations of an old and a new leader's keys left   *)
(* behind.                                                                 *)
(***************************************************************************)
RepairsUnlessCutOff ==
  \A w \in Worker : \/ <>[](keys[w] = leaderKeys)
                    \/ <>[](nonceCh[w] # Empty)
                    \/ <>[](ephemeralCh[w] # Empty)
                    \/ <>[](loops[w] = 0)

(***************************************************************************)
(* "Before doing any work though, workers must register themselves with    *)
(* the leader, which triggers key synchronization"                         *)
(* (doc/key-synchronization.md): a worker whose registration succeeded     *)
(* gets the leader's keys and starts its heartbeat.                        *)
(***************************************************************************)
RegistrationLeadsToSync ==
  \A w \in Worker : start[w] = "running" ~> loops[w] > 0

(***************************************************************************)
(* The heartbeat "allows the leader to verify if the worker's keys are     *)
(* still up-to-date.  If not, the leader initiates key-synchronization"    *)
(* (doc/key-synchronization.md): a worker with a heartbeat loop does not   *)
(* keep outdated keys for ever.                                            *)
(***************************************************************************)
StaleKeysAreRepaired ==
  \A w \in Worker : loops[w] > 0 ~> keys[w] = leaderKeys

=============================================================================
