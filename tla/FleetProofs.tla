---------------------------- MODULE FleetProofs ----------------------------
(***************************************************************************)
(* Proofs about Fleet, for every number of workers, syncs, revisions and   *)
(* faults.  Whatever the fleet does, its key synchronization takes steps   *)
(* of KeySync; the invariants of KeySyncProofs therefore hold, and KeyInv  *)
(* adds what the registrations and heartbeats rest on.                     *)
(***************************************************************************)
EXTENDS Fleet, KeySyncRefinement

(* A certificate that the leader handed out is not a worker's own one. *)
KeyInv ==
  /\ leaderKeys.nitriding # 0
  /\ \A s \in Sync : post[s] # "none" => Received(s).nitriding # 0
  /\ \A s \in Sync : post[s] = "keysset" => keys[target[s]].nitriding # 0
  /\ leaderKeys.nitriding = 1 => \A w \in Worker : keys[w].nitriding \in {0, 1}

(* Heartbeats are sent with the leader's certificate only. *)
BeatInv ==
  \A w \in Worker :
    /\ loops[w] > 0 => keys[w].nitriding # 0
    /\ heartbeat[w] # NoHeartbeat => heartbeat[w].sha256.nitriding # 0

(* What makes the leader register a worker, unless somebody restarts. *)
Known(w) ==
  \/ w \in workers
  \/ <<"register", w>> \in calls
  \/ heartbeat[w] # NoHeartbeat
  \/ \E s \in Sync : target[s] = w /\ post[s] = "ok"
KnownInv ==
  \A w \in Worker \ restarted :
    /\ leaderKeys.nitriding = 1
    /\ Known(w) => keys[w].nitriding # 0

FleetInv ==
  /\ IInv
  /\ FleetTypeOK
  /\ KeyInv
  /\ BeatInv
  /\ KnownInv

-----------------------------------------------------------------------------
(* What the steps of KeySync do to the workers' certificates. *)

(* Steps in which nobody restarts. *)
Calm ==
  \/ \E s \in Sync, w \in Worker : SyncWith(s, w)
  \/ \E s \in Sync : SyncStep(s)
  \/ \E s \in Sync : SyncFault(s)
  \/ SetLeaderAppKeys
  \/ UNCHANGED vars

(* No step but a restart of the worker takes the leader's certificate away. *)
LEMMA CertificatesStay ==
  ASSUME IInv, KeyInv, NEW w \in Worker, keys[w].nitriding # 0,
         Calm \/ LeaderRestart \/ \E v \in Worker \ {w} : WorkerRestart(v)
  PROVE  keys'[w].nitriding # 0
<1>1. CASE UNCHANGED keys
  BY <1>1
<1>2. ASSUME NEW s \in Sync, SetAppKeys(s)
      PROVE  keys'[w].nitriding # 0
  BY <1>2 DEF SetAppKeys, IInv, TypeOK, EnclaveKeys
<1>3. ASSUME NEW s \in Sync, SetNitridingKeys(s)
      PROVE  keys'[w].nitriding # 0
  BY <1>3 DEF SetNitridingKeys, IInv, TypeOK, EnclaveKeys, KeyInv
<1>4. ASSUME NEW v \in Worker \ {w}, WorkerRestart(v)
      PROVE  keys'[w].nitriding # 0
  BY <1>4 DEF WorkerRestart, IInv, TypeOK
<1> QED
  BY <1>1, <1>2, <1>3, <1>4, Zenon DEF Calm, SyncStep, SyncFault, SyncWith, SyncWithPost,
     SyncWithReturns, SyncWithFails, SyncEnds, InitSync, InitSyncNonce, InitSyncKey,
     FinishSync, FinishSyncNonce, FinishSyncKey, SetHTTPSCert, SyncWithTimesOut,
     InitSyncFails, LoseRequest, SetLeaderAppKeys, LeaderRestart, vars, keyVars

(* Only a restart gives the leader another certificate. *)
LEMMA LeaderStays ==
  ASSUME IInv, Calm
  PROVE  leaderKeys'.nitriding = leaderKeys.nitriding
<1>1. CASE UNCHANGED leaderKeys
  BY <1>1
<1>2. CASE SetLeaderAppKeys
  BY <1>2 DEF SetLeaderAppKeys, IInv, TypeOK, EnclaveKeys
<1> QED
  BY <1>1, <1>2, Zenon DEF Calm, SyncStep, SyncFault, SyncWith, SyncWithPost,
     SyncWithReturns, SyncWithFails, SyncEnds, InitSync, InitSyncNonce, InitSyncKey,
     FinishSync, FinishSyncNonce, FinishSyncKey, SetAppKeys, SetNitridingKeys,
     SetHTTPSCert, SyncWithTimesOut, InitSyncFails, LoseRequest, vars, leaderVars

(* A POST is answered 200 only by a worker that has installed its keys. *)
LEMMA AnsweredIsInstalled ==
  ASSUME IInv, KeyInv, Calm, NEW s \in Sync, post'[s] = "ok"
  PROVE  /\ target'[s] = target[s]
         /\ post[s] = "ok" \/ keys[target[s]].nitriding # 0
<1>1. CASE UNCHANGED <<post, target>>
  BY <1>1
<1>2. ASSUME NEW t \in Sync, NEW w \in Worker, SyncWith(t, w)
      PROVE  t # s /\ target'[s] = target[s] /\ post[s] = "ok"
  BY <1>2 DEF SyncWith, IInv, TypeOK
<1>3. ASSUME NEW t \in Sync, SyncWithReturns(t) \/ SyncWithFails(t)
      PROVE  target'[s] = target[s] /\ post[s] = "ok"
  BY <1>3 DEF SyncWithReturns, SyncWithFails, SyncEnds, IInv, TypeOK
<1>4. ASSUME NEW t \in Sync, SetHTTPSCert(t)
      PROVE  /\ target'[s] = target[s]
             /\ post[s] = "ok" \/ keys[target[s]].nitriding # 0
  BY <1>4 DEF SetHTTPSCert, clientVars, IInv, TypeOK, KeyInv
<1>5. ASSUME NEW t \in Sync,
             \/ SyncWithPost(t) \/ FinishSync(t) \/ FinishSyncNonce(t)
             \/ FinishSyncKey(t) \/ SetAppKeys(t) \/ SetNitridingKeys(t)
             \/ LoseRequest(t)
      PROVE  target'[s] = target[s] /\ post[s] = "ok"
  BY <1>5 DEF SyncWithPost, FinishSync, FinishSyncNonce, FinishSyncKey, SetAppKeys,
     SetNitridingKeys, LoseRequest, clientVars, IInv, TypeOK
<1>6. ASSUME NEW t \in Sync,
             \/ InitSync(t) \/ InitSyncNonce(t) \/ InitSyncKey(t)
             \/ SyncWithTimesOut(t) \/ InitSyncFails(t)
      PROVE  UNCHANGED <<post, target>>
  BY <1>6 DEF InitSync, InitSyncNonce, InitSyncKey, SyncWithTimesOut, InitSyncFails,
     clientVars
<1>7. SetLeaderAppKeys \/ UNCHANGED vars => UNCHANGED <<post, target>>
  BY DEF SetLeaderAppKeys, vars, clientVars
<1> QED
  BY <1>1, <1>2, <1>3, <1>4, <1>5, <1>6, <1>7 DEF Calm, SyncStep, SyncFault

(* A body that is not touched carries the same keys. *)
LEMMA SameBody ==
  ASSUME NEW s \in Sync, body'[s] = body[s]
  PROVE  Received(s)' = Received(s)
BY DEF Received

(* KeyInv, for the steps that install keys. *)
LEMMA InstallKeepsKeyInv ==
  ASSUME IInv, KeyInv, NEW s \in Sync,
         SetAppKeys(s) \/ SetNitridingKeys(s) \/ SetHTTPSCert(s)
  PROVE  KeyInv'
<1>1. UNCHANGED <<leaderKeys, target, body>>
  BY DEF SetAppKeys, SetNitridingKeys, SetHTTPSCert, leaderVars, clientVars
<1>2. \A t \in Sync : Received(t)' = Received(t)
  BY <1>1, SameBody
<1>3. \A t \in Sync : post'[t] # "none" => post[t] # "none"
  BY DEF SetAppKeys, SetNitridingKeys, SetHTTPSCert, IInv, TypeOK
<1>4. CASE SetAppKeys(s)
  <2>1. \A w \in Worker : keys'[w].nitriding = keys[w].nitriding
    BY <1>4 DEF SetAppKeys, IInv, TypeOK, EnclaveKeys
  <2>2. \A t \in Sync : post'[t] = "keysset" => post[t] = "keysset"
    BY <1>4 DEF SetAppKeys, IInv, TypeOK
  <2> QED
    BY <1>1, <1>2, <1>3, <2>1, <2>2 DEF KeyInv, IInv, TypeOK
<1>5. CASE SetNitridingKeys(s)
  <2>1. /\ keys'[target[s]].nitriding = Received(s).nitriding
        /\ \A w \in Worker \ {target[s]} : keys'[w] = keys[w]
    BY <1>5 DEF SetNitridingKeys, IInv, TypeOK, EnclaveKeys
  <2>2. Received(s).nitriding # 0
    BY <1>5 DEF SetNitridingKeys, KeyInv
  <2>3. leaderKeys.nitriding = 1 => Received(s).nitriding = 1
    BY <1>5 DEF SetNitridingKeys, IInv, InstallInv
  <2>4. \A t \in Sync : post'[t] = "keysset" => t = s \/ post[t] = "keysset"
    BY <1>5 DEF SetNitridingKeys, IInv, TypeOK
  <2> QED
    BY <1>1, <1>2, <1>3, <2>1, <2>2, <2>3, <2>4, Zenon DEF KeyInv, IInv, TypeOK
<1>6. CASE SetHTTPSCert(s)
  <2>1. UNCHANGED keys
    BY <1>6 DEF SetHTTPSCert
  <2>2. \A t \in Sync : post'[t] = "keysset" => post[t] = "keysset"
    BY <1>6 DEF SetHTTPSCert, IInv, TypeOK
  <2> QED
    BY <1>1, <1>2, <1>3, <2>1, <2>2 DEF KeyInv
<1> QED
  BY <1>4, <1>5, <1>6

(* For the other steps of a sync, and its start. *)
LEMMA SyncKeepsKeyInv ==
  ASSUME IInv, KeyInv, NEW s \in Sync, UNCHANGED <<leaderKeys, keys>>,
         \A t \in Sync \ {s} : UNCHANGED <<post[t], target[t], body[t]>>,
         \/ post'[s] = "none"
         \/ /\ post[s] # "none" /\ post'[s] # "keysset"
            /\ body'[s] = body[s]
         \/ UNCHANGED <<post[s], target[s], body[s]>>
  PROVE  KeyInv'
<1>1. \A t \in Sync : post'[t] = "none" \/ Received(t)' = Received(t)
  BY SameBody
<1>2. \A t \in Sync : post'[t] # "none" => post[t] # "none"
  OBVIOUS
<1>3. \A t \in Sync : post'[t] = "keysset" => post[t] = "keysset" /\ target'[t] = target[t]
  OBVIOUS
<1> QED
  BY <1>1, <1>2, <1>3 DEF KeyInv

LEMMA KeyStep ==
  ASSUME IInv, KeyInv, [Next]_vars
  PROVE  KeyInv'
<1>1. CASE \E s \in Sync, w \in Worker : SyncWith(s, w)
  <2> PICK s \in Sync, w \in Worker : SyncWith(s, w)
    BY <1>1
  <2> QED
    BY SyncKeepsKeyInv DEF SyncWith, leaderVars, keyVars, IInv, TypeOK
<1>2. ASSUME NEW s \in Sync, SyncWithPost(s)
      PROVE  KeyInv'
  <2>1. /\ Received(s)' = leaderKeys
        /\ \A t \in Sync \ {s} : body'[t] = body[t]
    BY <1>2, WorkerAuxIsOwn, BodyIsOwn DEF SyncWithPost, copy, Received, IInv, TypeOK
  <2>2. /\ UNCHANGED <<leaderKeys, keys, target>>
        /\ \A t \in Sync \ {s} : post'[t] = post[t]
        /\ post'[s] = "sent"
    BY <1>2 DEF SyncWithPost, leaderVars, keyVars, IInv, TypeOK
  <2>3. \A t \in Sync \ {s} : Received(t)' = Received(t)
    BY <2>1, SameBody
  <2> QED
    BY <2>1, <2>2, <2>3 DEF KeyInv
<1>3. ASSUME NEW s \in Sync, SyncWithReturns(s) \/ SyncWithFails(s)
      PROVE  KeyInv'
  BY <1>3, SyncKeepsKeyInv DEF SyncWithReturns, SyncWithFails, SyncEnds, leaderVars,
     keyVars, IInv, TypeOK
<1>4. ASSUME NEW s \in Sync,
             \/ InitSync(s) \/ InitSyncNonce(s) \/ InitSyncKey(s)
             \/ SyncWithTimesOut(s) \/ InitSyncFails(s)
      PROVE  KeyInv'
  BY <1>4, SyncKeepsKeyInv DEF InitSync, InitSyncNonce, InitSyncKey, SyncWithTimesOut,
     InitSyncFails, leaderVars, clientVars, keyVars
<1>5. ASSUME NEW s \in Sync, FinishSync(s) \/ FinishSyncNonce(s) \/ FinishSyncKey(s)
      PROVE  KeyInv'
  BY <1>5, SyncKeepsKeyInv DEF FinishSync, FinishSyncNonce, FinishSyncKey, leaderVars,
     clientVars, keyVars, IInv, TypeOK
<1>6. ASSUME NEW s \in Sync, LoseRequest(s)
      PROVE  KeyInv'
  BY <1>6, SyncKeepsKeyInv DEF LoseRequest, leaderVars, clientVars, keyVars, IInv, TypeOK
<1>7. ASSUME NEW s \in Sync, SetAppKeys(s) \/ SetNitridingKeys(s) \/ SetHTTPSCert(s)
      PROVE  KeyInv'
  BY <1>7, InstallKeepsKeyInv
<1>8. ASSUME NEW w \in Worker, WorkerRestart(w)
      PROVE  KeyInv'
  <2>1. UNCHANGED <<leaderKeys, target, body>>
    BY <1>8 DEF WorkerRestart, leaderVars, clientVars
  <2>2. \A s \in Sync : Received(s)' = Received(s)
    BY <2>1, SameBody
  <2>3. \A s \in Sync : /\ post'[s] # "none" => post[s] # "none"
                        /\ post'[s] = "keysset" => post[s] = "keysset" /\ target[s] # w
    BY <1>8 DEF WorkerRestart
  <2>4. /\ keys'[w].nitriding = 0
        /\ \A v \in Worker \ {w} : keys'[v] = keys[v]
    BY <1>8 DEF WorkerRestart, OwnKeys, IInv, TypeOK
  <2> QED
    BY <2>1, <2>2, <2>3, <2>4 DEF KeyInv, IInv, TypeOK
<1>9. CASE SetLeaderAppKeys
  <2>1. /\ UNCHANGED <<target, body, post, keys>>
        /\ leaderKeys'.nitriding = leaderKeys.nitriding
    BY <1>9 DEF SetLeaderAppKeys, clientVars, keyVars, IInv, TypeOK, EnclaveKeys
  <2> QED
    BY <2>1, SameBody DEF KeyInv
<1>10. CASE LeaderRestart
  <2>1. /\ UNCHANGED <<target, body, post, keys>>
        /\ leaderKeys'.nitriding > 1
    BY <1>10 DEF LeaderRestart, keyVars, IInv, TypeOK, FreshInv
  <2> QED
    BY <2>1, SameBody DEF KeyInv
<1>11. CASE UNCHANGED vars
  BY <1>11, SameBody DEF vars, leaderVars, clientVars, keyVars, KeyInv
<1> QED
  BY <1>1, <1>2, <1>3, <1>4, <1>5, <1>6, <1>7, <1>8, <1>9, <1>10, <1>11
  DEF Next, SyncStep, SyncFault

-----------------------------------------------------------------------------
(* The invariants over registrations and heartbeats. *)

(* What a step without restarts has to keep to. *)
LEMMA CalmStep ==
  ASSUME FleetInv, Calm, UNCHANGED restarted,
         \A w \in Worker : loops'[w] > 0 => loops[w] > 0 \/ keys[w].nitriding # 0,
         \A w \in Worker : heartbeat'[w] # NoHeartbeat =>
           \/ heartbeat'[w] = heartbeat[w]
           \/ loops[w] > 0 /\ heartbeat'[w] = hashAndB64(keys[w]),
         \A w \in Worker : w \in workers' \/ <<"register", w>> \in calls' => Known(w)
  PROVE  (BeatInv /\ KnownInv)'
<1>1. \A w \in Worker : keys[w].nitriding # 0 => keys'[w].nitriding # 0
  BY CertificatesStay DEF FleetInv
<1>2. BeatInv'
  <2> SUFFICES ASSUME NEW w \in Worker
               PROVE  /\ loops'[w] > 0 => keys'[w].nitriding # 0
                      /\ heartbeat'[w] # NoHeartbeat => heartbeat'[w].sha256.nitriding # 0
    BY DEF BeatInv
  <2>1. loops[w] > 0 => keys[w].nitriding # 0
    BY DEF FleetInv, BeatInv
  <2>2. loops'[w] > 0 => keys'[w].nitriding # 0
    BY <1>1, <2>1
  <2>3. CASE heartbeat'[w] = heartbeat[w]
    BY <2>2, <2>3 DEF FleetInv, BeatInv
  <2>4. CASE loops[w] > 0 /\ heartbeat'[w] = hashAndB64(keys[w])
    BY <2>1, <2>2, <2>4 DEF hashAndB64, Sum256
  <2> QED
    BY <2>2, <2>3, <2>4
<1>3. ASSUME NEW w \in Worker \ restarted, Known(w)'
      PROVE  keys'[w].nitriding # 0
  <2>1. CASE w \in workers' \/ <<"register", w>> \in calls'
    <3>1. Known(w)
      BY <2>1
    <3> QED
      BY <1>1, <3>1 DEF FleetInv, KnownInv
  <2>2. CASE heartbeat'[w] # NoHeartbeat
    <3>1. CASE heartbeat'[w] = heartbeat[w]
      <4>1. Known(w)
        BY <2>2, <3>1 DEF Known
      <4> QED
        BY <1>1, <4>1 DEF FleetInv, KnownInv
    <3>2. CASE loops[w] > 0
      BY <1>1, <3>2 DEF FleetInv, BeatInv
    <3> QED
      BY <2>2, <3>1, <3>2
  <2>3. CASE \E s \in Sync : target'[s] = w /\ post'[s] = "ok"
    <3> PICK s \in Sync : target'[s] = w /\ post'[s] = "ok"
      BY <2>3
    <3>1. target[s] = w /\ (post[s] = "ok" \/ keys[w].nitriding # 0)
      BY AnsweredIsInstalled DEF FleetInv
    <3>2. Known(w) \/ keys[w].nitriding # 0
      BY <3>1 DEF Known
    <3> QED
      BY <1>1, <3>2 DEF FleetInv, KnownInv
  <2> QED
    BY <1>3, <2>1, <2>2, <2>3 DEF Known
<1> QED
  BY <1>2, <1>3, LeaderStays DEF FleetInv, KnownInv

(* A step of the fleet without a restart is a calm one, of these kinds. *)
LEMMA RegistrationStep ==
  ASSUME FleetInv, NEW w \in Worker,
         Register(w) \/ RegisterReturns(w) \/ RegisterLost(w) \/ HeartbeatLost(w)
  PROVE  Calm /\ (FleetTypeOK /\ BeatInv /\ KnownInv)'
<1>1. /\ UNCHANGED <<vars, managerVars, loops, restarted>>
      /\ \/ UNCHANGED heartbeat
         \/ heartbeat' = [heartbeat EXCEPT ![w] = NoHeartbeat]
  BY DEF Register, RegisterReturns, RegisterLost, HeartbeatLost
<1>2. Calm
  BY <1>1 DEF Calm
<1>3. TypeOK'
  BY <1>1, NextStep DEF FleetInv, IInv
<1>4. FleetTypeOK'
  BY <1>1, <1>3 DEF FleetInv, FleetTypeOK, managerVars, Register, RegisterReturns,
     RegisterLost, HeartbeatLost
<1>5. \A v \in Worker : heartbeat'[v] # NoHeartbeat => heartbeat'[v] = heartbeat[v]
  BY <1>1 DEF FleetInv, FleetTypeOK
<1>6. (BeatInv /\ KnownInv)'
  BY <1>1, <1>2, <1>5, CalmStep DEF Known, managerVars
<1> QED
  BY <1>2, <1>4, <1>6

LEMMA HeartbeatStep ==
  ASSUME FleetInv, NEW w \in Worker, workerHeartbeat(w) \/ HandleHeartbeat(w)
  PROVE  Calm /\ (FleetTypeOK /\ BeatInv /\ KnownInv)'
<1>1. UNCHANGED <<vars, workers, forAlls, resyncs, caller, start, loops, restarted>>
  BY DEF workerHeartbeat, HandleHeartbeat, managerVars
<1>2. Calm
  BY <1>1 DEF Calm
<1>3. TypeOK'
  BY <1>1, NextStep DEF FleetInv, IInv
<1>4. CASE workerHeartbeat(w)
  <2>1. /\ loops[w] > 0
        /\ heartbeat' = [heartbeat EXCEPT ![w] = hashAndB64(keys[w])]
        /\ UNCHANGED calls
    BY <1>4 DEF workerHeartbeat, managerVars
  <2>2. hashAndB64(keys[w]) \in [sha256 : EnclaveKeys]
    BY DEF hashAndB64, Sum256, FleetInv, IInv, TypeOK
  <2>3. heartbeat' \in [Worker -> [sha256 : EnclaveKeys] \cup {NoHeartbeat}]
    BY <2>1, <2>2 DEF FleetInv, FleetTypeOK
  <2>4. FleetTypeOK'
    BY <1>1, <1>3, <2>1, <2>3 DEF FleetInv, FleetTypeOK
  <2>5. \A v \in Worker : \/ heartbeat'[v] = heartbeat[v]
                          \/ loops[v] > 0 /\ heartbeat'[v] = hashAndB64(keys[v])
    BY <2>1 DEF FleetInv, FleetTypeOK
  <2>6. (BeatInv /\ KnownInv)'
    BY <1>1, <1>2, <2>1, <2>5, CalmStep DEF Known
  <2> QED
    BY <1>2, <2>4, <2>6
<1>5. CASE HandleHeartbeat(w)
  <2>1. /\ heartbeat' = [heartbeat EXCEPT ![w] = NoHeartbeat]
        /\ calls' = calls \cup {<<"register", w>>}
    BY <1>5 DEF HandleHeartbeat
  <2>2. heartbeat[w] # NoHeartbeat
    BY <1>5, NoHeartbeatAssumption DEF HandleHeartbeat, hashAndB64, Sum256, FleetInv,
       IInv, TypeOK
  <2>3. FleetTypeOK'
    BY <1>1, <1>3, <2>1 DEF FleetInv, FleetTypeOK
  <2>4. \A v \in Worker : heartbeat'[v] # NoHeartbeat => heartbeat'[v] = heartbeat[v]
    BY <2>1 DEF FleetInv, FleetTypeOK
  <2>5. \A v \in Worker : v \in workers' \/ <<"register", v>> \in calls' => Known(v)
    BY <1>1, <2>1, <2>2 DEF Known
  <2>6. (BeatInv /\ KnownInv)'
    BY <1>1, <1>2, <2>4, <2>5, CalmStep
  <2> QED
    BY <1>2, <2>3, <2>6
<1> QED
  BY <1>4, <1>5

LEMMA WorkerSetStep ==
  ASSUME FleetInv,
         \/ \E w \in Worker : Prune(w)
         \/ \E op \in {"register", "unregister"}, w \in Worker : WorkerCall(op, w)
         \/ ForAll
  PROVE  Calm /\ (FleetTypeOK /\ BeatInv /\ KnownInv)'
<1>1. UNCHANGED <<vars, caller, start, loops, heartbeat, restarted>>
  BY Zenon DEF Prune, WorkerCall, ForAll, workerVars
<1>2. Calm
  BY <1>1 DEF Calm
<1>3. TypeOK'
  BY <1>1, NextStep DEF FleetInv, IInv
<1>4. FleetTypeOK'
  <2>1. workers' \in SUBSET Worker /\ calls' \subseteq calls
    BY Zenon DEF FleetInv, FleetTypeOK, Prune, WorkerCall, ForAll
  <2>2. forAlls' \in Nat /\ resyncs' \in [Worker -> Nat]
    <3>1. CASE UNCHANGED <<forAlls, resyncs>>
      BY <3>1 DEF FleetInv, FleetTypeOK
    <3>2. CASE ForAll
      BY <3>2 DEF FleetInv, FleetTypeOK, ForAll
    <3> QED
      BY <3>1, <3>2, Zenon DEF Prune, WorkerCall
  <2> QED
    BY <1>1, <1>3, <2>1, <2>2 DEF FleetInv, FleetTypeOK
<1>5. /\ calls' \subseteq calls
      /\ \A v \in workers' : v \in workers \/ <<"register", v>> \in calls
  BY Zenon DEF Prune, WorkerCall, ForAll
<1>6. \A v \in Worker : v \in workers' \/ <<"register", v>> \in calls' => Known(v)
  BY <1>5 DEF Known
<1>7. (BeatInv /\ KnownInv)'
  BY <1>1, <1>2, <1>6, CalmStep
<1> QED
  BY <1>2, <1>4, <1>7

LEMMA CallStep ==
  ASSUME FleetInv, NEW w \in Worker, NEW s \in Sync,
         HandleRegistration(w, s) \/ HandleStaleHeartbeat(w, s) \/ Resync(w, s)
  PROVE  Calm /\ (FleetTypeOK /\ BeatInv /\ KnownInv)'
<1>1. Calm
  BY DEF Calm, HandleRegistration, HandleStaleHeartbeat, Resync, syncAndRegister
<1>2. TypeOK'
  BY <1>1, NextStep DEF Calm, Next, FleetInv, IInv
<1>3. /\ UNCHANGED <<workers, calls, loops, restarted>>
      /\ heartbeat' \in {heartbeat, [heartbeat EXCEPT ![w] = NoHeartbeat]}
  BY DEF HandleRegistration, HandleStaleHeartbeat, Resync, syncAndRegister,
     workerVars
<1>4. /\ forAlls' \in Nat
      /\ resyncs' \in [Worker -> Nat]
      /\ caller' \in [Sync -> {"none", "heartbeat", "put"}]
      /\ start' \in [Worker -> {"register", "sent", "handled", "running"}]
  BY DEF HandleRegistration, HandleStaleHeartbeat, Resync, syncAndRegister,
     workerVars, FleetInv, FleetTypeOK
<1>5. FleetTypeOK'
  BY <1>2, <1>3, <1>4 DEF FleetInv, FleetTypeOK
<1>6. \A v \in Worker : heartbeat'[v] # NoHeartbeat => heartbeat'[v] = heartbeat[v]
  BY <1>3 DEF FleetInv, FleetTypeOK
<1>7. (BeatInv /\ KnownInv)'
  BY <1>1, <1>3, <1>6, CalmStep DEF Known
<1> QED
  BY <1>1, <1>5, <1>7

LEMMA PutStep ==
  ASSUME FleetInv, PutState
  PROVE  Calm /\ (FleetTypeOK /\ BeatInv /\ KnownInv)'
<1>1. Calm /\ UNCHANGED <<workers, calls, resyncs, caller, start, loops, heartbeat, restarted>>
  BY DEF Calm, PutState, workerVars
<1>2. TypeOK'
  BY <1>1, NextStep DEF Calm, Next, FleetInv, IInv
<1>3. FleetTypeOK'
  BY <1>1, <1>2 DEF FleetInv, FleetTypeOK, PutState
<1>4. (BeatInv /\ KnownInv)'
  BY <1>1, CalmStep DEF Known
<1> QED
  BY <1>1, <1>3, <1>4

LEMMA SyncKeepsFleetInv ==
  ASSUME FleetInv, NEW s \in Sync, FleetSyncStep(s) \/ FleetSyncFault(s)
  PROVE  Calm /\ (FleetTypeOK /\ BeatInv /\ KnownInv)'
<1>1. SyncStep(s) \/ SyncFault(s)
  BY DEF FleetSyncStep, FleetSyncFault, SyncStep, SyncFault, FleetSyncReturns,
     FleetSyncFails, FleetSyncTimesOut, SetupWorkerPostSync
<1>2. Calm
  BY <1>1 DEF Calm
<1>3. TypeOK' /\ target[s] \in Worker
  BY <1>2, NextStep DEF Calm, Next, FleetInv, IInv, TypeOK
<1>4. UNCHANGED <<workers, forAlls, resyncs, start, heartbeat, restarted>>
  BY SMTT(30) DEF FleetSyncStep, FleetSyncFault, FleetSyncReturns, FleetSyncFails,
     FleetSyncTimesOut, SetupWorkerPostSync, managerVars, workerVars
<1>5. CASE UNCHANGED loops
  <2>1. /\ caller' \in {caller, [caller EXCEPT ![s] = "none"]}
        /\ \/ UNCHANGED calls
           \/ calls' = calls \cup {<<"unregister", target[s]>>}
           \/ calls' = calls \cup {<<"register", target[s]>>} /\ post[s] = "ok"
    BY Zenon DEF FleetSyncStep, FleetSyncFault, FleetSyncReturns, FleetSyncFails,
       FleetSyncTimesOut, SetupWorkerPostSync, SyncWithReturns, managerVars
  <2>2. FleetTypeOK'
    <3>1. calls' \in SUBSET ({"register", "unregister"} \X Worker)
      BY <1>3, <2>1 DEF FleetInv, FleetTypeOK
    <3>2. caller' \in [Sync -> {"none", "heartbeat", "put"}]
      BY <2>1 DEF FleetInv, FleetTypeOK
    <3> QED
      BY <1>3, <1>4, <1>5, <3>1, <3>2 DEF FleetInv, FleetTypeOK
  <2>3. \A v \in Worker : v \in workers' \/ <<"register", v>> \in calls' => Known(v)
    BY <1>3, <1>4, <2>1 DEF Known
  <2>4. (BeatInv /\ KnownInv)'
    BY <1>2, <1>4, <1>5, <2>3, CalmStep
  <2> QED
    BY <1>2, <2>2, <2>4
<1>6. CASE SetupWorkerPostSync(s)
  <2>1. /\ UNCHANGED <<calls, caller>>
        /\ loops' = [loops EXCEPT ![target[s]] = IF @ < MaxLoops THEN @ + 1 ELSE @]
    BY <1>6 DEF SetupWorkerPostSync, managerVars
  <2>2. keys[target[s]].nitriding # 0
    BY <1>6 DEF SetupWorkerPostSync, SetHTTPSCert, FleetInv, KeyInv
  <2>3. FleetTypeOK'
    BY <1>3, <1>4, <2>1, MaxLoopsAssumption, SMTT(30) DEF FleetInv, FleetTypeOK
  <2>4. \A v \in Worker : loops'[v] > 0 => loops[v] > 0 \/ keys[v].nitriding # 0
    BY <2>1, <2>2 DEF FleetInv, FleetTypeOK
  <2>5. \A v \in Worker : v \in workers' \/ <<"register", v>> \in calls' => Known(v)
    BY <1>4, <2>1 DEF Known
  <2>6. (BeatInv /\ KnownInv)'
    BY <1>2, <1>4, <2>4, <2>5, CalmStep
  <2> QED
    BY <1>2, <2>3, <2>6
<1> QED
  BY <1>5, <1>6 DEF FleetSyncStep, FleetSyncFault, FleetSyncReturns, FleetSyncFails,
     FleetSyncTimesOut, workerVars

LEMMA WorkerRestartKeepsFleetInv ==
  ASSUME FleetInv, NEW w \in Worker, FleetWorkerRestart(w)
  PROVE  (FleetTypeOK /\ BeatInv /\ KnownInv)'
<1>1. /\ WorkerRestart(w)
      /\ UNCHANGED <<workers, calls, forAlls, resyncs, caller, heartbeat>>
      /\ start' = [start EXCEPT ![w] = "register"]
      /\ loops' = [loops EXCEPT ![w] = 0]
      /\ restarted' = restarted \cup {w}
  BY DEF FleetWorkerRestart, managerVars
<1>2. TypeOK'
  BY <1>1, NextStep DEF Next, FleetInv, IInv
<1>3. FleetTypeOK'
  BY <1>1, <1>2, MaxLoopsAssumption DEF FleetInv, FleetTypeOK
<1>4. \A v \in Worker \ {w} : keys[v].nitriding # 0 => keys'[v].nitriding # 0
  BY <1>1, CertificatesStay DEF FleetInv
<1>5. BeatInv'
  BY <1>1, <1>4 DEF FleetInv, FleetTypeOK, BeatInv
<1>6. /\ UNCHANGED <<leaderKeys, target>>
      /\ \A s \in Sync : post'[s] = "ok" => post[s] = "ok"
  BY <1>1 DEF WorkerRestart, leaderVars, clientVars
<1>7. \A v \in Worker : Known(v)' => Known(v)
  BY <1>1, <1>6 DEF Known
<1>8. KnownInv'
  BY <1>1, <1>4, <1>6, <1>7 DEF FleetInv, KnownInv
<1> QED
  BY <1>3, <1>5, <1>8

LEMMA LeaderRestartKeepsFleetInv ==
  ASSUME FleetInv, FleetLeaderRestart
  PROVE  (FleetTypeOK /\ BeatInv /\ KnownInv)'
<1>1. /\ LeaderRestart
      /\ UNCHANGED <<start, loops, heartbeat>>
      /\ restarted' = Worker
  BY DEF FleetLeaderRestart
<1>2. TypeOK'
  BY <1>1, NextStep DEF Next, FleetInv, IInv
<1>3. FleetTypeOK'
  BY <1>1, <1>2 DEF FleetInv, FleetTypeOK, FleetLeaderRestart
<1>4. \A v \in Worker : keys[v].nitriding # 0 => keys'[v].nitriding # 0
  BY <1>1, CertificatesStay DEF FleetInv
<1>5. BeatInv'
  BY <1>1, <1>4 DEF FleetInv, BeatInv
<1>6. KnownInv'
  BY <1>1 DEF KnownInv
<1> QED
  BY <1>3, <1>5, <1>6

-----------------------------------------------------------------------------
(* The invariant and the properties. *)

LEMMA FleetInitInv ==
  ASSUME FleetInit
  PROVE  FleetInv
<1>1. IInv
  BY InitInv DEF FleetInit
<1>2. FleetTypeOK
  BY <1>1, MaxLoopsAssumption DEF FleetInit, FleetTypeOK, IInv
<1>3. KeyInv
  BY DEF FleetInit, Init, KeyInv, OwnKeys
<1>4. BeatInv
  BY DEF FleetInit, BeatInv
<1>5. \A w \in Worker : ~Known(w)
  BY DEF FleetInit, Init, Known
<1>6. KnownInv
  BY <1>5 DEF FleetInit, Init, KnownInv
<1> QED
  BY <1>1, <1>2, <1>3, <1>4, <1>6 DEF FleetInv

(* The fleet synchronizes keys by steps of KeySync. *)
LEMMA FleetMoves ==
  ASSUME FleetInv, [FleetNext]_fleetVars
  PROVE  [Next]_vars /\ (FleetTypeOK /\ BeatInv /\ KnownInv)'
<1>1. Calm => [Next]_vars
  BY DEF Calm, Next
<1>2. CASE \E w \in Worker : \/ Register(w) \/ RegisterReturns(w)
                             \/ RegisterLost(w) \/ HeartbeatLost(w)
  BY <1>1, <1>2, RegistrationStep
<1>3. CASE \E w \in Worker : workerHeartbeat(w) \/ HandleHeartbeat(w)
  BY <1>1, <1>3, HeartbeatStep
<1>4. CASE \E op \in {"register", "unregister"}, w \in Worker : WorkerCall(op, w)
  BY <1>1, <1>4, WorkerSetStep
<1>5. CASE (\E w \in Worker : Prune(w)) \/ ForAll
  BY <1>1, <1>5, WorkerSetStep
<1>6. CASE PutState
  BY <1>1, <1>6, PutStep
<1>7. CASE \E w \in Worker, s \in Sync : \/ HandleRegistration(w, s)
                                         \/ HandleStaleHeartbeat(w, s)
                                         \/ Resync(w, s)
  BY <1>1, <1>7, CallStep
<1>8. CASE \E s \in Sync : FleetSyncStep(s) \/ FleetSyncFault(s)
  BY <1>1, <1>8, SyncKeepsFleetInv
<1>9. CASE \E w \in Worker : FleetWorkerRestart(w)
  BY <1>9, WorkerRestartKeepsFleetInv, Zenon DEF FleetWorkerRestart, Next
<1>10. CASE FleetLeaderRestart
  BY <1>10, LeaderRestartKeepsFleetInv, SMTT(30) DEF FleetLeaderRestart, Next
<1>11. CASE UNCHANGED fleetVars
  <2>1. UNCHANGED vars /\ UNCHANGED <<managerVars, workerVars>>
    BY <1>11 DEF fleetVars
  <2>2. TypeOK'
    BY <2>1, NextStep DEF FleetInv, IInv
  <2>3. UNCHANGED <<keys, leaderKeys, target, post>>
    BY <2>1 DEF vars, leaderVars, clientVars, keyVars
  <2> QED
    BY <2>1, <2>2, <2>3 DEF managerVars, workerVars, FleetInv, FleetTypeOK, BeatInv,
       KnownInv, Known
<1> QED
  BY <1>2, <1>3, <1>4, <1>5, <1>6, <1>7, <1>8, <1>9, <1>10, <1>11 DEF FleetNext

LEMMA FleetStep ==
  ASSUME FleetInv, [FleetNext]_fleetVars
  PROVE  FleetInv'
BY FleetMoves, NextStep, KeyStep DEF FleetInv

(* FleetInv is an invariant of the fleet. *)
THEOREM FleetInvariance == FleetSpec => []FleetInv
BY FleetInitInv, FleetStep, PTL DEF FleetSpec

(***************************************************************************)
(* The fleet contains KeySync: heartbeatHandler, putStateHandler, the      *)
(* worker manager and the heartbeat loops start syncs and look at their    *)
(* outcome, and change nothing of what syncWith, initSync and finishSync   *)
(* work on.                                                                *)
(***************************************************************************)
THEOREM FleetRunsKeySync == FleetSpec => Spec
<1>1. FleetInit => Init
  BY DEF FleetInit
<1>2. FleetInv /\ [FleetNext]_fleetVars => [Next]_vars
  BY FleetMoves
<1> QED
  BY <1>1, <1>2, FleetInvariance, PTL DEF FleetSpec, Spec

(***************************************************************************)
(* Hence what KeySync promises holds in a fleet, whoever calls syncWith    *)
(* and however often: a POST that is accepted is decrypted, a worker has   *)
(* one open sync, installs fresh and whole keys, and only of its like.     *)
(***************************************************************************)
THEOREM FleetSyncsSafely ==
  FleetSpec => [](/\ AcceptedFindsItsKey /\ OneOpenSync /\ InstallsFreshKeys
                  /\ KeysOnlyToIdenticalEnclaves /\ KeysNotTorn)
BY FleetRunsKeySync, AcceptedIsDecrypted, SyncsAreExclusive, NoStaleInstall,
   KeysStayInFleet, InstallationsDoNotTear, PTL

(* And the fleet distributes keys the way KeyDistribution allows. *)
THEOREM FleetDistributesKeys == FleetSpec => ImplementsKeyDistribution
BY FleetRunsKeySync, Refinement, PTL

(* Type correctness of the whole fleet. *)
THEOREM FleetTypes == FleetSpec => []FleetTypeOK
<1>1. FleetInv => FleetTypeOK
  BY DEF FleetInv
<1> QED
  BY <1>1, FleetInvariance, PTL

(***************************************************************************)
(* heartbeatHandler registers only workers that hold the leader's          *)
(* certificate: while nobody restarts, that certificate is the one and     *)
(* only the leader ever had, and whoever is known to it has received it.   *)
(***************************************************************************)
THEOREM RegisteredAreSynced == FleetSpec => []RegisteredWorkersAreSynced
<1>1. FleetInv => RegisteredWorkersAreSynced
  <2> SUFFICES ASSUME FleetInv, NEW w \in Worker \ restarted,
                      w \in workers \/ <<"register", w>> \in calls
               PROVE  keys[w].nitriding = leaderKeys.nitriding
    BY DEF RegisteredWorkersAreSynced
  <2>1. Known(w)
    BY DEF Known
  <2> QED
    BY <2>1 DEF FleetInv, KeyInv, KnownInv
<1> QED
  BY <1>1, FleetInvariance, PTL

(* A worker sends heartbeats only with keys of a leader, restarts included. *)
THEOREM BeatsFollowSync == FleetSpec => []HeartbeatsFollowSync
<1>1. FleetInv => HeartbeatsFollowSync
  BY NoHeartbeatAssumption DEF FleetInv, BeatInv, HeartbeatsFollowSync, OwnKeys,
     hashAndB64, Sum256, EnclaveKeys
<1> QED
  BY <1>1, FleetInvariance, PTL

=============================================================================
