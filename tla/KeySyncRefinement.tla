------------------------- MODULE KeySyncRefinement -------------------------
(***************************************************************************)
(* KeySync implements KeyDistribution, for every number of workers,        *)
(* concurrent syncs, revisions and faults.  Every step of the protocol is  *)
(* a step of the abstract one or leaves its state alone; what makes it so  *)
(* is the inductive invariant of KeySyncProofs.                            *)
(***************************************************************************)
EXTENDS KeySyncDistribution, KeySyncProofs

Carried == [s \in Sync |-> CopyOf(s)]

(* The abstract state does not change. *)
Stutter == UNCHANGED <<leaderKeys, Carried, ephemeralCh, keys, httpsCert>>

(* What CopyOf is in each state of a POST. *)
LEMMA CopyStates ==
  ASSUME NEW s \in Sync
  PROVE  /\ post[s] \in {"none", "ok", "err"} => CopyOf(s) = NoBody
         /\ post[s] \in {"sent", "read", "verified"} =>
              CopyOf(s) = [worker |-> target[s], keys |-> Received(s), at |-> "sent"]
         /\ post[s] = "opened" =>
              CopyOf(s) = [worker |-> target[s], keys |-> Received(s), at |-> "accepted"]
         /\ post[s] = "appset" =>
              CopyOf(s) = [worker |-> target[s], keys |-> Received(s), at |-> "app"]
         /\ post[s] = "keysset" =>
              CopyOf(s) = [worker |-> target[s], keys |-> Received(s), at |-> "nitriding"]
<1>1. DOMAIN CopyAt = {"sent", "read", "verified", "opened", "appset", "keysset"}
  BY DEF CopyAt
<1> QED
  BY <1>1 DEF CopyOf, CopyAt

LEMMA CopyStatesNext ==
  ASSUME NEW s \in Sync
  PROVE  /\ post'[s] \in {"none", "ok", "err"} => CopyOf(s)' = NoBody
         /\ post'[s] \in {"sent", "read", "verified"} =>
              CopyOf(s)' = [worker |-> target'[s], keys |-> Received(s)', at |-> "sent"]
         /\ post'[s] = "opened" =>
              CopyOf(s)' = [worker |-> target'[s], keys |-> Received(s)', at |-> "accepted"]
         /\ post'[s] = "appset" =>
              CopyOf(s)' = [worker |-> target'[s], keys |-> Received(s)', at |-> "app"]
         /\ post'[s] = "keysset" =>
              CopyOf(s)' = [worker |-> target'[s], keys |-> Received(s)', at |-> "nitriding"]
<1>1. DOMAIN CopyAt = {"sent", "read", "verified", "opened", "appset", "keysset"}
  BY DEF CopyAt
<1> QED
  BY <1>1 DEF CopyOf, CopyAt

(* A POST that is under way carries keys. *)
LEMMA CarriesKeys ==
  ASSUME IInv, NEW s \in Sync, post[s] \notin {"none", "ok", "err"}
  PROVE  /\ CopyOf(s) \in Copies
         /\ CopyOf(s) # NoBody
<1>1. Received(s) \in EnclaveKeys
  BY DEF IInv, BodyInv, AttstnBody, Box, Received
<1>2. post[s] \in {"sent", "read", "verified", "opened", "appset", "keysset"}
  BY DEF IInv, TypeOK, PostState
<1>3. CopyOf(s) \in Copies
  BY <1>1, <1>2, CopyStates DEF IInv, TypeOK, Copies
<1> QED
  BY <1>3, NoBodyAssumption

(* A step at one sync leaves the copies of the others alone. *)
LEMMA OneCopy ==
  ASSUME NEW s \in Sync,
         \A t \in Sync \ {s} :
           post'[t] = post[t] /\ target'[t] = target[t] /\ body'[t] = body[t]
  PROVE  Carried' = [Carried EXCEPT ![s] = CopyOf(s)']
<1>1. \A t \in Sync \ {s} : CopyOf(t)' = CopyOf(t)
  BY DEF CopyOf, CopyAt, Received
<1> QED
  BY <1>1 DEF Carried

(* A step that moves no copy. *)
LEMMA NoCopyMoves ==
  ASSUME NEW s \in Sync,
         \A t \in Sync \ {s} :
           post'[t] = post[t] /\ target'[t] = target[t] /\ body'[t] = body[t],
         CopyOf(s)' = CopyOf(s)
  PROVE  UNCHANGED Carried
<1>1. Carried' = [Carried EXCEPT ![s] = CopyOf(s)']
  BY OneCopy
<1> QED
  BY <1>1 DEF Carried

-----------------------------------------------------------------------------
(* The steps of the protocol that the abstract state does not show. *)

LEMMA SyncWithStutters ==
  ASSUME IInv, NEW s \in Sync, NEW w \in Worker, SyncWith(s, w)
  PROVE  Stutter
<1>1. post[s] \in {"none", "ok", "err"} /\ post'[s] = "none"
  BY DEF SyncWith, Free, IInv, TypeOK
<1>2. CopyOf(s)' = CopyOf(s)
  BY <1>1, CopyStates, CopyStatesNext
<1>3. \A t \in Sync \ {s} :
         post'[t] = post[t] /\ target'[t] = target[t] /\ body'[t] = body[t]
  BY DEF SyncWith, IInv, TypeOK
<1> QED
  BY <1>2, <1>3, NoCopyMoves DEF SyncWith, Stutter, leaderVars, channelVars, keyVars

LEMMA RequestStutters ==
  ASSUME IInv, NEW s \in Sync,
         \/ SyncWithTimesOut(s) \/ InitSync(s) \/ InitSyncNonce(s)
         \/ FinishSync(s) /\ Received(s).app \notin LargeState
         \/ FinishSyncNonce(s) /\ post'[s] = "verified"
  PROVE  Stutter
<1>1. UNCHANGED <<leaderKeys, ephemeralCh, keys, httpsCert, target, body>>
  BY DEF SyncWithTimesOut, InitSync, InitSyncNonce, FinishSync, FinishSyncNonce,
     leaderVars, clientVars, channelVars, keyVars
<1>2. \A t \in Sync \ {s} : post'[t] = post[t]
  BY DEF SyncWithTimesOut, InitSync, InitSyncNonce, FinishSync, FinishSyncNonce,
     IInv, TypeOK
<1>3. \/ post'[s] = post[s]
      \/ {post[s], post'[s]} \subseteq {"sent", "read", "verified"}
  BY DEF SyncWithTimesOut, InitSync, InitSyncNonce, FinishSync, FinishSyncNonce,
     IInv, TypeOK
<1>4. Received(s)' = Received(s) /\ target'[s] = target[s]
  BY <1>1 DEF Received
<1>5. CASE post'[s] = post[s]
  <2>1. CopyOf(s)' = CopyOf(s)
    BY <1>4, <1>5 DEF CopyOf, CopyAt
  <2> QED
    BY <1>1, <1>2, <2>1, NoCopyMoves DEF Stutter
<1>6. CASE {post[s], post'[s]} \subseteq {"sent", "read", "verified"}
  <2>1. CopyOf(s)' = CopyOf(s)
    BY <1>4, <1>6, CopyStates, CopyStatesNext
  <2> QED
    BY <1>1, <1>2, <2>1, NoCopyMoves DEF Stutter
<1> QED
  BY <1>3, <1>5, <1>6

LEMMA SyncEndsStutters ==
  ASSUME IInv, NEW s \in Sync, SyncEnds(s), post[s] \in {"none", "ok", "err"}
  PROVE  Stutter
<1>1. post'[s] = "none"
  BY DEF SyncEnds, IInv, TypeOK
<1>2. CopyOf(s)' = CopyOf(s)
  BY <1>1, CopyStates, CopyStatesNext
<1>3. \A t \in Sync \ {s} :
         post'[t] = post[t] /\ target'[t] = target[t] /\ body'[t] = body[t]
  BY DEF SyncEnds, IInv, TypeOK
<1> QED
  BY <1>2, <1>3, NoCopyMoves DEF SyncEnds, Stutter, leaderVars, channelVars, keyVars

(* syncWith returns only when its POST is decided, or before it made one. *)
LEMMA ReturnStutters ==
  ASSUME IInv, NEW s \in Sync, SyncWithReturns(s) \/ SyncWithFails(s)
  PROVE  Stutter
<1>1. SyncEnds(s) /\ post[s] \in {"none", "ok", "err"}
  BY DEF SyncWithReturns, SyncWithFails, IInv, PhaseInv
<1> QED
  BY <1>1, SyncEndsStutters

-----------------------------------------------------------------------------
(* The steps that it shows. *)

(* The worker answers the GET, or fails after it stored the ephemeral key. *)
LEMMA KeyIsExpected ==
  ASSUME IInv, NEW s \in Sync, InitSyncKey(s) \/ InitSyncFails(s)
  PROVE  Stutter \/ Distribution!Expect(s, target[s])
<1>1. UNCHANGED <<leaderKeys, keys, httpsCert, target, body, post>>
  BY DEF InitSyncKey, InitSyncFails, leaderVars, clientVars, keyVars
<1>2. UNCHANGED Carried
  BY <1>1 DEF Carried, CopyOf, CopyAt, Received
<1>3. CASE UNCHANGED ephemeralCh
  BY <1>1, <1>2, <1>3 DEF Stutter
<1>4. CASE /\ get[s] = "nonced"
           /\ Room(ephemeralCh[target[s]])
           /\ ephemeralCh' = [ephemeralCh EXCEPT ![target[s]] = s]
  <2>1. Carried[s] = NoBody
    BY <1>4, CopyStates DEF IInv, PhaseInv, TypeOK, PostState, Installing, Carried
  <2> QED
    BY <1>1, <1>2, <1>4, <2>1 DEF Distribution!Expect, Room, Carried
<1> QED
  BY <1>3, <1>4 DEF InitSyncKey, InitSyncFails

(* The POST carries a copy of the leader's keys to an identical enclave. *)
LEMMA PostCopies ==
  ASSUME IInv, NEW s \in Sync, SyncWithPost(s)
  PROVE  Distribution!Copy(s, target[s])
<1>1. /\ SameRegisters(target[s])
      /\ attstnBody(WorkerAux(s), leaderKeys).encryptedKeys.box = leaderKeys
  BY WorkerAuxIsOwn, BodyIsOwn DEF SyncWithPost, IInv, TypeOK
<1>2. /\ post'[s] = "sent"
      /\ Received(s)' = leaderKeys
  BY <1>1 DEF SyncWithPost, copy, Received, IInv, TypeOK
<1>3. /\ target[s] \in Worker
      /\ UNCHANGED <<leaderKeys, target, ephemeralCh, keys, httpsCert>>
  BY DEF SyncWithPost, leaderVars, channelVars, keyVars, IInv, TypeOK
<1>4. CopyOf(s)' = [worker |-> target[s], keys |-> leaderKeys, at |-> "sent"]
  BY <1>2, <1>3, CopyStatesNext
<1>5. Carried' = [Carried EXCEPT ![s] = CopyOf(s)']
  BY <1>3, OneCopy DEF SyncWithPost, IInv, TypeOK
<1>6. Carried[s] = NoBody
  BY CopyStates DEF SyncWithPost, IInv, PhaseInv, Carried
<1> QED
  BY <1>1, <1>3, <1>4, <1>5, <1>6 DEF Distribution!Copy, Carried

(* A POST is lost, too long, or refused by verifyAttstn. *)
LEMMA PostIsLost ==
  ASSUME IInv, NEW s \in Sync, post[s] \in {"sent", "read"},
         post' = [post EXCEPT ![s] = "err"],
         UNCHANGED <<leaderKeys, target, body, ephemeralCh, keys, httpsCert>>
  PROVE  Distribution!Lose(s)
<1>1. CopyOf(s)' = NoBody
  BY CopyStatesNext DEF IInv, TypeOK
<1>2. Carried' = [Carried EXCEPT ![s] = NoBody]
  BY <1>1, OneCopy DEF IInv, TypeOK
<1>3. Carried[s] # NoBody /\ Carried[s].at = "sent"
  BY CarriesKeys, CopyStates DEF Carried
<1> QED
  BY <1>2, <1>3 DEF Distribution!Lose, Carried

LEMMA LossIsLoss ==
  ASSUME IInv, NEW s \in Sync, LoseRequest(s)
  PROVE  Stutter \/ Distribution!Lose(s)
<1>1. UNCHANGED <<leaderKeys, target, body, ephemeralCh, keys, httpsCert>>
  BY DEF LoseRequest, leaderVars, clientVars, channelVars, keyVars
<1>2. CASE UNCHANGED post
  BY <1>1, <1>2 DEF Stutter, Carried, CopyOf, CopyAt, Received
<1>3. CASE post[s] = "sent" /\ post' = [post EXCEPT ![s] = "err"]
  BY <1>1, <1>3, PostIsLost
<1> QED
  BY <1>2, <1>3 DEF LoseRequest

LEMMA RefusalIsLoss ==
  ASSUME IInv, NEW s \in Sync, FinishSync(s) \/ FinishSyncNonce(s)
  PROVE  Stutter \/ Distribution!Lose(s)
<1>1. UNCHANGED <<leaderKeys, target, body, ephemeralCh, keys, httpsCert>>
  BY DEF FinishSync, FinishSyncNonce, leaderVars, clientVars, channelVars, keyVars
<1>2. CASE post' = [post EXCEPT ![s] = "err"]
  BY <1>1, <1>2, PostIsLost DEF FinishSync, FinishSyncNonce
<1>3. CASE FinishSync(s) /\ Received(s).app \notin LargeState
  BY <1>3, RequestStutters
<1>4. CASE FinishSyncNonce(s) /\ post' = [post EXCEPT ![s] = "verified"]
  <2>1. post'[s] = "verified"
    BY <1>4 DEF IInv, TypeOK
  <2> QED
    BY <1>4, <2>1, RequestStutters
<1> QED
  BY <1>2, <1>3, <1>4 DEF FinishSync, FinishSyncNonce

(***************************************************************************)
(* The decryption: what finishSync takes from s.ephemeralKeys is the key   *)
(* of its own sync, so the copy is accepted.                               *)
(***************************************************************************)
LEMMA DecryptionAccepts ==
  ASSUME IInv, NEW s \in Sync, FinishSyncKey(s)
  PROVE  Distribution!Accept(s)
<1>1. ephemeralCh[target[s]] = s /\ Opens(body[s].encryptedKeys, BoxKey(s))
  BY DEF FinishSyncKey, IInv, OpenInv, Open, PhaseInv, BodyInv, Opens
<1>2. /\ post' = [post EXCEPT ![s] = "opened"]
      /\ ephemeralCh' = [ephemeralCh EXCEPT ![target[s]] = Empty]
      /\ UNCHANGED <<leaderKeys, target, body, keys, httpsCert>>
  BY <1>1 DEF FinishSyncKey, leaderVars, clientVars, keyVars
<1>3. CopyOf(s) = [worker |-> target[s], keys |-> Received(s), at |-> "sent"]
  BY CopyStates DEF FinishSyncKey
<1>4. CopyOf(s)' = [worker |-> target[s], keys |-> Received(s), at |-> "accepted"]
  BY <1>2, CopyStatesNext DEF Received, IInv, TypeOK
<1>5. Carried' = [Carried EXCEPT ![s] = [CopyOf(s) EXCEPT !.at = "accepted"]]
  BY <1>2, <1>3, <1>4, OneCopy DEF IInv, TypeOK
<1>6. CopyOf(s) # NoBody
  BY CarriesKeys DEF FinishSyncKey
<1>7. /\ Carried[s] # NoBody
      /\ Carried[s].at = "sent"
      /\ Carried[s].worker = target[s]
  BY <1>3, <1>6 DEF Carried
<1>8. /\ ephemeralCh[Carried[s].worker] = s
      /\ ephemeralCh' = [ephemeralCh EXCEPT ![Carried[s].worker] = Empty]
  BY <1>1, <1>2, <1>7
<1>9. Carried' = [Carried EXCEPT ![s].at = "accepted"]
  BY <1>5 DEF Carried
<1> QED
  BY <1>2, <1>7, <1>8, <1>9, Zenon DEF Distribution!Accept, Carried

(* The three setters of setupWorkerPostSync. *)
LEMMA SetAppInstalls ==
  ASSUME IInv, NEW s \in Sync, SetAppKeys(s)
  PROVE  Distribution!InstallApp(s)
<1>1. /\ post' = [post EXCEPT ![s] = "appset"]
      /\ UNCHANGED <<leaderKeys, target, body, ephemeralCh, httpsCert>>
  BY DEF SetAppKeys, leaderVars, clientVars, channelVars
<1>2. CopyOf(s) = [worker |-> target[s], keys |-> Received(s), at |-> "accepted"]
  BY CopyStates DEF SetAppKeys
<1>3. CopyOf(s)' = [worker |-> target[s], keys |-> Received(s), at |-> "app"]
  BY <1>1, CopyStatesNext DEF Received, IInv, TypeOK
<1>4. Carried' = [Carried EXCEPT ![s] = [CopyOf(s) EXCEPT !.at = "app"]]
  BY <1>1, <1>2, <1>3, OneCopy DEF IInv, TypeOK
<1>5. CopyOf(s) # NoBody
  BY CarriesKeys DEF SetAppKeys
<1>6. /\ Carried[s] # NoBody
      /\ Carried[s].at = "accepted"
      /\ Carried[s].worker = target[s]
      /\ Carried[s].keys = Received(s)
  BY <1>2, <1>5 DEF Carried
<1>7. keys' = [keys EXCEPT ![Carried[s].worker].app = Carried[s].keys.app]
  BY <1>6 DEF SetAppKeys
<1>8. Carried' = [Carried EXCEPT ![s].at = "app"]
  BY <1>4 DEF Carried
<1> QED
  BY <1>1, <1>6, <1>7, <1>8, Zenon DEF Distribution!InstallApp, Carried

LEMMA SetNitridingInstalls ==
  ASSUME IInv, NEW s \in Sync, SetNitridingKeys(s)
  PROVE  Distribution!InstallNitriding(s)
<1>1. /\ post' = [post EXCEPT ![s] = "keysset"]
      /\ UNCHANGED <<leaderKeys, target, body, ephemeralCh, httpsCert>>
  BY DEF SetNitridingKeys, leaderVars, clientVars, channelVars
<1>2. CopyOf(s) = [worker |-> target[s], keys |-> Received(s), at |-> "app"]
  BY CopyStates DEF SetNitridingKeys
<1>3. CopyOf(s)' = [worker |-> target[s], keys |-> Received(s), at |-> "nitriding"]
  BY <1>1, CopyStatesNext DEF Received, IInv, TypeOK
<1>4. Carried' = [Carried EXCEPT ![s] = [CopyOf(s) EXCEPT !.at = "nitriding"]]
  BY <1>1, <1>2, <1>3, OneCopy DEF IInv, TypeOK
<1>5. CopyOf(s) # NoBody
  BY CarriesKeys DEF SetNitridingKeys
<1>6. /\ Carried[s] # NoBody
      /\ Carried[s].at = "app"
      /\ Carried[s].worker = target[s]
      /\ Carried[s].keys = Received(s)
  BY <1>2, <1>5 DEF Carried
<1>7. keys' = [keys EXCEPT ![Carried[s].worker].nitriding = Carried[s].keys.nitriding]
  BY <1>6 DEF SetNitridingKeys
<1>8. Carried' = [Carried EXCEPT ![s].at = "nitriding"]
  BY <1>4 DEF Carried
<1> QED
  BY <1>1, <1>6, <1>7, <1>8, Zenon DEF Distribution!InstallNitriding, Carried

LEMMA SetCertPresents ==
  ASSUME IInv, NEW s \in Sync, SetHTTPSCert(s)
  PROVE  Distribution!Present(s)
<1>1. /\ post' = [post EXCEPT ![s] = "ok"]
      /\ UNCHANGED <<leaderKeys, target, body, ephemeralCh, keys>>
  BY DEF SetHTTPSCert, leaderVars, clientVars, channelVars
<1>2. CopyOf(s) = [worker |-> target[s], keys |-> Received(s), at |-> "nitriding"]
  BY CopyStates DEF SetHTTPSCert
<1>3. CopyOf(s)' = NoBody
  BY <1>1, CopyStatesNext DEF IInv, TypeOK
<1>4. Carried' = [Carried EXCEPT ![s] = NoBody]
  BY <1>1, <1>3, OneCopy DEF IInv, TypeOK
<1>5. CopyOf(s) # NoBody
  BY CarriesKeys DEF SetHTTPSCert
<1>6. /\ Carried[s] # NoBody
      /\ Carried[s].at = "nitriding"
      /\ Carried[s].worker = target[s]
      /\ Carried[s].keys = Received(s)
  BY <1>2, <1>5 DEF Carried
<1>7. httpsCert' = [httpsCert EXCEPT ![Carried[s].worker] = Carried[s].keys.nitriding]
  BY <1>6 DEF SetHTTPSCert
<1> QED
  BY <1>1, <1>4, <1>6, <1>7, Zenon DEF Distribution!Present, Carried

(* A restart of a worker ends the handlers that hold its copies. *)
LEMMA RestartIsRestart ==
  ASSUME IInv, NEW w \in Worker, WorkerRestart(w)
  PROVE  Distribution!Restart(w)
<1> DEFINE lost == {s \in Sync : target[s] = w /\
                      post[s] \in {"read", "verified", "opened", "appset", "keysset"}}
<1>1. UNCHANGED <<leaderKeys, target, body>>
  BY DEF WorkerRestart, leaderVars, clientVars
<1>2. \A s \in lost : CopyOf(s)' = NoBody
  BY CopyStatesNext DEF WorkerRestart
<1>3. \A s \in Sync \ lost : CopyOf(s)' = CopyOf(s)
  <2> SUFFICES ASSUME NEW s \in Sync \ lost PROVE CopyOf(s)' = CopyOf(s)
    OBVIOUS
  <2>1. post'[s] = post[s]
    BY DEF WorkerRestart
  <2> QED
    BY <1>1, <2>1 DEF CopyOf, CopyAt, Received
<1>4. Carried' = [s \in Sync |-> IF s \in lost THEN NoBody ELSE Carried[s]]
  BY <1>2, <1>3 DEF Carried
<1>5. \A s \in lost : Carried[s] # NoBody /\ Carried[s].worker = w
  BY CarriesKeys, CopyStates DEF Carried
<1>6. ASSUME NEW s \in Sync, Carried[s] # NoBody, Carried[s].worker = w
      PROVE  Carried[s].at = "sent" \/ s \in lost
  <2>1. post[s] \in {"sent", "read", "verified", "opened", "appset", "keysset"}
    BY <1>6, CopyStates DEF Carried, IInv, TypeOK, PostState
  <2> QED
    BY <1>6, <2>1, CopyStates DEF Carried
<1>7. lost \in SUBSET Sync
  OBVIOUS
<1> HIDE DEF lost
<1> QED
  BY <1>1, <1>4, <1>5, <1>6, <1>7 DEF Distribution!Restart, WorkerRestart, OwnKeys, Carried

LEMMA NewKeysAreNewKeys ==
  ASSUME IInv, SetLeaderAppKeys
  PROVE  Distribution!NewAppKeys
<1>1. UNCHANGED <<target, body, post, ephemeralCh, keys, httpsCert>>
  BY DEF SetLeaderAppKeys, clientVars, channelVars, keyVars
<1>2. UNCHANGED Carried
  BY <1>1 DEF Carried, CopyOf, CopyAt, Received
<1>3. leaderKeys' \in [nitriding : {leaderKeys.nitriding}, app : Nat]
  BY DEF SetLeaderAppKeys, IInv, TypeOK, EnclaveKeys
<1> QED
  BY <1>1, <1>2, <1>3 DEF Distribution!NewAppKeys, Carried

LEMMA NewLeaderIsNewLeader ==
  ASSUME IInv, LeaderRestart
  PROVE  Distribution!NewLeader
<1>1. UNCHANGED <<target, body, post, ephemeralCh, keys, httpsCert>>
  BY DEF LeaderRestart, channelVars, keyVars
<1>2. UNCHANGED Carried
  BY <1>1 DEF Carried, CopyOf, CopyAt, Received
<1>3. leaderKeys' \in [nitriding : Nat, app : {0}]
  BY DEF LeaderRestart, IInv, TypeOK
<1> QED
  BY <1>1, <1>2, <1>3 DEF Distribution!NewLeader, Carried

-----------------------------------------------------------------------------
(* Every step of the protocol is an abstract step or stutters. *)
LEMMA StepSimulation ==
  ASSUME IInv, [Next]_vars
  PROVE  [Distribution!Next]_(Distribution!vars)
<1>0. Stutter => UNCHANGED Distribution!vars
  BY DEF Stutter, Distribution!vars, Carried
<1>1. ASSUME NEW s \in Sync, NEW w \in Worker, SyncWith(s, w) PROVE Stutter
  BY <1>1, SyncWithStutters
<1>2. ASSUME NEW s \in Sync, SyncStep(s)
      PROVE  Stutter \/ Distribution!Next
  <2>1. target[s] \in Worker
    BY DEF IInv, TypeOK
  <2>2. CASE SyncWithReturns(s) \/ SyncWithFails(s)
    BY <2>2, ReturnStutters
  <2>3. CASE InitSync(s) \/ InitSyncNonce(s)
    BY <2>3, RequestStutters
  <2>4. CASE SyncWithPost(s)
    BY <2>1, <2>4, PostCopies DEF Distribution!Next
  <2>5. CASE InitSyncKey(s)
    BY <2>1, <2>5, KeyIsExpected DEF Distribution!Next
  <2>6. CASE FinishSync(s) \/ FinishSyncNonce(s)
    BY <2>6, RefusalIsLoss DEF Distribution!Next
  <2>7. CASE FinishSyncKey(s)
    BY <2>7, DecryptionAccepts DEF Distribution!Next
  <2>8. CASE SetAppKeys(s)
    BY <2>8, SetAppInstalls DEF Distribution!Next
  <2>9. CASE SetNitridingKeys(s)
    BY <2>9, SetNitridingInstalls DEF Distribution!Next
  <2>10. CASE SetHTTPSCert(s)
    BY <2>10, SetCertPresents DEF Distribution!Next
  <2> QED
    BY <1>2, <2>2, <2>3, <2>4, <2>5, <2>6, <2>7, <2>8, <2>9, <2>10 DEF SyncStep
<1>3. ASSUME NEW s \in Sync, SyncFault(s)
      PROVE  Stutter \/ Distribution!Next
  <2>1. target[s] \in Worker
    BY DEF IInv, TypeOK
  <2>2. CASE SyncWithTimesOut(s)
    BY <2>2, RequestStutters
  <2>3. CASE InitSyncFails(s)
    BY <2>1, <2>3, KeyIsExpected DEF Distribution!Next
  <2>4. CASE LoseRequest(s)
    BY <2>4, LossIsLoss DEF Distribution!Next
  <2> QED
    BY <1>3, <2>2, <2>3, <2>4 DEF SyncFault
<1>4. ASSUME NEW w \in Worker, WorkerRestart(w) PROVE Distribution!Next
  BY <1>4, RestartIsRestart DEF Distribution!Next
<1>5. SetLeaderAppKeys => Distribution!Next
  BY NewKeysAreNewKeys DEF Distribution!Next
<1>6. LeaderRestart => Distribution!Next
  BY NewLeaderIsNewLeader DEF Distribution!Next
<1>7. UNCHANGED vars => Stutter
  BY DEF vars, leaderVars, clientVars, channelVars, keyVars, Stutter, Carried, CopyOf,
     CopyAt, Received
<1> QED
  BY <1>0, <1>1, <1>2, <1>3, <1>4, <1>5, <1>6, <1>7 DEF Next

(* The initial states agree. *)
LEMMA InitSimulation == Init => Distribution!Init
<1> SUFFICES ASSUME Init PROVE Distribution!Init
  OBVIOUS
<1>1. [s \in Sync |-> CopyOf(s)] = [s \in Sync |-> NoBody]
  BY CopyStates DEF Init
<1> QED
  BY <1>1 DEF Init, Distribution!Init, OwnKeys

(***************************************************************************)
(* The protocol of syncWith, initSync and finishSync keeps the promise of  *)
(* KeyDistribution: a worker installs, setter by setter, only copies that  *)
(* the leader made for an identical enclave while the worker waited for    *)
(* this very sync, and its one seat is freed by nothing else.              *)
(***************************************************************************)
THEOREM Refinement == Spec => ImplementsKeyDistribution
<1>1. Init => Distribution!Init
  BY InitSimulation
<1>2. IInv /\ [Next]_vars => [Distribution!Next]_(Distribution!vars)
  BY StepSimulation
<1> QED
  BY <1>1, <1>2, Invariance, PTL DEF Spec, Distribution!Spec, ImplementsKeyDistribution

=============================================================================
