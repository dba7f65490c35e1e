--------------------------- MODULE KeySyncProofs ---------------------------
(***************************************************************************)
(* Proofs about KeySync, for every number of workers, concurrent syncs,    *)
(* revisions and faults.  All rest on one inductive invariant, IInv.       *)
(***************************************************************************)
EXTENDS KeySync, TLAPS

Installing == {"opened", "appset", "keysset"}

(* A channel holds the nonce or key of a sync only once initSync sent it. *)
ChannelInv ==
  \A w \in Worker, s \in Sync :
    /\ nonceCh[w] = s => target[s] = w /\ get[s] \notin {"sent", "checked", "stale"}
    /\ ephemeralCh[w] = s =>
         target[s] = w /\ get[s] \notin {"sent", "checked", "nonced", "stale"}

(* How far the handlers and the leader's call have come together. *)
PhaseInv ==
  \A s \in Sync :
    /\ client[s] = "get" => post[s] = "none"
    /\ post[s] \in {"sent", "read"} => get[s] \in {"ok", "stale"}
    /\ post[s] \in {"verified"} \cup Installing => get[s] = "ok"

(* A POST was made for its own sync. *)
BodyInv ==
  \A s \in Sync : post[s] # "none" =>
    /\ body[s] \in AttstnBody
    /\ body[s].document.nonce = WorkersNonce(s)
    /\ body[s].encryptedKeys.for = BoxKey(s)

(* The key of a sync that is open is in the channel. *)
OpenInv == \A s \in Sync : Open(s) => ephemeralCh[target[s]] = s

(* The revisions are ordered as the keys were set and copied. *)
FreshInv ==
  /\ rev >= 1
  /\ Latest(leaderKeys) = rev
  /\ \A s \in Sync : issuedAt[s] <= rev
  /\ \A s \in Sync : post[s] \in {"sent", "read", "verified"} \cup Installing =>
       Latest(Received(s)) >= issuedAt[s]

(* What the installations of the first leader's keys do to a worker. *)
InstallInv ==
  leaderKeys.nitriding = 1 =>
    /\ \A s \in Sync : post[s] # "none" => Received(s).nitriding = 1
    /\ \A s \in Sync : post[s] = "keysset" => keys[target[s]].nitriding = 1
    /\ \A w \in Worker :
         /\ \/ keys[w] = OwnKeys
            \/ keys[w].nitriding = 1
            \/ \E s \in Sync : target[s] = w /\ post[s] = "appset"
         /\ \/ httpsCert[w] = keys[w].nitriding
            \/ \E s \in Sync : target[s] = w /\ post[s] = "keysset"

IInv ==
  /\ TypeOK
  /\ ChannelInv
  /\ PhaseInv
  /\ BodyInv
  /\ OpenInv
  /\ FreshInv
  /\ KeysOnlyToIdenticalEnclaves
  /\ InstallInv

-----------------------------------------------------------------------------
(* What the messages of a sync say. *)

(* The leader gets a worker's information out of initSync's document only  *)
(* if the registers agree, and then it is that of the sync.                *)
LEMMA WorkerAuxIsOwn ==
  ASSUME NEW s \in Sync, WorkerAux(s).kind = "worker"
  PROVE  /\ SameRegisters(target[s])
         /\ WorkerAux(s) = workerAuxInfo(WorkersNonce(s), LeadersNonce(s), BoxKey(s))
BY SMTT(30) DEF WorkerAux, InitSyncDoc, verifyAttstn, createAttstn, workerAuxInfo,
       leaderAuxInfo, AttstnError, WorkersNonce, LeadersNonce, BoxKey, padding, arePCRsIdentical,
       SameRegisters

(* The body that the leader builds from it. *)
LEMMA BodyIsOwn ==
  ASSUME NEW s \in Sync, NEW k \in EnclaveKeys,
         NEW aux, aux = workerAuxInfo(WorkersNonce(s), LeadersNonce(s), BoxKey(s))
  PROVE  /\ attstnBody(aux, k) \in AttstnBody
         /\ attstnBody(aux, k).document.nonce = WorkersNonce(s)
         /\ attstnBody(aux, k).encryptedKeys.for = BoxKey(s)
         /\ attstnBody(aux, k).encryptedKeys.box = k
BY DEF attstnBody, AttstnBody, Box, createAttstn, workerAuxInfo, leaderAuxInfo,
       SealAnonymous, Sum256, WorkersNonce, LeadersNonce, BoxKey

(* finishSync accepts a POST only against the nonce of its own sync. *)
LEMMA AcceptsOwnNonce ==
  ASSUME NEW s \in Sync, NEW n \in Sync, Accepts(s, n),
         body[s].document.nonce = WorkersNonce(s)
  PROVE  n = s
BY DEF Accepts, verifyAttstn, AttstnError, WorkersNonce

-----------------------------------------------------------------------------
(* Every step preserves the invariant. *)

(* A new call: its identifier is free, so nothing refers to it. *)
LEMMA SyncWithStep ==
  ASSUME IInv, NEW s \in Sync, NEW w \in Worker, SyncWith(s, w)
  PROVE  IInv'
<1>1. TypeOK'
  BY DEF IInv, SyncWith, leaderVars, channelVars, keyVars, TypeOK, GetState, PostState
<1>2. ChannelInv'
  BY DEF IInv, SyncWith, Free, channelVars, TypeOK, ChannelInv
<1>3. PhaseInv'
  BY DEF IInv, SyncWith, TypeOK, PhaseInv, Installing
<1>4. BodyInv'
  BY DEF IInv, SyncWith, TypeOK, BodyInv
<1>5. OpenInv'
  BY DEF IInv, SyncWith, channelVars, TypeOK, OpenInv, Open
<1>6. FreshInv'
  BY DEF IInv, SyncWith, leaderVars, TypeOK, FreshInv, Received, Installing
<1>7. KeysOnlyToIdenticalEnclaves'
  BY DEF IInv, SyncWith, keyVars, TypeOK, KeysOnlyToIdenticalEnclaves
<1>8. InstallInv'
  BY SMTT(30) DEF IInv, SyncWith, Free, leaderVars, keyVars, TypeOK, InstallInv, Received
<1> QED
  BY <1>1, <1>2, <1>3, <1>4, <1>5, <1>6, <1>7, <1>8 DEF IInv

(* The POST is made for its own sync, from keys that are the latest. *)
LEMMA SyncWithPostStep ==
  ASSUME IInv, NEW s \in Sync, SyncWithPost(s)
  PROVE  IInv'
<1> DEFINE new == attstnBody(WorkerAux(s), leaderKeys)
<1>a. /\ SameRegisters(target[s])
      /\ new \in AttstnBody
      /\ new.document.nonce = WorkersNonce(s)
      /\ new.encryptedKeys.for = BoxKey(s)
      /\ new.encryptedKeys.box = leaderKeys
  BY WorkerAuxIsOwn, BodyIsOwn DEF SyncWithPost, IInv, TypeOK
<1>b. body' = [body EXCEPT ![s] = new]
  BY DEF SyncWithPost, copy
<1> HIDE DEF new
<1>1. TypeOK'
  BY <1>a, <1>b DEF IInv, SyncWithPost, leaderVars, channelVars, keyVars, TypeOK,
       PostState
<1>2. PhaseInv'
  BY DEF IInv, SyncWithPost, TypeOK, PhaseInv, Installing
<1>3. BodyInv'
  BY <1>a, <1>b DEF IInv, SyncWithPost, TypeOK, BodyInv
<1>4. OpenInv'
  BY DEF IInv, SyncWithPost, channelVars, TypeOK, OpenInv, Open, PhaseInv
<1>5. FreshInv'
  BY <1>a, <1>b DEF IInv, SyncWithPost, leaderVars, TypeOK, FreshInv, Received
<1>6. KeysOnlyToIdenticalEnclaves'
  BY <1>a DEF IInv, SyncWithPost, keyVars, TypeOK, KeysOnlyToIdenticalEnclaves
<1>7. InstallInv'
  BY <1>a, <1>b, SMTT(30) DEF IInv, SyncWithPost, leaderVars, keyVars, TypeOK, InstallInv,
       Received, PhaseInv
<1>8. ChannelInv'
  BY DEF IInv, SyncWithPost, channelVars, ChannelInv
<1> QED
  BY <1>1, <1>2, <1>3, <1>4, <1>5, <1>6, <1>7, <1>8 DEF IInv

(* The end of a call whose POST is not in the worker's hands. *)
LEMMA SyncEndsStep ==
  ASSUME IInv, NEW s \in Sync, post[s] \in {"none", "ok", "err"}, SyncEnds(s)
  PROVE  IInv'
<1>1. TypeOK'
  BY DEF IInv, SyncEnds, leaderVars, channelVars, keyVars, TypeOK, GetState, PostState
<1>2. ChannelInv'
  BY DEF IInv, SyncEnds, channelVars, TypeOK, ChannelInv
<1>3. PhaseInv'
  BY DEF IInv, SyncEnds, TypeOK, PhaseInv, Installing
<1>4. BodyInv'
  BY DEF IInv, SyncEnds, TypeOK, BodyInv
<1>5. OpenInv'
  BY DEF IInv, SyncEnds, channelVars, TypeOK, OpenInv, Open
<1>6. FreshInv'
  BY DEF IInv, SyncEnds, leaderVars, TypeOK, FreshInv, Received, Installing
<1>7. KeysOnlyToIdenticalEnclaves'
  BY DEF IInv, SyncEnds, keyVars, TypeOK, KeysOnlyToIdenticalEnclaves
<1>8. InstallInv'
  BY SMTT(30) DEF IInv, SyncEnds, leaderVars, keyVars, TypeOK, InstallInv, Received
<1> QED
  BY <1>1, <1>2, <1>3, <1>4, <1>5, <1>6, <1>7, <1>8 DEF IInv

(* A timeout only moves the leader's goroutine. *)
LEMMA SyncWithTimesOutStep ==
  ASSUME IInv, NEW s \in Sync, SyncWithTimesOut(s)
  PROVE  IInv'
<1>1. TypeOK'
  BY DEF IInv, SyncWithTimesOut, Fault, leaderVars, channelVars, keyVars, TypeOK
<1>2. PhaseInv'
  BY DEF IInv, SyncWithTimesOut, TypeOK, PhaseInv
<1>3. (/\ ChannelInv
      /\ BodyInv
      /\ OpenInv
      /\ FreshInv
      /\ KeysOnlyToIdenticalEnclaves
      /\ InstallInv)'
  BY SMTT(30) DEF IInv, SyncWithTimesOut, leaderVars, channelVars, keyVars, ChannelInv,
       BodyInv, OpenInv, Open, FreshInv, Received, KeysOnlyToIdenticalEnclaves,
       InstallInv
<1> QED
  BY <1>1, <1>2, <1>3 DEF IInv

(* The 429 check. *)
LEMMA InitSyncStep ==
  ASSUME IInv, NEW s \in Sync, InitSync(s)
  PROVE  IInv'
<1>1. TypeOK'
  BY DEF IInv, InitSync, leaderVars, clientVars, channelVars, keyVars, TypeOK,
       GetState
<1>2. ChannelInv'
  BY DEF IInv, InitSync, clientVars, channelVars, TypeOK, ChannelInv
<1>3. PhaseInv'
  BY DEF IInv, InitSync, clientVars, TypeOK, PhaseInv
<1>4. OpenInv'
  BY DEF IInv, InitSync, clientVars, channelVars, TypeOK, OpenInv, Open
<1>5. (BodyInv /\ FreshInv /\ KeysOnlyToIdenticalEnclaves /\ InstallInv)'
  BY SMTT(30) DEF IInv, InitSync, leaderVars, clientVars, keyVars, BodyInv, FreshInv, Received,
       KeysOnlyToIdenticalEnclaves, InstallInv
<1> QED
  BY <1>1, <1>2, <1>3, <1>4, <1>5 DEF IInv

(* The nonce enters an empty channel. *)
LEMMA InitSyncNonceStep ==
  ASSUME IInv, NEW s \in Sync, InitSyncNonce(s)
  PROVE  IInv'
<1>1. TypeOK'
  BY DEF IInv, InitSyncNonce, leaderVars, clientVars, keyVars, TypeOK, GetState
<1>2. ChannelInv'
  BY DEF IInv, InitSyncNonce, clientVars, TypeOK, ChannelInv
<1>3. PhaseInv'
  BY DEF IInv, InitSyncNonce, clientVars, TypeOK, PhaseInv
<1>4. OpenInv'
  BY DEF IInv, InitSyncNonce, clientVars, TypeOK, OpenInv, Open
<1>5. FreshInv'
  BY DEF IInv, InitSyncNonce, leaderVars, clientVars, TypeOK, FreshInv, Received,
       PhaseInv
<1>6. (BodyInv /\ KeysOnlyToIdenticalEnclaves /\ InstallInv)'
  BY DEF IInv, InitSyncNonce, leaderVars, clientVars, keyVars, BodyInv,
       KeysOnlyToIdenticalEnclaves, InstallInv, Received
<1> QED
  BY <1>1, <1>2, <1>3, <1>4, <1>5, <1>6 DEF IInv

(* The ephemeral key enters an empty channel: the sync is open. *)
LEMMA InitSyncKeyStep ==
  ASSUME IInv, NEW s \in Sync, InitSyncKey(s)
  PROVE  IInv'
<1>1. TypeOK'
  BY DEF IInv, InitSyncKey, leaderVars, clientVars, keyVars, TypeOK, GetState
<1>2. ChannelInv'
  BY DEF IInv, InitSyncKey, clientVars, TypeOK, ChannelInv
<1>3. PhaseInv'
  BY DEF IInv, InitSyncKey, clientVars, TypeOK, PhaseInv
<1>4. OpenInv'
  BY EmptyAssumption DEF IInv, InitSyncKey, Room, clientVars, TypeOK, OpenInv, Open
<1>5. (BodyInv /\ FreshInv /\ KeysOnlyToIdenticalEnclaves /\ InstallInv)'
  BY SMTT(30) DEF IInv, InitSyncKey, leaderVars, clientVars, keyVars, BodyInv, FreshInv,
       Received, KeysOnlyToIdenticalEnclaves, InstallInv
<1> QED
  BY <1>1, <1>2, <1>3, <1>4, <1>5 DEF IInv

(* An error that leaves the channels as they are, or full. *)
LEMMA InitSyncFailsStep ==
  ASSUME IInv, NEW s \in Sync, InitSyncFails(s)
  PROVE  IInv'
<1>1. TypeOK'
  BY SMTT(30) DEF IInv, InitSyncFails, Fault, leaderVars, clientVars, keyVars, TypeOK, GetState
<1>2. ChannelInv'
  BY DEF IInv, InitSyncFails, clientVars, TypeOK, ChannelInv
<1>3. PhaseInv'
  BY DEF IInv, InitSyncFails, clientVars, TypeOK, PhaseInv
<1>4. OpenInv'
  BY EmptyAssumption DEF IInv, InitSyncFails, Room, clientVars, TypeOK, OpenInv, Open
<1>5. (BodyInv /\ FreshInv /\ KeysOnlyToIdenticalEnclaves /\ InstallInv)'
  BY SMTT(30) DEF IInv, InitSyncFails, leaderVars, clientVars, keyVars, BodyInv, FreshInv,
       Received, KeysOnlyToIdenticalEnclaves, InstallInv
<1> QED
  BY <1>1, <1>2, <1>3, <1>4, <1>5 DEF IInv

(* The body is read. *)
LEMMA FinishSyncStep ==
  ASSUME IInv, NEW s \in Sync, FinishSync(s)
  PROVE  IInv'
<1>1. TypeOK'
  BY DEF IInv, FinishSync, leaderVars, clientVars, channelVars, keyVars, TypeOK,
       PostState
<1>2. PhaseInv'
  BY DEF IInv, FinishSync, clientVars, TypeOK, PhaseInv, Installing
<1>3. BodyInv'
  BY DEF IInv, FinishSync, clientVars, TypeOK, BodyInv
<1>4. OpenInv'
  BY DEF IInv, FinishSync, clientVars, channelVars, TypeOK, OpenInv, Open
<1>5. FreshInv'
  BY DEF IInv, FinishSync, leaderVars, clientVars, TypeOK, FreshInv, Received
<1>6. KeysOnlyToIdenticalEnclaves'
  BY DEF IInv, FinishSync, clientVars, keyVars, TypeOK, KeysOnlyToIdenticalEnclaves
<1>7. InstallInv'
  BY SMTT(30) DEF IInv, FinishSync, leaderVars, clientVars, keyVars, TypeOK, InstallInv,
       Received
<1>8. ChannelInv'
  BY DEF IInv, FinishSync, clientVars, channelVars, ChannelInv
<1> QED
  BY <1>1, <1>2, <1>3, <1>4, <1>5, <1>6, <1>7, <1>8 DEF IInv

(* A nonce is taken; only the sync's own makes the POST accepted. *)
LEMMA FinishSyncNonceStep ==
  ASSUME IInv, NEW s \in Sync, FinishSyncNonce(s)
  PROVE  IInv'
<1>a. post'[s] = "verified" => nonceCh[target[s]] = s
  BY AcceptsOwnNonce DEF FinishSyncNonce, IInv, TypeOK, BodyInv
<1>1. TypeOK'
  BY DEF IInv, FinishSyncNonce, leaderVars, clientVars, keyVars, TypeOK, PostState
<1>2. ChannelInv'
  BY EmptyAssumption DEF IInv, FinishSyncNonce, clientVars, TypeOK, ChannelInv
<1>3. PhaseInv'
  BY <1>a DEF IInv, FinishSyncNonce, clientVars, TypeOK, PhaseInv, ChannelInv,
       Installing
<1>4. BodyInv'
  BY DEF IInv, FinishSyncNonce, clientVars, TypeOK, BodyInv
<1>5. OpenInv'
  BY DEF IInv, FinishSyncNonce, clientVars, TypeOK, OpenInv, Open
<1>6. FreshInv'
  BY <1>a DEF IInv, FinishSyncNonce, leaderVars, clientVars, TypeOK, FreshInv,
       Received, Installing
<1>7. KeysOnlyToIdenticalEnclaves'
  BY DEF IInv, FinishSyncNonce, clientVars, keyVars, TypeOK,
       KeysOnlyToIdenticalEnclaves
<1>8. InstallInv'
  BY DEF IInv, FinishSyncNonce, leaderVars, clientVars, keyVars, TypeOK, InstallInv,
       Received
<1> QED
  BY <1>1, <1>2, <1>3, <1>4, <1>5, <1>6, <1>7, <1>8 DEF IInv

(* The ephemeral key is taken: the sync is open no more. *)
LEMMA FinishSyncKeyStep ==
  ASSUME IInv, NEW s \in Sync, FinishSyncKey(s)
  PROVE  IInv'
<1>1. TypeOK'
  BY DEF IInv, FinishSyncKey, leaderVars, clientVars, keyVars, TypeOK, PostState
<1>2. ChannelInv'
  BY EmptyAssumption DEF IInv, FinishSyncKey, clientVars, TypeOK, ChannelInv
<1>3. PhaseInv'
  BY DEF IInv, FinishSyncKey, clientVars, TypeOK, PhaseInv
<1>4. BodyInv'
  BY DEF IInv, FinishSyncKey, clientVars, TypeOK, BodyInv
<1>5. OpenInv'
  BY DEF IInv, FinishSyncKey, clientVars, TypeOK, OpenInv, Open, PhaseInv
<1>6. FreshInv'
  BY DEF IInv, FinishSyncKey, leaderVars, clientVars, TypeOK, FreshInv, Received
<1>7. KeysOnlyToIdenticalEnclaves'
  BY DEF IInv, FinishSyncKey, clientVars, keyVars, TypeOK, KeysOnlyToIdenticalEnclaves
<1>8. InstallInv'
  BY SMTT(30) DEF IInv, FinishSyncKey, leaderVars, clientVars, keyVars, TypeOK, InstallInv,
       Received
<1> QED
  BY <1>1, <1>2, <1>3, <1>4, <1>5, <1>6, <1>7, <1>8 DEF IInv

(* The first of the three setters. *)
LEMMA SetAppKeysStep ==
  ASSUME IInv, NEW s \in Sync, SetAppKeys(s)
  PROVE  IInv'
<1>a. Received(s) \in EnclaveKeys
  BY DEF SetAppKeys, IInv, BodyInv, AttstnBody, Box, Received
<1>b. \A v \in Worker : /\ keys'[v].nitriding = keys[v].nitriding
                         /\ v # target[s] => keys'[v] = keys[v]
  BY DEF SetAppKeys, IInv, TypeOK, EnclaveKeys
<1>c. \A t \in Sync : post[t] \in {"appset", "keysset"} => post'[t] = post[t]
  BY DEF SetAppKeys, IInv, TypeOK
<1>d. post'[s] = "appset" /\ \A t \in Sync : post'[t] = "keysset" => post[t] = "keysset"
  BY DEF SetAppKeys, IInv, TypeOK
<1>1. TypeOK'
  BY <1>a, SMTT(30) DEF IInv, SetAppKeys, leaderVars, clientVars, channelVars, TypeOK,
       PostState, EnclaveKeys
<1>2. PhaseInv'
  BY DEF IInv, SetAppKeys, clientVars, TypeOK, PhaseInv, Installing
<1>3. BodyInv'
  BY DEF IInv, SetAppKeys, clientVars, TypeOK, BodyInv
<1>4. OpenInv'
  BY DEF IInv, SetAppKeys, clientVars, channelVars, TypeOK, OpenInv, Open
<1>5. FreshInv'
  BY DEF IInv, SetAppKeys, leaderVars, clientVars, TypeOK, FreshInv, Received,
       Installing
<1>6. KeysOnlyToIdenticalEnclaves'
  BY DEF IInv, SetAppKeys, clientVars, TypeOK, KeysOnlyToIdenticalEnclaves
<1>7. InstallInv'
  BY SMTT(30) DEF IInv, SetAppKeys, leaderVars, clientVars, TypeOK, InstallInv, Received
<1>8. ChannelInv'
  BY DEF IInv, SetAppKeys, clientVars, channelVars, ChannelInv
<1> QED
  BY <1>1, <1>2, <1>3, <1>4, <1>5, <1>6, <1>7, <1>8 DEF IInv

(* The second of the three setters. *)
LEMMA SetNitridingKeysStep ==
  ASSUME IInv, NEW s \in Sync, SetNitridingKeys(s)
  PROVE  IInv'
<1>a. Received(s) \in EnclaveKeys
  BY DEF SetNitridingKeys, IInv, BodyInv, AttstnBody, Box, Received
<1>1. TypeOK'
  BY <1>a, SMTT(30) DEF IInv, SetNitridingKeys, leaderVars, clientVars, channelVars, TypeOK,
       PostState, EnclaveKeys
<1>2. PhaseInv'
  BY DEF IInv, SetNitridingKeys, clientVars, TypeOK, PhaseInv, Installing
<1>3. BodyInv'
  BY DEF IInv, SetNitridingKeys, clientVars, TypeOK, BodyInv
<1>4. OpenInv'
  BY DEF IInv, SetNitridingKeys, clientVars, channelVars, TypeOK, OpenInv, Open
<1>5. FreshInv'
  BY DEF IInv, SetNitridingKeys, leaderVars, clientVars, TypeOK, FreshInv, Received,
       Installing
<1>6. KeysOnlyToIdenticalEnclaves'
  BY DEF IInv, SetNitridingKeys, clientVars, TypeOK, KeysOnlyToIdenticalEnclaves
<1>7. InstallInv'
  BY SMTT(30) DEF IInv, SetNitridingKeys, leaderVars, clientVars, TypeOK, InstallInv, Received
<1>8. ChannelInv'
  BY DEF IInv, SetNitridingKeys, clientVars, channelVars, ChannelInv
<1> QED
  BY <1>1, <1>2, <1>3, <1>4, <1>5, <1>6, <1>7, <1>8 DEF IInv

(* The third of the three setters. *)
LEMMA SetHTTPSCertStep ==
  ASSUME IInv, NEW s \in Sync, SetHTTPSCert(s)
  PROVE  IInv'
<1>a. Received(s) \in EnclaveKeys
  BY SMTT(30) DEF SetHTTPSCert, IInv, BodyInv, AttstnBody, Box, Received
<1>1. TypeOK'
  BY <1>a DEF IInv, SetHTTPSCert, leaderVars, clientVars, channelVars, TypeOK,
       PostState, EnclaveKeys
<1>2. PhaseInv'
  BY DEF IInv, SetHTTPSCert, clientVars, TypeOK, PhaseInv, Installing
<1>3. BodyInv'
  BY DEF IInv, SetHTTPSCert, clientVars, TypeOK, BodyInv
<1>4. OpenInv'
  BY DEF IInv, SetHTTPSCert, clientVars, channelVars, TypeOK, OpenInv, Open
<1>5. FreshInv'
  BY DEF IInv, SetHTTPSCert, leaderVars, clientVars, TypeOK, FreshInv, Received,
       Installing
<1>6. KeysOnlyToIdenticalEnclaves'
  BY DEF IInv, SetHTTPSCert, clientVars, TypeOK, KeysOnlyToIdenticalEnclaves
<1>7. InstallInv'
  BY SMTT(30) DEF IInv, SetHTTPSCert, leaderVars, clientVars, TypeOK, InstallInv, Received
<1>8. ChannelInv'
  BY DEF IInv, SetHTTPSCert, clientVars, channelVars, ChannelInv
<1> QED
  BY <1>1, <1>2, <1>3, <1>4, <1>5, <1>6, <1>7, <1>8 DEF IInv

(* A request is lost. *)
LEMMA LoseRequestStep ==
  ASSUME IInv, NEW s \in Sync, LoseRequest(s)
  PROVE  IInv'
<1>1. TypeOK'
  BY DEF IInv, LoseRequest, Fault, leaderVars, clientVars, channelVars, keyVars,
       TypeOK, GetState, PostState
<1>2. ChannelInv'
  BY DEF IInv, LoseRequest, clientVars, channelVars, TypeOK, ChannelInv
<1>3. PhaseInv'
  BY DEF IInv, LoseRequest, clientVars, TypeOK, PhaseInv, Installing
<1>4. BodyInv'
  BY DEF IInv, LoseRequest, clientVars, TypeOK, BodyInv
<1>5. OpenInv'
  BY DEF IInv, LoseRequest, clientVars, channelVars, TypeOK, OpenInv, Open
<1>6. FreshInv'
  BY DEF IInv, LoseRequest, leaderVars, clientVars, TypeOK, FreshInv, Received
<1>7. KeysOnlyToIdenticalEnclaves'
  BY DEF IInv, LoseRequest, clientVars, keyVars, TypeOK, KeysOnlyToIdenticalEnclaves
<1>8. InstallInv'
  BY SMTT(30) DEF IInv, LoseRequest, leaderVars, clientVars, keyVars, TypeOK, InstallInv,
       Received
<1> QED
  BY <1>1, <1>2, <1>3, <1>4, <1>5, <1>6, <1>7, <1>8 DEF IInv

(* A restart empties both channels and ends the handlers. *)
LEMMA WorkerRestartStep ==
  ASSUME IInv, NEW w \in Worker, WorkerRestart(w)
  PROVE  IInv'
<1>1. TypeOK'
  BY SMTT(30) DEF IInv, WorkerRestart, Fault, leaderVars, clientVars, TypeOK, GetState,
       PostState, EnclaveKeys, OwnKeys
<1>2. ChannelInv'
  BY EmptyAssumption DEF IInv, WorkerRestart, clientVars, TypeOK, ChannelInv
<1>3. PhaseInv'
  BY DEF IInv, WorkerRestart, clientVars, TypeOK, PhaseInv, Installing
<1>4. BodyInv'
  BY DEF IInv, WorkerRestart, clientVars, TypeOK, BodyInv
<1>5. OpenInv'
  BY DEF IInv, WorkerRestart, clientVars, TypeOK, OpenInv, Open
<1>6. FreshInv'
  BY DEF IInv, WorkerRestart, leaderVars, clientVars, TypeOK, FreshInv, Received,
       Installing
<1>7. KeysOnlyToIdenticalEnclaves'
  BY DEF IInv, WorkerRestart, clientVars, TypeOK, KeysOnlyToIdenticalEnclaves
<1>8. InstallInv'
  <2>1. UNCHANGED <<leaderKeys, target, body>>
    BY DEF WorkerRestart, leaderVars, clientVars
  <2>2. \A s \in Sync : post'[s] # "none" => post[s] # "none"
    BY DEF IInv, WorkerRestart, TypeOK
  <2>3. /\ \A s \in Sync : target[s] # w => post'[s] = post[s]
        /\ \A s \in Sync : target[s] = w => post'[s] \notin {"appset", "keysset"}
    BY DEF IInv, WorkerRestart, TypeOK
  <2>4. /\ keys'[w] = OwnKeys /\ httpsCert'[w] = 0
        /\ \A v \in Worker \ {w} : keys'[v] = keys[v] /\ httpsCert'[v] = httpsCert[v]
    BY DEF IInv, WorkerRestart, TypeOK
  <2>5. target \in [Sync -> Worker]
    BY DEF IInv, TypeOK
  <2>6. \A s \in Sync : Received(s)' = Received(s)
    BY <2>1 DEF Received
  <2> SUFFICES ASSUME leaderKeys.nitriding = 1
               PROVE  InstallInv!2'
    BY <2>1 DEF InstallInv
  <2>7. \A s \in Sync : post'[s] # "none" => Received(s)'.nitriding = 1
    BY <2>2, <2>6 DEF IInv, InstallInv
  <2>8. \A s \in Sync : post'[s] = "keysset" => keys'[target'[s]].nitriding = 1
    <3> TAKE s \in Sync
    <3> HAVE post'[s] = "keysset"
    <3>1. target[s] \in Worker \ {w} /\ post[s] = "keysset"
      BY <2>3, <2>5
    <3>2. keys[target[s]].nitriding = 1
      BY <3>1 DEF IInv, InstallInv
    <3> QED
      BY <3>1, <3>2, <2>1, <2>4
  <2>9. ASSUME NEW v \in Worker
        PROVE  /\ \/ keys'[v] = OwnKeys
                  \/ keys'[v].nitriding = 1
                  \/ \E s \in Sync : target'[s] = v /\ post'[s] = "appset"
               /\ \/ httpsCert'[v] = keys'[v].nitriding
                  \/ \E s \in Sync : target'[s] = v /\ post'[s] = "keysset"
    <3>1. CASE v = w
      BY <3>1, <2>4 DEF OwnKeys
    <3>2. CASE v # w
      BY <3>2, <2>1, <2>3, <2>4 DEF IInv, InstallInv
    <3> QED
      BY <3>1, <3>2
  <2> QED
    BY <2>7, <2>8, <2>9
<1> QED
  BY <1>1, <1>2, <1>3, <1>4, <1>5, <1>6, <1>7, <1>8 DEF IInv

(* A PUT makes the leader's keys newer than every nonce. *)
LEMMA SetLeaderAppKeysStep ==
  ASSUME IInv, SetLeaderAppKeys
  PROVE  IInv'
<1>1. TypeOK'
  BY SMTT(30) DEF IInv, SetLeaderAppKeys, clientVars, channelVars, keyVars, TypeOK, EnclaveKeys
<1>2. FreshInv'
  BY SMTT(30) DEF IInv, SetLeaderAppKeys, clientVars, TypeOK, FreshInv, Latest, Received,
       EnclaveKeys
<1>3. InstallInv'
  BY DEF IInv, SetLeaderAppKeys, clientVars, keyVars, TypeOK, InstallInv, Received
<1>4. (ChannelInv /\ PhaseInv /\ BodyInv /\ OpenInv /\ KeysOnlyToIdenticalEnclaves)'
  BY DEF IInv, SetLeaderAppKeys, clientVars, channelVars, keyVars, ChannelInv,
       PhaseInv, BodyInv, OpenInv, Open, KeysOnlyToIdenticalEnclaves
<1> QED
  BY <1>1, <1>2, <1>3, <1>4 DEF IInv

(* So does a restart of the leader. *)
LEMMA LeaderRestartStep ==
  ASSUME IInv, LeaderRestart
  PROVE  IInv'
<1>1. TypeOK'
  BY DEF IInv, LeaderRestart, Fault, channelVars, keyVars, TypeOK, EnclaveKeys
<1>2. PhaseInv'
  BY DEF IInv, LeaderRestart, TypeOK, PhaseInv
<1>3. FreshInv'
  <2>1. rev' = rev + 1 /\ Latest(leaderKeys') = rev'
    BY DEF IInv, LeaderRestart, TypeOK, Latest
  <2>2. UNCHANGED <<body, post, issuedAt>>
    BY DEF LeaderRestart
  <2>3. \A s \in Sync : Received(s)' = Received(s)
    BY <2>2 DEF Received
  <2>4. rev \in Nat /\ issuedAt \in [Sync -> Nat]
    BY DEF IInv, TypeOK
  <2> QED
    BY <2>1, <2>2, <2>3, <2>4 DEF IInv, FreshInv
<1>4. InstallInv'
  <2>1. leaderKeys'.nitriding = rev + 1 /\ rev \in Nat /\ rev >= 1
    BY DEF IInv, LeaderRestart, TypeOK, FreshInv
  <2>2. leaderKeys'.nitriding # 1
    BY <2>1
  <2> QED
    BY <2>2 DEF InstallInv
<1>5. (ChannelInv /\ BodyInv /\ OpenInv /\ KeysOnlyToIdenticalEnclaves)'
  BY DEF IInv, LeaderRestart, channelVars, keyVars, ChannelInv, BodyInv, OpenInv,
       Open, KeysOnlyToIdenticalEnclaves
<1> QED
  BY <1>1, <1>2, <1>3, <1>4, <1>5 DEF IInv

(* syncWith returns when its POST has been answered. *)
LEMMA SyncWithReturnsStep ==
  ASSUME IInv, NEW s \in Sync, SyncWithReturns(s)
  PROVE  IInv'
BY SyncEndsStep DEF SyncWithReturns

(* syncWith fails when the GET or the POST has been answered with an error. *)
LEMMA SyncWithFailsStep ==
  ASSUME IInv, NEW s \in Sync, SyncWithFails(s)
  PROVE  IInv'
<1>1. post[s] \in {"none", "ok", "err"}
  BY DEF SyncWithFails, IInv, PhaseInv
<1> QED
  BY <1>1, SyncEndsStep DEF SyncWithFails

(* A step of nobody. *)
LEMMA StutteringStep ==
  ASSUME IInv, UNCHANGED vars
  PROVE  IInv'
<1>1. UNCHANGED <<rev, leaderKeys, client, target, body, get, post, nonceCh, ephemeralCh,
                  keys, httpsCert, issuedAt, faults>>
  BY DEF vars, leaderVars, clientVars, channelVars, keyVars
<1>2. (TypeOK /\ ChannelInv /\ PhaseInv /\ BodyInv)'
  BY <1>1 DEF IInv, TypeOK, ChannelInv, PhaseInv, BodyInv
<1>3. (OpenInv /\ FreshInv)'
  BY <1>1 DEF IInv, OpenInv, Open, FreshInv, Received
<1>4. (KeysOnlyToIdenticalEnclaves /\ InstallInv)'
  BY <1>1 DEF IInv, KeysOnlyToIdenticalEnclaves, InstallInv, Received
<1> QED
  BY <1>2, <1>3, <1>4 DEF IInv

(* All steps together. *)
LEMMA NextStep ==
  ASSUME IInv, [Next]_vars
  PROVE  IInv'
<1>1. CASE \E s \in Sync, w \in Worker : SyncWith(s, w)
  BY <1>1, SyncWithStep
<1>2. CASE \E s \in Sync : SyncStep(s)
  BY <1>2, SyncWithPostStep, SyncWithReturnsStep, SyncWithFailsStep, InitSyncStep,
     InitSyncNonceStep, InitSyncKeyStep, FinishSyncStep, FinishSyncNonceStep,
     FinishSyncKeyStep, SetAppKeysStep, SetNitridingKeysStep, SetHTTPSCertStep
  DEF SyncStep
<1>3. CASE \E s \in Sync : SyncFault(s)
  BY <1>3, SyncWithTimesOutStep, InitSyncFailsStep, LoseRequestStep DEF SyncFault
<1>4. CASE \E w \in Worker : WorkerRestart(w)
  BY <1>4, WorkerRestartStep
<1>5. CASE SetLeaderAppKeys
  BY <1>5, SetLeaderAppKeysStep
<1>6. CASE LeaderRestart
  BY <1>6, LeaderRestartStep
<1>7. CASE UNCHANGED vars
  BY <1>7, StutteringStep
<1> QED
  BY <1>1, <1>2, <1>3, <1>4, <1>5, <1>6, <1>7 DEF Next

(* The invariant holds at the start. *)
LEMMA InitInv ==
  Init => IInv
<1> SUFFICES ASSUME Init PROVE IInv
  OBVIOUS
<1>1. TypeOK
  BY DEF Init, TypeOK, EnclaveKeys, OwnKeys, GetState, PostState
<1>2. ChannelInv /\ PhaseInv /\ BodyInv /\ OpenInv
  BY EmptyAssumption DEF Init, ChannelInv, PhaseInv, BodyInv, OpenInv, Open, Installing
<1>3. FreshInv
  BY DEF Init, FreshInv, Latest, Installing
<1>4. KeysOnlyToIdenticalEnclaves /\ InstallInv
  BY DEF Init, KeysOnlyToIdenticalEnclaves, InstallInv, OwnKeys
<1> QED
  BY <1>1, <1>2, <1>3, <1>4 DEF IInv

-----------------------------------------------------------------------------
(***************************************************************************)
(* The invariant holds in every state that leader, workers, lost requests, *)
(* timeouts and restarts can reach.                                        *)
(***************************************************************************)
THEOREM Invariance == Spec => []IInv
BY InitInv, NextStep, PTL DEF Spec

(* Type correctness; in particular no channel holds more than one element. *)
THEOREM TypeCorrectness == Spec => []TypeOK
<1>1. IInv => TypeOK
  BY DEF IInv
<1> QED
  BY <1>1, Invariance, PTL

(***************************************************************************)
(* A POST that passed the nonce check of finishSync finds the key of its   *)
(* own sync in s.ephemeralKeys, and that key decrypts it.                  *)
(***************************************************************************)
THEOREM AcceptedIsDecrypted == Spec => []AcceptedFindsItsKey
<1>1. IInv => AcceptedFindsItsKey
  BY DEF IInv, PhaseInv, BodyInv, OpenInv, Open, AcceptedFindsItsKey, Opens
<1> QED
  BY <1>1, Invariance, PTL

(***************************************************************************)
(* At most one sync of a worker is answered and undecided, although        *)
(* initSync's check of the channel and its send are two steps.             *)
(***************************************************************************)
THEOREM SyncsAreExclusive == Spec => []OneOpenSync
<1>1. IInv => OneOpenSync
  BY DEF IInv, OpenInv, OneOpenSync
<1> QED
  BY <1>1, Invariance, PTL

(***************************************************************************)
(* finishSync installs no keys that the leader copied before the worker    *)
(* drew the nonce that vouches for them: old POSTs are not replayed.       *)
(***************************************************************************)
THEOREM NoStaleInstall == Spec => []InstallsFreshKeys
<1>1. IInv => InstallsFreshKeys
  BY DEF IInv, FreshInv, InstallsFreshKeys, Installing
<1> QED
  BY <1>1, Invariance, PTL

(***************************************************************************)
(* syncWith sends the leader's keys only to enclaves with its registers,   *)
(* and no other enclave ever holds them.                                   *)
(***************************************************************************)
THEOREM KeysStayInFleet == Spec => []KeysOnlyToIdenticalEnclaves
<1>1. IInv => KeysOnlyToIdenticalEnclaves
  BY DEF IInv
<1> QED
  BY <1>1, Invariance, PTL

(***************************************************************************)
(* setupWorkerPostSync's three setters leave a worker of a leader that has *)
(* not restarted with a matching set of keys, however many installations   *)
(* overlap.                                                                *)
(***************************************************************************)
THEOREM InstallationsDoNotTear == Spec => []KeysNotTorn
<1>1. IInv => KeysNotTorn
  BY SMTT(30) DEF IInv, InstallInv, KeysNotTorn, Quiet
<1> QED
  BY <1>1, Invariance, PTL

=============================================================================
