------------------------------ MODULE KeySync ------------------------------
(***************************************************************************)
(* Key synchronization between the leader enclave and its workers:         *)
(* leaderSync.syncWith (sync_leader.go), workerSync.initSync and           *)
(* workerSync.finishSync (sync_worker.go) and the installation of the      *)
(* received keys (setupWorkerPostSync in enclave.go).                      *)
(*                                                                         *)
(* A sync is one call of syncWith, a goroutine of the leader: a GET that   *)
(* the worker's initSync answers, then a POST that its finishSync answers. *)
(* The two handlers are goroutines of the worker and outlive the leader's  *)
(* three-second client timeout.  They meet in two channels of capacity     *)
(* one, s.nonce and s.ephemeralKeys.                                       *)
(*                                                                         *)
(* The identifier of a sync also names the nonces and the ephemeral key    *)
(* drawn for it.  An identifier is used again only when no goroutine, no   *)
(* request in flight and no channel holds it, which is what a fresh random *)
(* number is.                                                              *)
(*                                                                         *)
(* Key material is named by the revision at which the leader got it: the   *)
(* leader's certificate by the revision of its start, the application keys *)
(* by the revision of the PUT that set them (0: none).                     *)
(***************************************************************************)
EXTENDS Attestation

CONSTANTS
  Worker,       \* worker enclaves
  Sync,         \* identifiers of the calls of syncWith alive at one time
  Empty,        \* the content of an empty channel
  NoBody,       \* there is no POST
  LeaderPCRs,   \* the leader's platform configuration registers
  WorkerPCRs,   \* those of each worker
  LargeState,   \* revisions whose key material does not fit in a POST body
  MaxRev,       \* bound on the leader's revisions (PUTs and restarts)
  FaultKinds,   \* the faults the environment may cause
  MaxFaults     \* bound on their number

ASSUME EmptyAssumption == Empty \notin Sync
ASSUME BoundAssumption == MaxRev \in Nat /\ MaxFaults \in Nat

VARIABLES
  rev,         \* the leader's current revision
  leaderKeys,  \* the leader's enclaveKeys
  client,      \* where each call of syncWith is
  target,      \* the worker it talks to
  body,        \* the body of its POST
  get,         \* the GET request and the initSync goroutine that serves it
  post,        \* the POST request and the finishSync goroutine
  nonceCh,     \* each worker's s.nonce
  ephemeralCh, \* each worker's s.ephemeralKeys
  keys,        \* each worker's enclaveKeys
  httpsCert,   \* the certificate each worker's web servers present
  issuedAt,    \* history: the revision when the worker drew the nonce that the
               \* sync's POST was checked against (is to be checked against)
  faults       \* number of faults so far

leaderVars  == <<rev, leaderKeys>>
clientVars  == <<client, target, body>>
channelVars == <<nonceCh, ephemeralCh>>
keyVars     == <<keys, httpsCert>>
vars == <<leaderVars, clientVars, get, post, channelVars, keyVars, issuedAt, faults>>

-----------------------------------------------------------------------------
(* State spaces. *)

EnclaveKeys == [nitriding : Nat, app : Nat]

(* The self-signed certificate of a worker that has not synced yet. *)
OwnKeys == [nitriding |-> 0, app |-> 0]

(* "stale" is an "ok" in flight whose sender has restarted in the meantime. *)
GetState  == {"none", "sent", "checked", "nonced", "ok", "stale", "err"}
PostState == {"none", "sent", "read", "verified", "opened", "appset", "keysset",
              "ok", "err"}

(* What a POST carries. *)
Box        == [box : EnclaveKeys, for : {"box"} \X Sync]
AttstnBody == [document : [pcrs : {LeaderPCRs}, nonce : {"worker"} \X Sync,
                           userData : [sha256 : Box], publicKey : {padding}],
               encryptedKeys : Box]

(* A mutant: the application keys are not copied. *)
copyNitridingKeys(k) == [k EXCEPT !.app = 0]

(* enclaveKeys.copy: a deep copy. *)
copy(k) == k

(* A mutant: a send replaces what is in the channel. *)
RoomAlways(channel) == TRUE

(* A send to a channel of capacity one goes ahead. *)
Room(channel) == channel = Empty

(* The latest revision that a set of keys contains. *)
Latest(k) == IF k.app > k.nitriding THEN k.app ELSE k.nitriding

-----------------------------------------------------------------------------
(* What a sync's messages carry. *)

LeadersNonce(s) == <<"leader", s>>
WorkersNonce(s) == <<"worker", s>>
BoxKey(s)       == <<"box", s>>

(* The document with which initSync answers. *)
InitSyncDoc(s) ==
  createAttstn(workerAuxInfo(WorkersNonce(s), LeadersNonce(s), BoxKey(s)),
               WorkerPCRs[target[s]])

(* What the leader makes of it. *)
WorkerAux(s) == verifyAttstn(InitSyncDoc(s), LeadersNonce(s), LeaderPCRs)

(* A mutant: the document vouches for the keys, not for the ciphertext. *)
attstnBodyHashOfKeys(aux, k) ==
  [document |-> createAttstn(leaderAuxInfo(aux.workersNonce, Sum256(k)), LeaderPCRs),
   encryptedKeys |-> SealAnonymous(k, aux.publicKey)]

(* The body of the POST: the sealed keys and a document with their hash. *)
attstnBody(aux, k) ==
  LET encrypted == SealAnonymous(k, aux.publicKey)
  IN  [document |-> createAttstn(leaderAuxInfo(aux.workersNonce, Sum256(encrypted)),
                                 LeaderPCRs),
       encryptedKeys |-> encrypted]

(* finishSync's verdict on it, given the nonce taken from the channel. *)
Accepts(s, n) ==
  LET aux == verifyAttstn(body[s].document, WorkersNonce(n), WorkerPCRs[target[s]])
  IN  aux.kind = "leader" /\ aux.hashOfEncrypted = Sum256(body[s].encryptedKeys)

(* The keys in it. *)
Received(s) == body[s].encryptedKeys.box

-----------------------------------------------------------------------------
Init ==
  /\ rev = 1
  /\ leaderKeys = [nitriding |-> 1, app |-> 0]
  /\ client = [s \in Sync |-> "idle"]
  /\ target \in [Sync -> Worker]
  /\ body = [s \in Sync |-> NoBody]
  /\ get = [s \in Sync |-> "none"]
  /\ post = [s \in Sync |-> "none"]
  /\ nonceCh = [w \in Worker |-> Empty]
  /\ ephemeralCh = [w \in Worker |-> Empty]
  /\ keys = [w \in Worker |-> OwnKeys]
  /\ httpsCert = [w \in Worker |-> 0]
  /\ issuedAt = [s \in Sync |-> 0]
  /\ faults = 0

(* A fault of one kind, within the bound. *)
Fault(kind) ==
  /\ kind \in FaultKinds
  /\ faults < MaxFaults
  /\ faults' = faults + 1

-----------------------------------------------------------------------------
(* The leader. *)

(* No live reference to the identifier is left. *)
Free(s) ==
  /\ client[s] = "idle"
  /\ get[s] \in {"none", "ok", "stale", "err"}
  /\ post[s] \in {"none", "ok", "err"}
  /\ \A w \in Worker : nonceCh[w] # s /\ ephemeralCh[w] # s

(* Steps 1 and 2 of syncWith: draw a nonce and send the GET. *)
SyncWith(s, w) ==
  /\ Free(s)
  /\ client' = [client EXCEPT ![s] = "get"]
  /\ target' = [target EXCEPT ![s] = w]
  /\ get' = [get EXCEPT ![s] = "sent"]
  /\ post' = [post EXCEPT ![s] = "none"]
  /\ body' = [body EXCEPT ![s] = NoBody]
  /\ issuedAt' = [issuedAt EXCEPT ![s] = 0]
  /\ UNCHANGED <<leaderVars, channelVars, keyVars, faults>>

(* Steps 3 to 6: verify the worker's document, copy the keys, POST them. *)
SyncWithPost(s) ==
  /\ client[s] = "get"
  /\ get[s] \in {"ok", "stale"}
  /\ LET aux == WorkerAux(s) IN
       /\ aux.kind = "worker"
       /\ body' = [body EXCEPT ![s] = attstnBody(aux, copy(leaderKeys))]
  /\ client' = [client EXCEPT ![s] = "post"]
  /\ post' = [post EXCEPT ![s] = "sent"]
  /\ UNCHANGED <<leaderVars, target, get, channelVars, keyVars, issuedAt, faults>>

(* The call ends; nothing of it is left but what the worker's channels hold. *)
SyncEnds(s) ==
  /\ client' = [client EXCEPT ![s] = "idle"]
  /\ body' = [body EXCEPT ![s] = NoBody]
  /\ get' = [get EXCEPT ![s] = "none"]
  /\ post' = [post EXCEPT ![s] = "none"]
  /\ issuedAt' = [issuedAt EXCEPT ![s] = IF nonceCh[target[s]] = s THEN @ ELSE 0]
  /\ UNCHANGED <<leaderVars, target, channelVars, keyVars, faults>>

(* syncWith returns nil. *)
SyncWithReturns(s) ==
  /\ client[s] = "post"
  /\ post[s] = "ok"
  /\ SyncEnds(s)

(* syncWith returns an error: a bad status, or a bad attestation document. *)
SyncWithFails(s) ==
  /\ \/ client[s] = "get"  /\ get[s] = "err"
     \/ client[s] = "get"  /\ get[s] \in {"ok", "stale"} /\ WorkerAux(s).kind = "error"
     \/ client[s] = "post" /\ post[s] = "err"
  /\ SyncEnds(s)

(***************************************************************************)
(* The three-second timeout of the HTTP client, or a local error between   *)
(* the two requests: the call returns an error, the worker's handler is    *)
(* not told.                                                               *)
(***************************************************************************)
SyncWithTimesOut(s) ==
  /\ client[s] \in {"get", "post"}
  /\ Fault("timeout")
  /\ client' = [client EXCEPT ![s] = "idle"]
  /\ UNCHANGED <<leaderVars, target, body, get, post, channelVars, keyVars, issuedAt>>

(* putStateHandler's setAppKeys. *)
SetLeaderAppKeys ==
  /\ rev < MaxRev
  /\ rev' = rev + 1
  /\ leaderKeys' = [leaderKeys EXCEPT !.app = rev + 1]
  /\ UNCHANGED <<clientVars, get, post, channelVars, keyVars, issuedAt, faults>>

(* The leader restarts: new certificate, no application keys, no syncs. *)
LeaderRestart ==
  /\ rev < MaxRev
  /\ Fault("leaderRestart")
  /\ rev' = rev + 1
  /\ leaderKeys' = [nitriding |-> rev + 1, app |-> 0]
  /\ client' = [s \in Sync |-> "idle"]
  /\ UNCHANGED <<target, body, get, post, channelVars, keyVars, issuedAt>>

-----------------------------------------------------------------------------
(* The worker's initSync. *)

(* Refuse with 429 while an ephemeral key is in the channel. *)
InitSync(s) ==
  /\ get[s] = "sent"
  /\ get' = [get EXCEPT ![s] = IF ephemeralCh[target[s]] # Empty THEN "err"
                               ELSE "checked"]
  /\ UNCHANGED <<leaderVars, clientVars, post, channelVars, keyVars, issuedAt, faults>>

(* s.nonce <- workersNonce *)
InitSyncNonce(s) ==
  /\ get[s] = "checked"
  /\ Room(nonceCh[target[s]])
  /\ nonceCh' = [nonceCh EXCEPT ![target[s]] = s]
  /\ get' = [get EXCEPT ![s] = "nonced"]
  /\ issuedAt' = [issuedAt EXCEPT ![s] = rev]
  /\ UNCHANGED <<leaderVars, clientVars, post, ephemeralCh, keyVars, faults>>

(* s.ephemeralKeys <- boxKey, and the response. *)
InitSyncKey(s) ==
  /\ get[s] = "nonced"
  /\ Room(ephemeralCh[target[s]])
  /\ ephemeralCh' = [ephemeralCh EXCEPT ![target[s]] = s]
  /\ get' = [get EXCEPT ![s] = "ok"]
  /\ UNCHANGED <<leaderVars, clientVars, post, nonceCh, keyVars, issuedAt, faults>>

(***************************************************************************)
(* The error paths of initSync: newNonce fails; newBoxKey fails and leaves *)
(* the nonce in its channel; createAttstn fails and leaves both (as does a *)
(* request without a valid nonce, which is answered 400 but not ended).    *)
(***************************************************************************)
InitSyncFails(s) ==
  /\ \/ /\ get[s] \in {"checked", "nonced"}
        /\ UNCHANGED ephemeralCh
     \/ /\ get[s] = "nonced"
        /\ Room(ephemeralCh[target[s]])
        /\ ephemeralCh' = [ephemeralCh EXCEPT ![target[s]] = s]
  /\ Fault("initSync")
  /\ get' = [get EXCEPT ![s] = "err"]
  /\ UNCHANGED <<leaderVars, clientVars, post, nonceCh, keyVars, issuedAt>>

-----------------------------------------------------------------------------
(* The worker's finishSync. *)

(* Read the body, which must not exceed maxAttstnBodyLen. *)
FinishSync(s) ==
  /\ post[s] = "sent"
  /\ post' = [post EXCEPT ![s] = IF Received(s).app \in LargeState THEN "err" ELSE "read"]
  /\ UNCHANGED <<leaderVars, clientVars, get, channelVars, keyVars, issuedAt, faults>>

(* verifyAttstn(attstnDoc, <-s.nonce) and the comparison of the hashes. *)
FinishSyncNonce(s) ==
  LET n == nonceCh[target[s]] IN
  /\ post[s] = "read"
  /\ n # Empty
  /\ nonceCh' = [nonceCh EXCEPT ![target[s]] = Empty]
  /\ post' = [post EXCEPT ![s] = IF Accepts(s, n) THEN "verified" ELSE "err"]
  /\ issuedAt' = [issuedAt EXCEPT ![s] = issuedAt[n]]
  /\ UNCHANGED <<leaderVars, clientVars, get, ephemeralCh, keyVars, faults>>

(* <-s.ephemeralKeys and the decryption. *)
FinishSyncKey(s) ==
  LET k == ephemeralCh[target[s]] IN
  /\ post[s] = "verified"
  /\ k # Empty
  /\ ephemeralCh' = [ephemeralCh EXCEPT ![target[s]] = Empty]
  /\ post' = [post EXCEPT ![s] = IF Opens(body[s].encryptedKeys, BoxKey(k))
                                 THEN "opened" ELSE "err"]
  /\ UNCHANGED <<leaderVars, clientVars, get, nonceCh, keyVars, issuedAt, faults>>

(* setupWorkerPostSync, e.keys.set: two setters, each under the lock. *)
SetAppKeys(s) ==
  /\ post[s] = "opened"
  /\ keys' = [keys EXCEPT ![target[s]].app = Received(s).app]
  /\ post' = [post EXCEPT ![s] = "appset"]
  /\ UNCHANGED <<leaderVars, clientVars, get, channelVars, httpsCert, issuedAt, faults>>

SetNitridingKeys(s) ==
  /\ post[s] = "appset"
  /\ keys' = [keys EXCEPT ![target[s]].nitriding = Received(s).nitriding]
  /\ post' = [post EXCEPT ![s] = "keysset"]
  /\ UNCHANGED <<leaderVars, clientVars, get, channelVars, httpsCert, issuedAt, faults>>

(* A mutant: the web servers keep their old certificate. *)
SetHTTPSCertNever(s) ==
  /\ post[s] = "keysset"
  /\ post' = [post EXCEPT ![s] = "ok"]
  /\ UNCHANGED <<leaderVars, clientVars, get, channelVars, keyVars, issuedAt, faults>>

(* e.httpsCert.set, and the response to the leader. *)
SetHTTPSCert(s) ==
  /\ post[s] = "keysset"
  /\ httpsCert' = [httpsCert EXCEPT ![target[s]] = Received(s).nitriding]
  /\ post' = [post EXCEPT ![s] = "ok"]
  /\ UNCHANGED <<leaderVars, clientVars, get, channelVars, keys, issuedAt, faults>>

-----------------------------------------------------------------------------
(* The network and the worker's process. *)

(* A request never reaches the worker. *)
LoseRequest(s) ==
  /\ Fault("loss")
  /\ \/ get[s] = "sent" /\ get' = [get EXCEPT ![s] = "err"] /\ UNCHANGED post
     \/ post[s] = "sent" /\ post' = [post EXCEPT ![s] = "err"] /\ UNCHANGED get
  /\ UNCHANGED <<leaderVars, clientVars, channelVars, keyVars, issuedAt>>

(***************************************************************************)
(* A worker restarts: its goroutines end (their clients see a broken       *)
(* connection), its channels are new, its certificate is self-signed.      *)
(* Requests and responses in flight stay in flight.                        *)
(***************************************************************************)
WorkerRestart(w) ==
  /\ Fault("workerRestart")
  /\ get' = [s \in Sync |->
       IF target[s] # w THEN get[s]
       ELSE IF get[s] \in {"checked", "nonced"} THEN "err"
       ELSE IF get[s] = "ok" THEN "stale" ELSE get[s]]
  /\ post' = [s \in Sync |->
       IF target[s] = w /\ post[s] \in {"read", "verified", "opened", "appset", "keysset"}
       THEN "err" ELSE post[s]]
  /\ nonceCh' = [nonceCh EXCEPT ![w] = Empty]
  /\ ephemeralCh' = [ephemeralCh EXCEPT ![w] = Empty]
  /\ keys' = [keys EXCEPT ![w] = OwnKeys]
  /\ httpsCert' = [httpsCert EXCEPT ![w] = 0]
  /\ UNCHANGED <<leaderVars, clientVars, issuedAt>>

-----------------------------------------------------------------------------
(* The steps of a sync after its start. *)
SyncStep(s) ==
  \/ SyncWithPost(s) \/ SyncWithReturns(s) \/ SyncWithFails(s)
  \/ InitSync(s) \/ InitSyncNonce(s) \/ InitSyncKey(s)
  \/ FinishSync(s) \/ FinishSyncNonce(s) \/ FinishSyncKey(s)
  \/ SetAppKeys(s) \/ SetNitridingKeys(s) \/ SetHTTPSCert(s)

SyncFault(s) == SyncWithTimesOut(s) \/ InitSyncFails(s) \/ LoseRequest(s)

Next ==
  \/ \E s \in Sync, w \in Worker : SyncWith(s, w)
  \/ \E s \in Sync : SyncStep(s)
  \/ \E s \in Sync : SyncFault(s)
  \/ \E w \in Worker : WorkerRestart(w)
  \/ SetLeaderAppKeys
  \/ LeaderRestart

Spec == Init /\ [][Next]_vars

-----------------------------------------------------------------------------
(* Properties. *)

(* Every variable has its type; the channels hold at most one element. *)
TypeOK ==
  /\ rev \in Nat
  /\ leaderKeys \in EnclaveKeys
  /\ client \in [Sync -> {"idle", "get", "post"}]
  /\ target \in [Sync -> Worker]
  /\ body \in [Sync -> AttstnBody \cup {NoBody}]
  /\ get \in [Sync -> GetState]
  /\ post \in [Sync -> PostState]
  /\ nonceCh \in [Worker -> Sync \cup {Empty}]
  /\ ephemeralCh \in [Worker -> Sync \cup {Empty}]
  /\ keys \in [Worker -> EnclaveKeys]
  /\ httpsCert \in [Worker -> Nat]
  /\ issuedAt \in [Sync -> Nat]
  /\ faults \in Nat

(***************************************************************************)
(* A POST that passed finishSync's nonce check finds the ephemeral key of  *)
(* its own sync in the channel: the receive does not block and decryption  *)
(* does not fail (errFailedToDecrypt is unreachable), whatever other syncs *)
(* of the same worker do in between.                                       *)
(***************************************************************************)
AcceptedFindsItsKey ==
  \A s \in Sync : post[s] = "verified" =>
    ephemeralCh[target[s]] = s /\ Opens(body[s].encryptedKeys, BoxKey(s))

(***************************************************************************)
(* Although initSync's check of the channel and its send are not atomic,   *)
(* at most one sync of a worker has been answered with a document and      *)
(* still waits for its POST to be decided.                                 *)
(***************************************************************************)
Open(s) == get[s] = "ok" /\ post[s] \in {"none", "sent", "read", "verified"}
OneOpenSync ==
  \A s, t \in Sync : Open(s) /\ Open(t) /\ target[s] = target[t] => s = t

(***************************************************************************)
(* The keys that finishSync installs were the leader's at a moment after   *)
(* the worker drew the nonce it took from s.nonce: a late POST with keys   *)
(* copied before, by an earlier sync or an earlier leader, never makes it  *)
(* through verifyAttstn and the decryption.                                *)
(***************************************************************************)
InstallsFreshKeys ==
  \A s \in Sync :
    post[s] \in {"opened", "appset", "keysset"} => Latest(Received(s)) >= issuedAt[s]

(***************************************************************************)
(* The leader sends its keys only to enclaves in which every register of   *)
(* its own but PCR4 has the same value, and only such enclaves ever hold   *)
(* them: verifyAttstn stands between every worker and the leader's keys.   *)
(***************************************************************************)
SameRegisters(w) ==
  \A pcr \in DOMAIN LeaderPCRs \ {4} :
    pcr \in DOMAIN WorkerPCRs[w] /\ WorkerPCRs[w][pcr] = LeaderPCRs[pcr]
KeysOnlyToIdenticalEnclaves ==
  /\ \A s \in Sync : post[s] # "none" => SameRegisters(target[s])
  /\ \A w \in Worker : keys[w] # OwnKeys => SameRegisters(w)

(***************************************************************************)
(* When no finishSync is installing keys at a worker, it holds either no   *)
(* key of the leader or both kinds, and presents the certificate it holds: *)
(* overlapping installations of one leader's keys do not tear them, though *)
(* enclaveKeys.set and httpsCert.set take three separate locks.  This      *)
(* takes a leader that has not restarted since the beginning: all copies   *)
(* of its keys then share one certificate.                                 *)
(***************************************************************************)
Quiet(w) ==
  \A s \in Sync : target[s] = w => post[s] \notin {"opened", "appset", "keysset"}
KeysNotTorn ==
  \A w \in Worker : leaderKeys.nitriding = 1 /\ Quiet(w) =>
    /\ keys[w] = OwnKeys \/ keys[w].nitriding = leaderKeys.nitriding
    /\ httpsCert[w] = keys[w].nitriding

=============================================================================
