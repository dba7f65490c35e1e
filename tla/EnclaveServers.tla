--------------------------- MODULE EnclaveServers ---------------------------
(***************************************************************************)
(* The start of an enclave and what its clients see: Enclave.Start with    *)
(* its two ways to get a certificate, startWebServers with the gate that   *)
(* the application opens (enclave.go), the endpoints readyHandler,         *)
(* hashHandler and attestationHandler (handlers.go), and the hashes that   *)
(* attestation documents carry (attestation.go).                           *)
(*                                                                         *)
(* AttestationHashes is shared without a lock between the handlers.  A     *)
(* hash is written and read in two halves, which is enough to see that a   *)
(* copy of 32 bytes is not atomic; in the body of a POST, a half is as     *)
(* long as the newline that may follow.  The application makes one POST at *)
(* a time.  Ports are free: the exits of a server that cannot listen are   *)
(* left out, as are Stop and the flag that mocks the fingerprint.          *)
(***************************************************************************)
EXTENDS Attestation, LimitReader

CONSTANTS
  Configs,   \* the configurations that the enclave may be started with
  Request,   \* attestation requests of clients
  Hash,      \* the hashes that the application registers
  Zero,      \* half a hash of zero bytes
  PCRs,      \* the enclave's registers
  Bodies,    \* what the application may POST: characters, length, and end
  MaxPosts   \* bound on the application's POSTs

Config == [useACME : BOOLEAN, waitForApp : BOOLEAN, useProfiling : BOOLEAN,
           isWorker : BOOLEAN]

ASSUME ConfigsAssumption == Configs \subseteq Config
ASSUME BodiesAssumption ==
  Bodies \subseteq [chars : Nat, len : Nat, end : {"EOF", "error"}]
ASSUME ZeroAssumption == Zero \notin Hash
ASSUME MaxPostsAssumption == MaxPosts \in Nat

VARIABLES
  cfg,        \* e.cfg; isWorker: leader designation makes it a worker
  start,      \* where Start is
  server,     \* the three web servers: "off", "starting", "up"
  exited,     \* has elog.Fatalf ended the process?
  httpsCert,  \* the certificate that clients are shown
  acmeCache,  \* does the ACME client's cache hold a certificate?
  tlsKeyHash, \* the certificate whose fingerprint documents carry
  appKeyHash, \* the two halves of the application's hash
  closes,     \* how often e.ready has been closed
  body,       \* the body that hashHandler reads: its hash, how far it has got
  post,       \* the hash that hashHandler copies: the halves still to copy
  posts,      \* the number of POSTs so far
  stage,      \* where each attestation request is
  conn,       \* the certificate of its connection
  hashes,     \* what Serialize has read for it
  registered, \* history: the hash that was last registered
  atReady,    \* history: its value when the application signalled readiness
  raced       \* history: requests served while hashHandler copied a hash

startVars   == <<cfg, start, server, exited>>
certVars    == <<httpsCert, acmeCache, tlsKeyHash>>
appVars     == <<appKeyHash, body, post, posts, registered>>
readyVars   == <<closes, atReady>>
requestVars == <<stage, conn, hashes, raced>>
vars == <<startVars, certVars, appVars, readyVars, requestVars>>

Server == {"intSrv", "extPrivSrv", "extPubSrv"}
Half   == {1, 2}
NoPost == [hash |-> Zero, left |-> {}]
NoBody == [hash |-> Zero, of |-> [chars |-> 0, len |-> 0, end |-> "EOF"],
           got |-> 0, err |-> "none"]

Init ==
  /\ cfg \in Configs
  /\ start = "cert"
  /\ server = [s \in Server |-> "off"]
  /\ exited = FALSE
  /\ httpsCert = "none"
  /\ acmeCache = FALSE
  /\ tlsKeyHash = "none"
  /\ appKeyHash = [i \in Half |-> Zero]
  /\ closes = 0
  /\ body = NoBody
  /\ post = NoPost
  /\ posts = 0
  /\ stage = [r \in Request |-> "idle"]
  /\ conn = [r \in Request |-> "none"]
  /\ hashes = [r \in Request |-> [tls |-> "none", app |-> [i \in Half |-> Zero]]]
  /\ registered = Zero
  /\ atReady = Zero
  /\ raced = {}

-----------------------------------------------------------------------------
(* Start. *)

(* A mutant: the fingerprint is not set. *)
genSelfSignedCertNoFingerprint ==
  /\ ~exited
  /\ start = "cert" /\ ~cfg.useACME
  /\ httpsCert' = "own"
  /\ start' = "servers"
  /\ UNCHANGED <<cfg, server, exited, acmeCache, tlsKeyHash, appVars, readyVars,
                 requestVars>>

(* The certificate, its fingerprint, and the configuration of both servers. *)
genSelfSignedCert ==
  /\ ~exited
  /\ start = "cert" /\ ~cfg.useACME
  /\ httpsCert' = "own"
  /\ tlsKeyHash' = "own"
  /\ start' = "servers"
  /\ UNCHANGED <<cfg, server, exited, acmeCache, appVars, readyVars, requestVars>>

(* Only the public server is configured; a goroutine waits for the cache. *)
setupAcme ==
  /\ ~exited
  /\ start = "cert" /\ cfg.useACME
  /\ start' = "servers"
  /\ UNCHANGED <<cfg, server, exited, certVars, appVars, readyVars, requestVars>>

(* That goroutine finds a certificate in the cache. *)
AcmeFingerprint ==
  /\ ~exited
  /\ cfg.useACME /\ acmeCache
  /\ tlsKeyHash = "none"
  /\ tlsKeyHash' = "acme"
  /\ UNCHANGED <<startVars, httpsCert, acmeCache, appVars, readyVars, requestVars>>

(* One goroutine per server; Start goes on. *)
startWebServers ==
  /\ ~exited
  /\ start = "servers"
  /\ start' = "done"
  /\ server' = [s \in Server |-> "starting"]
  /\ UNCHANGED <<cfg, exited, certVars, appVars, readyVars, requestVars>>

(* Mutants: the gate is forgotten; it is closed for everybody. *)
GateIgnored == TRUE
GateForAll  == closes > 0

(* if e.cfg.WaitForApp { <-e.ready } *)
Gate == cfg.waitForApp => closes > 0

(***************************************************************************)
(* What net/http makes of ListenAndServeTLS("", ""): without a certificate *)
(* in its TLS configuration the server looks for one in the files that it  *)
(* is given, and fails.                                                    *)
(***************************************************************************)
HasCertificate(s) == s = "extPrivSrv" => ~cfg.useACME

Serve(s) ==
  /\ ~exited
  /\ server[s] = "starting"
  /\ s = "extPubSrv" => Gate
  /\ IF HasCertificate(s)
     THEN server' = [server EXCEPT ![s] = "up"] /\ UNCHANGED exited
     ELSE server' = [t \in Server |-> "off"] /\ exited' = TRUE
  /\ UNCHANGED <<cfg, start, certVars, appVars, readyVars, requestVars>>

(* A worker installs the leader's certificate. *)
setupWorkerPostSync ==
  /\ ~exited
  /\ cfg.isWorker
  /\ server["extPrivSrv"] = "up"
  /\ httpsCert' = "leader"
  /\ UNCHANGED <<startVars, acmeCache, tlsKeyHash, appVars, readyVars, requestVars>>

-----------------------------------------------------------------------------
(* The application. *)

(* A mutant: the channel is closed on every request. *)
readyHandlerNoOnce ==
  /\ ~exited
  /\ cfg.waitForApp
  /\ server["intSrv"] = "up"
  /\ closes' = closes + 1
  /\ atReady' = registered
  /\ UNCHANGED <<startVars, certVars, appVars, requestVars>>

(* The first request closes e.ready; the endpoint exists only with the gate. *)
readyHandler ==
  /\ ~exited
  /\ cfg.waitForApp
  /\ server["intSrv"] = "up"
  /\ closes = 0
  /\ closes' = 1
  /\ atReady' = registered
  /\ UNCHANGED <<startVars, certVars, appVars, requestVars>>

(* base64.StdEncoding.EncodedLen(sha256.Size), and room for a newline. *)
HashLen    == 2
maxReadLen == HashLen + 1

(* A POST to hashHandler, which starts to read. *)
hashHandler(h, b) ==
  /\ ~exited
  /\ server["intSrv"] = "up"
  /\ body = NoBody /\ post = NoPost
  /\ posts < MaxPosts
  /\ posts' = posts + 1
  /\ body' = [hash |-> h, of |-> b, got |-> 0, err |-> "nil"]
  /\ UNCHANGED <<startVars, certVars, appKeyHash, post, registered, readyVars,
                 requestVars>>

(* One Read of io.ReadAll. *)
ReadBody ==
  /\ ~exited
  /\ body.err = "nil"
  /\ \E o \in LimitedRead(maxReadLen - body.got, body.of.len - body.got, body.of.end) :
       body' = [body EXCEPT !.got = @ + o.n, !.err = o.err]
  /\ UNCHANGED <<startVars, certVars, appKeyHash, post, posts, registered, readyVars,
                 requestVars>>

(* A mutant: a hash may be too short. *)
RightSizeOrShort(size) == size <= HashLen

(* len(keyHash) != sha256.Size *)
RightSize(size) == size = HashLen

(* strings.TrimSpace leaves the characters. *)
Trimmed == IF body.got < body.of.chars THEN body.got ELSE body.of.chars

(***************************************************************************)
(* The rest of hashHandler: 400 beyond the limit, 500 after another error  *)
(* but no return; then 400, or copy, for as much as has been read.         *)
(***************************************************************************)
DecodeHash ==
  /\ ~exited
  /\ body.err \notin {"none", "nil"}
  /\ body' = NoBody
  /\ post' = IF body.err # "tooMuch" /\ RightSize(Trimmed)
             THEN [hash |-> body.hash, left |-> {i \in Half : i <= Trimmed}] ELSE NoPost
  /\ UNCHANGED <<startVars, certVars, appKeyHash, posts, registered, readyVars,
                 requestVars>>

Reading == {r \in Request : stage[r] \in {"serialize", "tls", "app1"}}

(* copy(e.hashes.appKeyHash[:], keyHash) *)
CopyHalf(i) ==
  /\ ~exited
  /\ i \in post.left
  /\ appKeyHash' = [appKeyHash EXCEPT ![i] = post.hash]
  /\ IF post.left = {i}
     THEN post' = NoPost /\ registered' = post.hash
     ELSE post' = [post EXCEPT !.left = @ \ {i}] /\ UNCHANGED registered
  /\ raced' = raced \cup Reading
  /\ UNCHANGED <<startVars, certVars, body, posts, readyVars, stage, conn, hashes>>

-----------------------------------------------------------------------------
(* Clients. *)

(* certRetriever.get, or the ACME client; "none" is errUninitializedCert. *)
GetCertificate == IF cfg.useACME THEN "acme" ELSE httpsCert

(* The first handshake has the ACME client put a certificate into certCache. *)
CachePut == acmeCache' = (acmeCache \/ cfg.useACME)

(* The handshake. *)
Connect(r) ==
  /\ ~exited
  /\ stage[r] = "idle"
  /\ server["extPubSrv"] = "up"
  /\ GetCertificate # "none"
  /\ stage' = [stage EXCEPT ![r] = "connected"]
  /\ conn' = [conn EXCEPT ![r] = GetCertificate]
  /\ CachePut
  /\ UNCHANGED <<startVars, httpsCert, tlsKeyHash, appVars, readyVars, hashes, raced>>

(* attestationHandler starts to serialize the hashes ... *)
attestationHandler(r) ==
  /\ ~exited
  /\ stage[r] = "connected"
  /\ ~cfg.useProfiling
  /\ stage' = [stage EXCEPT ![r] = "serialize"]
  /\ raced' = IF post # NoPost THEN raced \cup {r} ELSE raced
  /\ UNCHANGED <<startVars, certVars, appVars, readyVars, conn, hashes>>

(* ... or refuses: profiling, no nonce, no document from the hypervisor. *)
AttestationRefused(r) ==
  /\ ~exited
  /\ stage[r] = "connected"
  /\ stage' = [stage EXCEPT ![r] = "refused"]
  /\ UNCHANGED <<startVars, certVars, appVars, readyVars, conn, hashes, raced>>

(* AttestationHashes.Serialize reads one hash after the other. *)
SerializeTLS(r) ==
  /\ ~exited
  /\ stage[r] = "serialize"
  /\ stage' = [stage EXCEPT ![r] = "tls"]
  /\ hashes' = [hashes EXCEPT ![r].tls = tlsKeyHash]
  /\ UNCHANGED <<startVars, certVars, appVars, readyVars, conn, raced>>

SerializeApp(r, i) ==
  /\ ~exited
  /\ stage[r] = IF i = 1 THEN "tls" ELSE "app1"
  /\ stage' = [stage EXCEPT ![r] = IF i = 1 THEN "app1" ELSE "done"]
  /\ hashes' = [hashes EXCEPT ![r].app[i] = appKeyHash[i]]
  /\ UNCHANGED <<startVars, certVars, appVars, readyVars, conn, raced>>

(* What the client finds in the document. *)
Document(r) == createAttstn(clientAuxInfo(r, hashes[r]), PCRs)

-----------------------------------------------------------------------------
StartStep == genSelfSignedCert \/ setupAcme \/ startWebServers

Next ==
  \/ StartStep
  \/ \E s \in Server : Serve(s)
  \/ AcmeFingerprint
  \/ setupWorkerPostSync
  \/ readyHandler
  \/ \E h \in Hash, b \in Bodies : hashHandler(h, b)
  \/ ReadBody
  \/ DecodeHash
  \/ \E i \in Half : CopyHalf(i)
  \/ \E r \in Request : \/ Connect(r) \/ attestationHandler(r)
                        \/ AttestationRefused(r) \/ SerializeTLS(r)
                        \/ \E i \in Half : SerializeApp(r, i)

Spec == Init /\ [][Next]_vars

(* The goroutines of Start run; nothing is assumed of application and clients. *)
Fairness ==
  /\ WF_vars(StartStep)
  /\ \A s \in Server : WF_vars(Serve(s))

FairSpec == Spec /\ Fairness

-----------------------------------------------------------------------------
Cert == {"none", "own", "acme", "leader"}

(* Types; among them, e.ready is closed at most once (a second close panics). *)
TypeOK ==
  /\ cfg \in Configs
  /\ start \in {"cert", "servers", "done"}
  /\ server \in [Server -> {"off", "starting", "up"}]
  /\ exited \in BOOLEAN /\ acmeCache \in BOOLEAN
  /\ httpsCert \in Cert /\ tlsKeyHash \in Cert
  /\ appKeyHash \in [Half -> Hash \cup {Zero}]
  /\ closes \in 0..1
  /\ body \in [hash : Hash \cup {Zero}, of : Bodies, got : 0 .. maxReadLen,
               err : {"nil", "EOF", "error", "tooMuch"}] \cup {NoBody}
  /\ post \in [hash : Hash \cup {Zero}, left : SUBSET Half]
  /\ posts \in 0..MaxPosts
  /\ stage \in [Request -> {"idle", "connected", "refused", "serialize", "tls", "app1",
                            "done"}]
  /\ conn \in [Request -> Cert]
  /\ hashes \in [Request -> [tls : Cert, app : [Half -> Hash \cup {Zero}]]]
  /\ registered \in Hash \cup {Zero} /\ atReady \in Hash \cup {Zero}
  /\ raced \subseteq Request

Issued == {r \in Request : stage[r] = "done"}

(***************************************************************************)
(* The gate of -wait-for-app does what readyHandler's comment says: when   *)
(* the application registers its hash before it signals readiness, no      *)
(* client ever gets a document that lacks the application's hash, or half  *)
(* of it.                                                                  *)
(***************************************************************************)
DocumentsCarryAppHash ==
  cfg.waitForApp /\ atReady # Zero =>
    \A r \in Issued, i \in Half : Document(r).userData.app[i] # Zero

(***************************************************************************)
(* hashHandler refuses what is not exactly one hash and Serialize takes    *)
(* both halves: a document that was not made while hashHandler copied      *)
(* carries one hash that the application registered, not a mixture of an   *)
(* old and a new one.                                                      *)
(***************************************************************************)
DocumentsCarryOneHash ==
  \A r \in Issued \ raced :
    Document(r).userData.app[1] = Document(r).userData.app[2]

(***************************************************************************)
(* The limit of limitReader is exact, however the body arrives and whether *)
(* EOF comes with its last bytes or after them: hashHandler sees EOF when  *)
(* it has all of a body within the limit, and refuses as too long only a   *)
(* body that is, or one whose connection broke at the limit.               *)
(***************************************************************************)
LimitIsExact ==
  /\ body.err = "EOF" => body.got = body.of.len /\ body.of.len <= maxReadLen
  /\ body.err = "tooMuch" => body.of.len > maxReadLen \/ body.of.end = "error"

(***************************************************************************)
(* The fingerprint in a document is that of the certificate that protects  *)
(* the connection it is sent over (setCertFingerprint's comment).          *)
(***************************************************************************)
DocumentsBindCertificate ==
  \A r \in Issued : Document(r).userData.tls = conn[r]

(***************************************************************************)
(* As far as the code keeps that promise: an enclave that never installs a *)
(* leader's certificate binds its own one, except that with ACME the       *)
(* fingerprint may still be missing.                                       *)
(***************************************************************************)
DocumentsBindOwnCertificate ==
  ~cfg.isWorker =>
    \A r \in Issued :
      \/ Document(r).userData.tls = conn[r]
      \/ cfg.useACME /\ Document(r).userData.tls = "none"

Released == start = "done" /\ (closes = 1 \/ ~cfg.waitForApp)
AllUp    == \A s \in Server : server[s] = "up"

(* Once released by the application, all web servers are up for good. *)
ServersStayUp == Released ~> []AllUp

(***************************************************************************)
(* The same with a self-signed certificate: the gate is released by the    *)
(* application, and only by it where there is one.                         *)
(***************************************************************************)
SelfSignedServersStayUp ==
  (Released /\ ~cfg.useACME) ~> []AllUp

=============================================================================
