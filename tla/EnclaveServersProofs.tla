------------------------ MODULE EnclaveServersProofs ------------------------
(***************************************************************************)
(* Proofs about EnclaveServers, for every set of configurations, requests  *)
(* and hashes, and every number of POSTs.                                  *)
(***************************************************************************)
EXTENDS EnclaveServers, TLAPS

(* The hash in memory: old, new, or in the middle of a copy. *)
CopyInv ==
  /\ post.left = {} <=> post = NoPost
  /\ post.left # {} => post.hash # Zero
  /\ post # NoPost => \A j \in Half \ post.left : appKeyHash[j] = post.hash
  /\ post.left \in {{}, Half} => appKeyHash[1] = appKeyHash[2]
  /\ registered # Zero => \A j \in Half : appKeyHash[j] # Zero

(* How far hashHandler has read. *)
BodyInv ==
  /\ body.err = "none" <=> body = NoBody
  /\ body.err # "none" =>
       /\ body.hash \in Hash /\ body.of.len \in Nat /\ body.of.end \in {"EOF", "error"}
       /\ post = NoPost
  /\ body.got <= body.of.len
  /\ LimitIsExact

(* The gate: no request before it opens, and the hash is there by then. *)
GateInv ==
  /\ cfg.waitForApp /\ server["extPubSrv"] = "up" => closes = 1
  /\ \A r \in Request : cfg.waitForApp /\ stage[r] # "idle" => closes = 1
  /\ atReady # Zero => registered # Zero /\ closes = 1

(* What Serialize has read so far. *)
ReadInv ==
  \A r \in Request :
    /\ cfg.waitForApp /\ atReady # Zero =>
         /\ stage[r] \in {"app1", "done"} => hashes[r].app[1] # Zero
         /\ stage[r] = "done" => hashes[r].app[2] # Zero
    /\ r \notin raced =>
         /\ r \in Reading => post.left \in {{}, Half}
         /\ stage[r] = "app1" => hashes[r].app[1] = appKeyHash[1]
         /\ stage[r] = "done" => hashes[r].app[1] = hashes[r].app[2]

(* The certificate of an enclave that is no worker. *)
CertInv ==
  /\ start = "cert" => server["extPubSrv"] = "off"
  /\ start = "servers" => server["extPubSrv"] = "off"
  /\ start # "cert" /\ ~cfg.useACME => tlsKeyHash = "own"
  /\ start # "cert" /\ ~cfg.useACME /\ ~cfg.isWorker => httpsCert = "own"
  /\ cfg.useACME => tlsKeyHash \in {"none", "acme"}
  /\ \A r \in Request :
       /\ stage[r] # "idle" =>
            /\ start = "done"
            /\ cfg.useACME => conn[r] = "acme"
            /\ ~cfg.useACME /\ ~cfg.isWorker => conn[r] = "own"
       /\ stage[r] \in {"tls", "app1", "done"} =>
            IF cfg.useACME THEN hashes[r].tls \in {"none", "acme"}
                           ELSE hashes[r].tls = "own"

IInv == TypeOK /\ BodyInv /\ CopyInv /\ GateInv /\ ReadInv /\ CertInv

(* What a Read may return when the body has "unread" bytes left. *)
LEMMA ReadOutcome ==
  ASSUME NEW limit \in Nat, NEW unread \in Nat, NEW end \in {"EOF", "error"},
         NEW o \in LimitedRead(limit, unread, end)
  PROVE  /\ o.n \in 0 .. limit /\ o.n <= unread
         /\ o.err \in {"nil", "EOF", "error", "tooMuch"}
         /\ o.err = "EOF" => o.n = unread
         /\ o.err = "tooMuch" => limit = 0 /\ (unread > 0 \/ end = "error")
<1>1. CASE limit = 0
  <2>1. PICK q \in BodyRead(unread, end, 1) : o = [n |-> 0, err |-> Probe(q)]
    BY <1>1 DEF LimitedRead
  <2>2. Probe(q) = "EOF" => unread = 0
    BY DEF Probe, BodyRead
  <2>3. Probe(q) # "EOF" => Probe(q) = "tooMuch" /\ (unread > 0 \/ end = "error")
    BY DEF Probe, BodyRead
  <2> QED
    BY <1>1, <2>1, <2>2, <2>3
<1>2. CASE limit # 0
  BY <1>2 DEF LimitedRead, BodyRead
<1> QED
  BY <1>1, <1>2

LEMMA IInvInit ==
  Init => IInv
<1> SUFFICES ASSUME Init PROVE IInv
  OBVIOUS
<1> USE ConfigsAssumption, ZeroAssumption, MaxPostsAssumption DEF Init, NoPost, Half
<1>1. TypeOK
  <2>1. exited \in BOOLEAN /\ acmeCache \in BOOLEAN
    BY Zenon
  <2>2. hashes \in [Request -> [tls : Cert, app : [Half -> Hash \cup {Zero}]]]
    BY DEF Cert
  <2>3. server \in [Server -> {"off", "starting", "up"}] /\ conn \in [Request -> Cert]
    BY DEF Cert
  <2>4. post \in [hash : Hash \cup {Zero}, left : SUBSET Half]
    OBVIOUS
  <2> QED
    BY <2>1, <2>2, <2>3, <2>4 DEF TypeOK, Cert
<1>2. CopyInv
  BY DEF CopyInv
<1>6. BodyInv
  BY DEF BodyInv, NoBody, LimitIsExact
<1>3. GateInv
  BY DEF GateInv, Server
<1>4. ReadInv
  BY DEF ReadInv, Reading
<1>5. CertInv
  BY DEF CertInv, Server
<1> QED
  BY <1>1, <1>2, <1>3, <1>4, <1>5, <1>6 DEF IInv

LEMMA IInvNext ==
  ASSUME IInv, [Next]_vars
  PROVE  IInv'
<1> USE ConfigsAssumption, ZeroAssumption, MaxPostsAssumption DEF IInv
<1>1. CASE genSelfSignedCert
  <2>1. TypeOK'
    BY <1>1 DEF genSelfSignedCert, appVars, readyVars, requestVars, TypeOK, Cert, Half
  <2>2. CopyInv'
    BY <1>1 DEF genSelfSignedCert, appVars, CopyInv
  <2>3. GateInv'
    BY <1>1 DEF genSelfSignedCert, appVars, readyVars, requestVars, GateInv
  <2>4. ReadInv'
    BY <1>1 DEF genSelfSignedCert, appVars, readyVars, requestVars, ReadInv, Reading
  <2>5. CertInv'
    BY <1>1 DEF genSelfSignedCert, requestVars, CertInv, TypeOK, Server
  <2>6. BodyInv'
    BY <1>1 DEF genSelfSignedCert, appVars, BodyInv, LimitIsExact
  <2> QED
    BY <2>1, <2>2, <2>3, <2>4, <2>5, <2>6
<1>2. CASE setupAcme
  <2>1. TypeOK'
    BY <1>2 DEF setupAcme, certVars, appVars, readyVars, requestVars, TypeOK, Cert, Half
  <2>2. CopyInv'
    BY <1>2 DEF setupAcme, appVars, CopyInv
  <2>3. GateInv'
    BY <1>2 DEF setupAcme, appVars, readyVars, requestVars, GateInv
  <2>4. ReadInv'
    BY <1>2 DEF setupAcme, appVars, readyVars, requestVars, ReadInv, Reading
  <2>5. CertInv'
    BY <1>2 DEF setupAcme, certVars, requestVars, CertInv, TypeOK, Server
  <2>6. BodyInv'
    BY <1>2 DEF setupAcme, appVars, BodyInv, LimitIsExact
  <2> QED
    BY <2>1, <2>2, <2>3, <2>4, <2>5, <2>6
<1>3. CASE startWebServers
  <2>1. TypeOK'
    BY <1>3 DEF startWebServers, certVars, appVars, readyVars, requestVars, TypeOK, Cert, Half
  <2>2. CopyInv'
    BY <1>3 DEF startWebServers, appVars, CopyInv
  <2>3. GateInv'
    BY <1>3 DEF startWebServers, appVars, readyVars, requestVars, GateInv, TypeOK, Server
  <2>4. ReadInv'
    BY <1>3 DEF startWebServers, appVars, readyVars, requestVars, ReadInv, Reading
  <2>5. CertInv'
    BY <1>3 DEF startWebServers, certVars, requestVars, CertInv, TypeOK, Server
  <2>6. BodyInv'
    BY <1>3 DEF startWebServers, appVars, BodyInv, LimitIsExact
  <2> QED
    BY <2>1, <2>2, <2>3, <2>4, <2>5, <2>6
<1>4. ASSUME NEW s \in Server, Serve(s)
      PROVE  IInv'
  <2>1. TypeOK'
    <3>1. exited' \in BOOLEAN
      BY <1>4, Zenon DEF Serve, TypeOK
    <3>2. server' \in [Server -> {"off", "starting", "up"}]
      BY <1>4 DEF Serve, TypeOK
    <3>3. UNCHANGED <<cfg, start, certVars, appVars, readyVars, requestVars>>
      BY <1>4 DEF Serve
    <3> QED
      BY <3>1, <3>2, <3>3 DEF TypeOK, certVars, appVars, readyVars, requestVars
  <2>2. CopyInv'
    BY <1>4 DEF Serve, appVars, CopyInv
  <2>3. GateInv'
    BY <1>4 DEF Serve, Gate, HasCertificate, appVars, readyVars, requestVars, GateInv, TypeOK,
           Server
  <2>4. ReadInv'
    BY <1>4 DEF Serve, appVars, readyVars, requestVars, ReadInv, Reading
  <2>5. CertInv'
    BY <1>4 DEF Serve, Gate, HasCertificate, certVars, requestVars, CertInv, TypeOK, Server
  <2>6. BodyInv'
    BY <1>4 DEF Serve, appVars, BodyInv, LimitIsExact
  <2> QED
    BY <2>1, <2>2, <2>3, <2>4, <2>5, <2>6
<1>5. CASE AcmeFingerprint
  <2>1. TypeOK'
    BY <1>5 DEF AcmeFingerprint, startVars, appVars, readyVars, requestVars, TypeOK, Cert, Half
  <2>2. CopyInv'
    BY <1>5 DEF AcmeFingerprint, appVars, CopyInv
  <2>3. GateInv'
    BY <1>5 DEF AcmeFingerprint, startVars, appVars, readyVars, requestVars, GateInv
  <2>4. ReadInv'
    BY <1>5 DEF AcmeFingerprint, startVars, appVars, readyVars, requestVars, ReadInv, Reading
  <2>5. CertInv'
    BY <1>5 DEF AcmeFingerprint, startVars, requestVars, CertInv, TypeOK, Server
  <2>6. BodyInv'
    BY <1>5 DEF AcmeFingerprint, appVars, BodyInv, LimitIsExact
  <2> QED
    BY <2>1, <2>2, <2>3, <2>4, <2>5, <2>6
<1>6. CASE setupWorkerPostSync
  <2>1. TypeOK'
    BY <1>6 DEF setupWorkerPostSync, startVars, appVars, readyVars, requestVars, TypeOK, Cert,
           Half
  <2>2. CopyInv'
    BY <1>6 DEF setupWorkerPostSync, appVars, CopyInv
  <2>3. GateInv'
    BY <1>6 DEF setupWorkerPostSync, startVars, appVars, readyVars, requestVars, GateInv
  <2>4. ReadInv'
    BY <1>6 DEF setupWorkerPostSync, startVars, appVars, readyVars, requestVars, ReadInv,
           Reading
  <2>5. CertInv'
    BY <1>6 DEF setupWorkerPostSync, startVars, requestVars, CertInv, TypeOK, Server
  <2>6. BodyInv'
    BY <1>6 DEF setupWorkerPostSync, appVars, BodyInv, LimitIsExact
  <2> QED
    BY <2>1, <2>2, <2>3, <2>4, <2>5, <2>6
<1>7. CASE readyHandler
  <2>1. TypeOK'
    BY <1>7 DEF readyHandler, startVars, certVars, appVars, requestVars, TypeOK, Cert, Half
  <2>2. CopyInv'
    BY <1>7 DEF readyHandler, appVars, CopyInv
  <2>3. GateInv'
    BY <1>7 DEF readyHandler, startVars, appVars, requestVars, GateInv, TypeOK, Server, CopyInv
  <2>4. ReadInv'
    BY <1>7 DEF readyHandler, startVars, appVars, requestVars, ReadInv, Reading, TypeOK, Half,
           CopyInv, GateInv
  <2>5. CertInv'
    BY <1>7 DEF readyHandler, startVars, certVars, requestVars, CertInv
  <2>6. BodyInv'
    BY <1>7 DEF readyHandler, appVars, BodyInv, LimitIsExact
  <2> QED
    BY <2>1, <2>2, <2>3, <2>4, <2>5, <2>6
<1>8. ASSUME NEW h \in Hash, NEW b \in Bodies, hashHandler(h, b)
      PROVE  IInv'
  <2>1. b \in [chars : Nat, len : Nat, end : {"EOF", "error"}]
    BY BodiesAssumption
  <2>2. /\ body' = [hash |-> h, of |-> b, got |-> 0, err |-> "nil"]
        /\ posts' \in 0 .. MaxPosts
    BY <1>8 DEF hashHandler, TypeOK
  <2>3. TypeOK'
    BY <1>8, <2>2 DEF hashHandler, startVars, certVars, readyVars, requestVars, TypeOK,
           maxReadLen, HashLen
  <2>4. BodyInv'
    BY <1>8, <2>1, <2>2 DEF hashHandler, BodyInv, NoBody, LimitIsExact
  <2> QED
    BY <1>8, <2>3, <2>4 DEF hashHandler, startVars, certVars, readyVars, requestVars, CopyInv,
           GateInv, ReadInv, Reading, CertInv
<1>15. CASE ReadBody
  <2>1. /\ body \in [hash : Hash \cup {Zero}, of : Bodies, got : 0 .. maxReadLen,
                     err : {"nil", "EOF", "error", "tooMuch"}]
        /\ body.of.len \in Nat /\ body.of.end \in {"EOF", "error"}
        /\ body.hash \in Hash /\ body.got <= body.of.len
    BY <1>15 DEF ReadBody, TypeOK, BodyInv, NoBody
  <2>2. maxReadLen - body.got \in Nat /\ body.of.len - body.got \in Nat
    BY <2>1 DEF maxReadLen, HashLen
  <2>3. PICK o \in LimitedRead(maxReadLen - body.got, body.of.len - body.got, body.of.end) :
          body' = [body EXCEPT !.got = @ + o.n, !.err = o.err]
    BY <1>15 DEF ReadBody
  <2>4. /\ o.n \in 0 .. maxReadLen - body.got /\ o.n <= body.of.len - body.got
        /\ o.err \in {"nil", "EOF", "error", "tooMuch"}
        /\ o.err = "EOF" => o.n = body.of.len - body.got
        /\ o.err = "tooMuch" => /\ maxReadLen - body.got = 0
                                /\ body.of.len - body.got > 0 \/ body.of.end = "error"
    BY <2>1, <2>2, ReadOutcome
  <2>5. /\ body'.hash = body.hash /\ body'.of = body.of
        /\ body'.got = body.got + o.n /\ body'.err = o.err
    BY <2>1, <2>3
  <2>6. body' \in [hash : Hash \cup {Zero}, of : Bodies, got : 0 .. maxReadLen,
                   err : {"nil", "EOF", "error", "tooMuch"}]
    <3>1. body.got + o.n \in 0 .. maxReadLen
      BY <2>1, <2>4 DEF maxReadLen, HashLen
    <3> QED
      BY <2>1, <2>3, <2>4, <3>1
  <2>7. TypeOK'
    BY <1>15, <2>6 DEF ReadBody, startVars, certVars, readyVars, requestVars, TypeOK
  <2>8. BodyInv'
    <3>1. LimitIsExact'
      BY <2>1, <2>4, <2>5 DEF LimitIsExact, maxReadLen, HashLen
    <3>2. body'.got <= body'.of.len
      BY <2>1, <2>4, <2>5 DEF maxReadLen, HashLen
    <3>3. body'.err # "none" /\ body' # NoBody
      BY <2>4, <2>5 DEF NoBody
    <3>4. post' = NoPost'
      BY <1>15 DEF ReadBody, BodyInv, NoPost
    <3> QED
      BY <2>1, <2>5, <3>1, <3>2, <3>3, <3>4 DEF BodyInv, NoBody
  <2> QED
    BY <1>15, <2>7, <2>8 DEF ReadBody, startVars, certVars, readyVars, requestVars, CopyInv,
           GateInv, ReadInv, Reading, CertInv
<1>16. CASE DecodeHash
  <2>1. body.hash \in Hash /\ post = NoPost
    BY <1>16 DEF DecodeHash, BodyInv, CopyInv
  <2>2. post' = NoPost \/ post' = [hash |-> body.hash, left |-> Half]
    BY <1>16 DEF DecodeHash, RightSize, HashLen, Half
  <2>3. TypeOK'
    BY <1>16, <2>1, <2>2 DEF DecodeHash, NoPost, startVars, certVars, readyVars, requestVars,
           TypeOK
  <2>4. BodyInv'
    BY <1>16 DEF DecodeHash, BodyInv, NoBody, LimitIsExact
  <2>5. CopyInv'
    BY <1>16, <2>1, <2>2 DEF DecodeHash, NoPost, CopyInv, Half
  <2>6. ReadInv'
    BY <1>16, <2>1, <2>2 DEF DecodeHash, NoPost, startVars, readyVars, requestVars, ReadInv,
           Reading, Half
  <2> QED
    BY <1>16, <2>3, <2>4, <2>5, <2>6 DEF DecodeHash, startVars, certVars, readyVars,
           requestVars, GateInv, CertInv
<1>9. ASSUME NEW i \in Half, CopyHalf(i)
      PROVE  IInv'
  <2>1. TypeOK'
    BY <1>9 DEF CopyHalf, Reading, NoPost, startVars, certVars, readyVars, TypeOK, Cert, Half
  <2>2. CopyInv'
    BY <1>9 DEF CopyHalf, Reading, NoPost, CopyInv, TypeOK, Half
  <2>3. GateInv'
    BY <1>9 DEF CopyHalf, Reading, NoPost, startVars, readyVars, GateInv, TypeOK, Half, Server,
           CopyInv
  <2>4. ReadInv'
    BY <1>9 DEF CopyHalf, Reading, NoPost, startVars, readyVars, ReadInv, TypeOK, Half, CopyInv,
           GateInv
  <2>5. CertInv'
    BY <1>9 DEF CopyHalf, startVars, certVars, CertInv
  <2>6. BodyInv'
    BY <1>9 DEF CopyHalf, NoPost, BodyInv, LimitIsExact
  <2> QED
    BY <2>1, <2>2, <2>3, <2>4, <2>5, <2>6
<1>10. ASSUME NEW r \in Request, Connect(r)
       PROVE  IInv'
  <2>1. TypeOK'
    BY <1>10 DEF Connect, GetCertificate, CachePut, startVars, appVars, readyVars, TypeOK, Cert,
           Half
  <2>2. CopyInv'
    BY <1>10 DEF Connect, appVars, CopyInv
  <2>3. GateInv'
    BY <1>10 DEF Connect, startVars, appVars, readyVars, GateInv, TypeOK, Server
  <2>4. ReadInv'
    BY <1>10 DEF Connect, startVars, appVars, readyVars, ReadInv, Reading, TypeOK, Half
  <2>5. CertInv'
    BY <1>10 DEF Connect, GetCertificate, startVars, CertInv, TypeOK, Server
  <2>6. BodyInv'
    BY <1>10 DEF Connect, appVars, BodyInv, LimitIsExact
  <2> QED
    BY <2>1, <2>2, <2>3, <2>4, <2>5, <2>6
<1>11. ASSUME NEW r \in Request, attestationHandler(r)
       PROVE  IInv'
  <2>1. TypeOK'
    BY <1>11 DEF attestationHandler, NoPost, startVars, certVars, appVars, readyVars, TypeOK,
           Cert, Half
  <2>2. CopyInv'
    BY <1>11 DEF attestationHandler, appVars, CopyInv
  <2>3. GateInv'
    BY <1>11 DEF attestationHandler, NoPost, startVars, appVars, readyVars, GateInv, TypeOK,
           Server, CopyInv
  <2>4. ReadInv'
    BY <1>11 DEF attestationHandler, NoPost, startVars, appVars, readyVars, ReadInv, Reading,
           TypeOK, Half, CopyInv, GateInv
  <2>5. CertInv'
    BY <1>11 DEF attestationHandler, NoPost, startVars, certVars, CertInv, TypeOK, Server
  <2>6. BodyInv'
    BY <1>11 DEF attestationHandler, appVars, BodyInv, LimitIsExact
  <2> QED
    BY <2>1, <2>2, <2>3, <2>4, <2>5, <2>6
<1>12. ASSUME NEW r \in Request, AttestationRefused(r)
       PROVE  IInv'
  <2>1. TypeOK'
    BY <1>12 DEF AttestationRefused, startVars, certVars, appVars, readyVars, TypeOK, Cert, Half
  <2>2. CopyInv'
    BY <1>12 DEF AttestationRefused, appVars, CopyInv
  <2>3. GateInv'
    BY <1>12 DEF AttestationRefused, startVars, appVars, readyVars, GateInv, TypeOK, Server
  <2>4. ReadInv'
    BY <1>12 DEF AttestationRefused, startVars, appVars, readyVars, ReadInv, Reading, TypeOK,
           Half
  <2>5. CertInv'
    BY <1>12 DEF AttestationRefused, startVars, certVars, CertInv, TypeOK, Server
  <2>6. BodyInv'
    BY <1>12 DEF AttestationRefused, appVars, BodyInv, LimitIsExact
  <2> QED
    BY <2>1, <2>2, <2>3, <2>4, <2>5, <2>6
<1>13. ASSUME NEW r \in Request, SerializeTLS(r)
       PROVE  IInv'
  <2>1. TypeOK'
    BY <1>13 DEF SerializeTLS, startVars, certVars, appVars, readyVars, TypeOK, Cert, Half
  <2>2. CopyInv'
    BY <1>13 DEF SerializeTLS, appVars, CopyInv
  <2>3. GateInv'
    BY <1>13 DEF SerializeTLS, startVars, appVars, readyVars, GateInv, TypeOK, Server
  <2>4. ReadInv'
    BY <1>13 DEF SerializeTLS, startVars, appVars, readyVars, ReadInv, Reading, TypeOK, Half
  <2>5. CertInv'
    BY <1>13 DEF SerializeTLS, startVars, certVars, CertInv, TypeOK, Server
  <2>6. BodyInv'
    BY <1>13 DEF SerializeTLS, appVars, BodyInv, LimitIsExact
  <2> QED
    BY <2>1, <2>2, <2>3, <2>4, <2>5, <2>6
<1>14. ASSUME NEW r \in Request, NEW i \in Half, SerializeApp(r, i)
       PROVE  IInv'
  <2>1. TypeOK'
    <3>1. /\ hashes[r] \in [tls : Cert, app : [Half -> Hash \cup {Zero}]]
          /\ appKeyHash[i] \in Hash \cup {Zero}
      BY DEF TypeOK
    <3> DEFINE app == [hashes[r].app EXCEPT ![i] = appKeyHash[i]]
    <3>2. app \in [Half -> Hash \cup {Zero}]
      BY <3>1
    <3>3. hashes' = [hashes EXCEPT ![r] = [hashes[r] EXCEPT !.app = app]]
      BY <1>14 DEF SerializeApp, TypeOK
    <3> HIDE DEF app
    <3>4. [hashes[r] EXCEPT !.app = app] \in [tls : Cert, app : [Half -> Hash \cup {Zero}]]
      BY <3>1, <3>2
    <3>5. hashes' \in [Request -> [tls : Cert, app : [Half -> Hash \cup {Zero}]]]
      BY <3>3, <3>4 DEF TypeOK
    <3> QED
      BY <1>14, <3>5 DEF SerializeApp, startVars, certVars, appVars, readyVars, TypeOK
  <2>2. CopyInv'
    BY <1>14 DEF SerializeApp, appVars, CopyInv
  <2>3. GateInv'
    BY <1>14 DEF SerializeApp, startVars, appVars, readyVars, GateInv, TypeOK, Server, CopyInv
  <2>4. ReadInv'
    BY <1>14 DEF SerializeApp, startVars, appVars, readyVars, ReadInv, Reading, TypeOK, Half,
           CopyInv, GateInv
  <2>5. CertInv'
    BY <1>14 DEF SerializeApp, startVars, certVars, CertInv, TypeOK, Server
  <2>6. BodyInv'
    BY <1>14 DEF SerializeApp, appVars, BodyInv, LimitIsExact
  <2> QED
    BY <2>1, <2>2, <2>3, <2>4, <2>5, <2>6
<1>17. CASE UNCHANGED vars
  <2>1. TypeOK'
    BY <1>17 DEF vars, startVars, certVars, appVars, readyVars, requestVars, TypeOK
  <2>2. BodyInv' /\ CopyInv' /\ GateInv'
    BY <1>17 DEF vars, startVars, certVars, appVars, readyVars, requestVars, BodyInv,
           LimitIsExact, CopyInv, GateInv
  <2>3. ReadInv' /\ CertInv'
    BY <1>17 DEF vars, startVars, certVars, appVars, readyVars, requestVars, ReadInv, Reading,
           CertInv
  <2> QED
    BY <2>1, <2>2, <2>3
<1> QED
  BY <1>1, <1>2, <1>3, <1>4, <1>5, <1>6, <1>7, <1>8, <1>9, <1>10, <1>11, <1>12, <1>13, <1>14,
     <1>15, <1>16, <1>17 DEF Next, StartStep

(* Type correctness; readyHandler closes e.ready at most once. *)
THEOREM EnclaveTypes == Spec => []TypeOK
<1>1. IInv => TypeOK
  BY DEF IInv
<1> QED
  BY <1>1, IInvInit, IInvNext, PTL DEF Spec

(* limitReader's limit is exact for hashHandler, whatever the lengths of bodies. *)
THEOREM LimitHolds == Spec => []LimitIsExact
<1>1. IInv => LimitIsExact
  BY DEF IInv, BodyInv
<1> QED
  BY <1>1, IInvInit, IInvNext, PTL DEF Spec

(* Behind the gate of -wait-for-app no document lacks the application's hash. *)
THEOREM DocumentsCarryTheAppHash == Spec => []DocumentsCarryAppHash
<1>1. IInv => DocumentsCarryAppHash
  BY DEF IInv, ReadInv, DocumentsCarryAppHash, Issued, Document, createAttstn, clientAuxInfo, Half
<1> QED
  BY <1>1, IInvInit, IInvNext, PTL DEF Spec

(* A document not made during a copy by hashHandler carries one hash. *)
THEOREM DocumentsCarryWholeHashes == Spec => []DocumentsCarryOneHash
<1>1. IInv => DocumentsCarryOneHash
  BY DEF IInv, ReadInv, DocumentsCarryOneHash, Issued, Document, createAttstn, clientAuxInfo
<1> QED
  BY <1>1, IInvInit, IInvNext, PTL DEF Spec

(* Documents of an enclave that is no worker bind its certificate, or none yet. *)
THEOREM OwnCertificateIsBound == Spec => []DocumentsBindOwnCertificate
<1>1. IInv => DocumentsBindOwnCertificate
  BY DEF IInv, CertInv, DocumentsBindOwnCertificate, Issued, Document, createAttstn, clientAuxInfo
<1> QED
  BY <1>1, IInvInit, IInvNext, PTL DEF Spec

=============================================================================
