---------------------------- MODULE Attestation ----------------------------
(***************************************************************************)
(* Attestation documents and the cryptography of key synchronization, as   *)
(* attester.go, attestation.go and the sync_*.go files use them.  Hashing  *)
(* and sealing are perfect: a hash is a term over what is hashed, and a    *)
(* sealed box opens only with the key it was sealed to.                    *)
(***************************************************************************)
EXTENDS Naturals, FiniteSets

(* The errors of verifyAttstn, in place of the auxiliary information. *)
AttstnError == [kind |-> "error"]

(* What the "public key" field holds in a document that carries no key. *)
padding == <<"dummy">>

workerAuxInfo(workersNonce, leadersNonce, publicKey) ==
  [kind |-> "worker", workersNonce |-> workersNonce,
   leadersNonce |-> leadersNonce, publicKey |-> publicKey]

leaderAuxInfo(workersNonce, hashOfEncrypted) ==
  [kind |-> "leader", workersNonce |-> workersNonce,
   hashOfEncrypted |-> hashOfEncrypted]

clientAuxInfo(clientNonce, attestationHashes) ==
  [kind |-> "client", clientNonce |-> clientNonce,
   attestationHashes |-> attestationHashes]

(***************************************************************************)
(* The document of the hypervisor has three fields for the application;    *)
(* which piece of auxiliary information goes where depends on its type.    *)
(***************************************************************************)
createAttstn(aux, pcrs) ==
  IF aux.kind = "worker"
  THEN [pcrs |-> pcrs, nonce |-> aux.leadersNonce,
        userData |-> aux.workersNonce, publicKey |-> aux.publicKey]
  ELSE IF aux.kind = "client"
  THEN [pcrs |-> pcrs, nonce |-> aux.clientNonce,
        userData |-> aux.attestationHashes, publicKey |-> padding]
  ELSE [pcrs |-> pcrs, nonce |-> aux.workersNonce,
        userData |-> aux.hashOfEncrypted, publicKey |-> padding]

(* The comparison without its loop: a bug for the mutants. *)
arePCRsIdenticalNoLoop(ourPCRs, theirPCRs) ==
  Cardinality(DOMAIN ourPCRs) = Cardinality(DOMAIN theirPCRs)

(* Every register of ours but PCR4 has the same value in theirs. *)
arePCRsIdentical(ourPCRs, theirPCRs) ==
  /\ Cardinality(DOMAIN ourPCRs) = Cardinality(DOMAIN theirPCRs)
  /\ \A pcr \in DOMAIN ourPCRs \ {4} :
       pcr \in DOMAIN theirPCRs /\ ourPCRs[pcr] = theirPCRs[pcr]

(* A mutant: the nonces are not compared. *)
verifyAttstnAnyNonce(doc, ourNonce, ourPCRs) ==
  IF ~arePCRsIdentical(ourPCRs, doc.pcrs)
  THEN AttstnError
  ELSE IF doc.publicKey = padding
       THEN leaderAuxInfo(doc.nonce, doc.userData)
       ELSE workerAuxInfo(doc.userData, doc.nonce, doc.publicKey)

(* The auxiliary information of a document that passes all checks. *)
verifyAttstn(doc, ourNonce, ourPCRs) ==
  IF ~arePCRsIdentical(ourPCRs, doc.pcrs) \/ doc.nonce # ourNonce
  THEN AttstnError
  ELSE IF doc.publicKey = padding
       THEN leaderAuxInfo(doc.nonce, doc.userData)
       ELSE workerAuxInfo(doc.userData, doc.nonce, doc.publicKey)

(* crypto/sha256.Sum256. *)
Sum256(bytes) == [sha256 |-> bytes]

(* nacl/box.SealAnonymous: an anonymous box for the holder of a key. *)
SealAnonymous(message, publicKey) == [box |-> message, for |-> publicKey]

(* nacl/box.OpenAnonymous's verdict. *)
Opens(encrypted, key) == encrypted.for = key

=============================================================================
