------------------------------ MODULE Evidence ------------------------------
(***************************************************************************)
(* The verifications that judge evidence about one agent without keeping any  *)
(* state: VerifyGold (verify/gold.go), VerifyOffline (verify/offline.go),     *)
(* stapled credentials (verify/stapling.go), OCSP (verify/ocsp.go) and the    *)
(* diagnosis of a host (ati/diagnose.go).                                    *)
(*                                                                         *)
(* The record of the agent changes and ends while a call waits for an answer,  *)
(* and while an artifact that was handed over waits to be judged.  A response   *)
(* of the log is genuine or has one field that is missing, damaged or another.  *)
(***************************************************************************)
EXTENDS Merkle

CONSTANTS
    Payloads,      \* what the log may say of the agent: [agentStatus, identity, prevIdentity, server, prevServer]
    Certs,         \* fingerprints of the certificates to verify
    Configs,       \* configurations: [keyStore, trusted, producers]
    TLKeys,        \* the log's sealing keys: [kid, family]
    Shapes,        \* leaf index and tree size of the proofs: <<i, n>>
    Skew,          \* how far an issuer's clock may be ahead
    StapleLife,    \* the validity of a stapled credential
    OcspLife,      \* the validity of an OCSP response
    FetchTimeout,  \* the longest a request takes
    MaxTime,       \* bound of the model: the clock stops here
    None,          \* nothing
    Unparsable     \* a PEM that is not one

ASSUME EvidenceConstants ==
    /\ Skew \in Nat
    /\ StapleLife \in Nat
    /\ OcspLife \in Nat
    /\ FetchTimeout \in Nat
    /\ MaxTime \in Nat
    /\ None \notin Nat
    /\ \A c \in Configs : c.keyStore # None => None \notin c.keyStore
    /\ Shapes # {}
    /\ \A s \in Shapes : s \in Nat \X Nat /\ InRange(s[1], s[2])

VARIABLES
    now,      \* the clock
    payload,  \* the current record of the agent in the log
    ended,    \* history: when its status became terminal, or None
    cfg,      \* the configuration of the verifier
    call      \* the verification under way

vars == <<now, payload, ended, cfg, call>>

IsTerminal(status) == status \in {"REVOKED", "EXPIRED"}

Idle == [at |-> "idle"]

-----------------------------------------------------------------------------
(* Responses of the log.                                                    *)

\* What the seal covers: not the inclusion proof.
Sealed(resp) == <<resp.payload, resp.evidenceRef>>

Signature(key, content) == [by |-> key, over |-> content]

Genuine(p, key, required, i, n) ==
    LET ref == [required |-> required, submitter |-> "ra", evidenceHash |-> Signature("ra", p)]
    IN  [payload |-> p, evidenceRef |-> ref,
         seal |-> [signature |-> Signature(key, <<p, ref>>), kid |-> key.kid, publicKey |-> key,
                   algorithm |-> key.family],
         proof |-> [rootHash |-> TreeHash(Leaves)[n][0], leafHash |-> ComputeLeafHash(i), leafIndex |-> i,
                    treeSize |-> n, path |-> AuditPath(Leaves)[n][0][i]]]

\* One damaged field: of the seal, of what it covers, or of the proof.
Damaged(r) ==
    {[r EXCEPT !.seal.signature = None], [r EXCEPT !.seal.signature.by = None],
     [r EXCEPT !.seal.kid = None], [r EXCEPT !.seal.kid = "other"],
     [r EXCEPT !.seal.publicKey = None], [r EXCEPT !.seal.publicKey = Unparsable],
     [r EXCEPT !.seal.algorithm = None], [r EXCEPT !.seal.algorithm = "unknown"],
     [r EXCEPT !.evidenceRef.submitter = None], [r EXCEPT !.evidenceRef.required = ~@]}
    \cup {[r EXCEPT !.payload = p] : p \in Payloads \ {r.payload}}

\* A response whose seal is right and whose producer's signature is not.
BadProducer(p, key, i, n) ==
    LET r == Genuine(p, key, TRUE, i, n)
    IN  {[r EXCEPT !.evidenceRef = ref, !.seal.signature.over = <<p, ref>>] :
            ref \in {[r.evidenceRef EXCEPT !.submitter = None],
                     [r.evidenceRef EXCEPT !.submitter = "other"],
                     [r.evidenceRef EXCEPT !.evidenceHash.by = None]}}

DamagedProofs(r) ==
    LET path == r.proof.path
        n == r.proof.treeSize
    IN  {[r EXCEPT !.proof.leafIndex = i] : i \in -1..n}
        \cup {[r EXCEPT !.proof.treeSize = m] : m \in {0, n - 1, n + 1, 2 * n}}
        \cup {[r EXCEPT !.proof.path = q] :
                 q \in {Tail(path \o <<NoHash>>), SubSeq(path, 1, Len(path) - 1),
                        Append(path, ComputeLeafHash(n)), [i \in DOMAIN path |-> path[Len(path) + 1 - i]]}}
        \cup {[r EXCEPT !.proof.leafHash = h] : h \in {ComputeLeafHash(n), NoHash}}
        \cup {[r EXCEPT !.proof.rootHash = NoHash]}

\* What the log, or what is between it and the verifier, may deliver for record p.  The
\* record has no part in the proof, so that only those of active agents are varied.
Responses(p) ==
    LET first == CHOOSE s \in Shapes : TRUE
    IN  (UNION {{Genuine(p, k, required, first[1], first[2])}
                \cup Damaged(Genuine(p, k, required, first[1], first[2]))
                \cup BadProducer(p, k, first[1], first[2]) : k \in TLKeys, required \in BOOLEAN})
        \cup (UNION {DamagedProofs(Genuine(p, CHOOSE k \in TLKeys : TRUE, FALSE, s[1], s[2])) :
                         s \in {t \in Shapes : p.agentStatus = "ACTIVE"}})

-----------------------------------------------------------------------------
(* The checks of a response.                                                 *)

\* verifySealDigest: an algorithm that is declared must be of the key's family.
verifySealDigest(key, algorithm, content, signature) ==
    /\ algorithm \in {None, key.family}
    /\ signature = Signature(key, content)

\* Without a trusted key the one embedded in the seal is used.
VerifySealSignature(resp, trustedKey) ==
    LET key == IF trustedKey = None THEN resp.seal.publicKey ELSE trustedKey
    IN  /\ resp.seal.signature # None
        /\ resp.seal.kid # None
        /\ key \notin {None, Unparsable}
        /\ verifySealDigest(key, resp.seal.algorithm, Sealed(resp), resp.seal.signature)

\* Faulty variant: an unknown key ID falls back to the embedded key.
VerifySealWithKeyStoreOrEmbedded(resp, store) ==
    LET known == {k \in store : k.kid = resp.seal.kid}
    IN  VerifySealSignature(resp, IF known = {} THEN None ELSE CHOOSE k \in known : TRUE)

\* An unknown key ID is rejected.
VerifySealSignatureWithKeyStore(resp, store) ==
    \E k \in store : k.kid = resp.seal.kid /\ VerifySealSignature(resp, k)

SealVerifies(resp) ==
    IF cfg.keyStore # None THEN VerifySealSignatureWithKeyStore(resp, cfg.keyStore)
    ELSE VerifySealSignature(resp, cfg.trusted)

VerifyProducerSignature(resp, keys) ==
    resp.evidenceRef.required =>
        /\ resp.evidenceRef.submitter \in keys
        /\ resp.evidenceRef.evidenceHash = Signature(resp.evidenceRef.submitter, resp.payload)

\* A previous fingerprint never stands in for a missing current one.
MatchesWithRenewal(fp, current, previous) == current # None /\ fp \in {current, previous}

matchFingerprint(p, fp) ==
    \/ MatchesWithRenewal(fp, p.identity, p.prevIdentity)
    \/ MatchesWithRenewal(fp, p.server, p.prevServer)

\* The checks that VerifyGold and VerifyOffline have in common, in their order.
TLVerdict(resp, cert) ==
    IF ~SealVerifies(resp) THEN "TLReceiptSigInvalid"
    ELSE IF ~VerifyInclusionProof(resp.proof) THEN "TLInclusionProofFailed"
    ELSE IF cfg.producers # None /\ ~VerifyProducerSignature(resp, cfg.producers) THEN "ProducerSigInvalid"
    ELSE IF ~matchFingerprint(resp.payload, cert) THEN "TLFingerprintMismatch"
    ELSE "OK"

-----------------------------------------------------------------------------
(* The environment.                                                        *)

Init ==
    /\ now = 0
    /\ payload \in {p \in Payloads : ~IsTerminal(p.agentStatus)}
    /\ ended = None
    /\ cfg \in Configs
    /\ call = Idle

\* A request ends by its timeout.
Tick ==
    /\ now < MaxTime
    /\ call.at = "requested" => now < call.deadline
    /\ now' = now + 1
    /\ UNCHANGED <<payload, ended, cfg, call>>

\* The log appends another record of the agent; a terminal status stays.
AppendRecord(p) ==
    /\ ended = None
    /\ p # payload
    /\ payload' = p
    /\ ended' = IF IsTerminal(p.agentStatus) THEN now ELSE None
    /\ call' = IF call.at = "requested" THEN [call EXCEPT !.seen = @ \cup {p}] ELSE call
    /\ UNCHANGED <<now, cfg>>

\* Whether the agent was live at time t.
LiveAt(t) == ended = None \/ t < ended

-----------------------------------------------------------------------------
(* VerifyGold and Diagnose.                                                 *)

Done(op, code, evidence, warnings) ==
    [at |-> "done", op |-> op, code |-> code, evidence |-> evidence, warnings |-> warnings,
     when |-> now, seen |-> IF call.at = "requested" THEN call.seen ELSE {}]

Failed(op, code, evidence) == Done(op, code, evidence, {})

Becomes(k) == call' = k /\ UNCHANGED <<now, payload, ended, cfg>>

Discovery == {"error", "none", "noID", "found"}

\* The lookup of the agent's ID; only VerifyGold minds an empty one.
Start(op, found, cert) ==
    /\ call.at = "idle"
    /\ Becomes(IF found \in {"error", "none"} \/ (op = "gold" /\ found = "noID")
                 THEN Failed(op, "DNSCoreRecordMissing", None)
                 ELSE [at |-> "requested", op |-> op, cert |-> cert, reply |-> None,
                       deadline |-> now + FetchTimeout, seen |-> {payload}])

VerifyGold(found, cert) == Start("gold", found, cert)

\* FindPreferredBadge's answer is only shown.
Diagnose(found) == Start("diagnose", found, None)

LogAnswers ==
    /\ call.at = "requested"
    /\ call.op \in {"gold", "diagnose"}
    /\ call.reply = None
    /\ \E r \in Responses(payload) : Becomes([call EXCEPT !.reply = r])

Replied(op) == call.at = "requested" /\ call.op = op /\ call.reply # None

JudgeGold ==
    LET v == TLVerdict(call.reply, call.cert)
        status == call.reply.payload.agentStatus
    IN  /\ Replied("gold")
        /\ Becomes(IF v # "OK" THEN Failed("gold", v, call.reply)
                   ELSE IF IsTerminal(status) THEN Failed("gold", "StatusRevoked", call.reply)
                   ELSE Done("gold", "OK", call.reply, {status} \cap {"WARNING", "DEPRECATED"}))

\* The steps of a diagnosis that look at the response; the others PASS or SKIP.
DiagnoseFails(resp) ==
    \/ ~VerifySealSignature(resp, None)
    \/ ~VerifyInclusionProof(resp.proof)
    \/ IsTerminal(resp.payload.agentStatus)

JudgeDiagnosis ==
    /\ Replied("diagnose")
    /\ Becomes(IF DiagnoseFails(call.reply) THEN Failed("diagnose", "PARTIAL FAIL", call.reply)
               ELSE Done("diagnose", "OK", call.reply, {}))

\* The request fails: a diagnosis goes on, and skips the steps that need a response.
FetchFails ==
    /\ call.at = "requested"
    /\ call.op \in {"gold", "diagnose"}
    /\ call.reply = None
    /\ Becomes(Failed(call.op, IF call.op = "gold" THEN "TLUnreachable" ELSE "PARTIAL FAIL", None))

-----------------------------------------------------------------------------
(* Evidence that is handed over: judged at once or later.                    *)

\* A response captured from the log, or nothing.
HandOverPackage ==
    /\ call.at = "idle"
    /\ \E r \in Responses(payload) \cup {None} :
          Becomes([at |-> "held", op |-> "offline", evidence |-> r])

\* VerifyOffline: the status is not looked at.
VerifyOffline(cert) ==
    LET r == call.evidence
        v == TLVerdict(r, cert)
    IN  /\ call.at = "held"
        /\ call.op = "offline"
        /\ Becomes(IF r = None THEN Failed("offline", "empty", None)
                   ELSE IF v # "OK" THEN Failed("offline", v, r)
                   ELSE Done("offline", "OK", r, {"revocation status unknown"}))

\* A credential about the agent that was issued at time t, with one damaged field or none.
Credentials(t) ==
    LET fields == [ansId |-> "agent", status |-> IF LiveAt(t) THEN "ACTIVE" ELSE payload.agentStatus,
                   issuedAt |-> t, expiresAt |-> t + StapleLife]
        cred == [fields |-> fields, kid |-> "ra", signature |-> Signature("ra", fields)]
    IN  {cred, [cred EXCEPT !.fields.ansId = None], [cred EXCEPT !.fields.status = None],
         [cred EXCEPT !.signature = None], [cred EXCEPT !.signature.by = None],
         [cred EXCEPT !.fields.status = "WARNING"], [cred EXCEPT !.kid = "other"]}

HandOverCredential ==
    /\ call.at = "idle"
    /\ \E t \in 0..now + Skew : \E cred \in Credentials(t) \cup {None} :
          Becomes([at |-> "held", op |-> "staple", evidence |-> cred])

ParseStapledCredential(cred) ==
    cred.fields.ansId # None /\ cred.fields.status # None /\ cred.signature # None

StapleCode(cred, keys) ==
    IF now > cred.fields.expiresAt \/ now < cred.fields.issuedAt THEN "StaplingExpired"
    ELSE IF IsTerminal(cred.fields.status) THEN "StatusRevoked"
    ELSE IF keys # None /\ cred.kid \in keys /\ cred.signature = Signature(cred.kid, cred.fields) THEN "OK"
    ELSE "StaplingExpired"

VerifyStapledCredential ==
    LET cred == call.evidence
        code == IF cred = None THEN "StaplingExpired"
                ELSE IF ~ParseStapledCredential(cred) THEN "unparsable"
                ELSE StapleCode(cred, cfg.producers)
    IN  /\ call.at = "held"
        /\ call.op = "staple"
        /\ Becomes(Done("staple", code, cred, {}))

\* A response of the issuer's OCSP responder produced at time t, or one that does not parse.
OcspResponse(t) ==
    {[status |-> s, producedAt |-> t, nextUpdate |-> t + OcspLife, parses |-> b] :
        s \in {IF LiveAt(t) THEN "Good" ELSE "Revoked", "Unknown"}, b \in BOOLEAN}

HandOverOcsp ==
    /\ call.at = "idle"
    /\ \E t \in 0..now : \E r \in OcspResponse(t) \cup {None} :
          Becomes([at |-> "held", op |-> "ocsp", evidence |-> r])

\* Faulty variant: any stapled response that parses is used.
StapledUsableAnyAge(r) == r # None /\ r.parses

StapledUsable(r) == r # None /\ r.parses /\ now <= r.nextUpdate

\* CheckOCSP: a stapled response that is unusable is followed by a query, if the
\* certificate names a responder.
CheckOCSP(hasServer) ==
    LET r == call.evidence
    IN  /\ call.at = "held"
        /\ call.op = "ocsp"
        /\ Becomes(IF StapledUsable(r) THEN Done("ocsp", r.status, r, {})
                   ELSE IF ~hasServer THEN Done("ocsp", "Unknown", None, {})
                   ELSE [at |-> "requested", op |-> "ocsp", cert |-> None, reply |-> None,
                         deadline |-> now + FetchTimeout, seen |-> {payload}])

\* The responder answers with a response that is still valid, which it may have produced
\* earlier.  An assumption: the code would also accept one that is no longer valid.
ResponderAnswers ==
    /\ call.at = "requested"
    /\ call.op = "ocsp"
    /\ call.reply = None
    /\ \E t \in {u \in 0..now : now <= u + OcspLife} : \E r \in OcspResponse(t) :
          Becomes([call EXCEPT !.reply = r])

\* activeOCSPQuery does not look at the dates of the answer.
JudgeOCSP ==
    /\ Replied("ocsp")
    /\ Becomes(Done("ocsp", IF call.reply.parses THEN call.reply.status ELSE "error", call.reply, {}))

OCSPFails ==
    /\ call.at = "requested"
    /\ call.op = "ocsp"
    /\ call.reply = None
    /\ Becomes(Failed("ocsp", "error", None))

ReturnOutcome == call.at = "done" /\ Becomes(Idle)

Next ==
    \/ Tick
    \/ \E p \in Payloads : AppendRecord(p)
    \/ \E found \in Discovery : Diagnose(found) \/ \E cert \in Certs : VerifyGold(found, cert)
    \/ LogAnswers \/ JudgeGold \/ JudgeDiagnosis \/ FetchFails
    \/ HandOverPackage \/ HandOverCredential \/ HandOverOcsp
    \/ \E cert \in Certs : VerifyOffline(cert)
    \/ VerifyStapledCredential
    \/ \E b \in BOOLEAN : CheckOCSP(b)
    \/ ResponderAnswers \/ JudgeOCSP \/ OCSPFails
    \/ ReturnOutcome

Spec == Init /\ [][Next]_vars

-----------------------------------------------------------------------------
(* Properties.                                                             *)

Succeeded(ops) == call.at = "done" /\ call.op \in ops /\ call.code = "OK"

\* How long each kind of evidence can vouch for an agent whose record has ended: a
\* response of the log for one request, a stapled credential until it expires, an OCSP
\* response until its next update and one request; an offline verification, which no
\* time bounds, always says that the status is unknown (VerifyGold, Diagnose,
\* VerifyStapledCredential, CheckOCSP, VerifyOffline).
StatusHorizon ==
    ended # None =>
        /\ Succeeded({"gold", "diagnose"}) => call.when <= ended + FetchTimeout
        /\ Succeeded({"staple"}) => call.when <= ended + Skew + StapleLife
        /\ call.at = "done" /\ call.op = "ocsp" /\ call.code = "Good" =>
              call.when <= ended + OcspLife + FetchTimeout
        /\ Succeeded({"offline"}) => "revocation status unknown" \in call.warnings

\* A response is accepted only if the log really said so, of this certificate and during
\* the call, and a seal by one of the pinned keys covers it, whatever single field of
\* it was damaged on the way (VerifySealSignature, VerifySealSignatureWithKeyStore).
AcceptedIsPublished ==
    /\ Succeeded({"gold", "diagnose"}) => call.evidence.payload \in call.seen
    /\ Succeeded({"gold", "offline"}) =>
          /\ cfg.keyStore # None => call.evidence.seal.signature.by \in cfg.keyStore
          /\ cfg.keyStore = None /\ cfg.trusted # None => call.evidence.seal.signature.by = cfg.trusted
          /\ Sealed(call.evidence) = call.evidence.seal.signature.over

\* With the root of the tree that it names, an inclusion proof is accepted exactly when
\* it is the audit path of its leaf there, as RFC 9162 defines both; without a root
\* it is refused (VerifyInclusionProof).  The size of the tree is not itself proved.
InclusionIsExact ==
    call.at = "done" /\ call.op \in {"gold", "offline", "diagnose"} /\ call.evidence # None =>
        LET proof == call.evidence.proof
            accepted == VerifyInclusionProof(proof)
        IN  /\ accepted => InRange(proof.leafIndex, proof.treeSize) /\ proof.rootHash # NoHash
            /\ InRange(proof.leafIndex, proof.treeSize) /\ proof.rootHash = TreeHash(Leaves)[proof.treeSize][0] =>
                  (accepted <=> /\ proof.leafHash = ComputeLeafHash(proof.leafIndex)
                                /\ proof.path = AuditPath(Leaves)[proof.treeSize][0][proof.leafIndex])
=============================================================================
