---------------------------- MODULE ScittVerifier ----------------------------
(***************************************************************************)
(* VerifyWithScitt (verify/verify.go) composed with the key store it looks  *)
(* its keys up in.  The application's goroutines verify peers and, when a    *)
(* key is unknown, call RefreshIfCooldownElapsed, beside the background      *)
(* refresh.                                                                *)
(*                                                                         *)
(* A call takes the receipt and the status token from the peer's headers     *)
(* and verifies one after the other: each looks its key up in the snapshot   *)
(* of that moment and the token is compared with the clock of that moment.   *)
(* A peer may send any artifact; the log issues tokens that are true when     *)
(* they are issued.                                                        *)
(***************************************************************************)
EXTENDS RefreshableKeyStore, ScittArtifacts

CONSTANTS
    Verifier,        \* the callers that also verify peers
    Host,            \* FQDNs
    Peer,            \* the peers to verify: role, the FQDN that was asked for and
                     \* certificate (see Certificate)
    Receipts,        \* the receipts peers may send
    TokenShapes,     \* the tokens peers may send, but for the time of issue
    LookupKinds,     \* scittKeyLookup: "none", "store", "custom"
    Tolerances,      \* the arguments of WithClockSkewTolerance
    TokenLife,       \* exp - iat of the log's tokens
    BadgeHorizon     \* how long after its end the badge path may accept an agent

Role == {"server", "client"}

\* cn is what FQDN() finds, ati whether there is an ati:// URI SAN.
Certificate == [fp: Nat, cn: Host \cup {Absent}, ati: BOOLEAN]

\* The errors a key lookup of the application may return.
TransportErrors == {"NotFound", "NotSupported", "HTTPError", "AgentTerminal"}

ASSUME ScittConstants ==
    /\ Verifier \subseteq Caller
    /\ Peer \subseteq [role: Role, host: Host, cert: Certificate]
    /\ LookupKinds \subseteq {"none", "store", "custom"}
    /\ Tolerances \subseteq Int
    /\ TokenLife \in Nat \ {0}
    /\ BadgeHorizon \in Nat
    /\ \A s \in TokenShapes : /\ {"kid", "payload"} \subseteq DOMAIN s
                             /\ {"status", "exp"} \subseteq DOMAIN s.payload
    /\ NoError \notin TransportErrors \cup {"InvalidStatus", "FingerprintMismatch",
                                            "InvalidATIName", "HostMismatch"}

VARIABLES
    scittKeyLookup,      \* verifierConfig.scittKeyLookup
    clockSkewTolerance,  \* verifierConfig.clockSkewTolerance
    endedAt,             \* when the log made the agent's status terminal, or None
    scall                \* the call of each verifier

scittVars == <<scittKeyLookup, clockSkewTolerance, endedAt, scall>>
sysVars == <<vars, scittVars>>

\* A call that has not begun; at is the place of a call.
Idle == [at |-> "idle"]

ScittInit ==
    /\ Init
    /\ scittKeyLookup \in LookupKinds
    /\ scittKeyLookup # "store" => static  \* no refreshable store is in use then
    /\ \E d \in Tolerances : clockSkewTolerance = ClockSkew(d)
    /\ endedAt = None
    /\ scall = [v \in Verifier |-> Idle]

\* The call ends with this outcome.
Done(v, o) == scall' = [scall EXCEPT ![v] = [at |-> "done", outcome |-> o]]

\* The badge path is taken, because of this error if any; both tells whether the
\* peer sent both artifacts.
ToBadge(v, both, error) ==
    scall' = [scall EXCEPT ![v] = [at |-> "badge", both |-> both, why |-> error]]

\* An outcome that is no success; sameKey is history: the key that the token names
\* has verified the receipt.
Refused(type, error, sameKey) == [type |-> type, err |-> error, sameKey |-> sameKey]

\* OutcomeVerified with its tier; at is history: when the verdict was reached.
Verified(tier) == [type |-> "Verified", err |-> NoError, tier |-> tier, at |-> now]

-----------------------------------------------------------------------------
(* The agent's record in the log (external).                               *)

\* The log revokes the agent.
Revoke ==
    /\ endedAt = None
    /\ endedAt' = now
    /\ UNCHANGED <<vars, scittKeyLookup, clockSkewTolerance, scall>>

\* A token of this shape that the log issued at time t: the status is the agent's
\* status at t.
Issue(shape, t) ==
    [shape EXCEPT
        !.payload.status = IF IsValidForConnection(@) /\ endedAt # None /\ endedAt < t
                             THEN "REVOKED" ELSE @,
        !.payload.exp = IF @ = 0 THEN 0 ELSE t + TokenLife]

-----------------------------------------------------------------------------
(* The call begins.                                                        *)

\* ExtractHeaders: each HTTP header is "absent", "undecodable" (no base64, or too
\* long) or "bytes".
HeaderValue == {"absent", "undecodable", "bytes"}

IsEmpty(receipt, token) == receipt = "absent" /\ token = "absent"

HasBoth(receipt, token) == receipt = "bytes" /\ token = "bytes"

\* What VerifyWithScitt checks before the artifacts, of the server and of the
\* client, which is identified by its certificate; and verifyWithHeaders first.
EntryChecks(p, receipt, token) ==
    <<Check(HasBoth(receipt, token), "PartialHeaders"),
      Check(p.role = "client" => p.cert.cn # Absent, "NoCN"),
      Check(p.role = "client" => p.cert.ati, "NoURISAN"),
      Check(scittKeyLookup # "none", "NoKeyLookup")>>

NewCall(p) ==
    [role |-> p.role, fp |-> p.cert.fp,
     fqdn |-> IF p.role = "client" THEN p.cert.cn ELSE p.host]

\* Faulty variant: a lookup does not wait for a refresh that is under way.
GetUnlessRefreshing(kid) ==
    {IF refreshGate = None THEN KeyStoreGet(snapshot, kid) ELSE [key |-> Absent, err |-> "UnknownKeyID"]}

\* KeyLookup.Get.  The stores of the SDK answer at once and never with a transport
\* error; a lookup of the application may.
Get(kid) ==
    {KeyStoreGet(snapshot, kid)} \cup
    IF scittKeyLookup = "custom" THEN {[key |-> Absent, err |-> e] : e \in TransportErrors}
                                 ELSE {}

\* Faulty variant: an unknown key is a reason too.
ShouldFallbackToBadgeUnknownKey(err) ==
    err \in {"NotFound", "NotSupported", "HTTPError", "UnknownKeyID"}

ShouldFallbackToBadge(err) == err \in {"NotFound", "NotSupported", "HTTPError"}

\* An artifact was refused.
Refuse(v, error, sameKey) ==
    IF ShouldFallbackToBadge(error) THEN ToBadge(v, TRUE, error)
    ELSE Done(v, Refused("ScittError", error, sameKey /\ error = "UnknownKeyID"))

\* VerifyWithScitt ends, or takes the badge path, before any artifact is looked at.
VerifyWithScittEntry(v, p, receipt, token) ==
    LET error == FirstError(EntryChecks(p, receipt, token))
        type == IF error \in {"NoCN", "NoURISAN"} THEN "CertError" ELSE "ScittError"
    IN  /\ scall[v].at = "idle"
        /\ pc[v] = "idle"
        /\ error # NoError
        /\ IF "undecodable" \in {receipt, token}
             THEN Done(v, Refused("HeaderError", "Base64Decode", FALSE))
           ELSE IF IsEmpty(receipt, token) THEN ToBadge(v, FALSE, NoError)
           ELSE Done(v, Refused(type, error, FALSE))
        /\ UNCHANGED <<vars, scittKeyLookup, clockSkewTolerance, endedAt>>

\* The call with both artifacts, up to the receipt's verdict: it has read nothing
\* of the shared state before the receipt's key.
VerifyReceiptStep(v, p, a, got) ==
    LET error == VerifyReceipt(a, got)
    IN  /\ scall[v].at = "idle"
        /\ pc[v] = "idle"
        /\ FirstError(EntryChecks(p, "bytes", "bytes")) = NoError
        /\ IF error = NoError
             THEN scall' = [scall EXCEPT ![v] = [at |-> "token", receiptKid |-> a.kid,
                                                 call |-> NewCall(p)]]
             ELSE Refuse(v, error, FALSE)
        /\ UNCHANGED <<vars, scittKeyLookup, clockSkewTolerance, endedAt>>

-----------------------------------------------------------------------------
(* The token, the badge path and the end of the call.                       *)

\* What is checked of a verified token: the status, the certificate in the array
\* of its role, and the host of the token's name.
TokenChecks(k, p) ==
    <<Check(IsValidForConnection(p.status), "InvalidStatus"),
      Check(IF k.role = "server" THEN MatchesServerCert(p, k.fp)
                                 ELSE MatchesIdentityCert(p, k.fp), "FingerprintMismatch"),
      Check(p.atiName \in Host, "InvalidATIName"),
      Check(p.atiName = k.fqdn, "HostMismatch")>>

VerifyTokenStep(v, a, got) ==
    LET error == VerifyStatusTokenAt(a, got, clockSkewTolerance, now)
        refusal == FirstError(TokenChecks(scall[v].call, a.payload))
    IN  /\ scall[v].at = "token"
        /\ IF error # NoError THEN Refuse(v, error, a.kid = scall[v].receiptKid)
           ELSE Done(v, IF refusal # NoError THEN Refused("ScittError", refusal, FALSE)
                        ELSE Verified("FullScitt"))
        /\ UNCHANGED <<vars, scittKeyLookup, clockSkewTolerance, endedAt>>

\* The badge path, by what BadgeVerifier promises of it where it is Anchored: the
\* application has set the trusted host and its log client verifies the server.
BadgeVerify(v, ok) ==
    /\ scall[v].at = "badge"
    /\ ok /\ endedAt # None => now <= endedAt + BadgeHorizon
    /\ Done(v, IF ok THEN Verified("BadgeOnly") ELSE Refused("Rejected", scall[v].why, FALSE))
    /\ UNCHANGED <<vars, scittKeyLookup, clockSkewTolerance, endedAt>>

ReturnOutcome(v) ==
    /\ scall[v].at = "done"
    /\ scall' = [scall EXCEPT ![v] = Idle]
    /\ UNCHANGED <<vars, scittKeyLookup, clockSkewTolerance, endedAt>>

VerifierStep(v) ==
    \/ \E p \in Peer :
          \/ \E r, t \in HeaderValue : VerifyWithScittEntry(v, p, r, t)
          \/ \E a \in Receipts : \E got \in Get(a.kid) : VerifyReceiptStep(v, p, a, got)
    \/ \E shape \in TokenShapes, t \in 0..now :
          \E got \in Get(shape.kid) : VerifyTokenStep(v, Issue(shape, t), got)
    \/ \E ok \in BOOLEAN : BadgeVerify(v, ok)
    \/ ReturnOutcome(v)

\* A goroutine verifies or refreshes, one after the other.
StoreNext ==
    /\ Next
    /\ \A v \in Verifier : scall[v].at # "idle" => pc'[v] = "idle"
    /\ UNCHANGED scittVars

ScittNext ==
    \/ StoreNext
    \/ Revoke
    \/ \E v \in Verifier : VerifierStep(v)

ScittSpec == ScittInit /\ [][ScittNext]_sysVars

\* As FairSpec of the key store: fetches end and the mutex is handed on.
ScittFairSpec ==
    /\ ScittSpec
    /\ \A c \in Caller : /\ WF_sysVars(CallerStep(c) /\ UNCHANGED scittVars)
                         /\ SF_sysVars(AcquireGate(c) /\ UNCHANGED scittVars)

-----------------------------------------------------------------------------
(* Properties.                                                             *)

\* How long after its end an agent may still be verified, by this tier and by any.
TierHorizon(tier) == IF tier = "FullScitt" THEN TokenLife + MaxClockSkew ELSE BadgeHorizon

Horizon == IF TokenLife + MaxClockSkew > BadgeHorizon THEN TokenLife + MaxClockSkew
           ELSE BadgeHorizon

\* A revoked agent is verified no longer than its last token lives, plus the
\* largest tolerance (VerifyStatusTokenAt), or the badge path's own horizon,
\* however the receipt's and the token's steps fall around the revocation.
ScittHorizon ==
    \A v \in Verifier :
        scall[v].at = "done" /\ scall[v].outcome.type = "Verified" =>
            (endedAt # None =>
                scall[v].outcome.at <= endedAt + TierHorizon(scall[v].outcome.tier))

\* What the callers have been told of the agent.
GrantedTo(v) ==
    IF scall[v].at = "done" /\ scall[v].outcome.type = "Verified"
      THEN [agent |-> "agent", at |-> scall[v].outcome.at] ELSE None

Promise == INSTANCE BadgePromise
    WITH Caller <- Verifier, Agent <- {"agent"}, ended <- [a \in {"agent"} |-> endedAt],
         granted <- [v \in Verifier |-> GrantedTo(v)]

\* VerifyWithScitt, whichever of the two paths it takes and whatever is refreshed
\* meanwhile, implements the promise of the badge verifiers, with the larger horizon.
KeepsPromise == Promise!Spec

\* A peer that sent both artifacts is judged by its badge instead only when the
\* application's own key lookup reported a transport failure (ShouldFallbackToBadge):
\* never because an artifact was bad or its key unknown.
NoSilentDowngrade ==
    \A v \in Verifier :
        scall[v].at = "badge" /\ scall[v].both =>
            scittKeyLookup = "custom" /\ scall[v].why \in TransportErrors \ {"AgentTerminal"}

\* The token of a call is never refused for an unknown key when the receipt was
\* verified with that key, although the snapshot may be replaced in between by
\* refreshes whose answers do not list the key (MergeFrom).
SameKeyStaysKnown ==
    \A v \in Verifier :
        scall[v].at = "done" /\ scall[v].outcome.err = "UnknownKeyID"
            /\ scittKeyLookup = "store" => ~scall[v].outcome.sameKey
=============================================================================
