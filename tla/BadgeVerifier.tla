---------------------------- MODULE BadgeVerifier ----------------------------
(***************************************************************************)
(* Badge verification (verify/verify.go): goroutines that call             *)
(* ServerVerifier.Verify, ClientVerifier.Verify and Prefetch on verifiers   *)
(* that share one BadgeCache (AnsVerifier), against a DNS and a             *)
(* transparency log that change and fail while the calls are under way.     *)
(* Nothing protects the DNS answer: a badge URL may name any host, and only  *)
(* a configuration that replaces the host and verifies the server it reaches *)
(* (Anchored) is sure to hear the log.  The default does neither.            *)
(*                                                                         *)
(* A call is cut where the code gives up control: after the cache lookup,   *)
(* after the DNS answer, after the log's answer, after the insertion and    *)
(* the judgement, after the DANE lookup.  Between the log's answer and its  *)
(* insertion time may pass, up to FetchTimeout (the HTTP client's Timeout). *)
(***************************************************************************)
EXTENDS BadgeCache, Sequences

CONSTANTS
    Caller,        \* goroutines
    Kind,          \* what the application uses, of "server", "client",
                   \* "prefetch", "refresh" (StartBackgroundRefresh), "clear"
    Agent,         \* agent records of the transparency log
    AgentName,     \* [Agent -> Name or Unparsable], the record's ati:// name
    IdentityHost,  \* [Agent -> Fqdn or None], agentSubHost, or else agentHost
    AccessHost,    \* [Agent -> Fqdn or None], agentHost
    Unparsable,    \* an agentName that ParseATIName refuses
    RenewedRole,   \* the roles whose certificates are renewed
    NextStatus,    \* the statuses the log may move an agent to
    Fp,            \* certificate fingerprints
    NoFp,          \* an absent or blank fingerprint
    Cert,          \* the certificates peers may present
    Config,        \* the verifier configurations to consider
    MaxStaleness,  \* FailurePolicyConfig.MaxStaleness
    FetchTimeout,  \* the HTTP client's Timeout
    InitialFp,     \* fingerprints an agent may be registered with
    Host,          \* hosts that a badge URL may name
    TLHost,        \* the transparency log's own, DefaultTrustedTLHost
    Elsewhere,     \* records that a host other than the log's may answer with
    None           \* nil, the empty host

VARIABLES
    config,   \* verifierConfig, fixed at construction
    log,      \* the transparency log's records (external)
    pc,       \* where each goroutine is
    call,     \* the arguments of its call
    answer,   \* what the DNS or the log has answered so far
    outcome   \* the *VerificationOutcome it returns

callVars == <<pc, call, answer, outcome>>
sysVars == <<now, byFqdn, byFqdnVer, refresher, config, log,
             pc, call, answer, outcome>>

Role == {"server", "identity"}
Status == {"ACTIVE", "WARNING", "DEPRECATED", "EXPIRED", "REVOKED"}
Name == [host: Fqdn, version: Version]
Fingerprints == [Role -> Fp \cup {NoFp}]
NoPrevious == [role \in Role |-> NoFp]

\* What the log says of an agent.  endedAt is history: when the status became
\* terminal (it is 0 and meaningless before).
LogRecord == [status: Status, cur: Fingerprints, prev: Fingerprints, endedAt: Nat]

\* A decoded TLResponse.  History: asOf, when the answer was given, and from, the
\* host that gave it.
Response == [agent: Agent, status: Status, cur: Fingerprints,
             prev: Fingerprints, asOf: 0..MaxTime, from: Host]

\* A badge URL, by its host and the record its path names.
URL == [host: Host, agent: Agent]

\* names are the parsable ati:// URIs; sans the hosts that the DNS SANs cover,
\* wildcards included.
Certificate == [fp: Fp, names: Seq(Name), sans: SUBSET Fqdn, hasCN: BOOLEAN]

\* tlsVerified: the tlogClient verifies the certificate of the server it reaches.
\* By default trustedTLHost is empty and tlsVerified is FALSE.
ConfigType == [policy: {"FailClosed", "FailOpenWithCache", "FailOpen"},
               cache: BOOLEAN, dane: BOOLEAN,
               trustedTLHost: Host \cup {None}, tlsVerified: BOOLEAN]

Call == [kind: {"server", "client", "prefetch"}, fqdn: Fqdn,
         version: Version \cup {None}, cert: Certificate \cup {None}, startedAt: Nat]

OutcomeType == {"Verified", "NotATIAgent", "InvalidStatus", "FingerprintMismatch",
                "HostnameMismatch", "ATINameMismatch", "DNSError", "TlogError",
                "CertError", "FailOpen", "DANERejection", "Prefetched"}

Outcome == [type: OutcomeType, resp: TLResponse \cup {None}, at: Nat]

ASSUME VerifierConstants ==
    /\ TLResponse = Response
    /\ AgentName \in [Agent -> Name \cup {Unparsable}]
    /\ IdentityHost \in [Agent -> Fqdn \cup {None}]
    /\ AccessHost \in [Agent -> Fqdn \cup {None}]
    /\ \A c \in Cert : c \in Certificate
    /\ Config \subseteq ConfigType
    /\ InitialFp \subseteq Fingerprints
    /\ RenewedRole \subseteq Role
    /\ NextStatus \subseteq Status
    /\ MaxStaleness \in Nat
    /\ FetchTimeout \in Nat
    /\ TLHost \in Host
    /\ Elsewhere \subseteq [agent: Agent, status: Status, cur: Fingerprints,
                            prev: Fingerprints]
    /\ None \notin TLResponse \cup Version \cup Cert \cup Host
    /\ NoFp \notin Fp

-----------------------------------------------------------------------------
(* Judging a certificate against a TL response.                            *)

IsValidForConnection(s) == s \in {"ACTIVE", "WARNING", "DEPRECATED"}

IsTerminal(s) == s \in {"REVOKED", "EXPIRED"}

MatchesWithRenewal(p, current, previous) ==
    current # NoFp /\ p \in {current, previous}

\* ServerVerifier.verifyWithTLResponse: the first check that fails decides.
ServerVerdict(r, cert, f) ==
    LET name == AgentName[r.agent]
    IN  IF ~IsValidForConnection(r.status) THEN "InvalidStatus"
        ELSE IF ~MatchesWithRenewal(cert.fp, r.cur["server"], r.prev["server"])
             THEN "FingerprintMismatch"
        ELSE IF name # Unparsable /\ name.host # f THEN "ATINameMismatch"
        ELSE IF name = Unparsable /\ IdentityHost[r.agent] # f THEN "HostnameMismatch"
        ELSE IF AccessHost[r.agent] # None /\ cert.sans # {}
                /\ AccessHost[r.agent] \notin cert.sans
             THEN "HostnameMismatch"
        ELSE "Verified"

\* ClientVerifier.verifyWithTLResponse
ClientVerdict(r, cert) ==
    IF ~IsValidForConnection(r.status) THEN "InvalidStatus"
    ELSE IF ~MatchesWithRenewal(cert.fp, r.cur["identity"], r.prev["identity"])
         THEN "FingerprintMismatch"
    ELSE IF \A i \in DOMAIN cert.names : cert.names[i] # AgentName[r.agent]
         THEN "ATINameMismatch"
    ELSE "Verified"

Verdict(k, r) ==
    CASE k.kind = "server" -> ServerVerdict(r, k.cert, k.fqdn)
      [] k.kind = "client" -> ClientVerdict(r, k.cert)
      [] k.kind = "prefetch" -> "Prefetched"

IsSuccess(type) == type \in {"Verified", "FailOpen"}

-----------------------------------------------------------------------------
(* The transparency log (external): records change, and a terminal status   *)
(* is final.                                                                *)

LogInit == log \in [Agent -> {[status |-> "ACTIVE", cur |-> c, prev |-> NoPrevious,
                               endedAt |-> 0] : c \in InitialFp}]

\* The agent's certificate of one role is replaced; the old fingerprint stays
\* accepted through the renewal window.
Renew(a, role, p) ==
    /\ ~IsTerminal(log[a].status)
    /\ p # log[a].cur[role]
    /\ log' = [log EXCEPT ![a].cur[role] = p, ![a].prev[role] = log[a].cur[role]]
    /\ UNCHANGED <<now, byFqdn, byFqdnVer, refresher, config, callVars>>

SetStatus(a, s) ==
    /\ ~IsTerminal(log[a].status)
    /\ s # log[a].status
    /\ log' = [log EXCEPT ![a].status = s,
                          ![a].endedAt = IF IsTerminal(s) THEN now ELSE 0]
    /\ UNCHANGED <<now, byFqdn, byFqdnVer, refresher, config, callVars>>

Snapshot(a) == [agent |-> a, status |-> log[a].status, cur |-> log[a].cur,
                prev |-> log[a].prev, asOf |-> now, from |-> TLHost]

-----------------------------------------------------------------------------
(* Who answers.  A badge TXT record is not protected, so its URL may lead       *)
(* anywhere; and a client that does not verify the server's certificate may    *)
(* be answered by anyone on the way.                                           *)

\* Faulty variant: the URL of the DNS is used as it is.
rewriteTLHostNever(url) == url

\* The host of a badge URL is replaced only if a trusted one is configured.  (A
\* URL that cannot be parsed is kept, and then cannot be requested either.)
rewriteTLHost(url) ==
    IF config.trustedTLHost = None THEN url
    ELSE [url EXCEPT !.host = config.trustedTLHost]

\* The hosts that may answer a request made to this one.
Reached(host) == IF config.tlsVerified THEN {host} ELSE Host

\* The log answers with the record as it is; another host with what it likes.
AnswersOf(host, a) ==
    IF host = TLHost THEN {Snapshot(a)}
    ELSE {[agent |-> e.agent, status |-> e.status, cur |-> e.cur, prev |-> e.prev,
           asOf |-> now, from |-> host] : e \in Elsewhere}

AnswersTo(url) == UNION {AnswersOf(host, url.agent) : host \in Reached(url.host)}

\* Only the log answers this verifier: the application has set WithTrustedTLHost,
\* as AgentClient and AgentServer do, and has given a client that verifies the
\* server (or runs where the network cannot answer in the log's place).
Anchored(cf) == cf.trustedTLHost = TLHost /\ cf.tlsVerified

-----------------------------------------------------------------------------
(* Finishing a call.                                                       *)

Result(type, r) == [type |-> type, resp |-> r, at |-> now]

\* The call is over, with this outcome.
Finish(c, type, r) ==
    /\ pc' = [pc EXCEPT ![c] = "done"]
    /\ outcome' = [outcome EXCEPT ![c] = Result(type, r)]
    /\ answer' = [answer EXCEPT ![c] = None]

\* Faulty variant: an answer with an invalid status is asked for again.
JudgeRetries(c, type, r) ==
    /\ pc' = [pc EXCEPT ![c] = IF type = "InvalidStatus" THEN "dns" ELSE "done"]
    /\ outcome' = [outcome EXCEPT ![c] = Result(type, r)]
    /\ answer' = [answer EXCEPT ![c] = None]

\* A verdict on response r.  A Verified one still faces applyDANE.
Judge(c, type, r) ==
    /\ pc' = [pc EXCEPT ![c] = IF type = "Verified" /\ config.dane THEN "dane" ELSE "done"]
    /\ outcome' = [outcome EXCEPT ![c] = Result(type, r)]
    /\ answer' = [answer EXCEPT ![c] = None]

\* The cached entry that the call k may look at, by FQDN or by FQDN and version.
CacheMap(k) == IF k.kind = "client" THEN byFqdnVer ELSE byFqdn
CacheKey(k) == IF k.kind = "client" THEN <<k.fqdn, k.version>> ELSE k.fqdn

\* applyFailurePolicy and applyFailOpenWithCache.  The cached record is not
\* judged: neither its status nor its fingerprints are looked at.
ApplyFailurePolicy(c, errorType) ==
    LET k == call[c]
        m == CacheMap(k)
        usable == /\ config.policy = "FailOpenWithCache"
                  /\ config.cache
                  /\ GetStale(m, CacheKey(k), MaxStaleness)
    IN  IF config.policy = "FailOpen" THEN Finish(c, "FailOpen", None)
        ELSE IF usable THEN Finish(c, "FailOpen", m[CacheKey(k)].resp)
        ELSE Finish(c, errorType, None)

-----------------------------------------------------------------------------
(* The steps of a call.                                                    *)

\* Faulty variant: a hit always decides.
HitDecidesAlways(k) == config.cache /\ GetFresh(CacheMap(k), CacheKey(k))

\* A hit decides the call, except that a server certificate that does not match
\* the cached record is looked up afresh.
HitDecides(k) ==
    /\ config.cache
    /\ GetFresh(CacheMap(k), CacheKey(k))
    /\ \/ k.kind # "server"
       \/ Verdict(k, CacheMap(k)[CacheKey(k)].resp) # "FingerprintMismatch"

CheckCache(c, k) ==
    /\ call' = [call EXCEPT ![c] = k]
    /\ IF HitDecides(k)
         THEN LET r == CacheMap(k)[CacheKey(k)].resp IN Judge(c, Verdict(k, r), r)
         ELSE /\ pc' = [pc EXCEPT ![c] = "dns"]
              /\ UNCHANGED <<answer, outcome>>

NewCall(kind, f, v, cert) ==
    [kind |-> kind, fqdn |-> f, version |-> v, cert |-> cert, startedAt |-> now]

Unshared == UNCHANGED <<now, byFqdn, byFqdnVer, refresher, config, log>>

\* ServerVerifier.Verify(fqdn, cert)
VerifyServer(c, f, cert) ==
    /\ "server" \in Kind
    /\ pc[c] = "idle"
    /\ CheckCache(c, NewCall("server", f, None, cert))
    /\ Unshared

\* ClientVerifier.Verify(cert): the FQDN and the version come from the first
\* ati:// name of the certificate.
VerifyClient(c, cert) ==
    /\ "client" \in Kind
    /\ pc[c] = "idle"
    /\ cert.hasCN \/ cert.sans # {}
    /\ cert.names # <<>>
    /\ CheckCache(c, NewCall("client", cert.names[1].host, cert.names[1].version, cert))
    /\ Unshared

\* A certificate without a CN or DNS SAN, or without an ati:// name that gives a
\* valid FQDN.
VerifyClientCertError(c, cert) ==
    /\ "client" \in Kind
    /\ pc[c] = "idle"
    /\ (~cert.hasCN /\ cert.sans = {}) \/ cert.names = <<>>
    /\ Finish(c, "CertError", None)
    /\ UNCHANGED call
    /\ Unshared

\* ServerVerifier.Prefetch(fqdn)
Prefetch(c, f) ==
    /\ "prefetch" \in Kind
    /\ pc[c] = "idle"
    /\ CheckCache(c, NewCall("prefetch", f, None, None))
    /\ Unshared

\* FindPreferredBadge or FindBadgeForVersion finds a badge record.  The DNS is
\* not trusted: its URL may name any host and any agent.
BadgeFound(c, url) ==
    /\ pc[c] = "dns"
    /\ pc' = [pc EXCEPT ![c] = "tlog"]
    /\ answer' = [answer EXCEPT ![c] = rewriteTLHost(url)]
    /\ UNCHANGED <<call, outcome>>
    /\ Unshared

BadgeNotFound(c) ==
    /\ pc[c] = "dns"
    /\ Finish(c, "NotATIAgent", None)
    /\ UNCHANGED call
    /\ Unshared

BadgeLookupFails(c) ==
    /\ pc[c] = "dns"
    /\ ApplyFailurePolicy(c, "DNSError")
    /\ UNCHANGED call
    /\ Unshared

\* FetchTLResponse: an answer of a host that the request reaches is on its way
\* back.
FetchTLResponse(c) ==
    /\ pc[c] = "tlog"
    /\ pc' = [pc EXCEPT ![c] = "insert"]
    /\ \E r \in AnswersTo(answer[c]) : answer' = [answer EXCEPT ![c] = r]
    /\ UNCHANGED <<call, outcome>>
    /\ Unshared

FetchFails(c) ==
    /\ pc[c] = "tlog"
    /\ ApplyFailurePolicy(c, "TlogError")
    /\ UNCHANGED call
    /\ Unshared

\* The answer is cached, whatever it says, and then judged.
InsertAndVerify(c) ==
    LET k == call[c]
        r == answer[c]
    IN  /\ pc[c] = "insert"
        /\ IF ~config.cache THEN UNCHANGED cacheVars
           ELSE IF k.kind = "client" THEN InsertForVersionLocked(k.fqdn, k.version, r)
           ELSE InsertLocked(k.fqdn, r)
        /\ Judge(c, Verdict(k, r), r)
        /\ UNCHANGED <<now, refresher, config, log, call>>

\* applyDANE: only a mismatch or a DNSSEC failure turns the verdict around.
ApplyDANE(c, d) ==
    /\ pc[c] = "dane"
    /\ pc' = [pc EXCEPT ![c] = "done"]
    /\ outcome' = [outcome EXCEPT ![c].type =
                     IF d \in {"Mismatch", "DNSSECFailed"} THEN "DANERejection" ELSE @]
    /\ UNCHANGED <<call, answer>>
    /\ Unshared

Return(c) ==
    /\ pc[c] = "done"
    /\ pc' = [pc EXCEPT ![c] = "idle"]
    /\ call' = [call EXCEPT ![c] = None]
    /\ outcome' = [outcome EXCEPT ![c] = None]
    /\ UNCHANGED answer
    /\ Unshared

-----------------------------------------------------------------------------
(* The whole system.                                                       *)

DANEOutcomeType == {"Verified", "Skipped", "NoRecords", "LookupError",
                    "Mismatch", "DNSSECFailed"}

SysInit ==
    /\ Init
    /\ config \in Config
    /\ LogInit
    /\ pc = [c \in Caller |-> "idle"]
    /\ call = [c \in Caller |-> None]
    /\ answer = [c \in Caller |-> None]
    /\ outcome = [c \in Caller |-> None]

\* Time passes, but no answer is older than FetchTimeout when it is
\* inserted: the HTTP client gives up a request that takes longer.
SysTick ==
    /\ \A c \in Caller : pc[c] = "insert" => now - answer[c].asOf < FetchTimeout
    /\ \A g \in refresher.got : now - g.resp.asOf < FetchTimeout
    /\ Tick
    /\ UNCHANGED <<config, log, callVars>>

\* The operations of the cache that are not steps of a call.  The application's
\* refreshFn asks the log, through a client like the verifier's.
CacheStep ==
    /\ config.cache
    /\ \/ "clear" \in Kind /\ Clear
       \/ "refresh" \in Kind /\ StartBackgroundRefresh
       \/ CollectExpiring
       \/ \E k \in Fqdn, a \in Agent :
            \E r \in AnswersTo([host |-> TLHost, agent |-> a]) : RefreshFetched(k, r)
       \/ \E k \in Fqdn : RefreshFailed(k)
       \/ RefreshInsert
       \/ RefreshRoundDone
       \/ StopBackgroundRefresh
    /\ UNCHANGED <<config, log, callVars>>

StartCall(c) ==
    \/ \E f \in Fqdn, cert \in Cert : VerifyServer(c, f, cert)
    \/ \E cert \in Cert : VerifyClient(c, cert)
    \/ \E cert \in Cert : VerifyClientCertError(c, cert)
    \/ \E f \in Fqdn : Prefetch(c, f)

CallStep(c) ==
    \/ \E url \in URL : BadgeFound(c, url)
    \/ BadgeNotFound(c)
    \/ BadgeLookupFails(c)
    \/ FetchTLResponse(c)
    \/ FetchFails(c)
    \/ InsertAndVerify(c)
    \/ \E d \in DANEOutcomeType : ApplyDANE(c, d)

LogStep ==
    \E a \in Agent :
        \/ \E role \in RenewedRole, p \in Fp : Renew(a, role, p)
        \/ \E s \in NextStatus : SetStatus(a, s)

SysNext ==
    \/ SysTick
    \/ CacheStep
    \/ LogStep
    \/ \E c \in Caller : StartCall(c) \/ CallStep(c) \/ Return(c)

SysSpec == SysInit /\ [][SysNext]_sysVars

\* Every external call a verification waits for has a timeout (DNS 10s, log 30s,
\* DANE 5s per exchange), so a call that has started keeps taking steps.
FairSysSpec == SysSpec /\ \A c \in Caller : WF_sysVars(CallStep(c))

-----------------------------------------------------------------------------
(* Properties.                                                             *)

\* The state of every goroutine fits the place it has reached in its call.
SysTypeOK ==
    /\ TypeOK
    /\ now <= MaxTime
    /\ config \in Config
    /\ log \in [Agent -> LogRecord]
    /\ pc \in [Caller -> {"idle", "dns", "tlog", "insert", "dane", "done"}]
    /\ call \in [Caller -> Call \cup {None}]
    /\ answer \in [Caller -> TLResponse \cup URL \cup {None}]
    /\ outcome \in [Caller -> Outcome \cup {None}]
    /\ \A c \in Caller :
          /\ pc[c] \in {"dns", "tlog", "insert", "dane"} => call[c] \in Call
          /\ pc[c] = "tlog" => answer[c] \in URL
          /\ pc[c] = "insert" => answer[c] \in TLResponse
          /\ pc[c] \in {"dane", "done"} => outcome[c] \in Outcome

\* How old the evidence of an outcome was when the verdict was reached.
EvidenceAge(o) == o.at - o.resp.asOf

\* However calls, refreshes and evictions interleave, a Verified verdict rests on
\* an answer given at most one TTL and one request ago; under FailOpenWithCache a
\* success may rest on one older by MaxStaleness, no more.  This is about age:
\* who gave the answer is the matter of RevocationHorizon and KeepsPromise.
EvidenceIsRecent ==
    \A c \in Caller :
        outcome[c] # None /\ outcome[c].resp # None =>
            EvidenceAge(outcome[c]) <=
                DefaultTTL + FetchTimeout
                + (IF outcome[c].type = "FailOpen" THEN MaxStaleness ELSE 0)

\* Whatever host the badge URLs of the DNS name, every record that an anchored
\* verifier reports, fetched, cached or stale, is an answer of the log itself
\* (rewriteTLHost).
EvidenceIsTheLogs ==
    Anchored(config) =>
        \A c \in Caller : outcome[c] # None /\ outcome[c].resp # None
                             => outcome[c].resp.from = TLHost

\* An agent whose record ended (revoked or expired) is verified no later than one
\* TTL and one request after its end, even if an older answer of the log is
\* inserted over a newer one.  A verifier that is not anchored gives this only for
\* the verdicts that rest on the log's own answers, and cannot tell which do.
RevocationHorizon ==
    \A c \in Caller :
        outcome[c] # None /\ outcome[c].type = "Verified"
        /\ (Anchored(config) \/ outcome[c].resp.from = TLHost)
        /\ IsTerminal(log[outcome[c].resp.agent].status) =>
            outcome[c].at <= log[outcome[c].resp.agent].endedAt
                             + DefaultTTL + FetchTimeout

\* What the callers have been told: a Verified verdict that DANE has not turned around.
GrantedTo(c) ==
    IF outcome[c] # None /\ outcome[c].type = "Verified"
      THEN [agent |-> outcome[c].resp.agent, at |-> outcome[c].at] ELSE None

EndOf(a) == IF IsTerminal(log[a].status) THEN log[a].endedAt ELSE None

Promise == INSTANCE BadgePromise
    WITH ended <- [a \in Agent |-> EndOf(a)], granted <- [c \in Caller |-> GrantedTo(c)],
         Horizon <- DefaultTTL + FetchTimeout

\* Anchored verifiers with their caches, requests, refreshes and failures implement
\* the promise, whatever host the DNS names: every step ends a record, grants within
\* the horizon, drops a grant, or changes nothing that the application can tell.
\* It is claimed of Anchored configurations only: in the default one the host that
\* the DNS names answers in the log's place, and may show an ended record as live.
KeepsPromise == Promise!Spec

\* The server verifier never reports a fingerprint mismatch from the cache: the
\* record it reports was fetched by this very call, so a certificate renewed
\* since the cached answer is not rejected because of it.
MismatchIsFresh ==
    \A c \in Caller :
        pc[c] = "done" /\ call[c] # None /\ call[c].kind = "server"
        /\ outcome[c].type = "FingerprintMismatch" =>
            outcome[c].resp.asOf >= call[c].startedAt

\* A call that has started returns, whatever the DNS and the log do.
EveryCallReturns == \A c \in Caller : pc[c] # "idle" ~> pc[c] = "done"

\* models/tl_log.go:205 says of a terminal status that it "permanently rejects
\* connections": no call succeeds on a record that carries one.
TerminalStatusRejects ==
    \A c \in Caller :
        outcome[c] # None /\ IsSuccess(outcome[c].type) /\ outcome[c].resp # None =>
            ~IsTerminal(outcome[c].resp.status)
=============================================================================
