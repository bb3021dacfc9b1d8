----------------------------- MODULE AgentClient -----------------------------
(***************************************************************************)
(* The client side of an agent connection (ati/mtls_client.go): Do discovers *)
(* the agent, sends the request over TLS, and only then verifies the peer it   *)
(* has got an answer from, unless verifyCache, which the goroutines share and  *)
(* which never expires, has an outcome for this host and this certificate.    *)
(*                                                                         *)
(* The client's ServerVerifier is fail-closed, has a cache and no DANE; what it *)
(* guarantees is proved of BadgeVerifier (EvidenceStaysRecent,                *)
(* RevocationTakesEffect) and used here: it succeeds only on a record that     *)
(* matches and was live at most BadgeAge ago.  NewAgentClient sets the trusted *)
(* host; that the log itself answers there is an assumption, since the default *)
(* log client does not verify the server (Anchored in BadgeVerifier).          *)
(***************************************************************************)
EXTENDS VerificationPolicy, FiniteSets

CONSTANTS
    Caller,    \* goroutines that call Do
    Host,      \* host names, of connections and of identities
    Cert,      \* server certificates
    Presents,  \* [Host -> SUBSET Cert], what its server may present and the TLS
               \* library accepts for it
    Redirects, \* pairs <<h, t>>: the server of h may answer with a redirect to t
    Plain,     \* the target of a redirect to http
    Record,    \* [Host -> SUBSET Cert], the server certificates in the record
               \* of the agent of that host
    Options,   \* the combinations of options to consider
    BadgeAge,  \* how long a successful verification may lag behind the log
    MaxTime,   \* bound of the model: the clock stops here
    None       \* nil

\* WithTrustLevel, WithIdentityHost, and the CA bundle of WithMTLSCerts.
ClientOptions == [level: Level \cup {None}, identityHost: Host \cup {None},
                  caBundle: BOOLEAN]

ASSUME ClientConstants ==
    /\ Presents \in [Host -> SUBSET Cert]
    /\ Redirects \subseteq Host \X (Host \cup {Plain})
    /\ Plain \notin Host
    /\ Record \in [Host -> SUBSET Cert]
    /\ Options \subseteq ClientOptions
    /\ BadgeAge \in Nat
    /\ MaxTime \in Nat
    /\ None \notin Nat \cup Host \cup Cert

VARIABLES
    now,           \* the clock
    options,       \* the options NewAgentClient was given
    endedAt,       \* when each host's record in the log became terminal (external)
    verifyCache,   \* AgentClient.verifyCache
    pc,            \* where each call of Do is
    host,          \* the host of its URL
    peer,          \* the certificate its answer came with, None without TLS
    outcome        \* its TrustOutcome

vars == <<now, options, endedAt, verifyCache, pc, host, peer, outcome>>

\* at is history: when the badge was verified.
TrustOutcome ==
    [discovered: BOOLEAN, caChainValid: BOOLEAN, badge: BOOLEAN, dane: BOOLEAN,
     achieved: Level, at: Nat \cup {None}]

NoOutcome == [discovered |-> FALSE, caChainValid |-> FALSE, badge |-> FALSE,
              dane |-> FALSE, achieved |-> PolicyBasic, at |-> None]

-----------------------------------------------------------------------------
(* NewAgentClient                                                          *)

TrustLevel(o) == IF o.level = None THEN PolicyEnhanced ELSE o.level

OptionsAccepted(o) == ~(TrustLevel(o) = PolicyNone /\ o.caBundle)

level == TrustLevel(options)

\* The identity host decides where the agent is looked up.
ResolveIdentityHost(h) == IF options.identityHost = None THEN h ELSE options.identityHost

Init ==
    /\ now = 0
    /\ options \in {o \in Options : OptionsAccepted(o)}
    /\ endedAt = [h \in Host |-> None]
    /\ verifyCache = [k \in {} |-> NoOutcome]
    /\ pc = [g \in Caller |-> "idle"]
    /\ host = [g \in Caller |-> None]
    /\ peer = [g \in Caller |-> None]
    /\ outcome = [g \in Caller |-> NoOutcome]

-----------------------------------------------------------------------------
(* Do                                                                      *)

world == <<now, options, endedAt>>

Goto(g, place) == pc' = [pc EXCEPT ![g] = place]

\* At PolicyNone nothing but the request is left.
Do(g, h) ==
    /\ pc[g] = "idle"
    /\ Goto(g, IF level = PolicyNone THEN "request" ELSE "discover")
    /\ host' = [host EXCEPT ![g] = h]
    /\ UNCHANGED <<world, verifyCache, peer, outcome>>

\* checkDNSDiscovery finds a record of the identity host in the DNS, which may
\* answer anything, and the request may be sent.
Discovered(g) ==
    /\ pc[g] = "discover"
    /\ outcome' = [outcome EXCEPT ![g].discovered = TRUE]
    /\ Goto(g, "request")
    /\ UNCHANGED <<world, verifyCache, host, peer>>

\* There is no record, or the lookup fails.
NotDiscovered(g) ==
    /\ pc[g] = "discover"
    /\ Goto(g, "failed")
    /\ UNCHANGED <<world, verifyCache, host, peer, outcome>>

\* Where the answer can come from: the HTTP client follows redirects.
AnswersFrom(h) == {h} \cup {t \in Host \cup {Plain} : <<h, t>> \in Redirects}

\* Faulty variant: the fingerprint is not part of the key.
CacheKeyHost(h, c) == <<h, CHOOSE x \in Cert : TRUE>>

\* host + "|" + fingerprint, the host that of the URL even after a redirect.
CacheKey(h, c) == <<h, c>>

Put(m, k, o) == [x \in DOMAIN m \cup {k} |-> IF x = k THEN o ELSE m[x]]

\* The end of Do: the level that was asked for must have been reached, and then the
\* outcome is cached.
Conclude(g, c, o) ==
    /\ outcome' = [outcome EXCEPT ![g] = o]
    /\ IF o.achieved < level
         THEN Goto(g, "failed") /\ UNCHANGED verifyCache
         ELSE /\ Goto(g, "done")
              /\ verifyCache' = IF c = None THEN verifyCache
                                ELSE Put(verifyCache, CacheKey(host[g], c), o)

\* The answer of a peer without TLS, or with a certificate not met before.
FirstAnswer(g, c) ==
    LET o == [outcome[g] EXCEPT !.caChainValid = c # None]
    IN  IF level >= PolicyEnhanced /\ c # None
          THEN /\ Goto(g, "badge")
               /\ outcome' = [outcome EXCEPT ![g] = o]
               /\ UNCHANGED verifyCache
          ELSE Conclude(g, c, o)

\* The request is sent and answered by a server with certificate c, or without TLS.
Answered(g, c) ==
    LET hit == c # None /\ CacheKey(host[g], c) \in DOMAIN verifyCache
    IN  /\ pc[g] = "request"
        /\ \E t \in AnswersFrom(host[g]) :
              \/ t = Plain /\ c = None
              \/ t \in Host /\ c \in (IF level = PolicyNone THEN Cert ELSE Presents[t])
        /\ peer' = [peer EXCEPT ![g] = c]
        /\ \/ /\ level = PolicyNone
              /\ Goto(g, "done")
              /\ UNCHANGED <<outcome, verifyCache>>
           \/ /\ level # PolicyNone /\ hit
              /\ outcome' = [outcome EXCEPT ![g] = verifyCache[CacheKey(host[g], c)]]
              /\ Goto(g, "done")
              /\ UNCHANGED verifyCache
           \/ level # PolicyNone /\ ~hit /\ FirstAnswer(g, c)
        /\ UNCHANGED <<world, host>>

\* The connection, the handshake or the exchange fails or times out.
RequestFails(g) ==
    /\ pc[g] = "request"
    /\ Goto(g, "failed")
    /\ UNCHANGED <<world, verifyCache, host, peer, outcome>>

\* What the ServerVerifier promises of a success (external to this module).
BadgeMaySucceed(h, c) ==
    c \in Record[h] /\ (endedAt[h] # None => now <= endedAt[h] + BadgeAge)

BadgeVerified(g) ==
    LET o == [outcome[g] EXCEPT !.badge = TRUE, !.achieved = PolicyEnhanced, !.at = now]
    IN  /\ pc[g] = "badge"
        /\ BadgeMaySucceed(ResolveIdentityHost(host[g]), peer[g])
        /\ IF level >= PolicyAdvanced
             THEN /\ Goto(g, "dane")
                  /\ outcome' = [outcome EXCEPT ![g] = o]
                  /\ UNCHANGED verifyCache
             ELSE Conclude(g, peer[g], o)
        /\ UNCHANGED <<world, host, peer>>

\* Faulty variant: the failed outcome is cached like any other.
BadgeFailsCached(g) ==
    /\ pc[g] = "badge"
    /\ verifyCache' = Put(verifyCache, CacheKey(host[g], peer[g]),
                          [outcome[g] EXCEPT !.at = now])
    /\ Goto(g, "failed")
    /\ UNCHANGED <<world, host, peer, outcome>>

\* Faulty variant: the verification is tried again until it succeeds.
BadgeFailsRetry(g) ==
    /\ pc[g] = "badge"
    /\ UNCHANGED vars

BadgeFails(g) ==
    /\ pc[g] = "badge"
    /\ Goto(g, "failed")
    /\ UNCHANGED <<world, verifyCache, host, peer, outcome>>

\* Only a TLSA record of the host of the URL that matches will do.
DANEVerified(g) ==
    /\ pc[g] = "dane"
    /\ Conclude(g, peer[g], [outcome[g] EXCEPT !.dane = TRUE, !.achieved = PolicyAdvanced])
    /\ UNCHANGED <<world, host, peer>>

DANEFails(g) ==
    /\ pc[g] = "dane"
    /\ Goto(g, "failed")
    /\ UNCHANGED <<world, verifyCache, host, peer, outcome>>

\* The caller has taken the response or the error.
Return(g) ==
    /\ pc[g] \in {"done", "failed"}
    /\ Goto(g, "idle")
    /\ host' = [host EXCEPT ![g] = None]
    /\ peer' = [peer EXCEPT ![g] = None]
    /\ outcome' = [outcome EXCEPT ![g] = NoOutcome]
    /\ UNCHANGED <<world, verifyCache>>

-----------------------------------------------------------------------------
(* The environment, and the whole system.                                  *)

EndRecord(h) ==
    /\ endedAt[h] = None
    /\ endedAt' = [endedAt EXCEPT ![h] = now]
    /\ UNCHANGED <<now, options, verifyCache, pc, host, peer, outcome>>

Tick ==
    /\ now < MaxTime
    /\ now' = now + 1
    /\ UNCHANGED <<options, endedAt, verifyCache, pc, host, peer, outcome>>

DoStep(g) ==
    \/ Discovered(g)
    \/ NotDiscovered(g)
    \/ \E c \in Cert \cup {None} : Answered(g, c)
    \/ RequestFails(g)
    \/ BadgeVerified(g)
    \/ BadgeFails(g)
    \/ DANEVerified(g)
    \/ DANEFails(g)

Next ==
    \/ Tick
    \/ \E h \in Host : EndRecord(h)
    \/ \E g \in Caller : (\E h \in Host : Do(g, h)) \/ DoStep(g) \/ Return(g)

Spec == Init /\ [][Next]_vars

\* The lookup (10s), the HTTP client (30s), the verifier (see BadgeVerifier) and DANE
\* (5s per exchange) give up in the end.
FairSpec == Spec /\ \A g \in Caller : WF_vars(DoStep(g))

-----------------------------------------------------------------------------
(* Properties.                                                             *)

\* The state of every call fits the place it has reached, and every cached outcome
\* has reached the level of the client.
TypeOK ==
    /\ now \in Nat
    /\ options \in ClientOptions
    /\ endedAt \in [Host -> Nat \cup {None}]
    /\ DOMAIN verifyCache \subseteq Host \X Cert
    /\ \A k \in DOMAIN verifyCache :
          verifyCache[k] \in TrustOutcome /\ verifyCache[k].achieved >= level
    /\ pc \in [Caller -> {"idle", "discover", "request", "badge", "dane", "done", "failed"}]
    /\ host \in [Caller -> Host \cup {None}]
    /\ peer \in [Caller -> Cert \cup {None}]
    /\ outcome \in [Caller -> TrustOutcome]
    /\ \A g \in Caller :
          /\ pc[g] # "idle" => host[g] \in Host
          /\ pc[g] \in {"badge", "dane"} => peer[g] \in Cert

Delivered(g) == pc[g] = "done" /\ level >= PolicyEnhanced

\* A response that is delivered at PolicyEnhanced or above came from a peer whose
\* certificate is in the record of the agent that was asked for, whatever redirects
\* were followed and whatever is cached, and the outcome delivered with it has every
\* check of its level.
ResponseIsVouchedFor ==
    \A g \in Caller :
        Delivered(g) =>
            /\ peer[g] \in Record[ResolveIdentityHost(host[g])]
            /\ outcome[g].discovered /\ outcome[g].caChainValid /\ outcome[g].badge
            /\ level >= PolicyAdvanced => outcome[g].dane

\* An agent whose record has ended is talked to only with a certificate that this
\* client had verified for it before the end, or BadgeAge after it at the latest:
\* verifyCache has no expiry, but it never holds what a verification did not grant.
VerifiedWhileLive ==
    \A g \in Caller :
        LET end == endedAt[ResolveIdentityHost(host[g])]
        IN  Delivered(g) /\ end # None =>
                outcome[g].at # None /\ outcome[g].at <= end + BadgeAge

\* Every call of Do returns.
DoReturns == \A g \in Caller : pc[g] # "idle" ~> pc[g] \in {"done", "failed"}
=============================================================================
