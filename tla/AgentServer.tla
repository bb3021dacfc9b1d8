----------------------------- MODULE AgentServer -----------------------------
(***************************************************************************)
(* The server side of an agent connection (ati/server.go): what              *)
(* NewServerTLSConfig makes of its options, and the VerifyConnection callback *)
(* that runs in every handshake: validity, revocation list, badge, DANE.      *)
(*                                                                         *)
(* The ClientVerifier of the server has neither a cache nor a fail-open       *)
(* policy nor DANE, so a badge is verified from an answer the transparency    *)
(* log gives during the handshake; it is one step here, taken when the log    *)
(* answers (BadgeVerifier has its parts).  The server sets the trusted host;   *)
(* that the log itself answers there is an assumption, since the default log   *)
(* client does not verify the server (Anchored in BadgeVerifier).              *)
(***************************************************************************)
EXTENDS CrlChecker, VerificationPolicy

CONSTANTS
    Options,   \* the combinations of options to consider
    Chained,   \* the certificates that chain to the client CAs
    NotAfter,  \* [Cert -> Nat], the end of their validity
    Unknown    \* the certificates of agents the log has no record of

VARIABLES
    options,     \* the ServerOptions NewServerTLSConfig was given
    ended,       \* the certificates whose agents' records in the log are
                 \* terminal or missing (external)
    peerLevels,  \* the shared sync.Map of achieved levels
    lateStart    \* history: the handshakes that began after the record of the
                 \* client's agent had ended

serverVars == <<options, ended, peerLevels, lateStart>>
vars == <<now, cdp, listedAt, crlCache, pc, cert, body,
          options, ended, peerLevels, lateStart>>

\* WithClientVerifier(level), WithClientCA, WithCRLCheck or WithCRLCheckDisabled.
ServerOptions == [level: Level \cup {None}, caBundle: BOOLEAN, crl: BOOLEAN \cup {None}]

ASSUME ServerConstants ==
    /\ Options \subseteq ServerOptions
    /\ Chained \subseteq Cert
    /\ NotAfter \in [Cert -> Nat]
    /\ Unknown \subseteq Cert

-----------------------------------------------------------------------------
(* NewServerTLSConfig                                                      *)

\* PolicyNone and a CA bundle contradict each other.
OptionsAccepted(o) == ~(o.level = PolicyNone /\ o.caBundle)

\* A CA bundle without a level asks for PolicyBasic.
TrustLevel(o) == IF o.level = None /\ o.caBundle THEN PolicyBasic ELSE o.level

\* RequireAndVerifyClientCert and the VerifyConnection callback, or NoClientCert
\* and no callback.
VerifiesClients(o) == TrustLevel(o) \notin {None, PolicyNone}

ShouldEnableCRL(o) == IF o.crl # None THEN o.crl ELSE VerifiesClients(o)

level == TrustLevel(options)
AboveBasic == VerifiesClients(options) /\ level > PolicyBasic

Init ==
    /\ CrlInit
    /\ options \in {o \in Options : OptionsAccepted(o)}
    /\ ended = Unknown
    /\ peerLevels = [c \in {} |-> PolicyBasic]
    /\ lateStart = {}

-----------------------------------------------------------------------------
(* The handshake.                                                          *)

Goto(p, place) == pc' = [pc EXCEPT ![p] = place]

\* A server that verifies no clients asks for no certificate.
AcceptPlain(p) ==
    /\ pc[p] = "idle"
    /\ ~VerifiesClients(options)
    /\ Goto(p, "open")
    /\ UNCHANGED <<now, crlVars, cert, serverVars>>

\* The TLS library verifies the chain, CheckCertValidity the dates.
Valid(c) == c \in Chained /\ now <= NotAfter[c]

\* The callback starts, and returns at once at PolicyBasic.
VerifyConnection(p, c) ==
    /\ pc[p] = "idle"
    /\ VerifiesClients(options)
    /\ Goto(p, IF ~Valid(c) THEN "refused"
               ELSE IF level = PolicyBasic THEN "open"
               ELSE IF ShouldEnableCRL(options) THEN "crl"
               ELSE "badge")
    /\ cert' = [cert EXCEPT ![p] = c]
    /\ lateStart' = IF c \in ended THEN lateStart \cup {p} ELSE lateStart
    /\ UNCHANGED <<now, crlVars, options, ended, peerLevels>>

Record(m, c, l) == [x \in DOMAIN m \cup {c} |-> IF x = c THEN l ELSE m[x]]

\* Faulty variant: what is recorded is the level before the badge was verified.
ConcludeBasic(p, achieved) ==
    /\ peerLevels' = Record(peerLevels, cert[p], PolicyBasic)
    /\ Goto(p, IF achieved < level THEN "refused" ELSE "open")

\* The achieved level is recorded, and compared with the requested one.
Conclude(p, achieved) ==
    /\ peerLevels' = Record(peerLevels, cert[p], achieved)
    /\ Goto(p, IF achieved < level THEN "refused" ELSE "open")

\* The log answers that the agent is registered and live, and its record matches.
BadgeVerified(p) ==
    /\ pc[p] = "badge"
    /\ cert[p] \notin ended
    /\ IF level >= PolicyAdvanced
         THEN Goto(p, "dane") /\ UNCHANGED peerLevels
         ELSE Conclude(p, PolicyEnhanced)
    /\ UNCHANGED <<now, crlVars, cert, options, ended, lateStart>>

\* Faulty variant: the failure is only logged, as without an explicit level.
BadgeFailsLogged(p) ==
    /\ pc[p] = "badge"
    /\ Conclude(p, level)
    /\ UNCHANGED <<now, crlVars, cert, options, ended, lateStart>>

\* Any other outcome: the DNS or the log fails, or the verdict is negative.
BadgeFails(p) ==
    /\ pc[p] = "badge"
    /\ Goto(p, "refused")
    /\ UNCHANGED <<now, crlVars, cert, serverVars>>

\* With an explicit level only a TLSA record that matches will do.
DANEVerified(p) ==
    /\ pc[p] = "dane"
    /\ Conclude(p, PolicyAdvanced)
    /\ UNCHANGED <<now, crlVars, cert, options, ended, lateStart>>

DANEFails(p) ==
    /\ pc[p] = "dane"
    /\ Goto(p, "refused")
    /\ UNCHANGED <<now, crlVars, cert, serverVars>>

\* The connection is closed, or its failed handshake is over.
Close(p) ==
    /\ pc[p] \in {"open", "refused"}
    /\ Goto(p, "idle")
    /\ cert' = [cert EXCEPT ![p] = None]
    /\ lateStart' = lateStart \ {p}
    /\ UNCHANGED <<now, cdp, listedAt, crlCache, body, options, ended, peerLevels>>

-----------------------------------------------------------------------------
(* The environment, and the whole system.                                  *)

\* The record of the agent becomes terminal in the log.
EndRecord(c) ==
    /\ c \notin ended
    /\ ended' = ended \cup {c}
    /\ UNCHANGED <<now, crlVars, pc, cert, options, peerLevels, lateStart>>

\* Time passes, but no answer is older than FetchTimeout when it is stored: the
\* HTTP client gives up a request that takes longer.
Tick ==
    /\ now < MaxTime
    /\ \A p \in Conn : pc[p] = "crlStore" => now - body[p].asOf < FetchTimeout
    /\ now' = now + 1
    /\ UNCHANGED <<crlVars, pc, cert, serverVars>>

HandshakeStep(p) ==
    \/ CheckStep(p) /\ UNCHANGED serverVars
    \/ BadgeVerified(p)
    \/ BadgeFails(p)
    \/ DANEVerified(p)
    \/ DANEFails(p)

Next ==
    \/ Tick
    \/ \E u \in Uri, new \in SUBSET Cert, v \in Validity :
          Publish(u, new, v) /\ UNCHANGED serverVars
    \/ \E c \in Cert : EndRecord(c)
    \/ \E p \in Conn :
          \/ AcceptPlain(p)
          \/ \E c \in Cert : VerifyConnection(p, c)
          \/ HandshakeStep(p)
          \/ Close(p)

Spec == Init /\ [][Next]_vars

\* Every request of a handshake has a timeout (list 30s, DNS 10s, log 30s, DANE 5s
\* per exchange), so a handshake that has started goes on.
FairSpec == Spec /\ \A p \in Conn : WF_vars(HandshakeStep(p))

-----------------------------------------------------------------------------
(* Properties.                                                             *)

\* The state of every handshake fits the place it has reached, and what the
\* Fetcher caches are answers of distribution points.
TypeOK ==
    /\ now \in Nat
    /\ cdp \in [Uri -> List]
    /\ listedAt \in [Cert -> Nat \cup {None}]
    /\ IsCrlCache(crlCache)
    /\ pc \in [Conn -> {"idle", "crl", "crlFetch", "crlStore", "badge", "dane", "open",
                        "refused"}]
    /\ cert \in [Conn -> Cert \cup {None}]
    /\ body \in [Conn -> Answer \cup {None}]
    /\ options \in ServerOptions
    /\ ended \subseteq Cert
    /\ DOMAIN peerLevels \subseteq Cert
    /\ \A c \in DOMAIN peerLevels : peerLevels[c] \in Level
    /\ lateStart \subseteq Conn
    /\ \A p \in Conn :
          /\ pc[p] \notin {"idle", "open", "refused"} => cert[p] \in Cert
          /\ pc[p] = "crlStore" <=> body[p] # None

Accepted(p) == pc[p] = "open" /\ cert[p] # None

Horizon == MaxAge + FetchTimeout

\* The step in which a client passes the point where its list is checked.
PassesList(p) ==
    pc[p] \in {"idle", "crl", "crlFetch", "crlStore"} /\ pc'[p] \in {"badge", "open"}

ListedTooLong(c) == c # None /\ listedAt[c] # None /\ now > listedAt[c] + Horizon

\* Above PolicyBasic, a client whose certificate is on the list its distribution
\* point serves is refused at the latest when a cached list has reached MaxAge,
\* although concurrent handshakes may cache an older answer over a newer one.
ListedCertRefused ==
    [][\A p \in Conn :
          PassesList(p) /\ ShouldEnableCRL(options) /\ AboveBasic => ~ListedTooLong(cert'[p])]_vars

\* The answer on which the verdict of p rests in a step that ends its check.
UsesCached(p) ==
    pc[p] = "crl" /\ pc'[p] \in {"badge", "refused"} /\ NeedsList(cert[p])
UsesOwn(p) == pc[p] = "crlStore" /\ pc'[p] \in {"badge", "refused"}

OwnIsCurrent(p) == UsesOwn(p) => now - body[p].asOf <= FetchTimeout

CachedIsCurrent(p) ==
    LET e == crlCache[CDPUri(cert[p])]
    IN  UsesCached(p) => /\ now - e.body.asOf <= Horizon
                         /\ \/ e.body.nextUpdate = None
                            \/ now <= e.body.nextUpdate
                            \/ now = e.fetchedAt

\* A verdict of the list check, for or against the client, rests on an answer at
\* most MaxAge and one request old, so an answer that is no list at all cannot
\* keep clients out for longer; and a cached list past its nextUpdate is used only
\* at the very instant it was stored.
ListIsCurrent == [][\A p \in Conn : OwnIsCurrent(p) /\ CachedIsCurrent(p)]_vars

\* README.md:61: the two tracks of revocation are independent.  Above PolicyBasic a
\* client is refused when its record in the log had ended, or there was none,
\* when the handshake began, whatever the list says.
EndedAgentRefused ==
    \A p \in Conn : Accepted(p) /\ AboveBasic => p \notin lateStart

\* What PeerTrustLevel reports for an open connection is the level the server asked
\* for, although other handshakes with the same certificate run and fail.
PeerLevelReported ==
    \A p \in Conn :
        Accepted(p) /\ AboveBasic =>
            cert[p] \in DOMAIN peerLevels /\ peerLevels[cert[p]] = level
=============================================================================
