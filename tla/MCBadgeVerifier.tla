--------------------------- MODULE MCBadgeVerifier ---------------------------
(* Instances of BadgeVerifier.  Agent a1 is registered for host f1; where     *)
(* there is a second agent a2, its record has no parsable name and no access  *)
(* host and belongs to host f2, so a DNS answer that names the wrong record   *)
(* is caught by the name checks.  Badge URLs may name the log's host tl or     *)
(* another one, which answers that a1 is live.                                *)
EXTENDS BadgeVerifier

CONSTANTS f1, f2, v1, a1, a2, p1, p2, c1, c2, tl, other

N1 == [host |-> f1, version |-> v1]

MCResponse == Response
MCAgentName == [a \in Agent |-> IF a = a1 THEN N1 ELSE Unparsable]
MCIdentityHost == [a \in Agent |-> IF a = a1 THEN f1 ELSE f2]
MCAccessHost == [a \in Agent |-> IF a = a1 THEN f1 ELSE None]

MCInitialFp == {[role \in Role |-> p1]}

CertFor(p) == [fp |-> p, names |-> <<N1>>, sans |-> {f1}, hasCN |-> TRUE]

\* A certificate of the agent, and the one that replaces it.
MCCertPair == {CertFor(p1), CertFor(p2)}
MCCertOne == {CertFor(p1)}

\* Certificates for every kind of refusal.
MCCertZoo == {c \in
    {CertFor(p1),
     [CertFor(p1) EXCEPT !.sans = {f2}],
     [CertFor(p1) EXCEPT !.sans = {}, !.hasCN = FALSE],
     [CertFor(p1) EXCEPT !.names = <<>>, !.sans = {}],
     [CertFor(p1) EXCEPT !.names = <<[host |-> f2, version |-> v1]>>]} :
    c \in Certificate}

\* What other answers: a1's record, live, whatever the log says.
MCElsewhere == {[agent |-> a1, status |-> "ACTIVE", cur |-> [role \in Role |-> p1],
                 prev |-> NoPrevious]}

Setup(policy, cache, dane, trustedTLHost, tlsVerified) ==
    [policy |-> policy, cache |-> cache, dane |-> dane,
     trustedTLHost |-> trustedTLHost, tlsVerified |-> tlsVerified]

\* Anchored, with a cache and the policy that falls back on it.
MCWithCache == {Setup("FailOpenWithCache", TRUE, FALSE, tl, TRUE)}

\* The policies, and every way to reach the log: the host of the DNS or the log's,
\* and a client that verifies the server or, like the default one, does not.
MCMixed == {Setup("FailClosed", FALSE, TRUE, None, TRUE),
            Setup("FailClosed", TRUE, FALSE, None, FALSE),
            Setup("FailOpenWithCache", TRUE, TRUE, tl, TRUE),
            Setup("FailOpen", FALSE, FALSE, tl, FALSE)}
=============================================================================
