---------------------------- MODULE MCAgentClient ----------------------------
(* An instance of AgentClient: the server of h1 presents k1, which is in its    *)
(* agent's record, or the wildcard certificate k2, which is in that of h2, and  *)
(* may redirect to h2 or to http.                                              *)
EXTENDS AgentClient

CONSTANTS h1, h2, k1, k2

MCPresents == [h \in Host |-> IF h = h1 THEN {k1, k2} ELSE {k2}]
MCRedirects == {<<h1, h2>>, <<h1, Plain>>}
MCRecord == [h \in Host |-> IF h = h1 THEN {k1} ELSE {k2}]

Option(l, h, ca) == [level |-> l, identityHost |-> h, caBundle |-> ca]

\* Every level; the default one, and one with an identity host of its own.
MCOptions ==
    {Option(None, None, FALSE), Option(PolicyAdvanced, h2, TRUE),
     Option(PolicyBasic, None, FALSE), Option(PolicyNone, None, FALSE),
     Option(PolicyNone, None, TRUE)}
=============================================================================
