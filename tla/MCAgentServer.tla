---------------------------- MODULE MCAgentServer ----------------------------
(* Instances of AgentServer.  Certificate k1 names distribution point u1, after *)
(* an ldap one; k2, where there is one, has none of its own and sends an issuer *)
(* that has; k3 sends an issuer without any, k4 only an ldap one, k5 no issuer.  *)
EXTENDS AgentServer, TLC

CONSTANTS u1, k1, k2, k3, k4, k5

MCChain == [c \in Cert |->
    CASE c = k1 -> << <<Opaque, u1>>, <<>> >>
      [] c = k2 -> << <<>>, <<u1>> >>
      [] c = k3 -> << <<>>, <<>> >>
      [] c = k4 -> << <<Opaque>>, <<u1>> >>
      [] c = k5 -> << <<u1>> >>]

MCIssuerSent == Cert \ {k5}
MCChained == Cert
MCUnknown == Cert \cap {k3}
MCNotAfter == [c \in Cert |-> IF c = k3 THEN 0 ELSE MaxTime]

Option(l, ca, crl) == [level |-> l, caBundle |-> ca, crl |-> crl]

\* A server that checks lists and badges, one that checks badges and DANE but no
\* lists, and a plain one.
MCLevels == {Option(PolicyEnhanced, FALSE, None), Option(PolicyAdvanced, TRUE, FALSE),
             Option(None, FALSE, TRUE)}

ConnSymmetry == Permutations(Conn)
=============================================================================
