----------------------------- MODULE MCEvidence -----------------------------
(* Two sealing keys of the log, one of each family, and verifiers that pin     *)
(* both, the first, or none, with and without the keys of the producers.        *)
EXTENDS Evidence

Key1 == [kid |-> "k1", family |-> "ECDSA"]
Key2 == [kid |-> "k2", family |-> "RSA"]

MCTLKeys == {Key1, Key2}

MCPayloads ==
    LET p == [agentStatus |-> "ACTIVE", identity |-> 1, prevIdentity |-> None, server |-> 2, prevServer |-> None]
    IN  {p, [p EXCEPT !.agentStatus = "WARNING", !.identity = 3, !.prevIdentity = 1],
         [p EXCEPT !.identity = None, !.prevIdentity = 1, !.agentStatus = ""],
         [p EXCEPT !.agentStatus = "REVOKED"]}

MCConfigs ==
    {[keyStore |-> {Key1, Key2}, trusted |-> None, producers |-> {"ra"}],
     [keyStore |-> {Key1}, trusted |-> Key2, producers |-> None],
     [keyStore |-> None, trusted |-> Key1, producers |-> None],
     [keyStore |-> None, trusted |-> None, producers |-> {"ra"}]}

MCShapes == {<<i, n>> \in (0..6) \X {1, 3, 5, 7} : i < n}
=============================================================================
