-------------------------- MODULE MCScittVerifier --------------------------
(* One agent, two keys of the log: one known from the start, which the       *)
(* service may also announce under another name, and a new one.  The         *)
(* artifacts are a good one for each key and, for each check, one that fails *)
(* it alone.                                                                *)
EXTENDS ScittVerifier

CONSTANTS k1, k2, n1, n2, h1, h2

MCKey(k, n) == [kid |-> k, name |-> n]

MCInitialKeys == [k \in {k1} |-> MCKey(k1, n1)]

MCAnswers == {<<MCKey(k1, n2), MCKey(k2, n1)>>,
              <<Unparseable, MCKey(k2, n2), MCKey(k2, n1)>>}

MCPeer ==
    LET cert(fp, cn, ati) == [fp |-> fp, cn |-> cn, ati |-> ati]
        peer(role, c) == [role |-> role, host |-> h1, cert |-> c]
    IN  {peer("server", cert(1, h1, TRUE)), peer("server", cert(2, Absent, FALSE)),
         peer("client", cert(1, h1, TRUE)), peer("client", cert(1, Absent, TRUE)),
         peer("client", cert(1, h1, FALSE))}

Sign1(k, n, payload) ==
    [framing |-> "tag18", elements |-> 4, header |-> "map", alg |-> ES256, kid |-> k,
     iss |-> n, vds |-> vdsRFC9162, vdp |-> Absent, payload |-> payload, sigLen |-> 64,
     signedBy |-> MCKey(k, n)]

\* The variants of a message that fail one check of COSE_Sign1, and of the key.
BadSign1(a) ==
    {[a EXCEPT !.framing = f] : f \in {"oversized", "undecodable", "notArray"}} \cup
    {[a EXCEPT !.elements = 3], [a EXCEPT !.header = "bad"], [a EXCEPT !.alg = -8],
     [a EXCEPT !.kid = Absent], [a EXCEPT !.payload.kind = "empty"], [a EXCEPT !.sigLen = 63]}

BadKey(a) ==
    {[a EXCEPT !.signedBy = MCKey(k1, n2)], [a EXCEPT !.iss = n2], [a EXCEPT !.iss = Absent]}

GoodReceipt(k, n) ==
    [Sign1(k, n, [kind |-> "bytes", event |-> 2]) EXCEPT
        !.vdp = [treeSize |-> 3, leafIndex |-> 2, path |-> AuditPath(Leaves)[3][0][2]]]

MCReceipts ==
    LET r == GoodReceipt(k1, n1)
    IN  {r, GoodReceipt(k2, n1), GoodReceipt(k2, n2)} \cup BadSign1(r) \cup BadKey(r) \cup
        {[r EXCEPT !.vds = 2], [r EXCEPT !.vdp = Absent], [r EXCEPT !.vdp.treeSize = Absent],
         [r EXCEPT !.vdp.leafIndex = 3], [r EXCEPT !.vdp.path = <<>>],
         [r EXCEPT !.vdp.path = <<Absent>>]}

GoodPayload == [kind |-> "map", agentID |-> "agent", status |-> "ACTIVE", exp |-> 1,
                atiName |-> h1, serverCerts |-> <<1, Absent>>, identityCerts |-> <<1>>]

MCTokenShapes ==
    LET t == Sign1(k1, n1, GoodPayload)
    IN  {t, Sign1(k2, n1, GoodPayload), Sign1(k2, n2, GoodPayload)} \cup BadKey(t) \cup
        {[t EXCEPT !.sigLen = 63]} \cup
        {[t EXCEPT !.payload = p] : p \in
            {[GoodPayload EXCEPT !.kind = "notMap"], [GoodPayload EXCEPT !.agentID = Absent],
             [GoodPayload EXCEPT !.status = Absent],
             [GoodPayload EXCEPT !.status = "WARNING"], [GoodPayload EXCEPT !.status = "PENDING"],
             [GoodPayload EXCEPT !.exp = 0], [GoodPayload EXCEPT !.atiName = Absent],
             [GoodPayload EXCEPT !.atiName = "malformed"], [GoodPayload EXCEPT !.atiName = h2],
             [GoodPayload EXCEPT !.identityCerts = Undecodable],
             [GoodPayload EXCEPT !.serverCerts = <<2, 2, 2, 1>>]}}
=============================================================================
