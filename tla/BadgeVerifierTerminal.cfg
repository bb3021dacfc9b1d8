CONSTANTS
    f1 = f1
    f2 = f2
    v1 = v1
    a1 = a1
    a2 = a2
    p1 = p1
    p2 = p2
    c1 = c1
    c2 = c2
    tl = tl
    other = other
    Fqdn = {f1}
    Version = {v1}
    TLResponse <- MCResponse
    MaxEntries = 1
    DefaultTTL = 1
    RefreshThreshold = 1
    StaleRetention = 1
    MaxTime = 4
    Caller = {c1}
    Kind = {"server"}
    Agent = {a1}
    AgentName <- MCAgentName
    IdentityHost <- MCIdentityHost
    AccessHost <- MCAccessHost
    Unparsable = Unparsable
    RenewedRole = {}
    NextStatus = {"REVOKED"}
    Fp = {p1}
    NoFp = NoFp
    Cert <- MCCertOne
    Config <- MCWithCache
    MaxStaleness = 1
    FetchTimeout = 1
    InitialFp <- MCInitialFp
    Host = {tl, other}
    TLHost = tl
    Elsewhere <- MCElsewhere
    None = None
SPECIFICATION SysSpec
INVARIANT TerminalStatusRejects
