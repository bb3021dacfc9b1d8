CONSTANTS
    u1 = u1
    k1 = k1
    k2 = k2
    k3 = k3
    k4 = k4
    k5 = k5
    Conn = {p1, p2}
    Cert = {k1, k3}
    Uri = {u1}
    Opaque = Opaque
    Chain <- MCChain
    IssuerSent <- MCIssuerSent
    MaxAge = 1
    Validity = {1}
    FetchTimeout = 1
    MaxTime = 3
    None = None
    Options <- MCLevels
    Chained <- MCChained
    NotAfter <- MCNotAfter
    Unknown <- MCUnknown
SPECIFICATION Spec
SYMMETRY ConnSymmetry
INVARIANT EndedAgentRefused
INVARIANT PeerLevelReported
PROPERTY ListedCertRefused
PROPERTY ListIsCurrent
