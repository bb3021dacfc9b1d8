CONSTANTS
    k1 = k1
    k2 = k2
    n1 = n1
    n2 = n2
    h1 = h1
    h2 = h2
    Caller = {c1, c2}
    Verifier = {c1}
    Background = bg
    Kid = {k1, k2}
    KeyName = {n1, n2}
    Unparseable = Unparseable
    InitialKeys <- MCInitialKeys
    Answers <- MCAnswers
    Cooldown = 2
    MaxTime = 2
    None = None
    MaxHashPathLen = 2
    Absent = Absent
    NoError = NoError
    Undecodable = Undecodable
    MaxCertArrayLen = 3
    MaxClockSkew = 0
    Host = {h1}
    Peer <- MCPeer
    Receipts <- MCReceipts
    TokenShapes <- MCTokenShapes
    LookupKinds = {"none", "store", "custom"}
    Tolerances = {1}
    TokenLife = 1
    BadgeHorizon = 1
SPECIFICATION ScittFairSpec
INVARIANT OnDemandSpaced
INVARIANT ScittHorizon
INVARIANT NoSilentDowngrade
INVARIANT SameKeyStaysKnown
PROPERTY KeysArePinned
PROPERTY CallsReturn
