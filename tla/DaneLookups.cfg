CONSTANTS
    Caller = {c1}
    Depth = 2
    Deployments <- MCDeployments
    Certs <- MCCerts
    TrustAnchor = 1
    daneMaxRetries = 2
    KeyTTL = 1
    Timeout = 1
    LastChange = 0
    MaxTime = 3
    None = None
SPECIFICATION FairSpec
INVARIANT ConclusiveIsTrue
INVARIANT LossIsNotAbsence
INVARIANT SettledChainDecides
PROPERTY VerifyReturns
