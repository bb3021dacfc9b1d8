CONSTANTS
    Caller = {c1, c2}
    Refresher = auto
    Lifetime = {1}
    ClockSkew = 0
    MaxTime = 1
    None = None
SPECIFICATION FairSpec
INVARIANT SentTokenUnexpired
INVARIANT RevokedTokenHorizon
INVARIANT InitializedHasArtifacts
PROPERTY CurrentHeadersReturns
