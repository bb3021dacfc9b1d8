CONSTANTS
    h1 = h1
    h2 = h2
    k1 = k1
    k2 = k2
    Caller = {g1, g2}
    Host = {h1, h2}
    Cert = {k1, k2}
    Presents <- MCPresents
    Redirects <- MCRedirects
    Plain = Plain
    Record <- MCRecord
    Options <- MCOptions
    BadgeAge = 1
    MaxTime = 2
    None = None
SPECIFICATION FairSpec
INVARIANT ResponseIsVouchedFor
INVARIANT VerifiedWhileLive
PROPERTY DoReturns
