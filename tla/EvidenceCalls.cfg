CONSTANTS
    MaxHashPathLen = 63
    Payloads <- MCPayloads
    Certs = {1, 2}
    Configs <- MCConfigs
    TLKeys <- MCTLKeys
    Shapes <- MCShapes
    Skew = 1
    StapleLife = 1
    OcspLife = 1
    FetchTimeout = 1
    MaxTime = 3
    None = None
    Unparsable = Unparsable
SPECIFICATION Spec
INVARIANT StatusHorizon
INVARIANT AcceptedIsPublished
INVARIANT InclusionIsExact
