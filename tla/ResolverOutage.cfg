SPECIFICATION Spec
CONSTANTS
    Name <- MCName
    QType <- MCType
    Lower <- MCLower
    Address <- MCAddress
    Root = Root
    Record <- MCRecord
    Upstream <- Unreliable
    ClientQuestion <- AskDirect
    NoEntry = NoEntry
    NoPacket = NoPacket
    MaxReferrals = 2
    MaxCnameHops = 2
    DefaultTtl = 2
    MaxDepth = 4
    MaxTime = 0
INVARIANT
    FailuresNotCached
