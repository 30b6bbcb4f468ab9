SPECIFICATION AgedSpec
CONSTANTS
    Name <- MCName
    QType <- MCType
    Lower <- MCLower
    Address <- MCAddress
    Root = Root
    Record <- MCRecord
    Upstream <- Reliable
    ClientQuestion <- AskChain
    NoEntry = NoEntry
    NoPacket = NoPacket
    MaxReferrals = 3
    MaxCnameHops = 3
    DefaultTtl = 2
    MaxDepth = 4
    MaxTime = 3
INVARIANT
    TtlRespected
