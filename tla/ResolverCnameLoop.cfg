SPECIFICATION Spec
CONSTANTS
    Name <- MCName
    QType <- MCType
    Lower <- MCLower
    Address <- MCAddress
    Root = Root
    Record <- MCRecord
    Upstream <- Reliable
    ClientQuestion <- AskLoop
    NoEntry = NoEntry
    NoPacket = NoPacket
    MaxReferrals = 2
    MaxCnameHops = 2
    DefaultTtl = 2
    MaxDepth = 6
    MaxTime = 0
INVARIANT
    CnameHopsBounded
