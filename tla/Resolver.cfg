SPECIFICATION Spec
CONSTANTS
    Name <- MCName
    QType <- MCType
    Lower <- MCLower
    Address <- MCAddress
    Root = Root
    Record <- MCRecord
    Upstream <- Unreliable
    ClientQuestion <- AskAcyclic
    NoEntry = NoEntry
    NoPacket = NoPacket
    MaxReferrals = 2
    MaxCnameHops = 2
    DefaultTtl = 2
    MaxDepth = 4
    MaxTime = 1
INVARIANTS
    TypeOK
    AnswersConnected
    OnlyAnswersCached
    NxdomainWasSaid
    NoServerQueriedTwice
    ResponsesFinalized
    NeverCrashes
