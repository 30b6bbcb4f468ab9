SPECIFICATION Spec
CONSTANTS
    Domain = {"a", "A"}
    QType = {"A", "AAAA"}
    Lower <- MCLower
    Record <- MCRecord
    NoEntry = NoEntry
    DefaultTtl = 2
    Offered <- MCOffered
    RRset <- MCRRset
    CallerTtl = {0, 3}
    MaxTime = 2
    MaxGets = 2
INVARIANTS
    TypeOK
    PositiveHasRecords
PROPERTIES
    RecordsExpireInTime
    ImplementsTtlStore
