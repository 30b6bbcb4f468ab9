SPECIFICATION FairSpec
CONSTANTS
    Datagram <- MCDatagram
    MaxName = 4
INVARIANTS
    TypeOK
    ReadsNames
    RoundTrip
    NamesBounded
PROPERTIES
    Terminates
CHECK_DEADLOCK FALSE
