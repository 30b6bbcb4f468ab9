SPECIFICATION FairSpec
CONSTANTS
    Families <- MCFamilies
    Datagram <- MCDatagram
    Id = {1, 2}
    Result = {"NOERROR", "SERVFAIL"}
    NoDatagram = NoDatagram
    NoReply = NoReply
    QueueLimit = 2
INVARIANTS
    TypeOK
    NoDescriptorLost
    SocketsTakeTurns
PROPERTIES
    ImplementsQueryService
    ServesEverySocket
CHECK_DEADLOCK FALSE
