------------------------------ MODULE DnsServer ------------------------------
(***************************************************************************)
(* class DnsServer: the constructor that makes the two listening sockets,  *)
(* and start, which polls them for ever and serves one datagram of each    *)
(* that is ready, one after the other, on one thread.                      *)
(*                                                                         *)
(* A socket is named by its address family.  What is in the packets, and   *)
(* whether a reply fits its client, is in module Relay; here a reply is    *)
(* written or it is not.  What lookup returns is nondeterministic.         *)
(***************************************************************************)
EXTENDS Integers, Sequences, FiniteSets

CONSTANTS
    Families,     \* the two families of server_sockets, in the order of the array
    Datagram,     \* what clients send: from, id, rd, and query: whether it is
                  \* readable, no response, and has a question
    Id,           \* the IDs of packets
    Result,       \* result codes, "SERVFAIL" among them
    NoDatagram,   \* no datagram is being served
    NoReply,      \* nothing has been sent
    QueueLimit    \* bound: datagrams that a socket's receive buffer holds

Family == {Families[1], Families[2]}

ASSUME ServerConstants ==
    /\ Families \in Seq(STRING) /\ Len(Families) = 2
    /\ Families[1] # Families[2]
    /\ \A d \in Datagram : d.id \in Id /\ d.rd \in BOOLEAN /\ d.query \in BOOLEAN
    /\ Id # {} /\ "SERVFAIL" \in Result
    /\ NoDatagram \notin Datagram
    /\ QueueLimit \in Nat \ {0}

VARIABLES
    state,        \* of the object: where its one thread is
    next,         \* index of the socket that the constructor makes next
    fd,           \* local variable of MakeListeningSocket: {} or one socket
    server_sockets,  \* the sockets stored in the array
    open,         \* the descriptors the kernel holds open
    inbox,        \* datagrams in each socket's receive buffer
    ready,        \* the descriptors whose turn comes since the last poll
    current,      \* the datagram being served, from the last socket of turn
    turn,         \* the socket it was received from
    response,     \* the header of the packet to be sent, once lookup is done
    sent,         \* the last reply that was sent
    overtaken     \* history: datagrams of others since a socket had its turn

life == <<next, fd, server_sockets, open>>
served == <<inbox, ready, current, turn, response, sent, overtaken>>
vars == <<state, life, served>>

State == {"constructing", "unwinding", "failed", "constructed", "destroyed",
          "polling", "received", "resolving", "replying"}

Header == [id : Id, rd : BOOLEAN, result : Result, response : BOOLEAN]
NoHeader == [id |-> CHOOSE i \in Id : TRUE, rd |-> FALSE, result |-> "SERVFAIL", response |-> FALSE]

Reply == [to : {d.from : d \in Datagram}, channel : Family, id : Id, rd : BOOLEAN,
          result : Result]

TypeOK ==
    /\ state \in State
    /\ next \in 1..3
    /\ fd \in SUBSET Family /\ Cardinality(fd) <= 1
    /\ server_sockets \in SUBSET Family /\ open \in SUBSET Family
    /\ inbox \in [Family -> Seq(Datagram)]
    /\ ready \in Seq(Family)
    /\ current \in Datagram \cup {NoDatagram}
    /\ turn \in Family
    /\ response \in Header
    /\ sent \in Reply \cup {NoReply}
    /\ overtaken \in [Family -> Nat]
    (* a turn is taken for a datagram that is there *)
    /\ \A i \in DOMAIN ready : inbox[ready[i]] # <<>>
    /\ current = NoDatagram <=> state \notin {"received", "resolving", "replying"}

Init ==
    /\ state = "constructing"
    /\ next = 1
    /\ fd = {} /\ server_sockets = {} /\ open = {}
    /\ inbox = [f \in Family |-> <<>>]
    /\ ready = <<>>
    /\ current = NoDatagram
    /\ turn = Families[1]
    /\ response = NoHeader
    /\ sent = NoReply
    /\ overtaken = [f \in Family |-> 0]

-----------------------------------------------------------------------------
(* The constructor and the destructor *)

(* A port out of range is refused before there is any socket.              *)
RefusePort ==
    /\ state = "constructing" /\ next = 1 /\ fd = {}
    /\ state' = "failed"
    /\ UNCHANGED <<life, served>>

CreateSocket ==
    /\ state = "constructing" /\ next <= 2 /\ fd = {}
    /\ fd' = {Families[next]}
    /\ open' = open \cup fd'
    /\ UNCHANGED <<state, next, server_sockets, served>>

CreateFails ==
    /\ state = "constructing" /\ next <= 2 /\ fd = {}
    /\ state' = "unwinding"
    /\ UNCHANGED <<life, served>>

(* setsockopt or bind fails: MakeListeningSocket closes what it made.      *)
BindFails ==
    /\ state = "constructing" /\ fd # {}
    /\ open' = open \ fd
    /\ fd' = {}
    /\ state' = "unwinding"
    /\ UNCHANGED <<next, server_sockets, served>>

Bind ==
    /\ state = "constructing" /\ fd # {}
    /\ server_sockets' = server_sockets \cup fd
    /\ fd' = {}
    /\ next' = next + 1
    /\ state' = IF next = 2 THEN "constructed" ELSE state
    /\ UNCHANGED <<open, served>>

(* Faulty variant: the exception passes without a look at the other socket. *)
UnwindOpen ==
    /\ state = "unwinding"
    /\ state' = "failed"
    /\ UNCHANGED <<life, served>>

(* The constructor's catch: no destructor will run for this object.        *)
Unwind ==
    /\ state = "unwinding"
    /\ open' = open \ server_sockets
    /\ state' = "failed"
    /\ UNCHANGED <<next, fd, server_sockets, served>>

(* start does not return: an object is destroyed only if it was not called. *)
Destroy ==
    /\ state = "constructed"
    /\ open' = open \ server_sockets
    /\ state' = "destroyed"
    /\ UNCHANGED <<next, fd, server_sockets, served>>

Start ==
    /\ state = "constructed"
    /\ state' = "polling"
    /\ UNCHANGED <<life, served>>

-----------------------------------------------------------------------------
(* start *)

(* A client's datagram reaches a bound socket, if its buffer has room.     *)
Arrive(f, d) ==
    /\ f \in server_sockets \cap open
    /\ Len(inbox[f]) < QueueLimit
    /\ inbox' = [inbox EXCEPT ![f] = Append(@, d)]
    /\ UNCHANGED <<state, life, ready, current, turn, response, sent, overtaken>>

HasDatagram(f) == inbox[f] # <<>>

(* Faulty variant: every descriptor is taken to be ready. *)
DescriptorsAll == Families

(* Faulty variant: the second socket is looked at if the first has nothing. *)
DescriptorsFirst ==
    IF HasDatagram(Families[1]) THEN <<Families[1]>>
    ELSE IF HasDatagram(Families[2]) THEN <<Families[2]>>
    ELSE <<>>

Descriptors ==
    (IF HasDatagram(Families[1]) THEN <<Families[1]>> ELSE <<>>)
        \o (IF HasDatagram(Families[2]) THEN <<Families[2]>> ELSE <<>>)

(* poll has found something; when it fails or times out, it is repeated.   *)
Poll ==
    /\ state = "polling" /\ ready = <<>>
    /\ Descriptors # <<>>
    /\ ready' = Descriptors
    /\ UNCHANGED <<state, life, inbox, current, turn, response, sent, overtaken>>

(* Counting stops at 3, one more than SocketsTakeTurns allows.             *)
Overtaking(f) ==
    [g \in Family |-> IF g = f \/ ~HasDatagram(g) THEN 0
                      ELSE IF overtaken[g] < 3 THEN overtaken[g] + 1 ELSE 3]

Receive(f) ==
    /\ state = "polling" /\ ready # <<>> /\ Head(ready) = f
    /\ current' = Head(inbox[f])
    /\ inbox' = [inbox EXCEPT ![f] = Tail(@)]
    /\ turn' = f
    /\ ready' = Tail(ready)
    /\ overtaken' = Overtaking(f)
    /\ state' = "received"
    /\ UNCHANGED <<life, response, sent>>

(* recvfrom fails: the socket has had its turn.                            *)
ReceiveFails(f) ==
    /\ state = "polling" /\ ready # <<>> /\ Head(ready) = f
    /\ ready' = Tail(ready)
    /\ overtaken' = [overtaken EXCEPT ![f] = 0]
    /\ UNCHANGED <<state, life, inbox, current, turn, response, sent>>

Done ==
    /\ state' = "polling"
    /\ current' = NoDatagram
    /\ response' = NoHeader
    /\ UNCHANGED <<life, inbox, ready, turn, overtaken>>

(* Faulty variant: what cannot be read ends the program. *)
IgnoreUncaught ==
    /\ state = "received" /\ ~current.query
    /\ state' = "failed"
    /\ current' = NoDatagram
    /\ UNCHANGED <<life, inbox, ready, turn, response, sent, overtaken>>

(* Unreadable, a response, or without a question.                          *)
Ignore ==
    /\ state = "received" /\ ~current.query
    /\ Done
    /\ UNCHANGED sent

HandleQuery ==
    /\ state = "received" /\ current.query
    /\ state' = "resolving"
    /\ UNCHANGED <<life, served>>

(* MakeServerFailure, when what lookup returned is not a response.         *)
WithFailure(header) ==
    IF header.response THEN header
    ELSE [id |-> current.id, rd |-> current.rd, result |-> "SERVFAIL", response |-> TRUE]

(* Faulty variant: the response keeps the header it came with. *)
EnforcedNot(header) == header

(* The invariants of a recursive resolver's header. *)
Enforced(header) == [header EXCEPT !.id = current.id, !.rd = current.rd, !.response = TRUE]

Resolve(header) ==
    /\ state = "resolving"
    /\ response' = Enforced(WithFailure(header))
    /\ state' = "replying"
    /\ UNCHANGED <<life, inbox, ready, current, turn, sent, overtaken>>

Send ==
    /\ state = "replying"
    /\ sent' = [to |-> current.from, channel |-> turn, id |-> response.id,
                rd |-> response.rd, result |-> response.result]
    /\ Done

(* Writing the reply throws, or sendto fails: the client gets nothing.     *)
SendFails ==
    /\ state = "replying"
    /\ Done
    /\ UNCHANGED sent

-----------------------------------------------------------------------------

Construct ==
    RefusePort \/ CreateSocket \/ CreateFails \/ BindFails \/ Bind \/ Unwind

Serve ==
    \/ Poll
    \/ \E f \in Family : Receive(f) \/ ReceiveFails(f)
    \/ Ignore
    \/ HandleQuery
    \/ \E header \in Header : Resolve(header)
    \/ Send \/ SendFails

Next ==
    \/ Construct
    \/ Start \/ Destroy
    \/ \E f \in Family, d \in Datagram : Arrive(f, d)
    \/ Serve

Spec == Init /\ [][Next]_vars

(* The thread goes on: poll has a timeout, and a socket whose datagram is  *)
(* asked for again and again hands it over.  That lookup returns is an     *)
(* assumption about the network: it does in the world of the run of        *)
(* LookupReturns, but a loop of CNAMEs ends the process instead, as the    *)
(* run of CnameHopsBounded shows.                                          *)
FairSpec ==
    /\ Spec
    /\ WF_vars(Serve)
    /\ \A f \in Family : SF_vars(Receive(f))

-----------------------------------------------------------------------------

(* Whichever step of making the two sockets fails, no descriptor is left   *)
(* open when there is no object any more that knows of it, and an object   *)
(* that is used has both.                                                  *)
NoDescriptorLost ==
    /\ state \in {"failed", "destroyed"} => open = {}
    /\ state \notin {"failed", "destroyed"} => server_sockets \cup fd \subseteq open
    /\ state \in {"constructed", "polling", "received", "resolving", "replying"} =>
          server_sockets = Family

(* A socket that has a datagram waits for at most two of others before its *)
(* next turn, however many arrive there: one of the round in which its own *)
(* arrived too late for poll, and one of the round after.                  *)
SocketsTakeTurns == \A f \in Family : overtaken[f] <= 2

(* To its clients the loop is the service of module QueryService: the      *)
(* datagrams of a socket are those it serves now and those in its buffer.  *)
Pending ==
    [f \in Family |-> (IF current # NoDatagram /\ turn = f THEN <<current>> ELSE <<>>) \o inbox[f]]

Service == INSTANCE QueryService WITH
    Channel <- Family,
    pending <- Pending,
    reply   <- sent

ImplementsQueryService == Service!Spec

(* No client is forgotten once start is called: as long as a socket has    *)
(* datagrams, they are dealt with one after the other, whatever the other  *)
(* socket receives and although recvfrom, lookups and sendto may fail, as  *)
(* long as lookups return at all (see FairSpec).                           *)
ServesEverySocket == <>(state = "polling") => Service!Progress

=============================================================================
