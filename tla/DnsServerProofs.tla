-------------------------- MODULE DnsServerProofs --------------------------
(***************************************************************************)
(* Theorems about the server loop, for all datagrams, IDs and results and  *)
(* receive buffers of any length.                                          *)
(***************************************************************************)
EXTENDS DnsServer, FiniteSetTheorems, SequenceTheorems, TLAPS

F1 == Families[1]
F2 == Families[2]

LEMMA TwoFamilies == Family = {F1, F2} /\ F1 # F2 /\ F1 \in Family /\ F2 \in Family
BY ServerConstants DEF Family, F1, F2

LEMMA NoHeaderType == NoHeader \in Header
<1>1. (CHOOSE i \in Id : TRUE) \in Id
    BY ServerConstants
<1> QED
    BY <1>1, ServerConstants DEF NoHeader, Header

LEMMA PairOfTwo ==
    ASSUME NEW S, NEW a \in S, NEW b \in S
    PROVE  <<a>> \o <<b>> = <<a, b>>
<1> DEFINE s == <<a>> \o <<b>>
           t == <<a, b>>
<1>1. s \in Seq(S) /\ Len(s) = 2 /\ s[1] = a /\ s[2] = b
    OBVIOUS
<1>2. t \in Seq(S) /\ Len(t) = 2 /\ t[1] = a /\ t[2] = b
    OBVIOUS
<1>3. \A i \in 1..2 : s[i] = t[i]
    BY <1>1, <1>2
<1> HIDE DEF s, t
<1>4. s = t
    BY <1>1, <1>2, <1>3, SeqEqual
<1> QED
    BY <1>4 DEF s, t

(* What poll finds: each socket that has a datagram, once.                 *)
LEMMA DescriptorsFound ==
    /\ Descriptors \in {<<>>, <<F1>>, <<F2>>, <<F1, F2>>}
    /\ \A i \in DOMAIN Descriptors : HasDatagram(Descriptors[i])
    /\ Descriptors = <<>> => ~HasDatagram(F1) /\ ~HasDatagram(F2)
    /\ Descriptors = <<F1>> => HasDatagram(F1) /\ ~HasDatagram(F2)
    /\ Descriptors = <<F2>> => ~HasDatagram(F1) /\ HasDatagram(F2)
    /\ Descriptors = <<F1, F2>> => HasDatagram(F1) /\ HasDatagram(F2)
<1>1. CASE HasDatagram(F1) /\ HasDatagram(F2)
  <2>1. Descriptors = <<F1, F2>>
      BY <1>1, PairOfTwo, TwoFamilies DEF Descriptors, F1, F2
  <2> QED
      BY <1>1, <2>1, TwoFamilies
<1>2. CASE HasDatagram(F1) /\ ~HasDatagram(F2)
  <2>1. Descriptors = <<F1>>
      BY <1>2 DEF Descriptors, F1, F2
  <2> QED
      BY <1>2, <2>1, TwoFamilies
<1>3. CASE ~HasDatagram(F1) /\ HasDatagram(F2)
  <2>1. Descriptors = <<F2>>
      BY <1>3 DEF Descriptors, F1, F2
  <2> QED
      BY <1>3, <2>1, TwoFamilies
<1>4. CASE ~HasDatagram(F1) /\ ~HasDatagram(F2)
  <2>1. Descriptors = <<>>
      BY <1>4 DEF Descriptors, F1, F2
  <2> QED
      BY <1>4, <2>1, TwoFamilies
<1> QED
    BY <1>1, <1>2, <1>3, <1>4

-----------------------------------------------------------------------------
(* What the sockets are in each state: how far the constructor has come,   *)
(* and the descriptors that its thread still has to close.                 *)
Sockets ==
    /\ state \in State
    /\ next \in 1..3
    /\ server_sockets = CASE next = 1 -> {} [] next = 2 -> {F1} [] OTHER -> {F1, F2}
    /\ fd = {} \/ (next = 1 /\ fd = {F1}) \/ (next = 2 /\ fd = {F2})
    /\ fd # {} => state = "constructing"
    /\ state = "constructing" => next <= 2 /\ open = server_sockets \cup fd
    /\ state = "unwinding" => next <= 2 /\ open = server_sockets
    /\ state \in {"failed", "destroyed"} => open = {}
    /\ state \notin {"constructing", "unwinding", "failed", "destroyed"} =>
          next = 3 /\ open = server_sockets

LEMMA SocketsInit == Init => Sockets
BY DEF Init, Sockets, State

(* The actions behind the constructor and before the destructor leave the  *)
(* sockets alone and the thread in its loop.                               *)
LEMMA ServeKeepsSockets ==
    ASSUME Sockets, Serve
    PROVE  /\ UNCHANGED life
           /\ {state, state'} \subseteq {"polling", "received", "resolving", "replying"}
<1>1. CASE Poll
    BY <1>1 DEF Poll
<1>2. ASSUME NEW f \in Family, Receive(f) PROVE UNCHANGED life /\ state = "polling" /\ state' = "received"
    BY <1>2 DEF Receive
<1>3. ASSUME NEW f \in Family, ReceiveFails(f) PROVE UNCHANGED <<life, state>> /\ state = "polling"
    BY <1>3 DEF ReceiveFails
<1>4. CASE Ignore
    BY <1>4 DEF Ignore, Done
<1>5. CASE HandleQuery
    BY <1>5 DEF HandleQuery
<1>6. ASSUME NEW h \in Header, Resolve(h) PROVE UNCHANGED life /\ state = "resolving" /\ state' = "replying"
    BY <1>6 DEF Resolve
<1>7. CASE Send \/ SendFails
    BY <1>7 DEF Send, SendFails, Done
<1> QED
    BY <1>1, <1>2, <1>3, <1>4, <1>5, <1>6, <1>7 DEF Serve

LEMMA SocketsNext == Sockets /\ [Next]_vars => Sockets'
<1> SUFFICES ASSUME Sockets, [Next]_vars PROVE Sockets'
    OBVIOUS
<1>1. CASE RefusePort
    BY <1>1 DEF RefusePort, Sockets, State, life
<1>2. CASE CreateSocket
  <2>1. fd' = {IF next = 1 THEN F1 ELSE F2}
      BY <1>2 DEF CreateSocket, Sockets, F1, F2
  <2> QED
      BY <1>2, <2>1 DEF CreateSocket, Sockets, State
<1>3. CASE CreateFails
    BY <1>3 DEF CreateFails, Sockets, State, life
<1>4. CASE BindFails
  <2>1. open \ fd = server_sockets
      BY <1>4, TwoFamilies DEF BindFails, Sockets
  <2> QED
      BY <1>4, <2>1 DEF BindFails, Sockets, State
<1>5. CASE Bind
  <2>1. CASE next = 1
      BY <1>5, <2>1 DEF Bind, Sockets, State
  <2>2. CASE next = 2
      BY <1>5, <2>2 DEF Bind, Sockets, State
  <2> QED
      BY <1>5, <2>1, <2>2 DEF Bind, Sockets
<1>6. CASE Unwind \/ Destroy
    BY <1>6 DEF Unwind, Destroy, Sockets, State
<1>7. CASE Start
    BY <1>7 DEF Start, Sockets, State, life
<1>8. ASSUME NEW f \in Family, NEW d \in Datagram, Arrive(f, d) PROVE Sockets'
    BY <1>8 DEF Arrive, Sockets, life
<1>9. CASE Serve
    BY <1>9, ServeKeepsSockets DEF Sockets, State, life
<1>10. CASE UNCHANGED vars
    BY <1>10 DEF Sockets, vars, life
<1> QED
    BY <1>1, <1>2, <1>3, <1>4, <1>5, <1>6, <1>7, <1>8, <1>9, <1>10 DEF Next, Construct

(* NoDescriptorLost: whichever step of the constructor fails, it leaves no *)
(* descriptor open behind it.                                              *)
THEOREM DescriptorsAreClosed == Spec => []NoDescriptorLost
<1>1. Sockets => NoDescriptorLost
  <2> SUFFICES ASSUME Sockets PROVE NoDescriptorLost
      OBVIOUS
  <2>1. state \in {"constructed", "polling", "received", "resolving", "replying"} =>
            server_sockets = Family
      BY TwoFamilies DEF Sockets
  <2> QED
      BY <2>1 DEF Sockets, NoDescriptorLost, State
<1> QED
    BY <1>1, SocketsInit, SocketsNext, PTL DEF Spec

-----------------------------------------------------------------------------
(* The receive buffers and the turns taken at them.  Behind poll each      *)
(* socket has been overtaken at most once; a socket that poll has not      *)
(* found ready had no datagram then, and was not overtaken since.          *)
Turns ==
    /\ inbox \in [Family -> Seq(Datagram)]
    /\ overtaken \in [Family -> Nat]
    /\ \A f \in Family : overtaken[f] > 0 => HasDatagram(f)
    /\ \/ ready = <<>> /\ overtaken[F1] <= 1 /\ overtaken[F2] <= 1
       \/ ready = <<F1>> /\ overtaken[F1] <= 2 /\ overtaken[F2] = 0 /\ HasDatagram(F1)
       \/ ready = <<F2>> /\ overtaken[F1] = 0 /\ overtaken[F2] <= 2 /\ HasDatagram(F2)
       \/ /\ ready = <<F1, F2>> /\ overtaken[F1] <= 1 /\ overtaken[F2] <= 1
          /\ HasDatagram(F1) /\ HasDatagram(F2)

LEMMA TurnsInit == Init => Turns
BY TwoFamilies DEF Init, Turns

LEMMA TailOfPair ==
    ASSUME NEW S, NEW a \in S, NEW b \in S
    PROVE  /\ Tail(<<a>>) = <<>>
           /\ Head(<<a, b>>) = a /\ Tail(<<a, b>>) = <<b>>
<1> DEFINE s == Tail(<<a, b>>)
           t == <<b>>
<1>1. s \in Seq(S) /\ Len(s) = 1 /\ s[1] = b
    OBVIOUS
<1>2. t \in Seq(S) /\ Len(t) = 1 /\ t[1] = b
    OBVIOUS
<1>3. s = t
  <2> HIDE DEF s, t
  <2> QED
      BY <1>1, <1>2, SeqEqual
<1>4. Tail(<<a>>) \in Seq(S) /\ Len(Tail(<<a>>)) = 0
    OBVIOUS
<1>5. Tail(<<a>>) = <<>>
    BY <1>4, EmptySeq
<1> QED
    BY <1>3, <1>5

(* Whose turn it is, and whose it is next.                                 *)
LEMMA TurnOf ==
    ASSUME Turns, ready # <<>>, NEW f \in Family, Head(ready) = f
    PROVE  \/ ready = <<F1>> /\ f = F1 /\ Tail(ready) = <<>>
           \/ ready = <<F2>> /\ f = F2 /\ Tail(ready) = <<>>
           \/ ready = <<F1, F2>> /\ f = F1 /\ Tail(ready) = <<F2>>
<1>1. ready \in {<<F1>>, <<F2>>, <<F1, F2>>}
    BY DEF Turns
<1>2. CASE ready = <<F1>>
    BY <1>2, TailOfPair, TwoFamilies
<1>3. CASE ready = <<F2>>
    BY <1>3, TailOfPair, TwoFamilies
<1>4. CASE ready = <<F1, F2>>
    BY <1>4, TailOfPair, TwoFamilies
<1> QED
    BY <1>1, <1>2, <1>3, <1>4

LEMMA TurnsNext == Turns /\ [Next]_vars => Turns'
<1> SUFFICES ASSUME Turns, [Next]_vars PROVE Turns'
    OBVIOUS
<1>1. ASSUME NEW f \in Family, NEW d \in Datagram, Arrive(f, d) PROVE Turns'
  <2>1. inbox' \in [Family -> Seq(Datagram)]
      BY <1>1 DEF Arrive, Turns
  <2>2. \A g \in Family : HasDatagram(g) => HasDatagram(g)'
    <3> SUFFICES ASSUME NEW g \in Family, inbox[g] # <<>> PROVE inbox'[g] # <<>>
        BY DEF HasDatagram
    <3>1. CASE g = f
      <4>1. inbox'[g] = Append(inbox[f], d) /\ inbox[f] \in Seq(Datagram)
          BY <1>1, <3>1 DEF Arrive, Turns
      <4> QED
          BY <4>1
    <3>2. CASE g # f
        BY <1>1, <3>2 DEF Arrive, Turns
    <3> QED
        BY <3>1, <3>2
  <2>3. UNCHANGED <<ready, overtaken>>
      BY <1>1 DEF Arrive
  <2> QED
      BY <2>1, <2>2, <2>3, TwoFamilies DEF Turns
<1>2. CASE Poll
  <2>1. UNCHANGED <<inbox, overtaken>> /\ ready = <<>> /\ ready' = Descriptors /\ Descriptors # <<>>
      BY <1>2 DEF Poll
  <2>2. overtaken[F1] \in 0..1 /\ overtaken[F2] \in 0..1
      BY <2>1, TwoFamilies DEF Turns
  <2>3. UNCHANGED <<HasDatagram(F1), HasDatagram(F2)>>
      BY <2>1 DEF HasDatagram
  <2>4. \A f \in Family : (overtaken[f] > 0 => HasDatagram(f))'
      BY <2>1 DEF Turns, HasDatagram
  <2>5. CASE Descriptors = <<F1>>
      BY <2>1, <2>2, <2>3, <2>4, <2>5, DescriptorsFound, TwoFamilies DEF Turns
  <2>6. CASE Descriptors = <<F2>>
      BY <2>1, <2>2, <2>3, <2>4, <2>6, DescriptorsFound, TwoFamilies DEF Turns
  <2>7. CASE Descriptors = <<F1, F2>>
      BY <2>1, <2>2, <2>3, <2>4, <2>7, DescriptorsFound, TwoFamilies DEF Turns
  <2> QED
      BY <2>1, <2>5, <2>6, <2>7, DescriptorsFound
<1>3. ASSUME NEW f \in Family, Receive(f) PROVE Turns'
  <2>1. /\ ready # <<>> /\ Head(ready) = f /\ ready' = Tail(ready)
        /\ inbox' = [inbox EXCEPT ![f] = Tail(@)]
        /\ overtaken' = Overtaking(f)
      BY <1>3 DEF Receive
  <2>2. inbox[f] \in Seq(Datagram) /\ inbox[f] # <<>>
      BY <2>1, TurnOf DEF Turns, HasDatagram
  <2>3. inbox' \in [Family -> Seq(Datagram)]
      BY <2>1, <2>2 DEF Turns
  <2>4. \A g \in Family : g # f => (HasDatagram(g)' <=> HasDatagram(g))
      BY <2>1 DEF Turns, HasDatagram
  <2>5. /\ overtaken' \in [Family -> Nat]
        /\ overtaken'[f] = 0
        /\ \A g \in Family : g # f =>
              IF HasDatagram(g) THEN overtaken'[g] <= overtaken[g] + 1 ELSE overtaken'[g] = 0
      BY <2>1 DEF Overtaking, Turns
  <2>6. \A g \in Family : overtaken'[g] > 0 => HasDatagram(g)'
      BY <2>4, <2>5
  <2>7. CASE ready = <<F1>> /\ f = F1 /\ Tail(ready) = <<>>
      BY <2>1, <2>3, <2>4, <2>5, <2>6, <2>7, TwoFamilies DEF Turns
  <2>8. CASE ready = <<F2>> /\ f = F2 /\ Tail(ready) = <<>>
      BY <2>1, <2>3, <2>4, <2>5, <2>6, <2>8, TwoFamilies DEF Turns
  <2>9. CASE ready = <<F1, F2>> /\ f = F1 /\ Tail(ready) = <<F2>>
      BY <2>1, <2>3, <2>4, <2>5, <2>6, <2>9, TwoFamilies DEF Turns
  <2> QED
      BY <2>1, <2>7, <2>8, <2>9, TurnOf
<1>4. ASSUME NEW f \in Family, ReceiveFails(f) PROVE Turns'
  <2>1. /\ ready # <<>> /\ Head(ready) = f /\ ready' = Tail(ready)
        /\ overtaken' = [overtaken EXCEPT ![f] = 0]
        /\ UNCHANGED inbox
      BY <1>4 DEF ReceiveFails
  <2>2. /\ overtaken' \in [Family -> Nat] /\ overtaken'[f] = 0
        /\ \A g \in Family : g # f => overtaken'[g] = overtaken[g]
      BY <2>1 DEF Turns
  <2>3. \A g \in Family : HasDatagram(g)' <=> HasDatagram(g)
      BY <2>1 DEF HasDatagram
  <2>4. CASE ready = <<F1>> /\ f = F1 /\ Tail(ready) = <<>>
      BY <2>1, <2>2, <2>3, <2>4, TwoFamilies DEF Turns
  <2>5. CASE ready = <<F2>> /\ f = F2 /\ Tail(ready) = <<>>
      BY <2>1, <2>2, <2>3, <2>5, TwoFamilies DEF Turns
  <2>6. CASE ready = <<F1, F2>> /\ f = F1 /\ Tail(ready) = <<F2>>
      BY <2>1, <2>2, <2>3, <2>6, TwoFamilies DEF Turns
  <2> QED
      BY <2>1, <2>4, <2>5, <2>6, TurnOf
<1>5. CASE UNCHANGED <<inbox, ready, overtaken>>
    BY <1>5 DEF Turns, HasDatagram
<1>6. CASE Construct \/ Start \/ Destroy
    BY <1>5, <1>6 DEF Construct, RefusePort, CreateSocket, CreateFails, BindFails, Bind,
                      Unwind, Start, Destroy, served
<1>7. CASE Ignore \/ HandleQuery \/ Send \/ SendFails
    BY <1>5, <1>7 DEF Ignore, HandleQuery, Send, SendFails, Done, served
<1>8. ASSUME NEW h \in Header, Resolve(h) PROVE Turns'
    BY <1>5, <1>8 DEF Resolve
<1>9. CASE UNCHANGED vars
    BY <1>5, <1>9 DEF vars, served
<1> QED
    BY <1>1, <1>2, <1>3, <1>4, <1>6, <1>7, <1>8, <1>9 DEF Next, Serve

(* SocketsTakeTurns: however many datagrams the other socket receives.     *)
THEOREM SocketsAlternate == Spec => []SocketsTakeTurns
<1>1. Turns => SocketsTakeTurns
    BY TwoFamilies DEF Turns, SocketsTakeTurns
<1> QED
    BY <1>1, TurnsInit, TurnsNext, PTL DEF Spec

-----------------------------------------------------------------------------
(* The datagram being served, and the reply to it.                         *)
Serving ==
    /\ current \in Datagram \cup {NoDatagram}
    /\ current = NoDatagram <=> state \notin {"received", "resolving", "replying"}
    /\ turn \in Family
    /\ response \in Header
    /\ sent \in Reply \cup {NoReply}
    /\ state \in {"resolving", "replying"} => current.query
    /\ state = "replying" => response.id = current.id /\ response.rd = current.rd

LEMMA ServingInit == Init => Serving
<1> SUFFICES ASSUME Init PROVE Serving
    OBVIOUS
<1>1. turn = F1 /\ response = NoHeader
    BY DEF Init, F1
<1> QED
    BY <1>1, NoHeaderType, TwoFamilies DEF Init, Serving

LEMMA ServingNext == Sockets /\ Turns /\ Serving /\ [Next]_vars => Serving'
<1> SUFFICES ASSUME Sockets, Turns, Serving, [Next]_vars PROVE Serving'
    OBVIOUS
<1>1. CASE Construct \/ Start \/ Destroy
  <2>1. UNCHANGED served /\ {state, state'} \cap {"received", "resolving", "replying"} = {}
      BY <1>1 DEF Construct, RefusePort, CreateSocket, CreateFails, BindFails, Bind,
                  Unwind, Start, Destroy
  <2> QED
      BY <2>1 DEF Serving, served
<1>2. CASE Poll
    BY <1>2 DEF Poll, Serving
<1>3. ASSUME NEW f \in Family, NEW d \in Datagram, Arrive(f, d) PROVE Serving'
    BY <1>3 DEF Arrive, Serving
<1>4. ASSUME NEW f \in Family, Receive(f) PROVE Serving'
  <2>1. inbox[f] \in Seq(Datagram) /\ inbox[f] # <<>>
      BY <1>4, TurnOf DEF Receive, Turns, HasDatagram
  <2>2. Head(inbox[f]) \in Datagram
      BY <2>1
  <2> QED
      BY <1>4, <2>2, ServerConstants DEF Receive, Serving
<1>5. ASSUME NEW f \in Family, ReceiveFails(f) PROVE Serving'
    BY <1>5 DEF ReceiveFails, Serving
<1>6. CASE Ignore \/ SendFails
    BY <1>6, NoHeaderType DEF Ignore, SendFails, Done, Serving
<1>7. CASE HandleQuery
    BY <1>7 DEF HandleQuery, Serving, served
<1>8. ASSUME NEW h \in Header, Resolve(h) PROVE Serving'
  <2>1. current \in Datagram /\ current.id \in Id /\ current.rd \in BOOLEAN
      BY <1>8, ServerConstants DEF Resolve, Serving
  <2>2. WithFailure(h) \in Header
      BY <2>1, ServerConstants DEF WithFailure, Header
  <2>3. ASSUME NEW g \in Header
        PROVE  /\ Enforced(g) \in Header
               /\ Enforced(g).id = current.id /\ Enforced(g).rd = current.rd
      BY <2>1 DEF Enforced, Header
  <2>4. response' \in Header /\ response'.id = current.id /\ response'.rd = current.rd
      BY <1>8, <2>2, <2>3 DEF Resolve
  <2> QED
      BY <1>8, <2>4 DEF Resolve, Serving
<1>9. CASE Send
  <2>1. current \in Datagram
      BY <1>9 DEF Send, Serving
  <2>2. sent' \in Reply
      BY <1>9, <2>1 DEF Send, Serving, Header, Reply
  <2> QED
      BY <1>9, <2>2, NoHeaderType DEF Send, Done, Serving
<1>10. CASE UNCHANGED vars
    BY <1>10 DEF vars, served, Serving
<1> QED
    BY <1>1, <1>2, <1>3, <1>4, <1>5, <1>6, <1>7, <1>8, <1>9, <1>10 DEF Next, Serve

Inv == Sockets /\ Turns /\ Serving

LEMMA InvAlways == Spec => []Inv
<1>1. Init => Inv
    BY SocketsInit, TurnsInit, ServingInit DEF Inv
<1>2. Inv /\ [Next]_vars => Inv'
    BY SocketsNext, TurnsNext, ServingNext DEF Inv
<1> QED
    BY <1>1, <1>2, PTL DEF Spec

(* TypeOK: in particular a turn is only given to a socket that still has   *)
(* its datagram when the turn comes, so that recvfrom never blocks.        *)
THEOREM TypeCorrect == Spec => []TypeOK
<1>1. Inv => TypeOK
  <2> SUFFICES ASSUME Inv PROVE TypeOK
      OBVIOUS
  <2>1. fd \in SUBSET Family /\ Cardinality(fd) <= 1
    <3>1. Cardinality({}) = 0 /\ Cardinality({F1}) = 1 /\ Cardinality({F2}) = 1
        BY FS_EmptySet, FS_Singleton
    <3>2. fd \in {{}, {F1}, {F2}}
        BY DEF Inv, Sockets
    <3> QED
        BY <3>1, <3>2, TwoFamilies
  <2>2. server_sockets \in SUBSET Family /\ open \in SUBSET Family
      BY TwoFamilies DEF Inv, Sockets, State
  <2>3. ready \in Seq(Family) /\ \A i \in DOMAIN ready : inbox[ready[i]] # <<>>
    <3>1. CASE ready = <<>>
        BY <3>1
    <3>2. CASE ready = <<F1>> /\ HasDatagram(F1)
        BY <3>2, TwoFamilies DEF HasDatagram
    <3>3. CASE ready = <<F2>> /\ HasDatagram(F2)
        BY <3>3, TwoFamilies DEF HasDatagram
    <3>4. CASE ready = <<F1, F2>> /\ HasDatagram(F1) /\ HasDatagram(F2)
        BY <3>4, TwoFamilies DEF HasDatagram
    <3> QED
        BY <3>1, <3>2, <3>3, <3>4 DEF Inv, Turns
  <2> QED
      BY <2>1, <2>2, <2>3 DEF Inv, Sockets, Turns, Serving, TypeOK
<1> QED
    BY <1>1, InvAlways, PTL

-----------------------------------------------------------------------------
(* The loop implements QueryService. *)

LEMMA FirstAndRest ==
    ASSUME NEW S, NEW a \in S, NEW q \in Seq(S)
    PROVE  /\ <<a>> \o q # <<>>
           /\ Head(<<a>> \o q) = a
           /\ Tail(<<a>> \o q) = q
<1> DEFINE s == <<a>> \o q
<1>1. s \in Seq(S) /\ Len(s) = Len(q) + 1 /\ s[1] = a /\ \A i \in 1..Len(q) : s[i + 1] = q[i]
    OBVIOUS
<1> HIDE DEF s
<1>2. s # <<>> /\ Head(s) = a
    BY <1>1
<1>3. Tail(s) \in Seq(S) /\ Len(Tail(s)) = Len(q) /\ \A i \in 1..Len(q) : Tail(s)[i] = q[i]
    BY <1>1, <1>2, HeadTailProperties
<1>4. Tail(s) = q
    BY <1>3, SeqEqual
<1> QED
    BY <1>2, <1>4 DEF s

LEMMA FirstThenRest ==
    ASSUME NEW S, NEW q \in Seq(S), q # <<>>
    PROVE  <<Head(q)>> \o Tail(q) = q
<1> DEFINE a == Head(q)
           t == Tail(q)
           s == <<a>> \o t
<1>1. a \in S /\ t \in Seq(S) /\ Len(t) = Len(q) - 1 /\ Len(q) \in Nat \ {0}
    BY HeadTailProperties
<1>2. a = q[1] /\ \A i \in 1..Len(t) : t[i] = q[i + 1]
    BY HeadTailProperties
<1> HIDE DEF a, t
<1>3. s \in Seq(S) /\ Len(s) = Len(q) /\ \A i \in 1..Len(q) : s[i] = q[i]
    BY <1>1, <1>2
<1> HIDE DEF s
<1>4. s = q
    BY <1>3, SeqEqual
<1> QED
    BY <1>4 DEF s, a, t

LEMMA AppendBehind ==
    ASSUME NEW S, NEW a \in S, NEW d \in S, NEW q \in Seq(S)
    PROVE  <<a>> \o Append(q, d) = Append(<<a>> \o q, d)
<1> DEFINE s == <<a>> \o Append(q, d)
           t == Append(<<a>> \o q, d)
<1>1. s \in Seq(S) /\ Len(s) = Len(q) + 2
    OBVIOUS
<1>2. t \in Seq(S) /\ Len(t) = Len(q) + 2
    OBVIOUS
<1>3. \A i \in 1..Len(q) + 2 : s[i] = t[i]
    OBVIOUS
<1> HIDE DEF s, t
<1>4. s = t
    BY <1>1, <1>2, <1>3, SeqEqual
<1> QED
    BY <1>4 DEF s, t

LEMMA PendingOf ==
    ASSUME Turns, NEW f \in Family
    PROVE  Pending[f] = IF current # NoDatagram /\ turn = f THEN <<current>> \o inbox[f]
                        ELSE inbox[f]
<1>1. inbox[f] \in Seq(Datagram)
    BY DEF Turns
<1>2. <<>> \o inbox[f] = inbox[f]
    BY <1>1, ConcatEmptySeq
<1> QED
    BY <1>2 DEF Pending

LEMMA PendingOfNext ==
    ASSUME Turns', NEW f \in Family
    PROVE  Pending'[f] = IF current' # NoDatagram /\ turn' = f
                         THEN <<current'>> \o inbox'[f] ELSE inbox'[f]
<1>1. inbox'[f] \in Seq(Datagram)
    BY DEF Turns
<1>2. <<>> \o inbox'[f] = inbox'[f]
    BY <1>1, ConcatEmptySeq
<1> QED
    BY <1>2 DEF Pending

(* A change of one channel's datagrams, from what holds of each channel.   *)
LEMMA PendingChanges ==
    ASSUME NEW f \in Family, NEW q, Pending'[f] = q,
           \A g \in Family : g # f => Pending'[g] = Pending[g]
    PROVE  Pending' = [Pending EXCEPT ![f] = q]
BY DEF Pending

LEMMA PendingUnchanged ==
    ASSUME \A g \in Family : Pending'[g] = Pending[g]
    PROVE  Pending' = Pending
BY DEF Pending

LEMMA StepsOfService ==
    ASSUME Inv, Inv', [Next]_vars
    PROVE  [Service!Next]_Service!vars
<1> USE DEF Inv
<1>1. ASSUME UNCHANGED <<inbox, current, turn, sent>> PROVE UNCHANGED Service!vars
    BY <1>1 DEF Service!vars, Pending
<1>2. CASE Construct \/ Start \/ Destroy
    BY <1>1, <1>2 DEF Construct, RefusePort, CreateSocket, CreateFails, BindFails, Bind,
                      Unwind, Start, Destroy, served
<1>3. ASSUME NEW f \in Family, NEW d \in Datagram, Arrive(f, d) PROVE Service!Next
  <2>1. /\ inbox' = [inbox EXCEPT ![f] = Append(@, d)]
        /\ UNCHANGED <<current, turn, sent>>
      BY <1>3 DEF Arrive
  <2>2. inbox[f] \in Seq(Datagram) /\ inbox'[f] = Append(inbox[f], d)
      BY <2>1 DEF Turns
  <2>3. \A g \in Family : g # f => inbox'[g] = inbox[g]
      BY <2>1 DEF Turns
  <2>4. \A g \in Family : g # f => Pending'[g] = Pending[g]
      BY <2>1, <2>3, PendingOf, PendingOfNext
  <2>5. Pending'[f] = Append(Pending[f], d)
    <3>1. CASE current # NoDatagram /\ turn = f
      <4>1. current \in Datagram
          BY <3>1 DEF Serving
      <4>2. Pending[f] = <<current>> \o inbox[f]
          BY <3>1, PendingOf
      <4>3. Pending'[f] = <<current>> \o Append(inbox[f], d)
          BY <2>1, <2>2, <3>1, PendingOfNext
      <4>4. <<current>> \o Append(inbox[f], d) = Append(<<current>> \o inbox[f], d)
          BY <2>2, <4>1, AppendBehind
      <4> QED
          BY <4>2, <4>3, <4>4
    <3>2. CASE ~(current # NoDatagram /\ turn = f)
        BY <2>1, <2>2, <3>2, PendingOf, PendingOfNext
    <3> QED
        BY <3>1, <3>2
  <2>6. Service!Arrive(f, d)
      BY <2>1, <2>4, <2>5, PendingChanges DEF Service!Arrive
  <2> QED
      BY <2>6 DEF Service!Next
<1>4. ASSUME NEW f \in Family, Receive(f) PROVE UNCHANGED Service!vars
  <2>1. /\ state = "polling" /\ ready # <<>> /\ Head(ready) = f
        /\ current' = Head(inbox[f]) /\ turn' = f /\ sent' = sent
        /\ inbox' = [inbox EXCEPT ![f] = Tail(@)]
      BY <1>4 DEF Receive
  <2>2. inbox[f] \in Seq(Datagram) /\ inbox[f] # <<>>
      BY <2>1, TurnOf DEF Turns, HasDatagram
  <2>3. current = NoDatagram
      BY <2>1 DEF Serving
  <2>4. Head(inbox[f]) \in Datagram
      BY <2>2
  <2>5. \A g \in Family : g # f => inbox'[g] = inbox[g]
      BY <2>1 DEF Turns
  <2>6. \A g \in Family : g # f => Pending'[g] = Pending[g]
      BY <2>1, <2>3, <2>5, PendingOf, PendingOfNext
  <2>7. inbox'[f] = Tail(inbox[f])
      BY <2>1 DEF Turns
  <2>8. Pending'[f] = Pending[f]
      BY <2>1, <2>2, <2>3, <2>4, <2>7, PendingOf, PendingOfNext, FirstThenRest, ServerConstants
  <2> QED
      BY <2>1, <2>6, <2>8, PendingUnchanged DEF Service!vars
<1>5. ASSUME NEW f \in Family, ReceiveFails(f) PROVE UNCHANGED Service!vars
    BY <1>1, <1>5 DEF ReceiveFails
<1>6. CASE Poll \/ HandleQuery
    BY <1>1, <1>6 DEF Poll, HandleQuery, served
<1>7. ASSUME NEW h \in Header, Resolve(h) PROVE UNCHANGED Service!vars
    BY <1>1, <1>7 DEF Resolve
(* The datagram being served is the first of its socket, and goes.         *)
<1>8. ASSUME state \in {"received", "resolving", "replying"}, Done
      PROVE  /\ turn \in Family /\ current \in Datagram
             /\ Pending[turn] # <<>> /\ Head(Pending[turn]) = current
             /\ Pending' = [Pending EXCEPT ![turn] = Tail(Pending[turn])]
  <2>1. current # NoDatagram /\ current \in Datagram /\ turn \in Family
      BY <1>8 DEF Serving
  <2>2. inbox[turn] \in Seq(Datagram)
      BY <2>1 DEF Turns
  <2>3. Pending[turn] = <<current>> \o inbox[turn]
      BY <2>1, PendingOf
  <2>4. \A g \in Family : g # turn => Pending[g] = inbox[g]
      BY PendingOf
  <2>5. current' = NoDatagram /\ inbox' = inbox
      BY <1>8 DEF Done
  <2>6. \A g \in Family : Pending'[g] = inbox[g]
      BY <2>5, PendingOfNext
  <2>7. /\ Pending[turn] # <<>> /\ Head(Pending[turn]) = current
        /\ Tail(Pending[turn]) = inbox[turn]
      BY <2>1, <2>2, <2>3, FirstAndRest
  <2>8. Pending' = [Pending EXCEPT ![turn] = Tail(Pending[turn])]
      BY <2>1, <2>4, <2>6, <2>7, PendingChanges
  <2> QED
      BY <2>1, <2>7, <2>8
<1>9. CASE Ignore \/ SendFails
  <2>1. state \in {"received", "replying"} /\ Done /\ sent' = sent
      BY <1>9 DEF Ignore, SendFails
  <2>2. Service!Drop(turn) /\ turn \in Family
      BY <1>8, <2>1 DEF Service!Drop
  <2> QED
      BY <2>2 DEF Service!Next, Service!Finish
<1>10. CASE Send
  <2>1. /\ state = "replying" /\ Done
        /\ sent' = [to |-> current.from, channel |-> turn, id |-> response.id,
                    rd |-> response.rd, result |-> response.result]
      BY <1>10 DEF Send
  <2>2. /\ current.query /\ response.id = current.id /\ response.rd = current.rd
        /\ response.result \in Result
      BY <2>1 DEF Serving, Header
  <2>3. sent' = Service!ReplyTo(Head(Pending[turn]), turn, response.result)
      BY <1>8, <2>1, <2>2 DEF Service!ReplyTo
  <2>4. Service!Answer(turn, response.result) /\ turn \in Family
      BY <1>8, <2>1, <2>2, <2>3 DEF Service!Answer
  <2> QED
      BY <2>2, <2>4 DEF Service!Next, Service!Finish
<1>11. CASE UNCHANGED vars
    BY <1>1, <1>11 DEF vars, served
<1> QED
    BY <1>2, <1>3, <1>4, <1>5, <1>6, <1>7, <1>9, <1>10, <1>11 DEF Next, Serve

(* ImplementsQueryService: each datagram is dealt with in its socket's     *)
(* order, and the one reply it may get is its own.                         *)
THEOREM LoopImplementsService == Spec => ImplementsQueryService
<1>1. Init => Service!Init
  <2> SUFFICES ASSUME Init PROVE Service!Init
      OBVIOUS
  <2>1. Pending = [f \in Family |-> <<>> \o <<>>]
      BY DEF Init, Pending
  <2>2. <<>> \o <<>> = <<>>
      BY EmptySeq, ConcatEmptySeq
  <2> QED
      BY <2>1, <2>2 DEF Init, Service!Init
<1>2. Inv /\ Inv' /\ [Next]_vars => [Service!Next]_Service!vars
    BY StepsOfService
<1> QED
    BY <1>1, <1>2, InvAlways, PTL DEF Spec, ImplementsQueryService, Service!Spec

=============================================================================
