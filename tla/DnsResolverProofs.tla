-------------------------- MODULE DnsResolverProofs --------------------------
(***************************************************************************)
(* Proofs about module DnsResolver, for every world of names, servers and  *)
(* records, every limit and every depth of nested lookups.                 *)
(***************************************************************************)
EXTENDS DnsResolver, FoldFacts

-----------------------------------------------------------------------------
(* The operators on packets *)

LEMMA OfTypeSelects ==
    ASSUME NEW R, NEW rs \in Seq(R), NEW type
    PROVE  OfType(rs, type) \in Seq({r \in ToSet(rs) : r.type = type})
<1> DEFINE S == {r \in ToSet(rs) : r.type = type}
           parts == [i \in DOMAIN rs |-> IF rs[i].type = type THEN <<rs[i]>> ELSE <<>>]
<1>1. ASSUME NEW i \in DOMAIN rs
      PROVE  parts[i] \in Seq(S)
  <2>1. rs[i].type = type => rs[i] \in S
      BY DEF ToSet
  <2> HIDE DEF S
  <2> QED
      BY <2>1
<1>2. parts \in Seq(Seq(S))
  <2>1. DOMAIN rs = 1..Len(rs) /\ Len(rs) \in Nat
      OBVIOUS
  <2> QED
      BY <1>1, <2>1
<1> QED
    BY <1>2, FlattenSeqType DEF OfType

LEMMA ToSetOfSum ==
    ASSUME NEW R, NEW u \in Seq(R), NEW v \in Seq(R)
    PROVE  ToSet(u \o v) \subseteq ToSet(u) \cup ToSet(v)
<1>1. Len(u) \in Nat /\ Len(v) \in Nat /\ DOMAIN u = 1..Len(u) /\ DOMAIN v = 1..Len(v)
    OBVIOUS
<1>2. u \o v \in Seq(R) /\ Len(u \o v) = Len(u) + Len(v)
    OBVIOUS
<1>3. DOMAIN (u \o v) = 1..(Len(u) + Len(v))
    BY <1>2
<1>4. ASSUME NEW i \in 1..(Len(u) + Len(v))
      PROVE  (u \o v)[i] \in ToSet(u) \cup ToSet(v)
  <2>1. CASE i <= Len(u)
    <3>1. i \in 1..Len(u)
        BY <1>1, <2>1
    <3>2. (u \o v)[i] = u[i]
        BY <3>1
    <3> QED
        BY <1>1, <3>1, <3>2 DEF ToSet
  <2>2. CASE i > Len(u)
    <3>1. i - Len(u) \in 1..Len(v)
        BY <1>1, <2>2
    <3>2. (u \o v)[i] = v[i - Len(u)]
        BY <1>1, <2>2
    <3> QED
        BY <1>1, <3>1, <3>2 DEF ToSet
  <2> QED
      BY <1>1, <2>1, <2>2
<1> QED
    BY <1>3, <1>4 DEF ToSet

LEMMA AddressesTypes ==
    ASSUME NEW rs \in Seq(Record)
    PROVE  /\ Addresses(rs) \in Seq(Address)
           /\ \A i \in DOMAIN rs : AddressOf(rs[i]) \in Seq(Address)
<1>1. ASSUME NEW i \in DOMAIN rs
      PROVE  AddressOf(rs[i]) \in Seq(Address)
  <2>1. rs[i] \in Record
      OBVIOUS
  <2>2. rs[i].type \in {"A", "AAAA"} => rs[i].data \in Address
      BY <2>1, ResolverConstants
  <2> QED
      BY <2>2 DEF AddressOf
<1> DEFINE parts == [i \in DOMAIN rs |-> AddressOf(rs[i])]
<1>2. parts \in Seq(Seq(Address))
  <2>1. DOMAIN rs = 1..Len(rs) /\ Len(rs) \in Nat
      OBVIOUS
  <2> QED
      BY <1>1, <2>1
<1> QED
    BY <1>1, <1>2, FlattenSeqType DEF Addresses

(* What OfType starts with, if with anything, is the first record of the   *)
(* type.                                                                   *)
LEMMA OfTypeFirst ==
    ASSUME NEW R, NEW rs \in Seq(R), NEW type
    PROVE  /\ OfType(rs, type) = <<>> => \A i \in 1..Len(rs) : rs[i].type # type
           /\ OfType(rs, type) # <<>> =>
                 \E i \in 1..Len(rs) : /\ rs[i].type = type /\ OfType(rs, type)[1] = rs[i]
                                       /\ \A j \in 1..(i - 1) : rs[j].type # type
<1> DEFINE parts == [i \in DOMAIN rs |-> IF rs[i].type = type THEN <<rs[i]>> ELSE <<>>]
<1>1. DOMAIN rs = 1..Len(rs) /\ Len(rs) \in Nat /\ \A i \in 1..Len(rs) : rs[i] \in R
    OBVIOUS
<1>2. parts \in Seq(Seq(R)) /\ Len(parts) = Len(rs)
    BY <1>1
<1>3. \A i \in 1..Len(rs) : /\ rs[i].type = type => parts[i] = <<rs[i]>>
                            /\ rs[i].type # type => parts[i] = <<>>
    BY <1>1
<1>4. OfType(rs, type) = FlattenSeq(parts)
    BY DEF OfType
<1> HIDE DEF parts
<1>5. \A i \in 1..Len(rs) : /\ Len(parts[i]) <= 1
                            /\ parts[i] = <<>> <=> rs[i].type # type
                            /\ parts[i] # <<>> => parts[i][1] = rs[i]
  <2> SUFFICES ASSUME NEW i \in 1..Len(rs)
               PROVE  /\ Len(parts[i]) <= 1
                      /\ parts[i] = <<>> <=> rs[i].type # type
                      /\ parts[i] # <<>> => parts[i][1] = rs[i]
      OBVIOUS
  <2> DEFINE x == rs[i]
             part == parts[i]
  <2>1. x.type = type => part = <<x>>
      BY <1>3
  <2>2. Len(<<>>) = 0
      OBVIOUS
  <2>3. CASE rs[i].type = type
    <3> HIDE DEF x, part
    <3>1. x.type = type
        BY <2>3 DEF x
    <3>2. part = <<x>>
        BY <2>1, <3>1
    <3>3. Len(part) = 1
        BY <3>2
    <3>4. part[1] = x
        BY <3>2
    <3>5. part # <<>>
        BY <3>3
    <3> QED
        BY <3>1, <3>3, <3>4, <3>5 DEF x, part
  <2>4. CASE rs[i].type # type
      BY <1>3, <2>2, <2>4
  <2> QED
      BY <2>3, <2>4
<1>6. /\ FlattenSeq(parts) = <<>> => \A i \in 1..Len(parts) : parts[i] = <<>>
      /\ FlattenSeq(parts) # <<>> =>
            \E i \in 1..Len(parts) : /\ parts[i] # <<>> /\ FlattenSeq(parts)[1] = parts[i][1]
                                     /\ \A j \in 1..(i - 1) : parts[j] = <<>>
    BY <1>2, <1>5, FlattenSeqFirst
<1>7. ASSUME OfType(rs, type) # <<>>
      PROVE  \E i \in 1..Len(rs) : /\ rs[i].type = type /\ OfType(rs, type)[1] = rs[i]
                                   /\ \A j \in 1..(i - 1) : rs[j].type # type
  <2>1. PICK i \in 1..Len(rs) : /\ parts[i] # <<>> /\ FlattenSeq(parts)[1] = parts[i][1]
                                /\ \A j \in 1..(i - 1) : parts[j] = <<>>
      BY <1>2, <1>4, <1>6, <1>7
  <2>2. \A j \in 1..(i - 1) : j \in 1..Len(rs)
      BY <1>1
  <2> QED
      BY <1>4, <1>5, <2>1, <2>2
<1> QED
    BY <1>2, <1>4, <1>5, <1>6, <1>7

(* So appending records does not change it.                                *)
LEMMA OfTypeOfSum ==
    ASSUME NEW R, NEW u \in Seq(R), NEW v \in Seq(R), NEW type, OfType(u, type) # <<>>
    PROVE  OfType(u \o v, type) # <<>> /\ OfType(u \o v, type)[1] = OfType(u, type)[1]
<1> DEFINE w == u \o v
<1>1. /\ w \in Seq(R) /\ Len(w) = Len(u) + Len(v) /\ Len(u) \in Nat /\ Len(v) \in Nat
      /\ \A i \in 1..Len(u) : w[i] = u[i]
    OBVIOUS
<1> HIDE DEF w
<1>2. PICK i \in 1..Len(u) : /\ u[i].type = type /\ OfType(u, type)[1] = u[i]
                             /\ \A j \in 1..(i - 1) : u[j].type # type
    BY OfTypeFirst
<1>3. i \in 1..Len(w) /\ w[i] = u[i]
    BY <1>1
<1>4. OfType(w, type) # <<>>
    BY <1>1, <1>2, <1>3, OfTypeFirst
<1>5. PICK k \in 1..Len(w) : /\ w[k].type = type /\ OfType(w, type)[1] = w[k]
                             /\ \A j \in 1..(k - 1) : w[j].type # type
    BY <1>1, <1>4, OfTypeFirst
<1>6. ~(i < k)
    BY <1>1, <1>2, <1>3, <1>5
<1>7. ~(k < i)
  <2> SUFFICES ASSUME k < i
               PROVE  FALSE
      OBVIOUS
  <2>1. k \in 1..(i - 1) /\ k \in 1..Len(u)
      BY <1>1
  <2> QED
      BY <1>1, <1>2, <1>5, <2>1
<1>8. k = i
    BY <1>6, <1>7
<1> QED
    BY <1>2, <1>3, <1>4, <1>5, <1>8 DEF w

LEMMA TargetType ==
    ASSUME NEW q \in Question, NEW p \in Packet, OfType(p.answers, "CNAME") # <<>>
    PROVE  Target(q, p.answers) \in Question
<1> DEFINE cnames == OfType(p.answers, "CNAME")
<1>1. p.answers \in Seq(Record)
    BY DEF Packet
<1>2. cnames \in Seq({r \in ToSet(p.answers) : r.type = "CNAME"})
    BY <1>1, OfTypeSelects
<1>3. \A r \in ToSet(p.answers) : r \in Record
    BY <1>1 DEF ToSet
<1>4. cnames[1] \in Record /\ cnames[1].type = "CNAME"
  <2> HIDE DEF cnames
  <2> QED
      BY <1>2, <1>3 DEF cnames
<1>5. cnames[1].data \in Name
    BY <1>4, ResolverConstants
<1> QED
    BY <1>5 DEF Target, Question

LEMMA NsNamesTypes ==
    ASSUME NEW p \in Packet
    PROVE  NsNames(p) \in Seq(Name)
<1> DEFINE parts == [i \in DOMAIN p.authorities |->
                       IF p.authorities[i].type = "NS" THEN <<p.authorities[i].data>> ELSE <<>>]
<1>1. p.authorities \in Seq(Record)
    BY DEF Packet
<1>2. DOMAIN p.authorities = 1..Len(p.authorities) /\ Len(p.authorities) \in Nat
    BY <1>1
<1>3. ASSUME NEW i \in DOMAIN p.authorities
      PROVE  parts[i] \in Seq(Name)
  <2>1. <<>> \in Seq(Name)
      OBVIOUS
  <2>2. CASE p.authorities[i].type = "NS"
    <3>1. p.authorities[i] \in Record
        BY <1>1
    <3>2. p.authorities[i].data \in Name
        BY <2>2, <3>1, ResolverConstants
    <3> DEFINE n == p.authorities[i].data
    <3>3. parts[i] = <<n>>
        BY <2>2
    <3> HIDE DEF n, parts
    <3> QED
        BY <3>2, <3>3 DEF n
  <2> QED
      BY <2>1, <2>2
<1>4. parts \in Seq(Seq(Name))
  <2>1. parts = [i \in 1..Len(p.authorities) |-> parts[i]]
      BY <1>2
  <2> HIDE DEF parts
  <2> QED
      BY <1>2, <1>3, <2>1
<1> QED
    BY <1>4, FlattenSeqType DEF NsNames

LEMMA GlueTypes ==
    ASSUME NEW p \in Packet
    PROVE  Glue(p) \in Seq(Address)
<1> DEFINE of(n) == FlattenSeq([i \in DOMAIN p.additionals |->
                       IF SameName(p.additionals[i].owner, n)
                           THEN AddressOf(p.additionals[i]) ELSE <<>>])
<1>1. p.additionals \in Seq(Record)
    BY DEF Packet
<1>2. ASSUME NEW n
      PROVE  of(n) \in Seq(Address)
  <2> DEFINE parts == [i \in DOMAIN p.additionals |->
                         IF SameName(p.additionals[i].owner, n)
                             THEN AddressOf(p.additionals[i]) ELSE <<>>]
  <2>1. DOMAIN p.additionals = 1..Len(p.additionals) /\ Len(p.additionals) \in Nat
      BY <1>1
  <2>2. \A i \in DOMAIN p.additionals : AddressOf(p.additionals[i]) \in Seq(Address)
      BY <1>1, AddressesTypes
  <2>3. parts \in Seq(Seq(Address))
      BY <2>1, <2>2
  <2> QED
      BY <2>3, FlattenSeqType
<1> HIDE DEF of
<1>3. DOMAIN p.authorities = 1..Len(p.authorities) /\ Len(p.authorities) \in Nat
  <2>1. p.authorities \in Seq(Record)
      BY DEF Packet
  <2> QED
      BY <2>1
<1> DEFINE parts == [i \in DOMAIN p.authorities |->
                       IF p.authorities[i].type = "NS" THEN of(p.authorities[i].data) ELSE <<>>]
<1>4. parts \in Seq(Seq(Address))
  <2>1. <<>> \in Seq(Address)
      OBVIOUS
  <2> QED
      BY <1>2, <1>3, <2>1
<1>5. FlattenSeq(parts) \in Seq(Address)
    BY <1>4, FlattenSeqType
<1> QED
    BY <1>5 DEF Glue, of

LEMMA AddCandidatesTypes ==
    ASSUME NEW candidates \in Seq(Address), NEW addresses \in Seq(Address)
    PROVE  AddCandidates(candidates, addresses) \in Seq(Address)
<1> DEFINE n == Len(addresses)
           V == Seq(Address)
           step == [x \in V \X (1..n) |-> IF Contains(x[1], addresses[x[2]]) THEN x[1]
                                          ELSE Append(x[1], addresses[x[2]])]
           added == CHOOSE iter : iter = [s \in SUBSET (DOMAIN addresses) |->
                      IF s = {} THEN candidates
                      ELSE IF Contains(iter[s \ {Max(s)}], addresses[Max(s)])
                               THEN iter[s \ {Max(s)}]
                               ELSE Append(iter[s \ {Max(s)}], addresses[Max(s)])]
<1>1. n \in Nat /\ DOMAIN addresses = 1..n /\ candidates \in V
    OBVIOUS
<1>2. step \in [V \X (1..n) -> V]
    BY <1>1
<1>3. PICK f : Solves(f, n, V, candidates, step)
  <2> HIDE DEF n, V, step
  <2> QED
      BY <1>1, <1>2, FoldExists
<1>4. f = [s \in SUBSET (DOMAIN addresses) |->
             IF s = {} THEN candidates
             ELSE IF Contains(f[s \ {Max(s)}], addresses[Max(s)])
                      THEN f[s \ {Max(s)}]
                      ELSE Append(f[s \ {Max(s)}], addresses[Max(s)])]
  <2>1. \A v \in V, k \in 1..n : step[<<v, k>>] =
         IF Contains(v, addresses[k]) THEN v ELSE Append(v, addresses[k])
      OBVIOUS
  <2> HIDE DEF V, step
  <2>2. /\ f = [t \in SUBSET (1..n) |->
                   IF t = {} THEN candidates ELSE step[<<f[t \ {Max(t)}], Max(t)>>]]
        /\ \A t \in SUBSET (1..n) : t # {} => Max(t) \in 1..n /\ f[t \ {Max(t)}] \in V
      BY <1>1, <1>3, SolvesSteps
  <2> QED
      BY <1>1, <2>1, <2>2
<1>5. added = [s \in SUBSET (DOMAIN addresses) |->
                 IF s = {} THEN candidates
                 ELSE IF Contains(added[s \ {Max(s)}], addresses[Max(s)])
                          THEN added[s \ {Max(s)}]
                          ELSE Append(added[s \ {Max(s)}], addresses[Max(s)])]
    BY <1>4
<1>6. AddCandidates(candidates, addresses) = added[1..n]
    BY <1>1 DEF AddCandidates, FoldLeft, MapThenFoldSet
<1> HIDE DEF added
<1>7. added[{}] \in V
    BY <1>1, <1>5
<1>8. ASSUME NEW k \in 1..n, added[1..(k - 1)] \in V
      PROVE  added[1..k] \in V
  <2>1. 1..k \in SUBSET (DOMAIN addresses) /\ addresses[k] \in Address
      BY <1>1
  <2>2. added[1..k] \in {added[1..(k - 1)], Append(added[1..(k - 1)], addresses[k])}
      BY <1>1, <1>5, <2>1, MaxOfPrefix
  <2> DEFINE before == added[1..(k - 1)]
  <2>3. before \in Seq(Address) /\ Append(before, addresses[k]) \in Seq(Address)
    <3> HIDE DEF before
    <3>1. before \in Seq(Address)
        BY <1>8 DEF before
    <3> QED
        BY <2>1, <3>1
  <2> QED
      BY <2>2, <2>3
<1>9. added[1..n] \in V
  <2> HIDE DEF n, V
  <2> QED
      BY <1>1, <1>7, <1>8, FoldInvariant
<1> QED
    BY <1>6, <1>9

LEMMA NegativeTtlType ==
    ASSUME NEW p \in Packet
    PROVE  NegativeTtl(p) \in Nat \ {0}
<1> DEFINE soas == OfType(p.authorities, "SOA")
           caps == {soas[1].ttl, soas[1].minimum} \ {0}
<1>1. p.authorities \in Seq(Record)
    BY DEF Packet
<1>2. soas \in Seq({r \in ToSet(p.authorities) : r.type = "SOA"})
    BY <1>1, OfTypeSelects
<1>3. \A r \in ToSet(p.authorities) : r \in Record
    BY <1>1 DEF ToSet
<1> HIDE DEF soas
<1>4. CASE soas = <<>> \/ caps = {}
    BY <1>4, ResolverConstants DEF NegativeTtl, soas
<1>5. CASE soas # <<>> /\ caps # {}
  <2>1. soas[1] \in Record /\ soas[1].type = "SOA"
    <3>1. 1 \in 1..Len(soas)
        BY <1>2, <1>5
    <3> QED
        BY <1>2, <1>3, <3>1
  <2>2. caps \subseteq Nat \ {0} /\ caps # {}
      BY <1>5, <2>1, ResolverConstants
  <2> HIDE DEF caps
  <2>3. \E m \in caps : \A c \in caps : m <= c
      BY <2>2, LeastExists
  <2>4. NegativeTtl(p) \in caps
      BY <1>5, <2>3 DEF NegativeTtl, soas, caps
  <2> QED
      BY <2>2, <2>4
<1> QED
    BY <1>4, <1>5

-----------------------------------------------------------------------------
(* The cache as lookup uses it *)

LEMMA CacheKeyType ==
    ASSUME NEW q \in Question
    PROVE  CacheKey(q) \in Cache!Key
BY ResolverConstants DEF CacheKey, Cache!CacheKey, Cache!Key, Question

LEMMA LeastTtlType ==
    ASSUME NEW rs \in Seq(Record), NEW ttl \in Nat
    PROVE  Cache!LeastTtl(rs, ttl) \in Nat \ {0}
<1>1. \A i \in DOMAIN rs : rs[i].ttl \in Nat
    BY ResolverConstants
<1>2. Cache!GivenTtl(ttl) \in Nat \ {0}
    BY ResolverConstants DEF Cache!GivenTtl
<1>3. Cache!TtlCaps(rs, ttl) \subseteq Nat \ {0} /\ Cache!TtlCaps(rs, ttl) # {}
    BY <1>1, <1>2 DEF Cache!TtlCaps
<1>4. \E m \in Cache!TtlCaps(rs, ttl) : \A c \in Cache!TtlCaps(rs, ttl) : m <= c
    BY <1>3, LeastExists
<1>5. Cache!LeastTtl(rs, ttl) \in Cache!TtlCaps(rs, ttl)
    BY <1>4 DEF Cache!LeastTtl
<1> QED
    BY <1>3, <1>5

(* The entries lookup makes. *)
LEMMA EntryTypes ==
    ASSUME now \in Nat
    PROVE  /\ \A rs \in Seq(Record) : Cache!RecordsEntry(rs, DefaultTtl) \in Cache!Entry
           /\ \A result \in Cache!CacheResult, p \in Packet :
                 Cache!ResultEntry(result, NegativeTtl(p)) \in Cache!Entry
<1>1. ASSUME NEW rs \in Seq(Record)
      PROVE  Cache!RecordsEntry(rs, DefaultTtl) \in Cache!Entry
  <2>1. DefaultTtl \in Nat
      BY ResolverConstants
  <2>2. Cache!LeastTtl(rs, DefaultTtl) \in Nat
      BY <2>1, LeastTtlType
  <2>3. now + Cache!LeastTtl(rs, DefaultTtl) \in Nat
      BY <2>2
  <2> QED
      BY <2>3 DEF Cache!RecordsEntry, Cache!Entry, Cache!CacheResult
<1>2. ASSUME NEW result \in Cache!CacheResult, NEW p \in Packet
      PROVE  Cache!ResultEntry(result, NegativeTtl(p)) \in Cache!Entry
  <2>1. Cache!GivenTtl(NegativeTtl(p)) \in Nat
      BY NegativeTtlType, ResolverConstants DEF Cache!GivenTtl
  <2> QED
      BY <2>1 DEF Cache!ResultEntry, Cache!Entry
<1> QED
    BY <1>1, <1>2

CacheType == cache \in [Cache!Key -> Cache!Entry \cup {NoEntry}]

(* A put changes one key, to the entry put, or nothing. *)
LEMMA WithEntryTypes ==
    ASSUME CacheType, NEW k \in Cache!Key, NEW e \in Cache!Entry,
           cache' = Cache!WithEntry(k, e)
    PROVE  /\ CacheType'
           /\ \A j \in Cache!Key : cache'[j] = cache[j] \/ (j = k /\ cache'[j] = e)
BY DEF CacheType, Cache!WithEntry, Cache!Key, Cache!Entry, Cache!CacheResult

(* A get changes one key, to nothing, or nothing. *)
LEMMA AfterGetTypes ==
    ASSUME CacheType, NEW k \in Cache!Key, cache' = Cache!AfterGet(k)
    PROVE  /\ CacheType'
           /\ \A j \in Cache!Key : cache'[j] \in {cache[j], NoEntry}
BY DEF CacheType, Cache!AfterGet, Cache!Key, Cache!Entry, Cache!CacheResult

(* What a get gives is what the cache holds. *)
LEMMA LiveIsHeld ==
    ASSUME NEW k, Cache!Live(k) # NoEntry
    PROVE  Cache!Live(k) = cache[k] /\ cache[k] # NoEntry
BY DEF Cache!Live

-----------------------------------------------------------------------------
(* The stack: what the three moves of an activation leave of it, whatever  *)
(* set S its frames are in.                                                *)

LEMMA TopInStack ==
    ASSUME NEW S, stack \in Seq(S), stack # <<>>
    PROVE  /\ Top \in S /\ Top = stack[1]
           /\ Len(stack) \in Nat \ {0} /\ DOMAIN stack = 1..Len(stack)
BY DEF Top

LEMMA ContinueKeeps ==
    ASSUME NEW S, stack \in Seq(S), stack # <<>>, NEW f \in S, Continue(f)
    PROVE  /\ stack' \in Seq(S) /\ stack' # <<>>
           /\ Len(stack') = Len(stack) /\ stack'[1] = f /\ Top' = f
           /\ \A i \in 2..Len(stack) : stack'[i] = stack[i]
<1>1. Tail(stack) \in Seq(S) /\ Len(Tail(stack)) = Len(stack) - 1 /\ Len(stack) \in Nat \ {0}
    OBVIOUS
<1>2. \A i \in 1..(Len(stack) - 1) : Tail(stack)[i] = stack[i + 1]
    OBVIOUS
<1> DEFINE t == Tail(stack)
<1>3. stack' = <<f>> \o t
    BY DEF Continue
<1> HIDE DEF t
<1>4. stack' \in Seq(S) /\ Len(stack') = Len(t) + 1 /\ stack'[1] = f
    BY <1>1, <1>3 DEF t
<1>5. \A i \in 2..(Len(t) + 1) : stack'[i] = t[i - 1]
    BY <1>1, <1>3 DEF t
<1>6. \A i \in 2..Len(stack) : stack'[i] = stack[i]
    BY <1>1, <1>2, <1>5 DEF t
<1>7. Len(stack') = Len(stack) /\ stack' # <<>>
    BY <1>1, <1>4 DEF t
<1>8. Top' = f
    BY <1>4, <1>7 DEF Top
<1> QED
    BY <1>4, <1>6, <1>7, <1>8

LEMMA LookupKeeps ==
    ASSUME NEW S, stack \in Seq(S), stack # <<>>, NEW f \in S, NEW q, Activation(q) \in S,
           Lookup(f, q)
    PROVE  /\ ~(Len(stack) < MaxDepth) => crashed' = TRUE /\ stack' = stack
           /\ Len(stack) < MaxDepth =>
              /\ crashed' = crashed
              /\ stack' \in Seq(S) /\ stack' # <<>>
              /\ Len(stack') = Len(stack) + 1
              /\ stack'[1] = Activation(q) /\ Top' = Activation(q) /\ stack'[2] = f
              /\ \A i \in 3..(Len(stack) + 1) : stack'[i] = stack[i - 1]
<1>1. Tail(stack) \in Seq(S) /\ Len(Tail(stack)) = Len(stack) - 1 /\ Len(stack) \in Nat \ {0}
    OBVIOUS
<1>2. \A i \in 1..(Len(stack) - 1) : Tail(stack)[i] = stack[i + 1]
    OBVIOUS
<1>4. CASE ~(Len(stack) < MaxDepth)
    BY <1>4, Zenon DEF Lookup
<1>5. CASE Len(stack) < MaxDepth
  <2> DEFINE t == Tail(stack)
             a == Activation(q)
  <2>1. stack' = <<a, f>> \o t /\ crashed' = crashed
      BY <1>5 DEF Lookup
  <2> HIDE DEF t, a
  <2>2. a \in S /\ t \in Seq(S)
      BY <1>1 DEF a, t
  <2>3. /\ stack' \in Seq(S) /\ Len(stack') = Len(t) + 2
        /\ stack'[1] = a /\ stack'[2] = f
      BY <2>1, <2>2
  <2>4. \A i \in 3..(Len(t) + 2) : stack'[i] = t[i - 2]
      BY <2>1, <2>2
  <2>5. \A i \in 3..(Len(stack) + 1) : stack'[i] = stack[i - 1]
      BY <1>1, <1>2, <2>4 DEF t
  <2>6. Len(stack') = Len(stack) + 1 /\ stack' # <<>>
      BY <1>1, <2>3 DEF t
  <2>7. Top' = a
      BY <2>3, <2>6 DEF Top
  <2> QED
      BY <1>5, <2>1, <2>3, <2>5, <2>6, <2>7 DEF a
<1> QED
    BY <1>4, <1>5

LEMMA ReturnKeeps ==
    ASSUME NEW S, stack \in Seq(S), stack # <<>>, NEW p, Return(p)
    PROVE  /\ stack' \in Seq(S) /\ Len(stack') = Len(stack) - 1 /\ returned' = p
           /\ \A i \in 1..(Len(stack) - 1) : stack'[i] = stack[i + 1]
BY DEF Return

-----------------------------------------------------------------------------
(* Types *)

LEMMA FinalizedTypes ==
    ASSUME NEW p \in Packet \cup {NoPacket}
    PROVE  /\ Finalized(p) \in Packet \cup {NoPacket}
           /\ Finalized(p) # NoPacket =>
                 /\ p # NoPacket
                 /\ Finalized(p).rcode = p.rcode /\ Finalized(p).answers = p.answers
                 /\ ~Finalized(p).aa /\ Finalized(p).ra
BY DEF Finalized, Packet

LEMMA CachedResponseTypes ==
    ASSUME NEW e \in Cache!Entry
    PROVE  /\ CachedResponse(e) \in Packet
           /\ CachedResponse(e).answers \in {e.records, <<>>}
           /\ e.result # "POSITIVE" => CachedResponse(e).answers = <<>>
           /\ ~CachedResponse(e).aa /\ CachedResponse(e).ra
BY DEF CachedResponse, Packet, Cache!Entry, Cache!CacheResult

(* Where an activation is says how far it has got: past the first response *)
(* there is one, in a round of the referral loop a referral is left, and   *)
(* while a target is looked up there is a hop left and an alias.           *)
Placed(f) ==
    /\ f.pc \in {"cname", "target", "glueless", "nameserver", "servers"}
          => f.response # NoPacket
    /\ f.pc \in {"glueless", "nameserver", "servers"} => f.referrals < MaxReferrals
    /\ f.pc = "target" => f.hop < MaxCnameHops /\ OfType(f.response.answers, "CNAME") # <<>>

PlacedFrame == {f \in Frame : Placed(f)}

TypeInv == TypeOK /\ stack \in Seq(PlacedFrame)

LEMMA BoundsAreNaturals ==
    /\ MaxReferrals \in Nat \ {0} /\ MaxCnameHops \in Nat \ {0}
    /\ MaxDepth \in Nat \ {0} /\ DefaultTtl \in Nat \ {0} /\ MaxTime \in Nat
BY ResolverConstants

LEMMA ActivationTypes ==
    ASSUME NEW q \in Question
    PROVE  Activation(q) \in PlacedFrame
BY BoundsAreNaturals DEF Activation, PlacedFrame, Frame, Placed

(* What is true of a running activation.                                   *)
LEMMA TopTypes ==
    ASSUME TypeInv, Running
    PROVE  /\ stack \in Seq(PlacedFrame) /\ stack # <<>>
           /\ Top \in Frame /\ Placed(Top) /\ CacheKey(Top.query) \in Cache!Key
           /\ Top.query \in Question
           /\ Top.response # NoPacket => Top.response \in Packet
           /\ CacheType /\ now \in Nat
<1>1. stack \in Seq(PlacedFrame) /\ stack # <<>>
    BY DEF TypeInv, Running
<1>2. Top \in PlacedFrame
    BY <1>1, TopInStack
<1>3. Top \in Frame /\ Placed(Top)
    BY <1>2 DEF PlacedFrame
<1>4. Top.query \in Question /\ Top.response \in Packet \cup {NoPacket}
    BY <1>3 DEF Frame
<1>5. CacheKey(Top.query) \in Cache!Key
    BY <1>4, CacheKeyType
<1>6. CacheType /\ now \in Nat
    BY BoundsAreNaturals DEF TypeInv, TypeOK, CacheType
<1> QED
    BY <1>1, <1>3, <1>4, <1>5, <1>6

(* A step that goes on with a frame that is placed, or returns a packet,   *)
(* keeps the types.                                                        *)
LEMMA ContinueTypes ==
    ASSUME TypeInv, Running, NEW f \in PlacedFrame, Continue(f),
           CacheType', UNCHANGED <<now, returned, crashed>>
    PROVE  TypeInv'
<1>1. stack' \in Seq(PlacedFrame) /\ Len(stack') = Len(stack)
    BY TopTypes, ContinueKeeps
<1>2. stack' \in Seq(Frame)
    BY <1>1 DEF PlacedFrame
<1> QED
    BY <1>1, <1>2 DEF TypeInv, TypeOK, CacheType

LEMMA LookupTypes ==
    ASSUME TypeInv, Running, NEW f \in PlacedFrame, NEW q \in Question, Lookup(f, q),
           UNCHANGED <<cache, now, returned>>
    PROVE  TypeInv'
<1>1. stack \in Seq(PlacedFrame) /\ stack # <<>> /\ Activation(q) \in PlacedFrame
    BY TopTypes, ActivationTypes
<1>2. /\ stack' \in Seq(PlacedFrame) /\ Len(stack') <= MaxDepth
      /\ crashed' \in BOOLEAN
  <2>1. Len(stack) \in Nat /\ Len(stack) <= MaxDepth /\ crashed \in BOOLEAN
      BY <1>1 DEF TypeInv, TypeOK
  <2>2. CASE Len(stack) < MaxDepth
    <3>1. crashed' = crashed /\ stack' \in Seq(PlacedFrame) /\ Len(stack') = Len(stack) + 1
        BY <1>1, <2>2, LookupKeeps
    <3>2. Len(stack') <= MaxDepth
        BY <2>1, <2>2, <3>1, BoundsAreNaturals
    <3> QED
        BY <2>1, <3>1, <3>2
  <2>3. CASE ~(Len(stack) < MaxDepth)
    <3>1. crashed' = TRUE /\ stack' = stack
        BY <1>1, <2>3, LookupKeeps
    <3> QED
        BY <1>1, <2>1, <3>1
  <2> QED
      BY <2>2, <2>3
<1>3. stack' \in Seq(Frame)
    BY <1>2 DEF PlacedFrame
<1> QED
    BY <1>2, <1>3 DEF TypeInv, TypeOK

LEMMA ReturnTypes ==
    ASSUME TypeInv, Running, NEW p \in Packet \cup {NoPacket}, Return(p),
           CacheType', UNCHANGED <<now, crashed>>
    PROVE  TypeInv'
<1>1. stack \in Seq(PlacedFrame) /\ stack # <<>>
    BY TopTypes
<1>2. stack' \in Seq(PlacedFrame) /\ Len(stack') = Len(stack) - 1 /\ returned' = p
    BY <1>1, ReturnKeeps
<1>3. stack' \in Seq(Frame) /\ Len(stack') <= MaxDepth
  <2>1. Len(stack) \in Nat /\ Len(stack) <= MaxDepth
      BY <1>1 DEF TypeInv, TypeOK
  <2> QED
      BY <1>2, <2>1, BoundsAreNaturals DEF PlacedFrame
<1> QED
    BY <1>2, <1>3 DEF TypeInv, TypeOK, CacheType

LEMMA NegativeTypes ==
    ASSUME TypeInv, Running, NEW p \in Packet, NEW result \in {"NXDOMAIN", "NODATA"},
           CacheNegative(result, p)
    PROVE  CacheType'
<1>1. Cache!ResultEntry(result, NegativeTtl(p)) \in Cache!Entry
    BY TopTypes, EntryTypes DEF Cache!CacheResult
<1> QED
    BY <1>1, TopTypes, WithEntryTypes DEF CacheNegative

LEMMA NoDataTypes ==
    ASSUME TypeInv, Running, NEW p \in Packet, NoData(p), UNCHANGED <<now, crashed>>
    PROVE  TypeInv'
<1>1. CacheType'
    BY NegativeTypes DEF NoData
<1> QED
    BY <1>1, FinalizedTypes, ReturnTypes DEF NoData

LEMMA AnswerTypes ==
    ASSUME TypeInv, Running, Top.response \in Packet, Answer(Top), UNCHANGED <<now, crashed>>
    PROVE  TypeInv'
<1>1. Cache!RecordsEntry(Top.response.answers, DefaultTtl) \in Cache!Entry
    BY TopTypes, EntryTypes DEF Packet
<1>2. CacheType'
    BY <1>1, TopTypes, WithEntryTypes DEF Answer
<1> QED
    BY <1>2, FinalizedTypes, ReturnTypes DEF Answer

(* A step of lookup by the place of its activation.                        *)
LEMMA LookupStepTypes ==
    ASSUME TypeInv, LookupStep
    PROVE  TypeInv'
<1>1. ASSUME AnswerFromCache
      PROVE  TypeInv'
  <2>1. Running
      BY <1>1 DEF AnswerFromCache, At
  <2>2. Cache!Live(CacheKey(Top.query)) \in Cache!Entry
      BY <1>1, <2>1, TopTypes, LiveIsHeld DEF AnswerFromCache, CacheType
  <2>3. CachedResponse(Cache!Live(CacheKey(Top.query))) \in Packet \cup {NoPacket}
      BY <2>2, CachedResponseTypes
  <2>4. Return(CachedResponse(Cache!Live(CacheKey(Top.query)))) /\ CacheType'
      BY <1>1, <2>1, TopTypes DEF AnswerFromCache, CacheType
  <2> QED
      BY <1>1, <2>1, <2>3, <2>4, ReturnTypes DEF AnswerFromCache
<1>2. ASSUME AskRoot
      PROVE  TypeInv'
  <2>1. Running
      BY <1>2 DEF AskRoot, At
  <2>2. PICK p \in Upstream[Root][Top.query] :
               Continue([Top EXCEPT !.pc = "referral", !.response = p])
      BY <1>2 DEF AskRoot
  <2>3. p \in Packet \cup {NoPacket}
      BY <2>1, TopTypes, ResolverConstants
  <2>4. [Top EXCEPT !.pc = "referral", !.response = p] \in PlacedFrame
      BY <2>1, <2>3, TopTypes DEF PlacedFrame, Frame, Placed
  <2>5. CacheType'
      BY <1>2, <2>1, TopTypes, AfterGetTypes DEF AskRoot
  <2> QED
      BY <1>2, <2>1, <2>2, <2>4, <2>5, ContinueTypes DEF AskRoot
<1>3. ASSUME TooManyReferrals
      PROVE  TypeInv'
  <2>1. Running /\ Top.response \in Packet \cup {NoPacket}
      BY <1>3, TopTypes DEF TooManyReferrals, At, Frame
  <2>2. CacheType'
      BY <1>3, <2>1, TopTypes DEF TooManyReferrals, CacheType
  <2> QED
      BY <1>3, <2>1, <2>2, FinalizedTypes, ReturnTypes DEF TooManyReferrals
<1>4. ASSUME NoResponse
      PROVE  TypeInv'
  <2>1. Running
      BY <1>4 DEF NoResponse, AtReferral, At
  <2>2. CacheType'
      BY <1>4, <2>1, TopTypes DEF NoResponse, CacheType
  <2> QED
      BY <1>4, <2>1, <2>2, ReturnTypes DEF NoResponse
<1>5. ASSUME HasAnswers
      PROVE  TypeInv'
  <2>1. Running
      BY <1>5 DEF HasAnswers, AtReferral, At
  <2>2. [Top EXCEPT !.pc = "cname", !.hop = 0] \in PlacedFrame
    <3>1. 0 \in 0..MaxCnameHops /\ Top \in Frame
        BY <2>1, TopTypes, BoundsAreNaturals
    <3>2. Top.response # NoPacket
        BY <1>5 DEF HasAnswers
    <3> QED
        BY <3>1, <3>2 DEF PlacedFrame, Frame, Placed
  <2>3. CacheType'
      BY <1>5, <2>1, TopTypes DEF HasAnswers, CacheType
  <2> QED
      BY <1>5, <2>1, <2>2, <2>3, ContinueTypes DEF HasAnswers
<1>6. ASSUME HasError
      PROVE  TypeInv'
  <2>1. Running /\ Top.response # NoPacket
      BY <1>6 DEF HasError, Unanswered, AtReferral, At
  <2>2. Top.response \in Packet
      BY <2>1, TopTypes
  <2>3. CacheType'
    <3>1. CASE Top.response.rcode = "NXDOMAIN"
        BY <1>6, <2>1, <2>2, <3>1, NegativeTypes DEF HasError
    <3>2. CASE Top.response.rcode # "NXDOMAIN"
        BY <1>6, <2>1, <3>2, TopTypes DEF HasError, CacheType
    <3> QED
        BY <3>1, <3>2
  <2> QED
      BY <1>6, <2>1, <2>2, <2>3, FinalizedTypes, ReturnTypes DEF HasError
<1>7. ASSUME HasNothing
      PROVE  TypeInv'
  <2>1. Running /\ Top.response # NoPacket
      BY <1>7 DEF HasNothing, Unanswered, AtReferral, At
  <2> QED
      BY <1>7, <2>1, TopTypes, NoDataTypes DEF HasNothing
<1>8. ASSUME HasReferral
      PROVE  TypeInv'
  <2>1. Running /\ Top.response # NoPacket /\ Top.referrals < MaxReferrals
      BY <1>8, TopTypes, BoundsAreNaturals DEF HasReferral, Unanswered, AtReferral, At, Frame
  <2>2. Top.response \in Packet
      BY <2>1, TopTypes
  <2> DEFINE names == NsNames(Top.response)
             glue == AddCandidates(<<>>, Glue(Top.response))
             both(n) == <<[name |-> n, type |-> "A"], [name |-> n, type |-> "AAAA"]>>
             todo == IF glue = <<>> THEN FlattenSeq([i \in DOMAIN names |-> both(names[i])])
                     ELSE <<>>
             pc == IF glue = <<>> THEN "glueless" ELSE "servers"
             f == [Top EXCEPT !.pc = pc, !.candidates = glue, !.todo = todo]
  <2>3. Continue(f) /\ UNCHANGED <<cache, now, returned, crashed>>
      BY <1>8 DEF HasReferral
  <2>4. glue \in Seq(Address)
    <3>1. <<>> \in Seq(Address) /\ Glue(Top.response) \in Seq(Address)
        BY <2>2, GlueTypes
    <3> QED
        BY <3>1, AddCandidatesTypes
  <2>5. todo \in Seq(Question)
    <3>1. names \in Seq(Name)
        BY <2>2, NsNamesTypes
    <3> HIDE DEF names
    <3>2. \A i \in DOMAIN names : both(names[i]) \in Seq(Question)
        BY <3>1, ResolverConstants DEF Question
    <3> HIDE DEF both
    <3>3. DOMAIN names = 1..Len(names) /\ Len(names) \in Nat
        BY <3>1
    <3>4. [i \in DOMAIN names |-> both(names[i])] \in Seq(Seq(Question))
        BY <3>2, <3>3
    <3>5. FlattenSeq([i \in DOMAIN names |-> both(names[i])]) \in Seq(Question)
        BY <3>4, FlattenSeqType
    <3> HIDE DEF glue
    <3> QED
        BY <3>5
  <2>6. f \in PlacedFrame
    <3> HIDE DEF todo, glue
    <3> QED
        BY <2>1, <2>4, <2>5, TopTypes DEF PlacedFrame, Frame, Placed
  <2>7. CacheType'
      BY <2>1, <2>3, TopTypes DEF CacheType
  <2> HIDE DEF f
  <2> QED
      BY <2>1, <2>3, <2>6, <2>7, ContinueTypes
<1>9. ASSUME LookupNameserver
      PROVE  TypeInv'
  <2>1. Running /\ Top.pc = "glueless" /\ Top.todo # <<>>
      BY <1>9 DEF LookupNameserver, At
  <2>2. Top.todo \in Seq(Question)
      BY <2>1, TopTypes DEF Frame
  <2>3. Head(Top.todo) \in Question /\ Tail(Top.todo) \in Seq(Question)
      BY <2>1, <2>2
  <2>4. [Top EXCEPT !.pc = "nameserver", !.todo = Tail(@)] \in PlacedFrame
      BY <2>1, <2>3, TopTypes DEF PlacedFrame, Frame, Placed
  <2> QED
      BY <1>9, <2>1, <2>3, <2>4, LookupTypes DEF LookupNameserver
<1>10. ASSUME NameserverReturned
       PROVE  TypeInv'
  <2> DEFINE found == IF returned = NoPacket THEN <<>> ELSE Addresses(returned.answers)
  <2>1. Running /\ Top.pc = "nameserver"
      BY <1>10 DEF NameserverReturned, At
  <2>2. found \in Seq(Address)
    <3>1. returned # NoPacket => returned.answers \in Seq(Record)
        BY DEF TypeInv, TypeOK, Packet
    <3> QED
        BY <3>1, AddressesTypes
  <2>3. AddCandidates(Top.candidates, found) \in Seq(Address)
      BY <2>1, <2>2, TopTypes, AddCandidatesTypes DEF Frame
  <2>4. /\ Continue([Top EXCEPT !.pc = "glueless",
                               !.candidates = AddCandidates(Top.candidates, found)])
        /\ UNCHANGED <<cache, now, returned, crashed>>
      BY <1>10 DEF NameserverReturned
  <2> HIDE DEF found
  <2>5. [Top EXCEPT !.pc = "glueless", !.candidates = AddCandidates(Top.candidates, found)]
           \in PlacedFrame
      BY <2>1, <2>3, TopTypes DEF PlacedFrame, Frame, Placed
  <2>6. CacheType'
      BY <2>1, <2>4, TopTypes DEF CacheType
  <2> QED
      BY <2>1, <2>4, <2>5, <2>6, ContinueTypes
<1>11. ASSUME NameserversDone
       PROVE  TypeInv'
  <2>1. Running /\ Top.pc = "glueless"
      BY <1>11 DEF NameserversDone, At
  <2>2. Top.response \in Packet
      BY <2>1, TopTypes DEF Placed
  <2>3. CASE Top.candidates = <<>>
      BY <1>11, <2>1, <2>2, <2>3, NoDataTypes DEF NameserversDone
  <2>4. CASE Top.candidates # <<>>
    <3>1. [Top EXCEPT !.pc = "servers"] \in PlacedFrame
        BY <2>1, TopTypes DEF PlacedFrame, Frame, Placed
    <3>2. CacheType'
        BY <1>11, <2>1, <2>4, TopTypes DEF NameserversDone, CacheType
    <3> QED
        BY <1>11, <2>1, <2>4, <3>1, <3>2, ContinueTypes DEF NameserversDone
  <2> QED
      BY <2>3, <2>4
<1>12. ASSUME AlreadyQueried
       PROVE  TypeInv'
  <2>1. Running /\ Top.candidates # <<>> /\ Top.pc = "servers"
      BY <1>12 DEF AlreadyQueried, At
  <2>2. [Top EXCEPT !.candidates = Tail(@)] \in PlacedFrame
    <3>1. Tail(Top.candidates) \in Seq(Address)
        BY <2>1, TopTypes DEF Frame
    <3> QED
        BY <2>1, <3>1, TopTypes DEF PlacedFrame, Frame, Placed
  <2>3. CacheType'
      BY <1>12, <2>1, TopTypes DEF AlreadyQueried, CacheType
  <2> QED
      BY <1>12, <2>1, <2>2, <2>3, ContinueTypes DEF AlreadyQueried
<1>13. ASSUME QueryNameServer
       PROVE  TypeInv'
  <2> DEFINE server == Head(Top.candidates)
             asked == [Top EXCEPT !.queried = Append(@, server), !.candidates = Tail(@)]
  <2>1. /\ Running /\ Top.candidates # <<>> /\ Top.pc = "servers"
        /\ UNCHANGED <<cache, now, returned, crashed>>
      BY <1>13 DEF QueryNameServer, At
  <2>2. PICK p \in Upstream[server][Top.query] :
               IF Usable(p)
                  THEN Continue([asked EXCEPT !.pc = "referral", !.response = p,
                                     !.candidates = <<>>, !.referrals = @ + 1])
                  ELSE Continue(asked)
      BY <1>13 DEF QueryNameServer
  <2>3. server \in Address /\ Tail(Top.candidates) \in Seq(Address)
      BY <2>1, TopTypes DEF Frame
  <2>4. p \in Packet \cup {NoPacket}
      BY <2>1, <2>3, TopTypes, ResolverConstants
  <2>5. Append(Top.queried, server) \in Seq(Address)
      BY <2>1, <2>3, TopTypes DEF Frame
  <2>6. asked \in PlacedFrame /\ asked.pc = "servers" /\ asked.referrals < MaxReferrals
    <3> HIDE DEF server
    <3> QED
        BY <2>1, <2>3, <2>5, TopTypes DEF PlacedFrame, Frame, Placed
  <2>7. [asked EXCEPT !.pc = "referral", !.response = p, !.candidates = <<>>,
                      !.referrals = @ + 1] \in PlacedFrame
    <3> HIDE DEF asked
    <3>1. asked \in Frame /\ asked.referrals + 1 \in 0..MaxReferrals
        BY <2>6, BoundsAreNaturals DEF PlacedFrame, Frame
    <3>2. <<>> \in Seq(Address)
        OBVIOUS
    <3> DEFINE f == [asked EXCEPT !.pc = "referral", !.response = p, !.candidates = <<>>,
                                  !.referrals = @ + 1]
    <3>3. f \in Frame /\ f.pc = "referral"
        BY <2>4, <3>1, <3>2 DEF Frame
    <3> QED
        BY <3>3 DEF PlacedFrame, Placed
  <2>8. CacheType'
      BY <2>1, TopTypes DEF CacheType
  <2> HIDE DEF asked
  <2> QED
      BY <2>1, <2>2, <2>6, <2>7, <2>8, ContinueTypes
<1>14. ASSUME NoServerLeft
       PROVE  TypeInv'
  <2>1. Running /\ Top.pc = "servers"
      BY <1>14 DEF NoServerLeft, At
  <2>2. Top.response \in Packet
      BY <2>1, TopTypes DEF Placed
  <2> QED
      BY <1>14, <2>1, <2>2, NoDataTypes DEF NoServerLeft
<1>15. ASSUME FollowCname
       PROVE  TypeInv'
  <2> DEFINE q == Target(Top.query, Top.response.answers)
  <2>1. /\ Running /\ Top.pc = "cname" /\ Top.hop # MaxCnameHops
        /\ OfType(Top.response.answers, "CNAME") # <<>>
        /\ UNCHANGED <<cache, now, returned>>
        /\ Lookup([Top EXCEPT !.pc = "target"], q)
      BY <1>15 DEF FollowCname, CnameDone, At
  <2>2. Top.response \in Packet /\ Top.hop < MaxCnameHops
      BY <2>1, TopTypes, BoundsAreNaturals DEF Placed, Frame
  <2>3. q \in Question
      BY <2>1, <2>2, TopTypes, TargetType
  <2> HIDE DEF q
  <2>4. [Top EXCEPT !.pc = "target"] \in PlacedFrame
      BY <2>1, <2>2, TopTypes, ResolverConstants DEF PlacedFrame, Frame, Placed
  <2> QED
      BY <2>1, <2>3, <2>4, LookupTypes
<1>16. ASSUME AnswerClient
       PROVE  TypeInv'
  <2>1. Running /\ Top.pc = "cname"
      BY <1>16 DEF AnswerClient, At
  <2>2. Top.response \in Packet
      BY <2>1, TopTypes DEF Placed
  <2> QED
      BY <1>16, <2>1, <2>2, AnswerTypes DEF AnswerClient
<1>17. ASSUME TargetReturned
       PROVE  TypeInv'
  <2>1. Running /\ Top.pc = "target"
      BY <1>17 DEF TargetReturned, At
  <2>2. Top.response \in Packet /\ Top.hop < MaxCnameHops
      BY <2>1, TopTypes DEF Placed
  <2>3. CASE returned = NoPacket \/ returned.answers = <<>>
      BY <1>17, <2>1, <2>2, <2>3, AnswerTypes DEF TargetReturned, TargetFailed
  <2>4. CASE ~(returned = NoPacket \/ returned.answers = <<>>)
    <3>1. Top.response.answers \o returned.answers \in Seq(Record)
        BY <2>2, <2>4 DEF TypeInv, TypeOK, Packet
    <3>2. [Top.response EXCEPT !.answers = @ \o returned.answers] \in Packet
        BY <2>2, <3>1 DEF Packet
    <3>3. WithTarget(Top, returned.answers)
             = [Top EXCEPT !.pc = "cname", !.hop = @ + 1,
                           !.response = [Top.response EXCEPT !.answers = @ \o returned.answers]]
        BY <2>1, <2>2, TopTypes DEF WithTarget, Frame, Packet
    <3>4. Top.hop + 1 \in 0..MaxCnameHops
        BY <2>1, <2>2, TopTypes, BoundsAreNaturals DEF Frame
    <3>5. WithTarget(Top, returned.answers) \in PlacedFrame
        BY <2>1, <3>2, <3>3, <3>4, TopTypes, ResolverConstants DEF PlacedFrame, Frame, Placed
    <3>6. CacheType'
        BY <1>17, <2>1, <2>4, TopTypes DEF TargetReturned, CacheType
    <3> QED
        BY <1>17, <2>1, <2>4, <3>5, <3>6, ContinueTypes DEF TargetReturned
  <2> QED
      BY <2>3, <2>4
<1> QED
    BY <1>1, <1>2, <1>3, <1>4, <1>5, <1>6, <1>7, <1>8, <1>9, <1>10, <1>11, <1>12, <1>13,
       <1>14, <1>15, <1>16, <1>17 DEF LookupStep

LEMMA TypesAreInvariant == Spec => []TypeInv
<1>1. Init => TypeInv
  <2> SUFFICES ASSUME Init
               PROVE  TypeInv
      OBVIOUS
  <2>1. /\ cache \in [Cache!Key -> Cache!Entry \cup {NoEntry}]
        /\ returned \in Packet \cup {NoPacket} /\ crashed \in BOOLEAN
      BY DEF Init
  <2>2. now \in 0..MaxTime
      BY BoundsAreNaturals DEF Init
  <2>3. stack \in Seq(PlacedFrame) /\ stack \in Seq(Frame) /\ Len(stack) <= MaxDepth
      BY BoundsAreNaturals DEF Init
  <2> QED
      BY <2>1, <2>2, <2>3 DEF TypeInv, TypeOK
<1>2. TypeInv /\ [Next]_vars => TypeInv'
  <2> SUFFICES ASSUME TypeInv, [Next]_vars
               PROVE  TypeInv'
      OBVIOUS
  <2>1. ASSUME NEW q \in ClientQuestion, ClientQuery(q)
        PROVE  TypeInv'
    <3>1. Activation(q) \in PlacedFrame
        BY ActivationTypes, ResolverConstants
    <3>2. stack' \in Seq(PlacedFrame) /\ stack' \in Seq(Frame) /\ Len(stack') <= MaxDepth
        BY <2>1, <3>1, BoundsAreNaturals DEF ClientQuery, PlacedFrame
    <3> QED
        BY <2>1, <3>2 DEF ClientQuery, TypeInv, TypeOK
  <2>2. CASE LookupNothing
      BY <2>2 DEF LookupNothing, TypeInv, TypeOK
  <2>3. CASE LookupStep
      BY <2>3, LookupStepTypes
  <2>4. CASE Tick
      BY <2>4, BoundsAreNaturals DEF Tick, TypeInv, TypeOK
  <2>5. CASE UNCHANGED vars
      BY <2>5 DEF vars, TypeInv, TypeOK
  <2> QED
      BY <2>1, <2>2, <2>3, <2>4, <2>5 DEF Next
<1> QED
    BY <1>1, <1>2, PTL DEF Spec

(* The resolver's variables keep their types, whatever servers reply: no   *)
(* activation makes more rounds or hops than its limits allow.             *)
THEOREM TypeCorrect == Spec => []TypeOK
<1>1. TypeInv => TypeOK
    BY DEF TypeInv
<1> QED
    BY <1>1, TypesAreInvariant, PTL

-----------------------------------------------------------------------------
(* What a step leaves of the stack when every frame of it is in a set S of *)
(* placed frames: the frames the step makes have to be in S.               *)

LEMMA ContinueStays ==
    ASSUME TypeInv, TypeInv', Running, NEW S, S \subseteq PlacedFrame, stack \in Seq(S),
           NEW f, f \in PlacedFrame => f \in S, Continue(f)
    PROVE  stack' \in Seq(S)
<1>1. stack \in Seq(PlacedFrame) /\ stack # <<>>
    BY TopTypes
<1>2. stack \in Seq(PlacedFrame \cup {f}) /\ f \in PlacedFrame \cup {f}
    BY <1>1
<1>3. stack' # <<>> /\ stack'[1] = f
    BY <1>1, <1>2, ContinueKeeps
<1>4. f \in PlacedFrame
  <2>1. stack' \in Seq(PlacedFrame)
      BY DEF TypeInv
  <2> QED
      BY <1>3, <2>1
<1> QED
    BY <1>1, <1>4, ContinueKeeps

LEMMA LookupStays ==
    ASSUME TypeInv, TypeInv', Running, NEW S, S \subseteq PlacedFrame, stack \in Seq(S),
           NEW f, f \in PlacedFrame => f \in S, NEW q \in Question, Activation(q) \in S,
           Lookup(f, q)
    PROVE  stack' \in Seq(S)
<1>1. stack \in Seq(PlacedFrame) /\ stack # <<>>
    BY TopTypes
<1>2. CASE ~(Len(stack) < MaxDepth)
  <2>1. stack' = stack
      BY <1>2 DEF Lookup
  <2> QED
      BY <2>1
<1>3. CASE Len(stack) < MaxDepth
  <2>1. /\ stack \in Seq(PlacedFrame \cup {f}) /\ f \in PlacedFrame \cup {f}
        /\ Activation(q) \in PlacedFrame \cup {f}
      BY <1>1
  <2>2. stack'[2] = f /\ Len(stack') = Len(stack) + 1 /\ Len(stack) \in Nat \ {0}
    <3> DEFINE T == PlacedFrame \cup {f}
    <3>1. stack \in Seq(T) /\ f \in T /\ Activation(q) \in T
        BY <2>1
    <3> HIDE DEF T
    <3>2. stack'[2] = f /\ Len(stack') = Len(stack) + 1
        BY <1>1, <1>3, <3>1, LookupKeeps
    <3>3. Len(stack) \in Nat \ {0}
        BY <1>1
    <3> QED
        BY <3>2, <3>3
  <2>3. f \in PlacedFrame
    <3>1. stack' \in Seq(PlacedFrame)
        BY DEF TypeInv
    <3> QED
        BY <2>2, <3>1
  <2> QED
      BY <1>1, <1>3, <2>3, LookupKeeps
<1> QED
    BY <1>2, <1>3

LEMMA ReturnStays ==
    ASSUME TypeInv, Running, NEW S, stack \in Seq(S), NEW p, Return(p)
    PROVE  stack' \in Seq(S)
<1>1. stack # <<>>
    BY TopTypes
<1> QED
    BY <1>1, ReturnKeeps

-----------------------------------------------------------------------------
(* Where responses, answers and cache entries come from *)

(* A response to q that is made of what servers said: its rcode is that of *)
(* a reply to q, and its records are answers.                              *)
Said(q, p) ==
    /\ \E r \in Replies(q) : r.rcode = p.rcode
    /\ ToSet(p.answers) \subseteq AnswerRecords

Sourced(f) ==
    /\ IsInjective(f.queried)
    /\ f.response # NoPacket => Said(f.query, f.response)

SourcedFrame == {f \in PlacedFrame : Sourced(f)}

SourcedReturn ==
    returned # NoPacket =>
        /\ ToSet(returned.answers) \subseteq AnswerRecords
        /\ ~returned.aa /\ returned.ra

SourcedEntry(k, e) ==
    /\ ToSet(e.records) \subseteq AnswerRecords
    /\ e.result = "NXDOMAIN" => k \in NxdomainKeys

SourcedCache == \A k \in Cache!Key : cache[k] # NoEntry => SourcedEntry(k, cache[k])

SourceInv == stack \in Seq(SourcedFrame) /\ SourcedReturn /\ SourcedCache

LEMMA ActivationSourced ==
    ASSUME NEW q \in Question
    PROVE  Activation(q) \in SourcedFrame
<1>1. IsInjective(<<>>)
    BY DEF IsInjective
<1>2. Activation(q).queried = <<>> /\ Activation(q).response = NoPacket
    BY DEF Activation
<1> QED
    BY <1>1, <1>2, ActivationTypes DEF SourcedFrame, Sourced

(* What a server of the world replies has been said.                       *)
LEMMA ReplySaid ==
    ASSUME NEW q \in Question, NEW s \in Address \cup {Root}, NEW p \in Upstream[s][q],
           p # NoPacket
    PROVE  p \in Replies(q) /\ Said(q, p)
<1>1. p \in UNION {Upstream[t][q] : t \in Address \cup {Root}}
    OBVIOUS
<1>2. p \in Replies(q)
    BY <1>1 DEF Replies
<1>3. ToSet(p.answers) \subseteq AnswerRecords
    BY <1>2 DEF AnswerRecords
<1> QED
    BY <1>2, <1>3 DEF Said

LEMMA TopSourced ==
    ASSUME TypeInv, SourceInv, Running
    PROVE  /\ stack \in Seq(SourcedFrame) /\ SourcedFrame \subseteq PlacedFrame
           /\ Sourced(Top)
           /\ Top.response # NoPacket => ToSet(Top.response.answers) \subseteq AnswerRecords
<1>1. stack # <<>> /\ stack \in Seq(SourcedFrame)
    BY DEF Running, SourceInv
<1>2. Top \in SourcedFrame
    BY <1>1, TopInStack
<1> QED
    BY <1>1, <1>2 DEF SourcedFrame, Sourced, Said

(* A step that goes on with a frame of the same source; one that puts an   *)
(* entry; one that returns the response.                                   *)
LEMMA ContinueSourced ==
    ASSUME TypeInv, TypeInv', SourceInv, Running, NEW f, Continue(f), Sourced(f),
           UNCHANGED <<cache, returned>>
    PROVE  SourceInv'
<1>1. stack' \in Seq(SourcedFrame)
  <2>1. f \in PlacedFrame => f \in SourcedFrame
      BY DEF SourcedFrame
  <2> QED
      BY <2>1, TopSourced, ContinueStays
<1> QED
    BY <1>1 DEF SourceInv, SourcedReturn, SourcedCache

LEMMA LookupSourced ==
    ASSUME TypeInv, TypeInv', SourceInv, Running, NEW f, NEW q \in Question, Lookup(f, q),
           Sourced(f), UNCHANGED <<cache, returned>>
    PROVE  SourceInv'
<1>1. stack' \in Seq(SourcedFrame)
  <2>1. f \in PlacedFrame => f \in SourcedFrame
      BY DEF SourcedFrame
  <2> QED
      BY <2>1, ActivationSourced, TopSourced, LookupStays
<1> QED
    BY <1>1 DEF SourceInv, SourcedReturn, SourcedCache

LEMMA PutSourced ==
    ASSUME TypeInv, SourceInv, Running, NEW e \in Cache!Entry,
           cache' = Cache!WithEntry(CacheKey(Top.query), e),
           SourcedEntry(CacheKey(Top.query), e)
    PROVE  SourcedCache'
<1>1. \A k \in Cache!Key : cache'[k] = cache[k]
                           \/ (k = CacheKey(Top.query) /\ cache'[k] = e)
    BY TopTypes, WithEntryTypes
<1> QED
    BY <1>1 DEF SourceInv, SourcedCache, SourcedEntry

LEMMA NegativeSourced ==
    ASSUME TypeInv, SourceInv, Running, Top.response \in Packet,
           NEW result \in {"NXDOMAIN", "NODATA"},
           result = "NXDOMAIN" => Top.response.rcode = "NXDOMAIN" /\ Top.response # NoPacket,
           CacheNegative(result, Top.response)
    PROVE  SourcedCache'
<1> DEFINE e == Cache!ResultEntry(result, NegativeTtl(Top.response))
<1>1. e \in Cache!Entry /\ e.records = <<>> /\ e.result = result
  <2>1. e \in Cache!Entry
      BY TopTypes, EntryTypes DEF Cache!CacheResult
  <2> QED
      BY <2>1 DEF Cache!ResultEntry
<1>2. ToSet(<<>>) = {}
    BY DEF ToSet
<1>3. result = "NXDOMAIN" => CacheKey(Top.query) \in NxdomainKeys
  <2> SUFFICES ASSUME result = "NXDOMAIN"
               PROVE  CacheKey(Top.query) \in NxdomainKeys
      OBVIOUS
  <2>1. \E r \in Replies(Top.query) : r.rcode = "NXDOMAIN"
      BY TopSourced DEF Sourced, Said
  <2> QED
      BY <2>1, TopTypes DEF NxdomainKeys, KeysReplied
<1>4. SourcedEntry(CacheKey(Top.query), e)
    BY <1>1, <1>2, <1>3 DEF SourcedEntry
<1> QED
    BY <1>1, <1>4, PutSourced DEF CacheNegative

LEMMA ReturnSourced ==
    ASSUME TypeInv, SourceInv, Running, NEW p, Return(p), SourcedCache',
           p # NoPacket => /\ ToSet(p.answers) \subseteq AnswerRecords
                           /\ ~p.aa /\ p.ra
    PROVE  SourceInv'
<1>1. stack' \in Seq(SourcedFrame)
    BY TopSourced, ReturnStays
<1>2. SourcedReturn'
    BY DEF Return, SourcedReturn
<1> QED
    BY <1>1, <1>2 DEF SourceInv

LEMMA ReturnResponseSourced ==
    ASSUME TypeInv, SourceInv, Running, Return(Finalized(Top.response)), SourcedCache'
    PROVE  SourceInv'
<1>1. Top.response \in Packet \cup {NoPacket}
    BY TopTypes
<1>2. Finalized(Top.response) # NoPacket =>
          /\ ToSet(Finalized(Top.response).answers) \subseteq AnswerRecords
          /\ ~Finalized(Top.response).aa /\ Finalized(Top.response).ra
    BY <1>1, FinalizedTypes, TopSourced
<1> QED
    BY <1>2, ReturnSourced

LEMMA NoDataSourced ==
    ASSUME TypeInv, SourceInv, Running, Top.response \in Packet, NoData(Top.response)
    PROVE  SourceInv'
<1>1. SourcedCache'
    BY NegativeSourced DEF NoData
<1> QED
    BY <1>1, ReturnResponseSourced DEF NoData

LEMMA AnswerSourced ==
    ASSUME TypeInv, SourceInv, Running, Top.response \in Packet, Top.response # NoPacket,
           Answer(Top)
    PROVE  SourceInv'
<1> DEFINE e == Cache!RecordsEntry(Top.response.answers, DefaultTtl)
<1>1. e \in Cache!Entry /\ e.records = Top.response.answers /\ e.result = "POSITIVE"
  <2>1. e \in Cache!Entry
      BY TopTypes, EntryTypes DEF Packet
  <2> QED
      BY <2>1 DEF Cache!RecordsEntry
<1>2. SourcedEntry(CacheKey(Top.query), e)
    BY <1>1, TopSourced DEF SourcedEntry
<1>3. SourcedCache'
    BY <1>1, <1>2, PutSourced DEF Answer
<1> QED
    BY <1>3, ReturnResponseSourced DEF Answer

LEMMA LookupStepSourced ==
    ASSUME TypeInv, TypeInv', SourceInv, LookupStep
    PROVE  SourceInv'
<1>1. ASSUME AnswerFromCache
      PROVE  SourceInv'
  <2> DEFINE k == CacheKey(Top.query)
             e == Cache!Live(k)
  <2>1. Running /\ e # NoEntry /\ Return(CachedResponse(e)) /\ UNCHANGED cache
      BY <1>1 DEF AnswerFromCache, At
  <2>2. e = cache[k] /\ e \in Cache!Entry /\ k \in Cache!Key
      BY <2>1, TopTypes, LiveIsHeld DEF CacheType
  <2>3. ToSet(e.records) \subseteq AnswerRecords /\ ToSet(<<>>) = {}
      BY <2>1, <2>2 DEF SourceInv, SourcedCache, SourcedEntry, ToSet
  <2>4. /\ ToSet(CachedResponse(e).answers) \subseteq AnswerRecords
        /\ ~CachedResponse(e).aa /\ CachedResponse(e).ra
      BY <2>2, <2>3, CachedResponseTypes
  <2>5. SourcedCache'
      BY <2>1 DEF SourceInv, SourcedCache
  <2> QED
      BY <2>1, <2>4, <2>5, ReturnSourced
<1>2. ASSUME AskRoot
      PROVE  SourceInv'
  <2>1. Running
      BY <1>2 DEF AskRoot, At
  <2>2. PICK p \in Upstream[Root][Top.query] :
               Continue([Top EXCEPT !.pc = "referral", !.response = p])
      BY <1>2 DEF AskRoot
  <2> DEFINE f == [Top EXCEPT !.pc = "referral", !.response = p]
  <2>3. f.query = Top.query /\ f.queried = Top.queried /\ f.response = p
      BY <2>1, TopTypes DEF Frame
  <2>4. p # NoPacket => Said(Top.query, p)
      BY <2>1, TopTypes, ReplySaid
  <2>5. Sourced(f)
      BY <2>1, <2>3, <2>4, TopSourced DEF Sourced
  <2>6. stack' \in Seq(SourcedFrame)
    <3>1. f \in PlacedFrame => f \in SourcedFrame
        BY <2>5 DEF SourcedFrame
    <3> HIDE DEF f
    <3> QED
        BY <2>1, <2>2, <3>1, TopSourced, ContinueStays DEF f
  <2>7. SourcedCache'
    <3>1. \A j \in Cache!Key : cache'[j] \in {cache[j], NoEntry}
        BY <1>2, <2>1, TopTypes, AfterGetTypes DEF AskRoot
    <3> QED
        BY <3>1 DEF SourceInv, SourcedCache, SourcedEntry
  <2> QED
      BY <1>2, <2>6, <2>7 DEF AskRoot, SourceInv, SourcedReturn
<1>3. ASSUME TooManyReferrals
      PROVE  SourceInv'
  <2>1. Running /\ Return(Finalized(Top.response)) /\ UNCHANGED cache
      BY <1>3 DEF TooManyReferrals, At
  <2>2. SourcedCache'
      BY <2>1 DEF SourceInv, SourcedCache
  <2> QED
      BY <2>1, <2>2, ReturnResponseSourced
<1>4. ASSUME NoResponse
      PROVE  SourceInv'
  <2>1. Running /\ Return(NoPacket) /\ UNCHANGED cache
      BY <1>4 DEF NoResponse, AtReferral, At
  <2>2. SourcedCache'
      BY <2>1 DEF SourceInv, SourcedCache
  <2> QED
      BY <2>1, <2>2, ReturnSourced
<1>5. ASSUME NEW f, Running, Continue(f), f.query = Top.query, f.queried = Top.queried,
             f.response = Top.response, UNCHANGED <<cache, returned>>
      PROVE  SourceInv'
  <2>1. Sourced(f)
      BY <1>5, TopSourced DEF Sourced
  <2> QED
      BY <1>5, <2>1, ContinueSourced
<1>6. ASSUME HasAnswers
      PROVE  SourceInv'
  <2>1. /\ Running /\ Continue([Top EXCEPT !.pc = "cname", !.hop = 0])
        /\ UNCHANGED <<cache, returned>>
      BY <1>6 DEF HasAnswers, AtReferral, At
  <2> QED
      BY <1>5, <2>1, TopTypes DEF Frame
<1>7. ASSUME HasError
      PROVE  SourceInv'
  <2>1. Running /\ Top.response # NoPacket /\ Return(Finalized(Top.response))
      BY <1>7 DEF HasError, Unanswered, AtReferral, At
  <2>2. Top.response \in Packet
      BY <2>1, TopTypes
  <2>3. SourcedCache'
    <3>1. CASE Top.response.rcode = "NXDOMAIN"
        BY <1>7, <2>1, <2>2, <3>1, NegativeSourced DEF HasError
    <3>2. CASE Top.response.rcode # "NXDOMAIN"
        BY <1>7, <3>2 DEF HasError, SourceInv, SourcedCache
    <3> QED
        BY <3>1, <3>2
  <2> QED
      BY <2>1, <2>3, ReturnResponseSourced
<1>8. ASSUME HasNothing
      PROVE  SourceInv'
  <2>1. Running /\ Top.response # NoPacket /\ NoData(Top.response)
      BY <1>8 DEF HasNothing, Unanswered, AtReferral, At
  <2> QED
      BY <2>1, TopTypes, NoDataSourced
<1>9. ASSUME HasReferral
      PROVE  SourceInv'
  <2>1. Running /\ UNCHANGED <<cache, returned>>
      BY <1>9 DEF HasReferral, Unanswered, AtReferral, At
  <2>2. \E pc, candidates, todo : Continue([Top EXCEPT !.pc = pc, !.candidates = candidates,
                                                       !.todo = todo])
      BY <1>9, Zenon DEF HasReferral
  <2>3. PICK pc, candidates, todo : Continue([Top EXCEPT !.pc = pc, !.candidates = candidates,
                                                         !.todo = todo])
      BY <2>2
  <2> QED
      BY <1>5, <2>1, <2>3, TopTypes DEF Frame
<1>10. ASSUME LookupNameserver
       PROVE  SourceInv'
  <2>1. /\ Running /\ Top.todo # <<>> /\ UNCHANGED <<cache, returned>>
        /\ Lookup([Top EXCEPT !.pc = "nameserver", !.todo = Tail(@)], Head(Top.todo))
      BY <1>10 DEF LookupNameserver, At
  <2>2. Head(Top.todo) \in Question
      BY <2>1, TopTypes DEF Frame
  <2>3. Sourced([Top EXCEPT !.pc = "nameserver", !.todo = Tail(@)])
      BY <2>1, TopTypes, TopSourced DEF Sourced, Frame
  <2> QED
      BY <2>1, <2>2, <2>3, LookupSourced
<1>11. ASSUME NameserverReturned
       PROVE  SourceInv'
  <2>1. PICK candidates : /\ Running /\ UNCHANGED <<cache, returned>>
                          /\ Continue([Top EXCEPT !.pc = "glueless", !.candidates = candidates])
      BY <1>11 DEF NameserverReturned, At
  <2> QED
      BY <1>5, <2>1, TopTypes DEF Frame
<1>12. ASSUME NameserversDone
       PROVE  SourceInv'
  <2>1. Running /\ Top.pc = "glueless"
      BY <1>12 DEF NameserversDone, At
  <2>2. Top.response \in Packet
      BY <2>1, TopTypes DEF Placed
  <2>3. CASE Top.candidates = <<>>
      BY <1>12, <2>1, <2>2, <2>3, NoDataSourced DEF NameserversDone
  <2>4. CASE Top.candidates # <<>>
    <3>1. Continue([Top EXCEPT !.pc = "servers"]) /\ UNCHANGED <<cache, returned>>
        BY <1>12, <2>4 DEF NameserversDone
    <3> QED
        BY <1>5, <2>1, <3>1, TopTypes DEF Frame
  <2> QED
      BY <2>3, <2>4
<1>13. ASSUME AlreadyQueried
       PROVE  SourceInv'
  <2>1. /\ Running /\ Continue([Top EXCEPT !.candidates = Tail(@)])
        /\ UNCHANGED <<cache, returned>>
      BY <1>13 DEF AlreadyQueried, At
  <2> QED
      BY <1>5, <2>1, TopTypes DEF Frame
<1>14. ASSUME QueryNameServer
       PROVE  SourceInv'
  <2> DEFINE server == Head(Top.candidates)
             asked == [Top EXCEPT !.queried = Append(@, server), !.candidates = Tail(@)]
  <2>1. /\ Running /\ Top.candidates # <<>> /\ ~Contains(Top.queried, server)
        /\ UNCHANGED <<cache, returned>>
      BY <1>14 DEF QueryNameServer, At, Queried
  <2>2. PICK p \in Upstream[server][Top.query] :
               IF Usable(p)
                  THEN Continue([asked EXCEPT !.pc = "referral", !.response = p,
                                     !.candidates = <<>>, !.referrals = @ + 1])
                  ELSE Continue(asked)
      BY <1>14 DEF QueryNameServer
  <2>3. Top.candidates \in Seq(Address) /\ Top.queried \in Seq(Address)
      BY <2>1, TopTypes DEF Frame
  <2>4. server \in Address
      BY <2>1, <2>3
  <2> HIDE DEF server
  <2>5. IsInjective(Append(Top.queried, server))
    <3>1. \A i \in 1..Len(Top.queried) : Top.queried[i] # server
        BY <2>1, <2>3 DEF Contains
    <3>2. \A i, j \in 1..Len(Top.queried) : Top.queried[i] = Top.queried[j] => i = j
      <4>1. IsInjective(Top.queried)
          BY <2>1, TopSourced DEF Sourced
      <4> QED
          BY <2>3, <4>1 DEF IsInjective
    <3> DEFINE n == Len(Top.queried)
               longer == Append(Top.queried, server)
    <3>3. /\ n \in Nat /\ DOMAIN longer = 1..(n + 1)
          /\ \A i \in 1..n : longer[i] = Top.queried[i]
          /\ longer[n + 1] = server
        BY <2>3, <2>4
    <3> HIDE DEF longer, n
    <3>4. ASSUME NEW i \in 1..(n + 1), NEW j \in 1..(n + 1), longer[i] = longer[j]
          PROVE  i = j
        BY <3>1, <3>2, <3>3, <3>4 DEF n
    <3> QED
        BY <3>3, <3>4 DEF IsInjective, longer
  <2>6. /\ asked.query = Top.query /\ asked.queried = Append(Top.queried, server)
        /\ asked.response = Top.response
      BY <2>1, TopTypes DEF Frame
  <2>7. Sourced(asked)
      BY <2>1, <2>5, <2>6, TopSourced DEF Sourced
  <2>8. CASE ~Usable(p)
      BY <2>1, <2>2, <2>7, <2>8, ContinueSourced
  <2>9. CASE Usable(p)
    <3> DEFINE f == [asked EXCEPT !.pc = "referral", !.response = p,
                                  !.candidates = <<>>, !.referrals = @ + 1]
    <3>1. /\ f.query = Top.query /\ f.queried = Append(Top.queried, server)
          /\ f.response = p
        BY <2>1, TopTypes DEF Frame
    <3>2. p # NoPacket /\ Said(Top.query, p)
        BY <2>1, <2>4, <2>9, TopTypes, ReplySaid DEF Usable
    <3>3. Sourced(f)
        BY <2>5, <3>1, <3>2 DEF Sourced
    <3> QED
        BY <2>1, <2>2, <2>9, <3>3, ContinueSourced
  <2> QED
      BY <2>8, <2>9
<1>15. ASSUME NoServerLeft
       PROVE  SourceInv'
  <2>1. Running /\ Top.pc = "servers" /\ NoData(Top.response)
      BY <1>15 DEF NoServerLeft, At
  <2>2. Top.response \in Packet
      BY <2>1, TopTypes DEF Placed
  <2> QED
      BY <2>1, <2>2, NoDataSourced
<1>16. ASSUME FollowCname
       PROVE  SourceInv'
  <2> DEFINE q == Target(Top.query, Top.response.answers)
  <2>1. /\ Running /\ Top.pc = "cname" /\ UNCHANGED <<cache, returned>>
        /\ OfType(Top.response.answers, "CNAME") # <<>>
        /\ Lookup([Top EXCEPT !.pc = "target"], q)
      BY <1>16 DEF FollowCname, CnameDone, At
  <2>2. q \in Question
      BY <2>1, TopTypes, TargetType DEF Placed
  <2>3. Sourced([Top EXCEPT !.pc = "target"])
      BY <2>1, TopTypes, TopSourced DEF Sourced, Frame
  <2> HIDE DEF q
  <2> QED
      BY <2>1, <2>2, <2>3, LookupSourced
<1>17. ASSUME AnswerClient
       PROVE  SourceInv'
  <2>1. Running /\ Top.pc = "cname" /\ Answer(Top)
      BY <1>17 DEF AnswerClient, At
  <2> QED
      BY <2>1, TopTypes, AnswerSourced DEF Placed
<1>18. ASSUME TargetReturned
       PROVE  SourceInv'
  <2>1. Running /\ Top.pc = "target"
      BY <1>18 DEF TargetReturned, At
  <2>2. Top.response \in Packet /\ Top.response # NoPacket
      BY <2>1, TopTypes DEF Placed
  <2>3. CASE returned = NoPacket \/ returned.answers = <<>>
      BY <1>18, <2>1, <2>2, <2>3, AnswerSourced DEF TargetReturned, TargetFailed
  <2>4. CASE ~(returned = NoPacket \/ returned.answers = <<>>)
    <3> DEFINE f == WithTarget(Top, returned.answers)
    <3>1. Continue(f) /\ UNCHANGED <<cache, returned>>
        BY <1>18, <2>4 DEF TargetReturned
    <3>2. /\ f.query = Top.query /\ f.queried = Top.queried
          /\ f.response.rcode = Top.response.rcode
          /\ f.response.answers = Top.response.answers \o returned.answers
        BY <2>1, <2>2, TopTypes DEF WithTarget, Frame, Packet
    <3>3. /\ Top.response.answers \in Seq(Record) /\ returned.answers \in Seq(Record)
          /\ ToSet(Top.response.answers) \subseteq AnswerRecords
          /\ ToSet(returned.answers) \subseteq AnswerRecords
        BY <2>1, <2>2, <2>4, TopSourced
           DEF TypeInv, TypeOK, Packet, SourceInv, SourcedReturn
    <3>4. ToSet(f.response.answers) \subseteq AnswerRecords
      <4> DEFINE as == Top.response.answers
                 bs == returned.answers
      <4>1. as \in Seq(Record) /\ bs \in Seq(Record)
          BY <3>3
      <4>2. ToSet(as) \subseteq AnswerRecords /\ ToSet(bs) \subseteq AnswerRecords
          BY <3>3
      <4> HIDE DEF as, bs
      <4>3. ToSet(as \o bs) \subseteq AnswerRecords
          BY <4>1, <4>2, ToSetOfSum
      <4> QED
          BY <3>2, <4>3 DEF as, bs
    <3>5. Sourced(f)
        BY <2>1, <2>2, <3>2, <3>4, TopSourced DEF Sourced, Said
    <3> QED
        BY <2>1, <3>1, <3>5, ContinueSourced
  <2> QED
      BY <2>3, <2>4
<1> QED
    BY <1>1, <1>2, <1>3, <1>4, <1>6, <1>7, <1>8, <1>9, <1>10, <1>11, <1>12, <1>13, <1>14,
       <1>15, <1>16, <1>17, <1>18 DEF LookupStep

(* Responses are made of what servers said to the very question, and what  *)
(* is cached or returned of answers to questions, along all nested         *)
(* lookups; every server queried is new to its lookup.                     *)
LEMMA SourcesAreInvariant == Spec => []SourceInv
<1>1. Init => SourceInv
  <2> SUFFICES ASSUME Init
               PROVE  SourceInv
      OBVIOUS
  <2>1. stack \in Seq(SourcedFrame) /\ SourcedReturn
      BY DEF Init, SourcedReturn
  <2>2. SourcedCache
      BY DEF Init, SourcedCache
  <2> QED
      BY <2>1, <2>2 DEF SourceInv
<1>2. TypeInv /\ TypeInv' /\ SourceInv /\ [Next]_vars => SourceInv'
  <2> SUFFICES ASSUME TypeInv, TypeInv', SourceInv, [Next]_vars
               PROVE  SourceInv'
      OBVIOUS
  <2>1. ASSUME NEW q \in ClientQuestion, ClientQuery(q)
        PROVE  SourceInv'
    <3>1. Activation(q) \in SourcedFrame
        BY ActivationSourced, ResolverConstants
    <3>2. stack' \in Seq(SourcedFrame)
        BY <2>1, <3>1 DEF ClientQuery
    <3> QED
        BY <2>1, <3>2 DEF ClientQuery, SourceInv, SourcedReturn, SourcedCache
  <2>2. CASE LookupNothing
      BY <2>2 DEF LookupNothing, SourceInv, SourcedReturn, SourcedCache
  <2>3. CASE LookupStep
      BY <2>3, LookupStepSourced
  <2>4. CASE Tick
      BY <2>4 DEF Tick, SourceInv, SourcedReturn, SourcedCache
  <2>5. CASE UNCHANGED vars
      BY <2>5 DEF vars, SourceInv, SourcedReturn, SourcedCache
  <2> QED
      BY <2>1, <2>2, <2>3, <2>4, <2>5 DEF Next
<1> QED
    BY <1>1, <1>2, TypesAreInvariant, PTL DEF Spec

(* No lookup sends its question to a nameserver a second time, however     *)
(* referrals repeat or loop.                                               *)
THEOREM QueriesAreDistinct == Spec => []NoServerQueriedTwice
<1>1. SourceInv => NoServerQueriedTwice
  <2> SUFFICES ASSUME SourceInv, NEW i \in DOMAIN stack
               PROVE  IsInjective(stack[i].queried)
      BY DEF NoServerQueriedTwice
  <2>1. stack[i] \in SourcedFrame
      BY DEF SourceInv
  <2> QED
      BY <2>1 DEF SourcedFrame, Sourced
<1> QED
    BY <1>1, SourcesAreInvariant, PTL

(* Every way out of lookup finalizes the response.                         *)
THEOREM ResponsesAreFinalized == Spec => []ResponsesFinalized
<1>1. SourceInv => ResponsesFinalized
    BY DEF SourceInv, SourcedReturn, ResponsesFinalized
<1> QED
    BY <1>1, SourcesAreInvariant, PTL

(* Records enter the cache from answer sections only, also by way of the   *)
(* cache itself and of nested lookups.                                     *)
THEOREM CacheHoldsAnswers == Spec => []OnlyAnswersCached
<1>1. SourceInv => OnlyAnswersCached
    BY DEF SourceInv, SourcedCache, SourcedEntry, OnlyAnswersCached
<1> QED
    BY <1>1, SourcesAreInvariant, PTL

(* The cache denies a name only after a server denied it to that question. *)
THEOREM NxdomainIsEarned == Spec => []NxdomainWasSaid
<1>1. SourceInv => NxdomainWasSaid
    BY DEF SourceInv, SourcedCache, SourcedEntry, NxdomainWasSaid
<1> QED
    BY <1>1, SourcesAreInvariant, PTL


-----------------------------------------------------------------------------
(* Answers are chains of CNAMEs *)

LEMMA ConnectedByName ==
    ASSUME NEW q, NEW r, Lower[q.name] = Lower[r.name], NEW rs, Connected(q, rs)
    PROVE  Connected(r, rs)
BY DEF Connected

(* The answers to the target of a chain's first CNAME continue the chain.  *)
LEMMA ConnectedSum ==
    ASSUME NEW q, NEW u \in Seq(Record), NEW v \in Seq(Record),
           Connected(q, u), OfType(u, "CNAME") # <<>>, Connected(Target(q, u), v)
    PROVE  Connected(q, u \o v)
<1> DEFINE w == u \o v
           n == Len(u)
           FromName(k) == Lower[w[k].owner] = Lower[q.name]
           FromCname(k) == \E m \in 1..(k - 1) : /\ w[m].type = "CNAME"
                                                 /\ Lower[w[m].data] = Lower[w[k].owner]
<1>1. /\ n \in Nat /\ Len(v) \in Nat /\ DOMAIN w = 1..(n + Len(v))
      /\ DOMAIN u = 1..n /\ DOMAIN v = 1..Len(v)
  <2>1. w \in Seq(Record) /\ Len(w) = n + Len(v)
      OBVIOUS
  <2> QED
      BY <2>1
<1>2. \A i \in 1..n : w[i] = u[i]
    OBVIOUS
<1>3. \A i \in 1..Len(v) : w[n + i] = v[i]
    OBVIOUS
<1> HIDE DEF w, n
<1>4. PICK c \in 1..n : u[c].type = "CNAME" /\ OfType(u, "CNAME")[1] = u[c]
    BY OfTypeFirst DEF n
<1>5. Target(q, u).name = u[c].data
    BY <1>4 DEF Target
<1>6. ASSUME NEW i \in 1..n
      PROVE  FromName(i) \/ FromCname(i)
  <2>1. \/ Lower[u[i].owner] = Lower[q.name]
        \/ \E j \in 1..(i - 1) : u[j].type = "CNAME" /\ Lower[u[j].data] = Lower[u[i].owner]
      BY <1>1 DEF Connected
  <2>2. \A j \in 1..(i - 1) : j \in 1..n
      BY <1>1
  <2> QED
      BY <1>2, <2>1, <2>2
<1>7. ASSUME NEW k \in 1..(n + Len(v)), k > n
      PROVE  FromCname(k)
  <2>1. PICK i \in 1..Len(v) : k = n + i /\ w[k] = v[i]
    <3>1. k - n \in 1..Len(v) /\ k = n + (k - n)
        BY <1>1, <1>7
    <3> QED
        BY <1>3, <3>1
  <2>2. \/ Lower[v[i].owner] = Lower[u[c].data]
        \/ \E j \in 1..(i - 1) : v[j].type = "CNAME" /\ Lower[v[j].data] = Lower[v[i].owner]
      BY <1>1, <1>5 DEF Connected
  <2>3. CASE Lower[v[i].owner] = Lower[u[c].data]
    <3>1. c \in 1..(k - 1) /\ w[c] = u[c]
        BY <1>1, <1>2, <2>1
    <3> QED
        BY <1>4, <2>1, <2>3, <3>1
  <2>4. ASSUME NEW j \in 1..(i - 1), v[j].type = "CNAME", Lower[v[j].data] = Lower[v[i].owner]
        PROVE  FromCname(k)
    <3>1. n + j \in 1..(k - 1) /\ w[n + j] = v[j]
        BY <1>1, <1>3, <2>1
    <3> QED
        BY <2>1, <2>4, <3>1
  <2> QED
      BY <2>2, <2>3, <2>4
<1>8. ASSUME NEW i \in 1..(n + Len(v))
      PROVE  FromName(i) \/ FromCname(i)
  <2>1. CASE i <= n
    <3>1. i \in 1..n
        BY <1>1, <2>1
    <3> QED
        BY <1>6, <3>1
  <2>2. CASE i > n
      BY <1>7, <2>2
  <2> QED
      BY <1>1, <2>1, <2>2
<1>9. Connected(q, w)
    BY <1>1, <1>8 DEF Connected
<1> QED
    BY <1>9 DEF w

ConnectedFrame ==
    {f \in PlacedFrame : f.response # NoPacket => Connected(f.query, f.response.answers)}

(* While a target is looked up, or has been, it is that of the first CNAME *)
(* of the activation that waits for it.                                    *)
TargetsAsked ==
    \A i \in 2..Len(stack) : stack[i].pc = "target" =>
        stack[i - 1].query = Target(stack[i].query, stack[i].response.answers)

TargetAnswered ==
    stack # <<>> => (Top.pc = "target" /\ returned # NoPacket =>
        Connected(Target(Top.query, Top.response.answers), returned.answers))

ConnectInv ==
    stack \in Seq(ConnectedFrame) /\ TargetsAsked /\ TargetAnswered /\ AnswersConnected

LEMMA TopConnected ==
    ASSUME TypeInv, ConnectInv, Running
    PROVE  /\ stack \in Seq(ConnectedFrame) /\ ConnectedFrame \subseteq PlacedFrame
           /\ Top.response # NoPacket => Connected(Top.query, Top.response.answers)
<1>1. stack # <<>> /\ stack \in Seq(ConnectedFrame)
    BY DEF Running, ConnectInv
<1>2. Top \in ConnectedFrame
    BY <1>1, TopInStack
<1> QED
    BY <1>1, <1>2 DEF ConnectedFrame

LEMMA ContinueConnected ==
    ASSUME TypeInv, TypeInv', ConnectInv, Running, NEW f, Continue(f),
           f.query = Top.query, f.pc # "target",
           f.response # NoPacket => Connected(f.query, f.response.answers),
           AnswersConnected'
    PROVE  ConnectInv'
<1>1. f \in PlacedFrame => f \in ConnectedFrame
    BY DEF ConnectedFrame
<1>2. stack' \in Seq(ConnectedFrame)
    BY <1>1, TopConnected, ContinueStays
<1> DEFINE T == PlacedFrame \cup {f}
<1>3. stack # <<>> /\ stack \in Seq(T) /\ f \in T
    BY TopTypes
<1> HIDE DEF T
<1>4. /\ Len(stack') = Len(stack) /\ stack'[1] = f /\ Top' = f
      /\ \A i \in 2..Len(stack) : stack'[i] = stack[i]
    BY <1>3, ContinueKeeps
<1>5. Top = stack[1] /\ Len(stack) \in Nat \ {0}
    BY <1>3, TopInStack
<1>6. TargetsAsked'
  <2> SUFFICES ASSUME NEW i \in 2..Len(stack), stack'[i].pc = "target"
               PROVE  stack'[i - 1].query
                        = Target(stack'[i].query, stack'[i].response.answers)
      BY <1>4 DEF TargetsAsked
  <2>1. stack[i - 1].query = Target(stack[i].query, stack[i].response.answers)
      BY <1>4 DEF ConnectInv, TargetsAsked
  <2>2. stack'[i] = stack[i]
      BY <1>4
  <2>3. stack'[i - 1].query = stack[i - 1].query
    <3>1. i - 1 = 1 \/ i - 1 \in 2..Len(stack)
        BY <1>5
    <3> QED
        BY <1>4, <1>5, <3>1
  <2> QED
      BY <2>1, <2>2, <2>3
<1>7. TargetAnswered'
    BY <1>4 DEF TargetAnswered
<1> QED
    BY <1>2, <1>6, <1>7 DEF ConnectInv

LEMMA LookupConnected ==
    ASSUME TypeInv, TypeInv', ConnectInv, Running, NEW f, NEW q \in Question, Lookup(f, q),
           f.query = Top.query, f.response = Top.response,
           f.pc = "target" => q = Target(f.query, f.response.answers),
           UNCHANGED <<cache, returned>>
    PROVE  ConnectInv'
<1>1. f \in PlacedFrame => f \in ConnectedFrame
    BY TopConnected DEF ConnectedFrame
<1>2. Activation(q) \in ConnectedFrame /\ Activation(q) \in PlacedFrame
      /\ Activation(q).query = q /\ Activation(q).pc = "cache"
    BY ActivationTypes DEF ConnectedFrame, Activation
<1>3. stack' \in Seq(ConnectedFrame)
    BY <1>1, <1>2, TopConnected, LookupStays
<1> DEFINE T == PlacedFrame \cup {f}
<1>4. /\ stack # <<>> /\ stack \in Seq(T) /\ f \in T /\ Activation(q) \in T
      /\ Top = stack[1] /\ Len(stack) \in Nat \ {0}
    BY <1>2, TopTypes, TopInStack
<1> HIDE DEF T
<1>5. AnswersConnected'
    BY DEF ConnectInv, AnswersConnected
<1>6. CASE ~(Len(stack) < MaxDepth)
  <2>1. stack' = stack
      BY <1>4, <1>6, LookupKeeps
  <2> QED
      BY <1>3, <1>5, <2>1 DEF ConnectInv, TargetsAsked, TargetAnswered, Top
<1>7. CASE Len(stack) < MaxDepth
  <2>1. /\ Len(stack') = Len(stack) + 1
        /\ stack'[1] = Activation(q) /\ Top' = Activation(q) /\ stack'[2] = f
        /\ \A i \in 3..(Len(stack) + 1) : stack'[i] = stack[i - 1]
      BY <1>4, <1>7, LookupKeeps
  <2>2. TargetsAsked'
    <3> SUFFICES ASSUME NEW i \in 2..(Len(stack) + 1), stack'[i].pc = "target"
                 PROVE  stack'[i - 1].query
                          = Target(stack'[i].query, stack'[i].response.answers)
        BY <2>1 DEF TargetsAsked
    <3>1. CASE i = 2
        BY <1>2, <2>1, <3>1
    <3>2. CASE i # 2
      <4>1. i \in 3..(Len(stack) + 1) /\ i - 1 \in 2..Len(stack)
            /\ (i - 1 = 2 \/ i - 1 \in 3..(Len(stack) + 1))
          BY <1>4, <3>2
      <4>2. stack'[i] = stack[i - 1]
          BY <2>1, <4>1
      <4>3. stack[(i - 1) - 1].query = Target(stack[i - 1].query, stack[i - 1].response.answers)
          BY <4>1, <4>2 DEF ConnectInv, TargetsAsked
      <4>4. stack'[i - 1].query = stack[(i - 1) - 1].query
        <5>1. CASE i - 1 = 2
            BY <1>4, <2>1, <5>1
        <5>2. CASE i - 1 \in 3..(Len(stack) + 1)
            BY <2>1, <5>2
        <5> QED
            BY <4>1, <5>1, <5>2
      <4> QED
          BY <4>2, <4>3, <4>4
    <3> QED
        BY <3>1, <3>2
  <2>3. TargetAnswered'
      BY <1>2, <2>1 DEF TargetAnswered
  <2> QED
      BY <1>3, <1>5, <2>2, <2>3 DEF ConnectInv
<1> QED
    BY <1>6, <1>7

LEMMA ReturnConnected ==
    ASSUME TypeInv, TypeInv', ConnectInv, Running, NEW p, Return(p),
           p # NoPacket => Connected(Top.query, p.answers), AnswersConnected'
    PROVE  ConnectInv'
<1>1. /\ stack # <<>> /\ stack \in Seq(ConnectedFrame)
      /\ Top = stack[1] /\ Len(stack) \in Nat \ {0}
    BY TopConnected, TopTypes, TopInStack
<1>2. /\ stack' \in Seq(ConnectedFrame) /\ Len(stack') = Len(stack) - 1 /\ returned' = p
      /\ \A i \in 1..(Len(stack) - 1) : stack'[i] = stack[i + 1]
    BY <1>1, ReturnKeeps
<1>3. TargetsAsked'
  <2> SUFFICES ASSUME NEW i \in 2..(Len(stack) - 1), stack'[i].pc = "target"
               PROVE  stack'[i - 1].query
                        = Target(stack'[i].query, stack'[i].response.answers)
      BY <1>2 DEF TargetsAsked
  <2>1. i + 1 \in 2..Len(stack) /\ i \in 1..(Len(stack) - 1) /\ i - 1 \in 1..(Len(stack) - 1)
        /\ (i + 1) - 1 = i /\ (i - 1) + 1 = i
      BY <1>1
  <2>2. stack'[i] = stack[i + 1] /\ stack'[i - 1] = stack[i]
      BY <1>2, <2>1
  <2> QED
      BY <2>1, <2>2 DEF ConnectInv, TargetsAsked
<1>4. TargetAnswered'
  <2> SUFFICES ASSUME stack' # <<>>, Top'.pc = "target", p # NoPacket
               PROVE  Connected(Target(Top'.query, Top'.response.answers), p.answers)
      BY <1>2 DEF TargetAnswered
  <2>1. Top' = stack'[1] /\ 1 \in 1..(Len(stack) - 1) /\ 2 \in 2..Len(stack)
    <3>1. Len(stack') # 0
        BY <1>2
    <3> QED
        BY <1>1, <1>2, <3>1 DEF Top
  <2>2. Top' = stack[2]
      BY <1>2, <2>1
  <2>3. stack[1].query = Target(stack[2].query, stack[2].response.answers)
    <3>1. stack[2 - 1].query = Target(stack[2].query, stack[2].response.answers)
        BY <2>1, <2>2 DEF ConnectInv, TargetsAsked
    <3> QED
        BY <3>1
  <2> QED
      BY <1>1, <2>2, <2>3
<1> QED
    BY <1>2, <1>3, <1>4 DEF ConnectInv

(* A key's name in place of the question's: they differ in case only.      *)
LEMMA KeyConnected ==
    ASSUME NEW q \in Question, NEW rs
    PROVE  Connected([name |-> CacheKey(q).domain, type |-> CacheKey(q).type], rs)
              <=> Connected(q, rs)
<1> DEFINE r == [name |-> CacheKey(q).domain, type |-> CacheKey(q).type]
<1>1. r.name = Lower[q.name] /\ q.name \in Name
    BY DEF CacheKey, Cache!CacheKey, Question
<1>2. Lower[r.name] = Lower[q.name]
    BY <1>1, ResolverConstants
<1> HIDE DEF r
<1>3. Connected(r, rs) <=> Connected(q, rs)
    BY <1>2, ConnectedByName
<1> QED
    BY <1>3 DEF r

LEMMA PutConnected ==
    ASSUME TypeInv, ConnectInv, Running, NEW e \in Cache!Entry,
           cache' = Cache!WithEntry(CacheKey(Top.query), e),
           e.result = "POSITIVE" => Connected(Top.query, e.records)
    PROVE  AnswersConnected'
<1> SUFFICES ASSUME NEW k \in Cache!Key, cache'[k] # NoEntry, cache'[k].result = "POSITIVE"
             PROVE  Connected([name |-> k.domain, type |-> k.type], cache'[k].records)
    BY DEF AnswersConnected
<1>1. cache'[k] = cache[k] \/ (k = CacheKey(Top.query) /\ cache'[k] = e)
    BY TopTypes, WithEntryTypes
<1>2. CASE cache'[k] = cache[k]
    BY <1>2 DEF ConnectInv, AnswersConnected
<1>3. CASE k = CacheKey(Top.query) /\ cache'[k] = e
  <2>1. Connected(Top.query, cache'[k].records)
      BY <1>3
  <2> QED
      BY <1>3, <2>1, TopTypes, KeyConnected
<1> QED
    BY <1>1, <1>2, <1>3

LEMMA ReturnResponseConnected ==
    ASSUME TypeInv, TypeInv', ConnectInv, Running, Return(Finalized(Top.response)),
           AnswersConnected'
    PROVE  ConnectInv'
<1>1. Top.response \in Packet \cup {NoPacket}
    BY TopTypes
<1>2. Finalized(Top.response) # NoPacket
         => Connected(Top.query, Finalized(Top.response).answers)
    BY <1>1, FinalizedTypes, TopConnected
<1> QED
    BY <1>2, ReturnConnected

LEMMA NegativeConnected ==
    ASSUME TypeInv, ConnectInv, Running, Top.response \in Packet,
           NEW result \in {"NXDOMAIN", "NODATA"}, CacheNegative(result, Top.response)
    PROVE  AnswersConnected'
<1> DEFINE e == Cache!ResultEntry(result, NegativeTtl(Top.response))
<1>1. e \in Cache!Entry
    BY TopTypes, EntryTypes DEF Cache!CacheResult
<1>2. e.result # "POSITIVE"
    BY DEF Cache!ResultEntry
<1> HIDE DEF e
<1> QED
    BY <1>1, <1>2, PutConnected DEF CacheNegative, e

LEMMA NoDataConnected ==
    ASSUME TypeInv, TypeInv', ConnectInv, Running, Top.response \in Packet,
           NoData(Top.response)
    PROVE  ConnectInv'
<1>1. AnswersConnected'
    BY NegativeConnected DEF NoData
<1> QED
    BY <1>1, ReturnResponseConnected DEF NoData

LEMMA AnswerConnected ==
    ASSUME TypeInv, TypeInv', ConnectInv, Running, Top.response \in Packet,
           Top.response # NoPacket, Answer(Top)
    PROVE  ConnectInv'
<1> DEFINE e == Cache!RecordsEntry(Top.response.answers, DefaultTtl)
<1>1. e \in Cache!Entry
    BY TopTypes, EntryTypes DEF Packet
<1>2. e.records = Top.response.answers
    BY DEF Cache!RecordsEntry
<1> HIDE DEF e
<1>3. AnswersConnected'
    BY <1>1, <1>2, TopConnected, PutConnected DEF Answer, e
<1> QED
    BY <1>3, ReturnResponseConnected DEF Answer


LEMMA LookupStepConnected ==
    ASSUME ServersConnect, TypeInv, TypeInv', ConnectInv, LookupStep
    PROVE  ConnectInv'
<1>1. ASSUME UNCHANGED cache
      PROVE  AnswersConnected'
    BY <1>1 DEF ConnectInv, AnswersConnected
<1>2. ASSUME AnswerFromCache
      PROVE  ConnectInv'
  <2> DEFINE k == CacheKey(Top.query)
             e == Cache!Live(k)
  <2>1. Running /\ e # NoEntry /\ Return(CachedResponse(e)) /\ UNCHANGED cache
      BY <1>2 DEF AnswerFromCache, At
  <2>2. e = cache[k] /\ cache[k] # NoEntry /\ e \in Cache!Entry /\ k \in Cache!Key
      BY <2>1, TopTypes, LiveIsHeld DEF CacheType
  <2>3. Connected(Top.query, CachedResponse(e).answers)
    <3>1. CASE e.result = "POSITIVE"
      <4>1. Connected([name |-> k.domain, type |-> k.type], e.records)
          BY <2>2, <3>1 DEF ConnectInv, AnswersConnected
      <4>2. Connected(Top.query, e.records)
          BY <2>1, <4>1, TopTypes, KeyConnected
      <4> QED
          BY <3>1, <4>2 DEF CachedResponse
    <3>2. CASE e.result # "POSITIVE"
      <4>1. CachedResponse(e).answers = <<>>
          BY <2>2, <3>2, CachedResponseTypes
      <4> QED
          BY <4>1 DEF Connected
    <3> QED
        BY <3>1, <3>2
  <2> HIDE DEF e
  <2> QED
      BY <1>1, <2>1, <2>3, ReturnConnected
<1>3. ASSUME AskRoot
      PROVE  ConnectInv'
  <2>1. Running
      BY <1>3 DEF AskRoot, At
  <2>2. PICK p \in Upstream[Root][Top.query] :
               Continue([Top EXCEPT !.pc = "referral", !.response = p])
      BY <1>3 DEF AskRoot
  <2> DEFINE f == [Top EXCEPT !.pc = "referral", !.response = p]
  <2>3. f.query = Top.query /\ f.pc = "referral" /\ f.response = p
      BY <2>1, TopTypes DEF Frame
  <2>4. p # NoPacket => Connected(Top.query, p.answers)
      BY <2>1, TopTypes, ReplySaid DEF ServersConnect
  <2>5. AnswersConnected'
    <3>1. \A j \in Cache!Key : cache'[j] \in {cache[j], NoEntry}
        BY <1>3, <2>1, TopTypes, AfterGetTypes DEF AskRoot
    <3> QED
        BY <3>1 DEF ConnectInv, AnswersConnected
  <2> HIDE DEF f
  <2> QED
      BY <2>1, <2>2, <2>3, <2>4, <2>5, ContinueConnected DEF f
<1>4. ASSUME TooManyReferrals
      PROVE  ConnectInv'
  <2>1. Running /\ Return(Finalized(Top.response)) /\ UNCHANGED cache
      BY <1>4 DEF TooManyReferrals, At
  <2> QED
      BY <1>1, <2>1, ReturnResponseConnected
<1>5. ASSUME NoResponse
      PROVE  ConnectInv'
  <2>1. Running /\ Return(NoPacket) /\ UNCHANGED cache
      BY <1>5 DEF NoResponse, AtReferral, At
  <2> QED
      BY <1>1, <2>1, ReturnConnected
<1>6. ASSUME NEW f, Running, Continue(f), f.query = Top.query, f.response = Top.response,
             f.pc # "target", UNCHANGED cache
      PROVE  ConnectInv'
    BY <1>1, <1>6, TopConnected, ContinueConnected
<1>7. ASSUME HasAnswers
      PROVE  ConnectInv'
  <2>1. /\ Running /\ Continue([Top EXCEPT !.pc = "cname", !.hop = 0])
        /\ UNCHANGED cache
      BY <1>7 DEF HasAnswers, AtReferral, At
  <2> QED
      BY <1>6, <2>1, TopTypes DEF Frame
<1>8. ASSUME HasError
      PROVE  ConnectInv'
  <2>1. Running /\ Top.response # NoPacket /\ Return(Finalized(Top.response))
      BY <1>8 DEF HasError, Unanswered, AtReferral, At
  <2>2. Top.response \in Packet
      BY <2>1, TopTypes
  <2>3. AnswersConnected'
    <3>1. CASE Top.response.rcode = "NXDOMAIN"
        BY <1>8, <2>1, <2>2, <3>1, NegativeConnected DEF HasError
    <3>2. CASE Top.response.rcode # "NXDOMAIN"
        BY <1>1, <1>8, <3>2 DEF HasError
    <3> QED
        BY <3>1, <3>2
  <2> QED
      BY <2>1, <2>3, ReturnResponseConnected
<1>9. ASSUME HasNothing
      PROVE  ConnectInv'
  <2>1. Running /\ Top.response # NoPacket /\ NoData(Top.response)
      BY <1>9 DEF HasNothing, Unanswered, AtReferral, At
  <2> QED
      BY <2>1, TopTypes, NoDataConnected
<1>10. ASSUME HasReferral
       PROVE  ConnectInv'
  <2>1. Running /\ UNCHANGED cache
      BY <1>10 DEF HasReferral, Unanswered, AtReferral, At
  <2>2. PICK candidates, todo :
           \/ Continue([Top EXCEPT !.pc = "glueless", !.candidates = candidates, !.todo = todo])
           \/ Continue([Top EXCEPT !.pc = "servers", !.candidates = candidates, !.todo = todo])
    <3>1. CASE AddCandidates(<<>>, Glue(Top.response)) = <<>>
        BY <1>10, <3>1, Zenon DEF HasReferral
    <3>2. CASE AddCandidates(<<>>, Glue(Top.response)) # <<>>
        BY <1>10, <3>2, Zenon DEF HasReferral
    <3> QED
        BY <3>1, <3>2
  <2>3. ASSUME NEW pc \in {"glueless", "servers"},
               Continue([Top EXCEPT !.pc = pc, !.candidates = candidates, !.todo = todo])
        PROVE  ConnectInv'
      BY <1>6, <2>1, <2>3, TopTypes DEF Frame
  <2> QED
      BY <2>2, <2>3
<1>11. ASSUME LookupNameserver
       PROVE  ConnectInv'
  <2>1. /\ Running /\ Top.todo # <<>> /\ UNCHANGED <<cache, returned>>
        /\ Lookup([Top EXCEPT !.pc = "nameserver", !.todo = Tail(@)], Head(Top.todo))
      BY <1>11 DEF LookupNameserver, At
  <2>2. Head(Top.todo) \in Question
      BY <2>1, TopTypes DEF Frame
  <2> DEFINE f == [Top EXCEPT !.pc = "nameserver", !.todo = Tail(@)]
  <2>3. f.query = Top.query /\ f.response = Top.response /\ f.pc # "target"
      BY <2>1, TopTypes DEF Frame
  <2> HIDE DEF f
  <2> QED
      BY <2>1, <2>2, <2>3, LookupConnected DEF f
<1>12. ASSUME NameserverReturned
       PROVE  ConnectInv'
  <2>1. PICK candidates : /\ Running /\ UNCHANGED cache
                          /\ Continue([Top EXCEPT !.pc = "glueless", !.candidates = candidates])
      BY <1>12 DEF NameserverReturned, At
  <2> QED
      BY <1>6, <2>1, TopTypes DEF Frame
<1>13. ASSUME NameserversDone
       PROVE  ConnectInv'
  <2>1. Running /\ Top.pc = "glueless"
      BY <1>13 DEF NameserversDone, At
  <2>2. Top.response \in Packet
      BY <2>1, TopTypes DEF Placed
  <2>3. CASE Top.candidates = <<>>
      BY <1>13, <2>1, <2>2, <2>3, NoDataConnected DEF NameserversDone
  <2>4. CASE Top.candidates # <<>>
    <3>1. Continue([Top EXCEPT !.pc = "servers"]) /\ UNCHANGED cache
        BY <1>13, <2>4 DEF NameserversDone
    <3> QED
        BY <1>6, <2>1, <3>1, TopTypes DEF Frame
  <2> QED
      BY <2>3, <2>4
<1>14. ASSUME AlreadyQueried
       PROVE  ConnectInv'
  <2>1. /\ Running /\ Continue([Top EXCEPT !.candidates = Tail(@)])
        /\ UNCHANGED cache /\ Top.pc = "servers"
      BY <1>14 DEF AlreadyQueried, At
  <2> QED
      BY <1>6, <2>1, TopTypes DEF Frame
<1>15. ASSUME QueryNameServer
       PROVE  ConnectInv'
  <2> DEFINE server == Head(Top.candidates)
             asked == [Top EXCEPT !.queried = Append(@, server), !.candidates = Tail(@)]
  <2>1. /\ Running /\ Top.candidates # <<>> /\ Top.pc = "servers" /\ UNCHANGED cache
      BY <1>15 DEF QueryNameServer, At
  <2>2. PICK p \in Upstream[server][Top.query] :
               IF Usable(p)
                  THEN Continue([asked EXCEPT !.pc = "referral", !.response = p,
                                     !.candidates = <<>>, !.referrals = @ + 1])
                  ELSE Continue(asked)
      BY <1>15 DEF QueryNameServer
  <2>3. server \in Address
      BY <2>1, TopTypes DEF Frame
  <2>4. asked.query = Top.query /\ asked.response = Top.response /\ asked.pc # "target"
      BY <2>1, TopTypes DEF Frame
  <2>5. CASE ~Usable(p)
    <3> HIDE DEF asked
    <3> QED
        BY <1>6, <2>1, <2>2, <2>4, <2>5
  <2>6. CASE Usable(p)
    <3> DEFINE f == [asked EXCEPT !.pc = "referral", !.response = p,
                                  !.candidates = <<>>, !.referrals = @ + 1]
    <3>1. f.query = Top.query /\ f.pc # "target" /\ f.response = p
        BY <2>1, TopTypes DEF Frame
    <3>2. Connected(Top.query, p.answers)
        BY <2>1, <2>3, <2>6, TopTypes, ReplySaid DEF Usable, ServersConnect
    <3>3. Continue(f)
        BY <2>2, <2>6
    <3> HIDE DEF f
    <3> QED
        BY <1>1, <2>1, <3>1, <3>2, <3>3, ContinueConnected
  <2> QED
      BY <2>5, <2>6
<1>16. ASSUME NoServerLeft
       PROVE  ConnectInv'
  <2>1. Running /\ Top.pc = "servers" /\ NoData(Top.response)
      BY <1>16 DEF NoServerLeft, At
  <2>2. Top.response \in Packet
      BY <2>1, TopTypes DEF Placed
  <2> QED
      BY <2>1, <2>2, NoDataConnected
<1>17. ASSUME FollowCname
       PROVE  ConnectInv'
  <2> DEFINE q == Target(Top.query, Top.response.answers)
             f == [Top EXCEPT !.pc = "target"]
  <2>1. /\ Running /\ Top.pc = "cname" /\ UNCHANGED <<cache, returned>>
        /\ OfType(Top.response.answers, "CNAME") # <<>>
        /\ Lookup(f, q)
      BY <1>17 DEF FollowCname, CnameDone, At
  <2>2. q \in Question
      BY <2>1, TopTypes, TargetType DEF Placed
  <2>3. f.query = Top.query /\ f.response = Top.response
      BY <2>1, TopTypes DEF Frame
  <2>4. q = Target(f.query, f.response.answers)
      BY <2>3
  <2> HIDE DEF q, f
  <2> QED
      BY <2>1, <2>2, <2>3, <2>4, LookupConnected
<1>18. ASSUME AnswerClient
       PROVE  ConnectInv'
  <2>1. Running /\ Top.pc = "cname" /\ Answer(Top)
      BY <1>18 DEF AnswerClient, At
  <2> QED
      BY <2>1, TopTypes, AnswerConnected DEF Placed
<1>19. ASSUME TargetReturned
       PROVE  ConnectInv'
  <2>1. Running /\ Top.pc = "target"
      BY <1>19 DEF TargetReturned, At
  <2>2. Top.response \in Packet /\ Top.response # NoPacket
      BY <2>1, TopTypes DEF Placed
  <2>3. CASE returned = NoPacket \/ returned.answers = <<>>
      BY <1>19, <2>1, <2>2, <2>3, AnswerConnected DEF TargetReturned, TargetFailed
  <2>4. CASE ~(returned = NoPacket \/ returned.answers = <<>>)
    <3> DEFINE f == WithTarget(Top, returned.answers)
    <3>1. Continue(f) /\ UNCHANGED cache
        BY <1>19, <2>4 DEF TargetReturned
    <3>2. /\ f.query = Top.query /\ f.pc # "target"
          /\ f.response.answers = Top.response.answers \o returned.answers
        BY <2>1, <2>2, TopTypes DEF WithTarget, Frame, Packet
    <3>3. Top.response.answers \in Seq(Record) /\ returned.answers \in Seq(Record)
        BY <2>2, <2>4 DEF TypeInv, TypeOK, Packet
    <3>4. /\ Connected(Top.query, Top.response.answers)
          /\ OfType(Top.response.answers, "CNAME") # <<>>
          /\ Connected(Target(Top.query, Top.response.answers), returned.answers)
      <4>1. stack # <<>>
          BY <2>1 DEF Running
      <4> QED
          BY <2>1, <2>2, <2>4, <4>1, TopTypes, TopConnected
             DEF Placed, ConnectInv, TargetAnswered
    <3>5. Connected(Top.query, Top.response.answers \o returned.answers)
        BY <3>3, <3>4, ConnectedSum
    <3> HIDE DEF f
    <3> QED
        BY <1>1, <2>1, <3>1, <3>2, <3>5, ContinueConnected
  <2> QED
      BY <2>3, <2>4
<1> QED
    BY <1>2, <1>3, <1>4, <1>5, <1>7, <1>8, <1>9, <1>10, <1>11, <1>12, <1>13, <1>14,
       <1>15, <1>16, <1>17, <1>18, <1>19 DEF LookupStep

(* If servers answer with chains of CNAMEs that start at the question,     *)
(* what lookup puts together of them, at every depth and out of the cache  *)
(* as well, and caches, is one.                                            *)
THEOREM CachedAnswersConnect ==
    ASSUME ServersConnect
    PROVE  Spec => []AnswersConnected
<1>1. Init => ConnectInv
  <2> SUFFICES ASSUME Init
               PROVE  ConnectInv
      OBVIOUS
  <2>1. stack \in Seq(ConnectedFrame) /\ TargetsAsked /\ TargetAnswered
      BY DEF Init, TargetsAsked, TargetAnswered
  <2>2. AnswersConnected
      BY DEF Init, AnswersConnected
  <2> QED
      BY <2>1, <2>2 DEF ConnectInv
<1>2. TypeInv /\ TypeInv' /\ ConnectInv /\ [Next]_vars => ConnectInv'
  <2> SUFFICES ASSUME TypeInv, TypeInv', ConnectInv, [Next]_vars
               PROVE  ConnectInv'
      OBVIOUS
  <2>1. ASSUME NEW q \in ClientQuestion, ClientQuery(q)
        PROVE  ConnectInv'
    <3> DEFINE a == Activation(q)
    <3>1. a \in PlacedFrame
        BY ActivationTypes, ResolverConstants
    <3>2. a.response = NoPacket /\ a.pc = "cache"
        BY DEF Activation
    <3>3. stack' = <<a>> /\ UNCHANGED <<cache, returned>>
        BY <2>1 DEF ClientQuery
    <3> HIDE DEF a
    <3>4. a \in ConnectedFrame
        BY <3>1, <3>2 DEF ConnectedFrame
    <3>5. stack' \in Seq(ConnectedFrame) /\ Len(stack') = 1 /\ Top' = a
        BY <3>3, <3>4 DEF Top
    <3> QED
        BY <3>2, <3>3, <3>5
           DEF ConnectInv, TargetsAsked, TargetAnswered, AnswersConnected
  <2>2. CASE LookupNothing
      BY <2>2 DEF LookupNothing, ConnectInv, TargetsAsked, TargetAnswered, AnswersConnected
  <2>3. CASE LookupStep
      BY <2>3, LookupStepConnected
  <2>4. CASE Tick
      BY <2>4 DEF Tick, ConnectInv, TargetsAsked, TargetAnswered, AnswersConnected, Top
  <2>5. CASE UNCHANGED vars
      BY <2>5 DEF vars, ConnectInv, TargetsAsked, TargetAnswered, AnswersConnected, Top
  <2> QED
      BY <2>1, <2>2, <2>3, <2>4, <2>5 DEF Next
<1>3. ConnectInv => AnswersConnected
    BY DEF ConnectInv
<1> QED
    BY <1>1, <1>2, <1>3, TypesAreInvariant, PTL DEF Spec

-----------------------------------------------------------------------------
(* Nested lookups descend *)

(* What an activation goes on to look up has a lower rank than it has.     *)
Descending(rank, f) ==
    /\ f.pc = "referral" /\ f.response # NoPacket => f.response \in Replies(f.query)
    /\ f.todo \in Seq({q \in Question : rank[q] < rank[f.query]})
    /\ /\ f.pc \in {"cname", "target"}
       /\ f.query.type # "CNAME" /\ OfType(f.response.answers, f.query.type) = <<>>
       /\ OfType(f.response.answers, "CNAME") # <<>>
       => rank[Target(f.query, f.response.answers)] < rank[f.query]

DescendingFrame(rank) == {f \in PlacedFrame : Descending(rank, f)}

(* What an activation's rank leaves of the depth is enough for those that  *)
(* wait for it.                                                            *)
Room(rank) ==
    \A i \in DOMAIN stack : rank[stack[i].query] + (Len(stack) - i) < MaxDepth

DescentInv(rank) == stack \in Seq(DescendingFrame(rank)) /\ Room(rank) /\ ~crashed

LEMMA TopDescends ==
    ASSUME NEW rank, NamesDescend(rank), TypeInv, DescentInv(rank), Running
    PROVE  /\ stack \in Seq(DescendingFrame(rank)) /\ DescendingFrame(rank) \subseteq PlacedFrame
           /\ Descending(rank, Top)
           /\ rank[Top.query] \in Nat /\ rank[Top.query] + (Len(stack) - 1) < MaxDepth
           /\ rank[Top.query] < MaxDepth
<1>1. stack # <<>> /\ stack \in Seq(DescendingFrame(rank))
    BY DEF Running, DescentInv
<1>2. Top \in DescendingFrame(rank) /\ Top = stack[1] /\ Len(stack) \in Nat \ {0}
      /\ DOMAIN stack = 1..Len(stack)
    BY <1>1, TopInStack
<1>3. rank[Top.query] \in Nat
    BY TopTypes DEF NamesDescend
<1>4. rank[Top.query] + (Len(stack) - 1) < MaxDepth
  <2>1. 1 \in DOMAIN stack
      BY <1>2
  <2> QED
      BY <1>2, <2>1 DEF DescentInv, Room
<1>5. rank[Top.query] < MaxDepth
    BY <1>2, <1>3, <1>4, BoundsAreNaturals
<1> QED
    BY <1>1, <1>2, <1>3, <1>4, <1>5 DEF DescendingFrame

LEMMA ActivationDescends ==
    ASSUME NEW rank, NEW q \in Question
    PROVE  Activation(q) \in DescendingFrame(rank)
<1> DEFINE a == Activation(q)
<1>1. a.pc = "cache" /\ a.todo = <<>>
    BY DEF Activation
<1>2. a \in PlacedFrame
    BY ActivationTypes
<1> HIDE DEF a
<1>3. <<>> \in Seq({x \in Question : rank[x] < rank[a.query]})
    OBVIOUS
<1>4. Descending(rank, a)
    BY <1>1, <1>3 DEF Descending
<1> QED
    BY <1>2, <1>4 DEF DescendingFrame, a

LEMMA ContinueDescends ==
    ASSUME NEW rank, NamesDescend(rank), TypeInv, TypeInv', DescentInv(rank), Running,
           NEW f, Continue(f), f.query = Top.query, Descending(rank, f), UNCHANGED crashed
    PROVE  DescentInv(rank)'
<1>1. f \in PlacedFrame => f \in DescendingFrame(rank)
    BY DEF DescendingFrame
<1>2. stack' \in Seq(DescendingFrame(rank))
    BY <1>1, TopDescends, ContinueStays
<1> DEFINE T == PlacedFrame \cup {f}
<1>3. stack # <<>> /\ stack \in Seq(T) /\ f \in T
    BY TopTypes
<1> HIDE DEF T
<1>4. /\ Len(stack') = Len(stack) /\ stack'[1] = f
      /\ \A i \in 2..Len(stack) : stack'[i] = stack[i]
    BY <1>3, ContinueKeeps
<1>5. Top = stack[1] /\ Len(stack) \in Nat \ {0} /\ DOMAIN stack = 1..Len(stack)
    BY <1>3, TopInStack
<1>6. DOMAIN stack' = 1..Len(stack)
    BY <1>2, <1>4
<1>7. \A i \in 1..Len(stack) : stack'[i].query = stack[i].query
    BY <1>4, <1>5
<1>8. Room(rank)'
    BY <1>4, <1>5, <1>6, <1>7 DEF DescentInv, Room
<1> QED
    BY <1>2, <1>8 DEF DescentInv

LEMMA LookupDescends ==
    ASSUME NEW rank, NamesDescend(rank), TypeInv, TypeInv', DescentInv(rank), Running,
           NEW f, NEW q \in Question, Lookup(f, q), f.query = Top.query, Descending(rank, f),
           rank[q] < rank[Top.query]
    PROVE  DescentInv(rank)'
<1>1. f \in PlacedFrame => f \in DescendingFrame(rank)
    BY DEF DescendingFrame
<1>2. stack' \in Seq(DescendingFrame(rank))
    BY <1>1, ActivationDescends, TopDescends, LookupStays
<1> DEFINE T == PlacedFrame \cup {f}
<1>3. /\ stack # <<>> /\ stack \in Seq(T) /\ f \in T /\ Activation(q) \in T
      /\ Top = stack[1] /\ Len(stack) \in Nat \ {0} /\ DOMAIN stack = 1..Len(stack)
    BY ActivationTypes, TopTypes, TopInStack
<1> HIDE DEF T
<1>4. rank[q] \in Nat /\ rank[q] + Len(stack) < MaxDepth
  <2>1. rank[q] \in Nat
      BY DEF NamesDescend
  <2> QED
      BY <1>3, <2>1, TopDescends, BoundsAreNaturals
<1>5. Len(stack) < MaxDepth
    BY <1>3, <1>4, BoundsAreNaturals
<1>6. /\ crashed' = crashed /\ Len(stack') = Len(stack) + 1
      /\ stack'[1] = Activation(q) /\ stack'[2] = f
      /\ \A i \in 3..(Len(stack) + 1) : stack'[i] = stack[i - 1]
    BY <1>3, <1>5, LookupKeeps
<1>7. Activation(q).query = q
    BY DEF Activation
<1>8. Room(rank)'
  <2> SUFFICES ASSUME NEW i \in DOMAIN stack'
               PROVE  rank[stack'[i].query] + (Len(stack') - i) < MaxDepth
      BY DEF Room
  <2>1. i \in 1..(Len(stack) + 1)
      BY <1>2, <1>6
  <2>2. CASE i = 1
      BY <1>3, <1>4, <1>6, <1>7, <2>2
  <2>3. CASE i # 1
    <3>1. i - 1 \in 1..Len(stack) /\ (i = 2 \/ i \in 3..(Len(stack) + 1))
        BY <1>3, <2>1, <2>3
    <3>2. stack'[i].query = stack[i - 1].query
        BY <1>3, <1>6, <3>1
    <3>3. rank[stack[i - 1].query] + (Len(stack) - (i - 1)) < MaxDepth
        BY <1>3, <3>1 DEF DescentInv, Room
    <3>4. Len(stack') - i = Len(stack) - (i - 1)
        BY <1>3, <1>6, <2>1
    <3> QED
        BY <3>2, <3>3, <3>4
  <2> QED
      BY <2>2, <2>3
<1>9. ~crashed'
    BY <1>6 DEF DescentInv
<1> QED
    BY <1>2, <1>8, <1>9 DEF DescentInv

LEMMA ReturnDescends ==
    ASSUME NEW rank, NamesDescend(rank), TypeInv, DescentInv(rank), Running,
           NEW p, Return(p), UNCHANGED crashed
    PROVE  DescentInv(rank)'
<1>1. /\ stack # <<>> /\ stack \in Seq(DescendingFrame(rank))
      /\ Len(stack) \in Nat \ {0} /\ DOMAIN stack = 1..Len(stack)
    BY TopDescends, TopTypes, TopInStack
<1>2. /\ stack' \in Seq(DescendingFrame(rank)) /\ Len(stack') = Len(stack) - 1
      /\ \A i \in 1..(Len(stack) - 1) : stack'[i] = stack[i + 1]
    BY <1>1, ReturnKeeps
<1>3. Room(rank)'
  <2> SUFFICES ASSUME NEW i \in DOMAIN stack'
               PROVE  rank[stack'[i].query] + (Len(stack') - i) < MaxDepth
      BY DEF Room
  <2>1. i \in 1..(Len(stack) - 1)
      BY <1>2
  <2>2. i + 1 \in 1..Len(stack) /\ Len(stack') - i = Len(stack) - (i + 1)
      BY <1>1, <1>2, <2>1
  <2>3. rank[stack[i + 1].query] + (Len(stack) - (i + 1)) < MaxDepth
      BY <1>1, <2>2 DEF DescentInv, Room
  <2> QED
      BY <1>2, <2>1, <2>2, <2>3
<1> QED
    BY <1>2, <1>3 DEF DescentInv

LEMMA LookupStepDescends ==
    ASSUME NEW rank, NamesDescend(rank), TypeInv, TypeInv', DescentInv(rank), LookupStep
    PROVE  DescentInv(rank)'
<1>1. ASSUME NEW p, Running, Return(p), UNCHANGED crashed
      PROVE  DescentInv(rank)'
    BY <1>1, ReturnDescends
<1>2. ASSUME NEW f, Running, Continue(f), UNCHANGED crashed, f.query = Top.query,
             f.todo = Top.todo, f.pc \notin {"referral", "cname", "target"}
      PROVE  DescentInv(rank)'
  <2>1. Descending(rank, f)
      BY <1>2, TopDescends DEF Descending
  <2> QED
      BY <1>2, <2>1, ContinueDescends
<1>3. CASE AnswerFromCache
    BY <1>1, <1>3 DEF AnswerFromCache, At
<1>4. CASE AskRoot
  <2>1. Running /\ UNCHANGED crashed
      BY <1>4 DEF AskRoot, At
  <2>2. PICK p \in Upstream[Root][Top.query] :
               Continue([Top EXCEPT !.pc = "referral", !.response = p])
      BY <1>4 DEF AskRoot
  <2> DEFINE f == [Top EXCEPT !.pc = "referral", !.response = p]
  <2>3. f.query = Top.query /\ f.pc = "referral" /\ f.response = p /\ f.todo = Top.todo
      BY <2>1, TopTypes DEF Frame
  <2>4. p # NoPacket => p \in Replies(Top.query)
      BY <2>1, TopTypes, ReplySaid
  <2> HIDE DEF f
  <2>5. Descending(rank, f)
      BY <2>1, <2>3, <2>4, TopDescends DEF Descending
  <2> QED
      BY <2>1, <2>2, <2>3, <2>5, ContinueDescends DEF f
<1>5. CASE TooManyReferrals
    BY <1>1, <1>5 DEF TooManyReferrals, At
<1>6. CASE NoResponse
    BY <1>1, <1>6 DEF NoResponse, AtReferral, At
<1>7. CASE HasAnswers
  <2> DEFINE f == [Top EXCEPT !.pc = "cname", !.hop = 0]
  <2>1. /\ Running /\ Top.pc = "referral" /\ Top.response # NoPacket /\ Continue(f)
        /\ UNCHANGED crashed
      BY <1>7 DEF HasAnswers, AtReferral, At
  <2>2. /\ f.query = Top.query /\ f.pc = "cname" /\ f.response = Top.response
        /\ f.todo = Top.todo
      BY <2>1, TopTypes DEF Frame
  <2>3. Top.response \in Replies(Top.query) /\ Top.query \in Question
      BY <2>1, TopTypes, TopDescends DEF Descending
  <2>4. /\ Top.query.type # "CNAME" /\ OfType(Top.response.answers, Top.query.type) = <<>>
        /\ OfType(Top.response.answers, "CNAME") # <<>>
        => rank[Target(Top.query, Top.response.answers)] < rank[Top.query]
      BY <2>1, <2>3, TopDescends DEF NamesDescend
  <2> HIDE DEF f
  <2>5. Descending(rank, f)
      BY <2>1, <2>2, <2>4, TopDescends DEF Descending
  <2> QED
      BY <2>1, <2>2, <2>5, ContinueDescends
<1>8. CASE HasError
    BY <1>1, <1>8 DEF HasError, Unanswered, AtReferral, At
<1>9. CASE HasNothing
    BY <1>1, <1>9 DEF HasNothing, NoData, Unanswered, AtReferral, At
<1>10. CASE HasReferral
  <2> DEFINE p == Top.response
             names == NsNames(p)
             glue == AddCandidates(<<>>, Glue(p))
             both(n) == <<[name |-> n, type |-> "A"], [name |-> n, type |-> "AAAA"]>>
             todo == IF glue = <<>> THEN FlattenSeq([i \in DOMAIN names |-> both(names[i])])
                     ELSE <<>>
             pc == IF glue = <<>> THEN "glueless" ELSE "servers"
             f == [Top EXCEPT !.pc = pc, !.candidates = glue, !.todo = todo]
             Less == {q \in Question : rank[q] < rank[Top.query]}
  <2>1. /\ Running /\ Continue(f) /\ UNCHANGED crashed
        /\ Top.pc = "referral" /\ p # NoPacket /\ p.rcode = "NOERROR" /\ p.answers = <<>>
      BY <1>10 DEF HasReferral, Unanswered, AtReferral, At
  <2>2. p \in Replies(Top.query) /\ Top.query \in Question /\ p \in Packet
      BY <2>1, TopTypes, TopDescends DEF Descending
  <2>3. glue = <<>> => \A i \in DOMAIN names, type \in {"A", "AAAA"} :
                          rank[[name |-> names[i], type |-> type]] < rank[Top.query]
      BY <2>1, <2>2, TopDescends DEF NamesDescend
  <2>4. todo \in Seq(Less)
    <3>1. names \in Seq(Name)
        BY <2>2, NsNamesTypes
    <3> HIDE DEF names
    <3>2. ASSUME glue = <<>>, NEW i \in DOMAIN names
          PROVE  both(names[i]) \in Seq(Less)
      <4> DEFINE a == [name |-> names[i], type |-> "A"]
                 aaaa == [name |-> names[i], type |-> "AAAA"]
      <4>1. a \in Question /\ aaaa \in Question
          BY <3>1, ResolverConstants DEF Question
      <4>2. a \in Less /\ aaaa \in Less
          BY <2>3, <3>2, <4>1
      <4> HIDE DEF a, aaaa, Less
      <4>3. <<a, aaaa>> \in Seq(Less)
          BY <4>2
      <4> QED
          BY <4>3 DEF a, aaaa
    <3> HIDE DEF both, glue
    <3>3. DOMAIN names = 1..Len(names) /\ Len(names) \in Nat
        BY <3>1
    <3> HIDE DEF Less
    <3>4. CASE glue = <<>>
      <4>1. [i \in DOMAIN names |-> both(names[i])] \in Seq(Seq(Less))
          BY <3>2, <3>3, <3>4
      <4>2. FlattenSeq([i \in DOMAIN names |-> both(names[i])]) \in Seq(Less)
          BY <4>1, FlattenSeqType
      <4> QED
          BY <3>4, <4>2
    <3>5. CASE glue # <<>>
        BY <3>5
    <3> QED
        BY <3>4, <3>5
  <2>5. f.query = Top.query /\ f.todo = todo /\ f.pc \notin {"referral", "cname", "target"}
    <3> HIDE DEF todo, glue
    <3> QED
        BY <2>1, TopTypes DEF Frame
  <2> HIDE DEF f, todo
  <2>6. Descending(rank, f)
      BY <2>4, <2>5 DEF Descending
  <2> QED
      BY <2>1, <2>5, <2>6, ContinueDescends
<1>11. CASE LookupNameserver
  <2> DEFINE Less == {q \in Question : rank[q] < rank[Top.query]}
             f == [Top EXCEPT !.pc = "nameserver", !.todo = Tail(@)]
  <2>1. Running /\ Top.todo # <<>> /\ Lookup(f, Head(Top.todo))
      BY <1>11 DEF LookupNameserver, At
  <2>2. Top.todo \in Seq(Less)
      BY <2>1, TopDescends DEF Descending
  <2>3. Head(Top.todo) \in Less /\ Tail(Top.todo) \in Seq(Less)
    <3> HIDE DEF Less
    <3> QED
        BY <2>1, <2>2
  <2>4. f.query = Top.query /\ f.pc = "nameserver" /\ f.todo = Tail(Top.todo)
      BY <2>1, TopTypes DEF Frame
  <2> HIDE DEF f
  <2>5. Descending(rank, f)
      BY <2>3, <2>4 DEF Descending
  <2> QED
      BY <2>1, <2>3, <2>4, <2>5, LookupDescends
<1>12. CASE NameserverReturned
  <2>1. PICK candidates : /\ Running /\ UNCHANGED crashed
                          /\ Continue([Top EXCEPT !.pc = "glueless", !.candidates = candidates])
      BY <1>12 DEF NameserverReturned, At
  <2> QED
      BY <1>2, <2>1, TopTypes DEF Frame
<1>13. CASE NameserversDone
  <2>1. Running /\ UNCHANGED crashed
      BY <1>13 DEF NameserversDone, At
  <2>2. CASE Top.candidates = <<>>
      BY <1>1, <1>13, <2>1, <2>2 DEF NameserversDone, NoData
  <2>3. CASE Top.candidates # <<>>
    <3>1. Continue([Top EXCEPT !.pc = "servers"])
        BY <1>13, <2>3 DEF NameserversDone
    <3> QED
        BY <1>2, <2>1, <3>1, TopTypes DEF Frame
  <2> QED
      BY <2>2, <2>3
<1>14. CASE AlreadyQueried
  <2>1. /\ Running /\ Continue([Top EXCEPT !.candidates = Tail(@)])
        /\ UNCHANGED crashed /\ Top.pc = "servers"
      BY <1>14 DEF AlreadyQueried, At
  <2> QED
      BY <1>2, <2>1, TopTypes DEF Frame
<1>15. CASE QueryNameServer
  <2> DEFINE server == Head(Top.candidates)
             asked == [Top EXCEPT !.queried = Append(@, server), !.candidates = Tail(@)]
  <2>1. /\ Running /\ Top.candidates # <<>> /\ Top.pc = "servers" /\ UNCHANGED crashed
      BY <1>15 DEF QueryNameServer, At
  <2>2. PICK p \in Upstream[server][Top.query] :
               IF Usable(p)
                  THEN Continue([asked EXCEPT !.pc = "referral", !.response = p,
                                     !.candidates = <<>>, !.referrals = @ + 1])
                  ELSE Continue(asked)
      BY <1>15 DEF QueryNameServer
  <2>3. server \in Address
      BY <2>1, TopTypes DEF Frame
  <2>4. asked.query = Top.query /\ asked.todo = Top.todo /\ asked.pc = "servers"
      BY <2>1, TopTypes DEF Frame
  <2>5. CASE ~Usable(p)
    <3> HIDE DEF asked
    <3> QED
        BY <1>2, <2>1, <2>2, <2>4, <2>5
  <2>6. CASE Usable(p)
    <3> DEFINE f == [asked EXCEPT !.pc = "referral", !.response = p,
                                  !.candidates = <<>>, !.referrals = @ + 1]
    <3>1. f.query = Top.query /\ f.pc = "referral" /\ f.response = p /\ f.todo = Top.todo
        BY <2>1, TopTypes DEF Frame
    <3>2. p \in Replies(Top.query)
        BY <2>1, <2>3, <2>6, TopTypes, ReplySaid DEF Usable
    <3>3. Continue(f)
        BY <2>2, <2>6
    <3> HIDE DEF f
    <3>4. Descending(rank, f)
        BY <2>1, <3>1, <3>2, TopDescends DEF Descending
    <3> QED
        BY <2>1, <3>1, <3>3, <3>4, ContinueDescends
  <2> QED
      BY <2>5, <2>6
<1>16. CASE NoServerLeft
    BY <1>1, <1>16 DEF NoServerLeft, NoData, At
<1>17. CASE FollowCname
  <2> DEFINE q == Target(Top.query, Top.response.answers)
             f == [Top EXCEPT !.pc = "target"]
  <2>1. /\ Running /\ Top.pc = "cname" /\ Lookup(f, q)
        /\ Top.query.type # "CNAME" /\ OfType(Top.response.answers, Top.query.type) = <<>>
        /\ OfType(Top.response.answers, "CNAME") # <<>>
      BY <1>17 DEF FollowCname, CnameDone, At
  <2>2. q \in Question
      BY <2>1, TopTypes, TargetType DEF Placed
  <2>3. rank[q] < rank[Top.query]
      BY <2>1, TopDescends DEF Descending
  <2>4. /\ f.query = Top.query /\ f.response = Top.response /\ f.todo = Top.todo
        /\ f.pc = "target"
      BY <2>1, TopTypes DEF Frame
  <2> HIDE DEF f
  <2>5. Descending(rank, f)
      BY <2>1, <2>3, <2>4, TopDescends DEF Descending
  <2> HIDE DEF q
  <2> QED
      BY <2>1, <2>2, <2>3, <2>4, <2>5, LookupDescends
<1>18. CASE AnswerClient
    BY <1>1, <1>18 DEF AnswerClient, Answer, At
<1>19. CASE TargetReturned
  <2>1. Running /\ Top.pc = "target" /\ UNCHANGED crashed
      BY <1>19 DEF TargetReturned, At
  <2>2. CASE returned = NoPacket \/ returned.answers = <<>>
      BY <1>1, <1>19, <2>1, <2>2 DEF TargetReturned, TargetFailed, Answer
  <2>3. CASE ~(returned = NoPacket \/ returned.answers = <<>>)
    <3> DEFINE f == WithTarget(Top, returned.answers)
               u == Top.response.answers
               w == u \o returned.answers
    <3>1. Continue(f)
        BY <1>19, <2>3 DEF TargetReturned
    <3>2. Top.response \in Packet /\ OfType(u, "CNAME") # <<>>
        BY <2>1, TopTypes DEF Placed
    <3>3. /\ f.query = Top.query /\ f.pc = "cname" /\ f.todo = Top.todo
          /\ f.response.answers = w
        BY <2>1, <3>2, TopTypes DEF WithTarget, Frame, Packet
    <3>4. u \in Seq(Record) /\ returned.answers \in Seq(Record)
        BY <2>3, <3>2 DEF TypeInv, TypeOK, Packet
    <3>5. Target(Top.query, w) = Target(Top.query, u)
        BY <3>2, <3>4, OfTypeOfSum DEF Target
    <3>6. OfType(w, Top.query.type) = <<>> => OfType(u, Top.query.type) = <<>>
        BY <3>4, OfTypeOfSum
    <3>7. /\ Top.query.type # "CNAME" /\ OfType(u, Top.query.type) = <<>>
          => rank[Target(Top.query, u)] < rank[Top.query]
        BY <2>1, <3>2, TopDescends DEF Descending
    <3> HIDE DEF f, u, w
    <3>8. Descending(rank, f)
        BY <2>1, <3>3, <3>5, <3>6, <3>7, TopDescends DEF Descending
    <3> QED
        BY <2>1, <3>1, <3>3, <3>8, ContinueDescends
  <2> QED
      BY <2>2, <2>3
<1> QED
    BY <1>3, <1>4, <1>5, <1>6, <1>7, <1>8, <1>9, <1>10, <1>11, <1>12, <1>13, <1>14,
       <1>15, <1>16, <1>17, <1>18, <1>19 DEF LookupStep

(* Where CNAMEs and glueless delegations descend, a stack as deep as the   *)
(* clients' questions rank high is enough: lookup does not run out of it.  *)
THEOREM NestingIsBounded ==
    ASSUME NEW rank, NamesDescend(rank)
    PROVE  Spec => []NeverCrashes
<1>1. Init => DescentInv(rank)
  <2> SUFFICES ASSUME Init
               PROVE  DescentInv(rank)
      OBVIOUS
  <2>1. stack \in Seq(DescendingFrame(rank)) /\ DOMAIN stack = {} /\ crashed = FALSE
      BY DEF Init
  <2> QED
      BY <2>1 DEF DescentInv, Room
<1>2. TypeInv /\ TypeInv' /\ DescentInv(rank) /\ [Next]_vars => DescentInv(rank)'
  <2> SUFFICES ASSUME TypeInv, TypeInv', DescentInv(rank), [Next]_vars
               PROVE  DescentInv(rank)'
      OBVIOUS
  <2>1. ASSUME NEW q \in ClientQuestion, ClientQuery(q)
        PROVE  DescentInv(rank)'
    <3> DEFINE a == Activation(q)
    <3>1. a \in DescendingFrame(rank) /\ a.query = q
        BY ActivationDescends, ResolverConstants DEF Activation
    <3>2. rank[q] \in Nat /\ rank[q] < MaxDepth
        BY ResolverConstants DEF NamesDescend
    <3>3. stack' = <<a>> /\ ~crashed'
        BY <2>1 DEF ClientQuery
    <3> HIDE DEF a
    <3>4. /\ stack' \in Seq(DescendingFrame(rank)) /\ Len(stack') = 1 /\ stack'[1] = a
          /\ DOMAIN stack' = 1..1
        BY <3>1, <3>3
    <3>5. Room(rank)'
      <4> SUFFICES ASSUME NEW i \in DOMAIN stack'
                   PROVE  rank[stack'[i].query] + (Len(stack') - i) < MaxDepth
          BY DEF Room
      <4>1. i = 1
          BY <3>4
      <4> QED
          BY <3>1, <3>2, <3>4, <4>1
    <3> QED
        BY <3>3, <3>4, <3>5 DEF DescentInv
  <2>2. CASE LookupNothing
      BY <2>2 DEF LookupNothing, DescentInv, Room
  <2>3. CASE LookupStep
      BY <2>3, LookupStepDescends
  <2>4. CASE Tick
      BY <2>4 DEF Tick, DescentInv, Room
  <2>5. CASE UNCHANGED vars
      BY <2>5 DEF vars, DescentInv, Room
  <2> QED
      BY <2>1, <2>2, <2>3, <2>4, <2>5 DEF Next
<1>3. DescentInv(rank) => NeverCrashes
    BY DEF DescentInv, NeverCrashes
<1> QED
    BY <1>1, <1>2, <1>3, TypesAreInvariant, PTL DEF Spec

=============================================================================
