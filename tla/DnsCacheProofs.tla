--------------------------- MODULE DnsCacheProofs ---------------------------
(***************************************************************************)
(* Proofs about module DnsCache, for every set of names, types and records *)
(* and every TTL and bound.                                                *)
(***************************************************************************)
EXTENDS DnsCache, TLAPS

Facts == INSTANCE FoldFacts

(* The TTL put(key, records, ttl) computes is positive, and no longer than *)
(* the caller's TTL or any record's TTL that is not zero.                  *)
LEMMA LeastTtlProperties ==
    ASSUME NEW rs \in Seq(Record), NEW ttl \in Nat
    PROVE  /\ LeastTtl(rs, ttl) \in Nat \ {0}
           /\ LeastTtl(rs, ttl) <= GivenTtl(ttl)
           /\ \A i \in DOMAIN rs : rs[i].ttl > 0 => LeastTtl(rs, ttl) <= rs[i].ttl
<1>1. TtlCaps(rs, ttl) \subseteq Nat \ {0} /\ GivenTtl(ttl) \in TtlCaps(rs, ttl)
  BY CacheConstants DEF TtlCaps, GivenTtl
<1>2. \E m \in TtlCaps(rs, ttl) : \A c \in TtlCaps(rs, ttl) : m <= c
  BY <1>1, Facts!LeastExists
<1>3. /\ LeastTtl(rs, ttl) \in TtlCaps(rs, ttl)
      /\ \A c \in TtlCaps(rs, ttl) : LeastTtl(rs, ttl) <= c
  BY <1>2 DEF LeastTtl
<1>4. \A i \in DOMAIN rs : rs[i].ttl > 0 => rs[i].ttl \in TtlCaps(rs, ttl)
  BY DEF TtlCaps
<1> QED BY <1>1, <1>3, <1>4

(* The entries the overloads of put make are entries. *)
LEMMA EntriesAreEntries ==
    ASSUME now \in Nat
    PROVE  /\ \A rs \in RRset, ttl \in CallerTtl : RecordsEntry(rs, ttl) \in Entry
           /\ \A r \in Record : RecordEntry(r) \in Entry
           /\ \A result \in CacheResult, ttl \in CallerTtl : ResultEntry(result, ttl) \in Entry
<1>1. ASSUME NEW rs \in RRset, NEW ttl \in CallerTtl
      PROVE  RecordsEntry(rs, ttl) \in Entry
  <2>1. rs \in Seq(Record) /\ ttl \in Nat
    BY CacheConstants
  <2>2. now + LeastTtl(rs, ttl) \in Nat
    BY <2>1, LeastTtlProperties
  <2> QED BY <2>1, <2>2 DEF RecordsEntry, Entry, CacheResult
<1>2. ASSUME NEW r \in Record
      PROVE  RecordEntry(r) \in Entry
  BY CacheConstants DEF RecordEntry, GivenTtl, Entry, CacheResult
<1>3. ASSUME NEW result \in CacheResult, NEW ttl \in CallerTtl
      PROVE  ResultEntry(result, ttl) \in Entry
  BY CacheConstants DEF ResultEntry, GivenTtl, Entry
<1> QED BY <1>1, <1>2, <1>3

(* Every action of Next that puts something is a Put of some entry. *)
LEMMA PutsArePuts ==
    ASSUME TypeOK, NEW d \in Domain, NEW t \in QType,
           \/ \E e \in Offered : PutEntry(d, t, e)
           \/ \E rs \in RRset, ttl \in CallerTtl : PutRecords(d, t, rs, ttl)
           \/ \E r \in Record : PutRecord(d, t, r)
           \/ \E result \in CacheResult, ttl \in CallerTtl : PutResult(d, t, result, ttl)
    PROVE  \E e \in Entry : Put(CacheKey(d, t), e)
<1>1. CASE \E e \in Offered : PutEntry(d, t, e)
  BY <1>1, CacheConstants DEF PutEntry
<1>2. CASE \E rs \in RRset, ttl \in CallerTtl : PutRecords(d, t, rs, ttl)
  BY <1>2, EntriesAreEntries DEF PutRecords, TypeOK
<1>3. CASE \E r \in Record : PutRecord(d, t, r)
  BY <1>3, EntriesAreEntries DEF PutRecord, TypeOK
<1>4. CASE \E result \in CacheResult, ttl \in CallerTtl : PutResult(d, t, result, ttl)
  BY <1>4, EntriesAreEntries DEF PutResult, TypeOK
<1> QED BY <1>1, <1>2, <1>3, <1>4

LEMMA CacheKeyIsKey ==
    ASSUME NEW d \in Domain, NEW t \in QType
    PROVE  CacheKey(d, t) \in Key
BY CacheConstants DEF CacheKey, Key

-----------------------------------------------------------------------------

(* The map only ever holds entries under keys, whatever is called. *)
THEOREM TypeCorrect == Spec => []TypeOK
<1>1. Init => TypeOK
  BY DEF Init, TypeOK
<1>2. TypeOK /\ [Next]_vars => TypeOK'
  <2> SUFFICES ASSUME TypeOK, [Next]_vars
               PROVE  TypeOK'
    OBVIOUS
  <2>1. ASSUME NEW d \in Domain, NEW t \in QType, NEW e \in Entry, Put(CacheKey(d, t), e)
        PROVE  TypeOK'
    BY <2>1, CacheKeyIsKey DEF TypeOK, Put, WithEntry
  <2>2. ASSUME NEW d \in Domain, NEW t \in QType, Get(d, t)
        PROVE  TypeOK'
    BY <2>2, CacheKeyIsKey DEF TypeOK, Get, Count, Live, AfterGet
  <2>3. ASSUME NEW d \in Domain, NEW t \in QType, Remove(d, t)
        PROVE  TypeOK'
    BY <2>3, CacheKeyIsKey DEF TypeOK, Remove
  <2>4. CASE Clear
    BY <2>4 DEF TypeOK, Clear
  <2>5. CASE Tick
    BY <2>5 DEF TypeOK, Tick
  <2>6. CASE UNCHANGED vars
    BY <2>6 DEF TypeOK, vars
  <2> QED BY <2>1, <2>2, <2>3, <2>4, <2>5, <2>6, PutsArePuts DEF Next
<1> QED BY <1>1, <1>2, PTL DEF Spec

(* No order of calls, and no entry a caller makes up, leaves a positive    *)
(* entry without records in the map.                                       *)
THEOREM PositiveAnswersHaveRecords == Spec => []PositiveHasRecords
<1>1. Init => PositiveHasRecords
  BY DEF Init, PositiveHasRecords
<1>2. TypeOK /\ PositiveHasRecords /\ [Next]_vars => PositiveHasRecords'
  <2> SUFFICES ASSUME TypeOK, PositiveHasRecords, [Next]_vars
               PROVE  PositiveHasRecords'
    OBVIOUS
  <2>1. ASSUME NEW d \in Domain, NEW t \in QType, NEW e \in Entry, Put(CacheKey(d, t), e)
        PROVE  PositiveHasRecords'
    BY <2>1, CacheKeyIsKey DEF TypeOK, PositiveHasRecords, Put, WithEntry, Storable
  <2>2. ASSUME NEW d \in Domain, NEW t \in QType, Get(d, t)
        PROVE  PositiveHasRecords'
    BY <2>2, CacheKeyIsKey DEF TypeOK, PositiveHasRecords, Get, AfterGet
  <2>3. ASSUME NEW d \in Domain, NEW t \in QType, Remove(d, t)
        PROVE  PositiveHasRecords'
    BY <2>3, CacheKeyIsKey DEF TypeOK, PositiveHasRecords, Remove
  <2>4. CASE Clear
    BY <2>4 DEF PositiveHasRecords, Clear
  <2>5. CASE Tick
    BY <2>5 DEF PositiveHasRecords, Tick
  <2>6. CASE UNCHANGED vars
    BY <2>6 DEF PositiveHasRecords, vars
  <2> QED BY <2>1, <2>2, <2>3, <2>4, <2>5, <2>6, PutsArePuts DEF Next
<1> QED BY <1>1, <1>2, TypeCorrect, PTL DEF Spec

(* An entry the cache computes expires no later than any of its records    *)
(* with a TTL, over every history of calls.                                *)
THEOREM RecordsExpire == Spec => RecordsExpireInTime
<1> DEFINE InTime ==
       \A k \in Key :
          cache'[k] \notin {cache[k], NoEntry} \cup Offered =>
             \A i \in DOMAIN cache'[k].records :
                LET r == cache'[k].records[i]
                IN  r.ttl > 0 => cache'[k].expires <= now + r.ttl
<1>1. TypeOK /\ [Next]_vars => [InTime]_vars
  <2> SUFFICES ASSUME TypeOK, [Next]_vars
               PROVE  InTime
    OBVIOUS
  <2>1. ASSUME NEW d \in Domain, NEW t \in QType, NEW e, Put(CacheKey(d, t), e)
        PROVE  \A k \in Key : cache'[k] \in {cache[k], e}
    BY <2>1 DEF TypeOK, Put, WithEntry
  <2>2. ASSUME NEW d \in Domain, NEW t \in QType, NEW e \in Offered, PutEntry(d, t, e)
        PROVE  InTime
    BY <2>1, <2>2 DEF PutEntry
  <2>3. ASSUME NEW d \in Domain, NEW t \in QType, NEW rs \in RRset,
               NEW ttl \in CallerTtl, PutRecords(d, t, rs, ttl)
        PROVE  InTime
    <3>1. \A k \in Key : cache'[k] \in {cache[k], RecordsEntry(rs, ttl)}
      BY <2>1, <2>3 DEF PutRecords
    <3>2. rs \in Seq(Record) /\ ttl \in Nat
      BY CacheConstants
    <3>3. \A i \in DOMAIN rs : rs[i].ttl > 0 => LeastTtl(rs, ttl) <= rs[i].ttl
      BY <3>2, LeastTtlProperties
    <3>4. /\ LeastTtl(rs, ttl) \in Nat /\ now \in Nat
          /\ \A i \in DOMAIN rs : rs[i].ttl \in Nat
      BY <3>2, LeastTtlProperties, CacheConstants DEF TypeOK
    <3>5. \A i \in DOMAIN RecordsEntry(rs, ttl).records :
             RecordsEntry(rs, ttl).records[i].ttl > 0 =>
                RecordsEntry(rs, ttl).expires <= now + RecordsEntry(rs, ttl).records[i].ttl
      BY <3>3, <3>4 DEF RecordsEntry
    <3> QED BY <3>1, <3>5
  <2>4. ASSUME NEW d \in Domain, NEW t \in QType, NEW r \in Record, PutRecord(d, t, r)
        PROVE  InTime
    <3>1. \A k \in Key : cache'[k] \in {cache[k], RecordEntry(r)}
      BY <2>1, <2>4 DEF PutRecord
    <3>2. \A i \in DOMAIN RecordEntry(r).records :
             RecordEntry(r).records[i].ttl > 0 =>
                RecordEntry(r).expires <= now + RecordEntry(r).records[i].ttl
      BY CacheConstants DEF TypeOK, RecordEntry, GivenTtl
    <3> QED BY <3>1, <3>2
  <2>5. ASSUME NEW d \in Domain, NEW t \in QType, NEW result \in CacheResult,
               NEW ttl \in CallerTtl, PutResult(d, t, result, ttl)
        PROVE  InTime
    <3>1. \A k \in Key : cache'[k] \in {cache[k], ResultEntry(result, ttl)}
      BY <2>1, <2>5 DEF PutResult
    <3> QED BY <3>1 DEF ResultEntry
  <2>6. ASSUME NEW d \in Domain, NEW t \in QType, Get(d, t) \/ Remove(d, t)
        PROVE  InTime
    BY <2>6 DEF TypeOK, Get, AfterGet, Remove
  <2>7. CASE Clear
    BY <2>7 DEF Clear
  <2>8. CASE Tick \/ UNCHANGED vars
    BY <2>8 DEF Tick, vars
  <2> QED BY <2>2, <2>3, <2>4, <2>5, <2>6, <2>7, <2>8 DEF Next
<1> QED BY <1>1, TypeCorrect, PTL DEF Spec, RecordsExpireInTime

-----------------------------------------------------------------------------

(* What a put, a get or a tick does to the answers of the map.             *)
LEMMA PutAnswers ==
    ASSUME TypeOK, NEW d \in Domain, NEW t \in QType, NEW e \in Entry,
           Put(CacheKey(d, t), e)
    PROVE  LET q == [domain |-> d, type |-> t]
           IN  Abstract!Store(q) \/ UNCHANGED Abstract!vars
<1> DEFINE q == [domain |-> d, type |-> t]
<1>1. q \in Key /\ CacheKey(d, t) \in Key
  BY CacheKeyIsKey DEF Key
<1>2. CASE ~Storable(e)
  BY <1>2 DEF Put, WithEntry, Abstract!vars, Answers, Live, Expired
<1>3. CASE Storable(e)
  <2>1. e.expires > now /\ e # NoEntry
    BY <1>3, CacheConstants DEF Storable, Expired, TypeOK, Entry
  <2>2. \A k \in Key : Live(k)' = IF k = CacheKey(d, t) THEN e ELSE Live(k)
    BY <1>3, <2>1 DEF Put, WithEntry, Storable, Live, Expired, TypeOK
  <2>3. \A p \in Key : Answers'[p] = IF p \in SameKey(q) THEN e ELSE Answers[p]
    BY <2>2, CacheKeyIsKey DEF Answers, SameKey, Key
  <2>4. q \in SameKey(q)
    BY <1>1 DEF SameKey
  <2>5. Answers'[q] = e
    BY <1>1, <2>3, <2>4
  <2>6. Answers' = [p \in Key |-> IF p \in SameKey(q) THEN e ELSE Answers[p]]
    BY <2>3 DEF Answers
  <2>7. UNCHANGED <<now, reply>>
    BY DEF Put
  <2> QED BY <1>1, <2>1, <2>5, <2>6, <2>7 DEF Abstract!Store, Abstract!Assign
<1> QED BY <1>2, <1>3

(* The cache implements the store of module TtlStore: entries that expire  *)
(* in the map unseen, and keys in lower case, never show.                  *)
THEOREM CacheImplementsTtlStore == Spec => ImplementsTtlStore
<1>1. Init => Abstract!Init
  BY CacheKeyIsKey DEF Init, Abstract!Init, Answers, Live, Key
<1>2. TypeOK /\ [Next]_vars => [Abstract!Next]_(Abstract!vars)
  <2> SUFFICES ASSUME TypeOK, [Next]_vars
               PROVE  Abstract!Next \/ UNCHANGED Abstract!vars
    OBVIOUS
  <2> DEFINE Q(d, t) == [domain |-> d, type |-> t]
  <2>1. ASSUME NEW d \in Domain, NEW t \in QType
        PROVE  Q(d, t) \in Key /\ CacheKey(d, t) \in Key /\ Answers[Q(d, t)] = Live(CacheKey(d, t))
    BY CacheKeyIsKey DEF Key, Answers
  <2>2. ASSUME NEW d \in Domain, NEW t \in QType, NEW e \in Entry, Put(CacheKey(d, t), e)
        PROVE  Abstract!Next \/ UNCHANGED Abstract!vars
    BY <2>1, <2>2, PutAnswers DEF Abstract!Next
  <2>3. ASSUME NEW d \in Domain, NEW t \in QType, Get(d, t)
        PROVE  Abstract!Fetch(Q(d, t))
    <3>1. \A k \in Key : Live(k)' = Live(k)
      BY <2>1, <2>3 DEF Get, AfterGet, Live, Expired, TypeOK
    <3>2. Answers' = Answers
      BY <3>1, CacheKeyIsKey DEF Answers, Key
    <3> QED BY <2>1, <2>3, <3>2 DEF Get, Abstract!Fetch
  <2>4. ASSUME NEW d \in Domain, NEW t \in QType, Remove(d, t)
        PROVE  Abstract!Forget(Q(d, t))
    <3>1. \A k \in Key : Live(k)' = IF k = CacheKey(d, t) THEN NoEntry ELSE Live(k)
      BY <2>1, <2>4 DEF Remove, Live, Expired, TypeOK
    <3>2. Answers' = [p \in Key |-> IF p \in SameKey(Q(d, t)) THEN NoEntry ELSE Answers[p]]
      BY <3>1, CacheKeyIsKey DEF Answers, SameKey, Key
    <3> QED BY <2>1, <2>4, <3>2 DEF Remove, Abstract!Forget, Abstract!Assign
  <2>5. CASE Clear
    <3>1. Answers' = [p \in Key |-> NoEntry]
      BY <2>5, CacheKeyIsKey DEF Clear, Answers, Live, Key
    <3> QED BY <2>5, <3>1 DEF Clear, Abstract!Next, Abstract!ForgetAll
  <2>6. CASE Tick
    <3>1. \A k \in Key : Live(k)' = IF Live(k) # NoEntry /\ Live(k).expires <= now'
                                       THEN NoEntry ELSE Live(k)
      BY <2>6 DEF Tick, Live, Expired, TypeOK, Entry
    <3>2. Answers' = [p \in Key |-> IF Answers[p] # NoEntry /\ Answers[p].expires <= now'
                                       THEN NoEntry ELSE Answers[p]]
      BY <3>1, CacheKeyIsKey DEF Answers, Key
    <3> QED BY <2>6, <3>2 DEF Tick, Abstract!Next, Abstract!Elapse
  <2>7. CASE UNCHANGED vars
    BY <2>7 DEF vars, Abstract!vars, Answers, Live, Expired
  <2> QED BY <2>1, <2>2, <2>3, <2>4, <2>5, <2>6, <2>7, PutsArePuts DEF Next, Abstract!Next
<1> QED BY <1>1, <1>2, TypeCorrect, PTL DEF Spec, ImplementsTtlStore, Abstract!Spec

=============================================================================
