------------------------------ MODULE DnsCache ------------------------------
(***************************************************************************)
(* class DnsCache: an unordered_map from (lower-cased domain, type) to an  *)
(* entry with records or a negative result and an expiration time, filled  *)
(* by the four put overloads and cleaned only by the get that meets an     *)
(* expired entry, by remove and by clear.  The steady clock is a counter   *)
(* of seconds.  The class has no lock: it is modelled here as it is used   *)
(* by the resolver, one call at a time.                                    *)
(*                                                                         *)
(* The state operators (Live, WithEntry, AfterGet...) are what other       *)
(* modules use of the cache; the actions make it a specification.          *)
(***************************************************************************)
EXTENDS Integers, Sequences

CONSTANTS
    Domain,       \* domain names as they are spelled by callers
    QType,        \* the values of enum class QuestionType
    Lower,        \* Lower[d] is d in lower case
    Record,       \* resource records; r.ttl is the TTL, 0 included
    NoEntry,      \* std::nullopt, and the absence of a map entry
    DefaultTtl,   \* the 60 seconds that stand for "no TTL given"
    Offered,      \* ready-made entries that callers pass to put(key, entry)
    RRset,        \* vectors of records that callers pass to put, empty included
    CallerTtl,    \* the ttl arguments of the other overloads, 0 included
    MaxTime,      \* bound: the last second of the clock
    MaxGets       \* bound: how many calls of get are counted

CacheResult == {"POSITIVE", "NXDOMAIN", "NODATA"}
Key == [domain : Domain, type : QType]
Entry == [records : Seq(Record), result : CacheResult, expires : Nat]

ASSUME CacheConstants ==
    /\ Lower \in [Domain -> Domain]
    /\ \A r \in Record : r.ttl \in Nat
    /\ DefaultTtl \in Nat \ {0}
    /\ RRset \subseteq Seq(Record)
    /\ CallerTtl \subseteq Nat
    /\ MaxTime \in Nat /\ MaxGets \in Nat
    /\ Offered \subseteq Entry
    /\ NoEntry \notin Entry

VARIABLES
    cache,        \* the map: NoEntry where it holds nothing
    now,          \* Clock::now()
    hits,         \* cachehitCount
    misses,       \* cachemissCount
    reply         \* what the last get returned

vars == <<cache, now, hits, misses, reply>>

-----------------------------------------------------------------------------

(* The constructor of DnsCacheKey normalises the domain. *)
CacheKey(d, t) == [domain |-> Lower[d], type |-> t]

(* Faulty variant: an entry is good for one second too long. *)
ExpiredLate(e) == now > e.expires

Expired(e) == now >= e.expires

(* The entry a get(k) would return. *)
Live(k) == IF cache[k] # NoEntry /\ ~Expired(cache[k]) THEN cache[k] ELSE NoEntry

(* Faulty variant: the check for empty positive entries is missing. *)
StorableIfLive(e) == ~Expired(e)

(* put(key, entry): an expired entry and a positive one without records    *)
(* leave the map, and what it holds for the key, as they are.              *)
Storable(e) == ~Expired(e) /\ ~(e.result = "POSITIVE" /\ e.records = <<>>)
WithEntry(k, e) == IF Storable(e) THEN [cache EXCEPT ![k] = e] ELSE cache

GivenTtl(ttl) == IF ttl > 0 THEN ttl ELSE DefaultTtl

(* The least of the caller's TTL and the records' TTLs, zeros left out. *)
TtlCaps(rs, ttl) ==
    {GivenTtl(ttl)} \cup {rs[i].ttl : i \in {j \in DOMAIN rs : rs[j].ttl > 0}}
(* Faulty variant: the records' own TTLs are not looked at. *)
LeastTtlOfCaller(rs, ttl) == GivenTtl(ttl)

LeastTtl(rs, ttl) ==
    CHOOSE m \in TtlCaps(rs, ttl) : \A c \in TtlCaps(rs, ttl) : m <= c

(* The entries made by the other three overloads. *)
RecordsEntry(rs, ttl) ==
    [records |-> rs, result |-> "POSITIVE", expires |-> now + LeastTtl(rs, ttl)]
RecordEntry(r) ==
    [records |-> <<r>>, result |-> "POSITIVE", expires |-> now + GivenTtl(r.ttl)]
ResultEntry(result, ttl) ==
    [records |-> <<>>, result |-> result, expires |-> now + GivenTtl(ttl)]

(* get(key) erases the entry it finds expired. *)
AfterGet(k) == IF cache[k] # NoEntry /\ Expired(cache[k])
                   THEN [cache EXCEPT ![k] = NoEntry] ELSE cache

-----------------------------------------------------------------------------

TypeOK ==
    /\ cache \in [Key -> Entry \cup {NoEntry}]
    /\ now \in Nat
    /\ hits \in Nat
    /\ misses \in Nat
    /\ reply \in Entry \cup {NoEntry}

Init ==
    /\ cache = [k \in Key |-> NoEntry]
    /\ now = 0
    /\ hits = 0
    /\ misses = 0
    /\ reply = NoEntry

Put(k, e) ==
    /\ cache' = WithEntry(k, e)
    /\ UNCHANGED <<now, hits, misses, reply>>

PutEntry(d, t, e) == Put(CacheKey(d, t), e)

PutRecords(d, t, rs, ttl) ==
    /\ rs # <<>>
    /\ Put(CacheKey(d, t), RecordsEntry(rs, ttl))

PutRecord(d, t, r) == Put(CacheKey(d, t), RecordEntry(r))

PutResult(d, t, result, ttl) == Put(CacheKey(d, t), ResultEntry(result, ttl))

(* Faulty variant: a miss takes a hit back instead of counting a miss. *)
CountTakingBack(hit) ==
    IF hit THEN hits' = hits + 1 /\ UNCHANGED misses
           ELSE hits' = hits - 1 /\ UNCHANGED misses

Count(hit) ==
    IF hit THEN hits' = hits + 1 /\ UNCHANGED misses
           ELSE misses' = misses + 1 /\ UNCHANGED hits

(* get, and contains, which is a get whose entry is dropped. *)
Get(d, t) ==
    /\ hits + misses < MaxGets
    /\ LET k == CacheKey(d, t) IN
          /\ reply' = Live(k)
          /\ cache' = AfterGet(k)
          /\ Count(Live(k) # NoEntry)
    /\ UNCHANGED now

Remove(d, t) ==
    /\ cache' = [cache EXCEPT ![CacheKey(d, t)] = NoEntry]
    /\ UNCHANGED <<now, hits, misses, reply>>

Clear ==
    /\ cache' = [k \in Key |-> NoEntry]
    /\ UNCHANGED <<now, hits, misses, reply>>

Tick ==
    /\ now < MaxTime
    /\ now' = now + 1
    /\ UNCHANGED <<cache, hits, misses, reply>>

Next ==
    \/ \E d \in Domain, t \in QType :
          \/ \E e \in Offered : PutEntry(d, t, e)
          \/ \E rs \in RRset, ttl \in CallerTtl : PutRecords(d, t, rs, ttl)
          \/ \E r \in Record : PutRecord(d, t, r)
          \/ \E result \in CacheResult, ttl \in CallerTtl : PutResult(d, t, result, ttl)
          \/ Get(d, t)
          \/ Remove(d, t)
    \/ Clear
    \/ Tick

Spec == Init /\ [][Next]_vars

-----------------------------------------------------------------------------

(* Whatever order the overloads of put are called in, and whatever entries *)
(* they are given, a positive entry of the map has records: is_cached of   *)
(* the resolver answers a client with them, and an empty NOERROR answer    *)
(* would be a claim that the name has no such record.                      *)
PositiveHasRecords ==
    \A k \in Key : cache[k] # NoEntry /\ cache[k].result = "POSITIVE"
                       => cache[k].records # <<>>

(* An entry the cache computes itself (all but those offered ready-made)   *)
(* keeps no record longer than that record's own TTL, when it has one: not *)
(* for a longer TTL of the caller, nor for another record of the set.      *)
RecordsExpireInTime ==
    [][\A k \in Key :
          cache'[k] \notin {cache[k], NoEntry} \cup Offered =>
             \A i \in DOMAIN cache'[k].records :
                LET r == cache'[k].records[i]
                IN  r.ttl > 0 => cache'[k].expires <= now + r.ttl]_vars

(* Lazy expiry and lower-cased keys cannot be observed: through get, the   *)
(* map behaves like the store of module TtlStore, in which values vanish   *)
(* at their deadline and every spelling of a question has the same value.  *)
SameKey(q) == {p \in Key : CacheKey(p.domain, p.type) = CacheKey(q.domain, q.type)}
Answers == [q \in Key |-> Live(CacheKey(q.domain, q.type))]

Abstract == INSTANCE TtlStore WITH
    Question <- Key,
    Alias    <- [q \in Key |-> SameKey(q)],
    Value    <- Entry,
    Nothing  <- NoEntry,
    store    <- Answers,
    answer   <- reply

ImplementsTtlStore == Abstract!Spec

=============================================================================
