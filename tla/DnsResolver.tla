---------------------------- MODULE DnsResolver ----------------------------
(***************************************************************************)
(* class DnsResolver: lookup, which answers a question from the cache or   *)
(* by following referrals down from a root server, and calls itself for    *)
(* the targets of CNAMEs and for nameservers that came without glue.       *)
(*                                                                         *)
(* One thread runs lookup, so the state is the stack of its activations.   *)
(* What is outside, the name servers, is a constant: the packets each of   *)
(* them may give to each question.  AskRootServer (module                  *)
(* RootServerManager) and QueryNameServer both come down to one of these   *)
(* packets, or to NoPacket when nothing usable arrives.  Header fields are *)
(* kept as far as FinalizeResponse changes them and the code branches on   *)
(* them; names, addresses and records are what properties tell apart.      *)
(***************************************************************************)
EXTENDS Integers, SequencesExt

CONSTANTS
    Name,              \* domain names as they are spelled
    QType,             \* the values of enum class QuestionType
    Lower,             \* Lower[n] is n in lower case
    Address,           \* addresses of name servers
    Root,              \* stands for "some root server"
    Record,            \* the resource records of the world
    Upstream,          \* Upstream[s][q]: what asking q of s may come to
    ClientQuestion,    \* the questions clients ask
    NoEntry,           \* an empty std::optional
    NoPacket,          \* a default DnsPacket: not a response, nothing in it
    MaxReferrals,      \* MAX_REFERRALS, 16 in the code
    MaxCnameHops,      \* MAX_CNAME_HOPS, 10 in the code
    DefaultTtl,        \* 60 in the code, the default of the cache too
    MaxDepth,          \* bound: activations of lookup the thread's stack holds
    MaxTime            \* bound: the last second of the clock

Question == [name : Name, type : QType]
Packet == [rcode : {"NOERROR", "NXDOMAIN", "OTHER"}, aa : BOOLEAN, ra : BOOLEAN,
           answers : Seq(Record), authorities : Seq(Record), additionals : Seq(Record)]

ASSUME ResolverConstants ==
    /\ {"A", "AAAA"} \subseteq QType
    /\ Lower \in [Name -> Name]
    /\ \A n \in Name : Lower[Lower[n]] = Lower[n]
    /\ Root \notin Address
    /\ \A r \in Record :
          /\ r.ttl \in Nat
          /\ r.type \in {"CNAME", "NS"} => r.data \in Name
          /\ r.type \in {"A", "AAAA"} => r.data \in Address
          /\ r.type = "SOA" => r.minimum \in Nat
    /\ \A s \in Address \cup {Root}, q \in Question :
          Upstream[s][q] \subseteq Packet \cup {NoPacket}
    /\ ClientQuestion \subseteq Question
    /\ NoPacket \notin Packet
    /\ {MaxReferrals, MaxCnameHops, DefaultTtl, MaxDepth} \subseteq Nat \ {0}
    /\ MaxTime \in Nat

VARIABLES
    cache,             \* the resolver's DnsCache
    now,               \* Clock::now()
    stack,             \* the activations of lookup, the innermost first
    returned,          \* what the last activation to end returned
    crashed            \* the thread has run out of stack

vars == <<cache, now, stack, returned, crashed>>

Cache == INSTANCE DnsCache WITH
    Domain <- Name, Offered <- {}, RRset <- {}, CallerTtl <- {}, MaxGets <- 0,
    hits <- 0, misses <- 0, reply <- NoEntry

CacheKey(q) == Cache!CacheKey(q.name, q.type)

-----------------------------------------------------------------------------
(* Packets *)

OfType(rs, type) ==
    FlattenSeq([i \in DOMAIN rs |-> IF rs[i].type = type THEN <<rs[i]>> ELSE <<>>])

(* The data of the A and AAAA records, in order. *)
AddressOf(r) == IF r.type \in {"A", "AAAA"} THEN <<r.data>> ELSE <<>>
Addresses(rs) == FlattenSeq([i \in DOMAIN rs |-> AddressOf(rs[i])])

(* The names of the nameservers a referral names. *)
NsNames(p) ==
    FlattenSeq([i \in DOMAIN p.authorities |->
        IF p.authorities[i].type = "NS" THEN <<p.authorities[i].data>> ELSE <<>>])

(* Faulty variant: names are compared as they are spelled. *)
SameNameAsSpelled(m, n) == m = n

SameName(m, n) == Lower[m] = Lower[n]

(* The glue: addresses of the additional records owned, but for case, by   *)
(* one of the nameservers.                                                 *)
Glue(p) ==
    LET of(n) == FlattenSeq([i \in DOMAIN p.additionals |->
                    IF SameName(p.additionals[i].owner, n)
                        THEN AddressOf(p.additionals[i]) ELSE <<>>])
    IN  FlattenSeq([i \in DOMAIN p.authorities |->
            IF p.authorities[i].type = "NS" THEN of(p.authorities[i].data) ELSE <<>>])

(* What is asked next when the answers to q are an alias: q of the first   *)
(* CNAME's target.                                                         *)
Target(q, rs) == [name |-> OfType(rs, "CNAME")[1].data, type |-> q.type]

(* add_candidate for each address: an address is a candidate once. *)
AddCandidates(candidates, addresses) ==
    FoldLeft(LAMBDA cs, a : IF Contains(cs, a) THEN cs ELSE Append(cs, a),
             candidates, addresses)

(* ExtractNegativeTtl: of the first SOA, the lesser of its TTL and its     *)
(* minimum field; one that is zero does not count.                         *)
NegativeTtl(p) ==
    LET soas == OfType(p.authorities, "SOA")
        caps == {soas[1].ttl, soas[1].minimum} \ {0}
    IN  IF soas = <<>> \/ caps = {} THEN DefaultTtl
        ELSE CHOOSE m \in caps : \A c \in caps : m <= c

(* FinalizeResponse, on the header bits of the model. *)
Finalized(p) == IF p = NoPacket THEN p ELSE [p EXCEPT !.aa = FALSE, !.ra = TRUE]

(* The response made of a cached entry. *)
CachedResponse(e) ==
    [rcode       |-> IF e.result = "NXDOMAIN" THEN "NXDOMAIN" ELSE "NOERROR",
     aa          |-> FALSE,
     ra          |-> TRUE,
     answers     |-> IF e.result = "POSITIVE" THEN e.records ELSE <<>>,
     authorities |-> <<>>,
     additionals |-> <<>>]

(* A response of a nameserver that the referral loop goes on with. *)
Usable(p) ==
    /\ p # NoPacket
    /\ \/ p.rcode # "NOERROR"
       \/ p.answers # <<>>
       \/ p.authorities # <<>>
       \/ p.additionals # <<>>

-----------------------------------------------------------------------------
(* Activations of lookup.  pc is where the activation is:                  *)
(*   "cache"       at the start of lookup(query)                           *)
(*   "referral"    at the top of the referral loop                         *)
(*   "cname"       at the top of the CNAME hop loop                        *)
(*   "target"      in the lookup of a CNAME's target                       *)
(*   "glueless"    about to look the next nameserver up                    *)
(*   "nameserver"  in the lookup of a nameserver                           *)
(*   "servers"     about to query the next candidate                       *)

Frame ==
    [query      : Question,
     pc         : {"cache", "referral", "cname", "target", "glueless", "nameserver", "servers"},
     response   : Packet \cup {NoPacket},
     referrals  : 0..MaxReferrals,
     hop        : 0..MaxCnameHops,
     queried    : Seq(Address),
     todo       : Seq(Question),
     candidates : Seq(Address)]

Activation(q) ==
    [query |-> q, pc |-> "cache", response |-> NoPacket, referrals |-> 0, hop |-> 0,
     queried |-> <<>>, todo |-> <<>>, candidates |-> <<>>]

Running == stack # <<>> /\ ~crashed
Top == Head(stack)
At(pc) == Running /\ Top.pc = pc

Continue(f) == stack' = <<f>> \o Tail(stack)

Lookup(f, q) ==
    IF Len(stack) < MaxDepth
        THEN stack' = <<Activation(q), f>> \o Tail(stack) /\ UNCHANGED crashed
        ELSE crashed' = TRUE /\ UNCHANGED stack

Return(p) ==
    /\ stack' = Tail(stack)
    /\ returned' = p

CacheNegative(result, p) ==
    cache' = Cache!WithEntry(CacheKey(Top.query), Cache!ResultEntry(result, NegativeTtl(p)))

-----------------------------------------------------------------------------

TypeOK ==
    /\ cache \in [Cache!Key -> Cache!Entry \cup {NoEntry}]
    /\ now \in 0..MaxTime
    /\ stack \in Seq(Frame) /\ Len(stack) <= MaxDepth
    /\ returned \in Packet \cup {NoPacket}
    /\ crashed \in BOOLEAN

Init ==
    /\ cache = [k \in Cache!Key |-> NoEntry]
    /\ now = 0
    /\ stack = <<>>
    /\ returned = NoPacket
    /\ crashed = FALSE

(* A client's query reaches lookup; the next one waits for its answer. *)
ClientQuery(q) ==
    /\ stack = <<>> /\ ~crashed
    /\ stack' = <<Activation(q)>>
    /\ UNCHANGED <<cache, now, returned, crashed>>

(* A packet without a question comes to nothing, before the cache is asked. *)
LookupNothing ==
    /\ stack = <<>> /\ ~crashed
    /\ returned' = NoPacket
    /\ UNCHANGED <<cache, now, stack, crashed>>

AnswerFromCache ==
    /\ At("cache")
    /\ LET e == Cache!Live(CacheKey(Top.query))
       IN  e # NoEntry /\ Return(CachedResponse(e))
    /\ UNCHANGED <<cache, now, crashed>>

(* The cache misses, and erases what it finds expired; a root is asked. *)
AskRoot ==
    /\ At("cache")
    /\ Cache!Live(CacheKey(Top.query)) = NoEntry
    /\ cache' = Cache!AfterGet(CacheKey(Top.query))
    /\ \E p \in Upstream[Root][Top.query] :
          Continue([Top EXCEPT !.pc = "referral", !.response = p])
    /\ UNCHANGED <<now, returned, crashed>>

-----------------------------------------------------------------------------
(* The referral loop: what a round does depends on the response so far. *)

AtReferral == At("referral") /\ Top.referrals < MaxReferrals

TooManyReferrals ==
    /\ At("referral") /\ Top.referrals = MaxReferrals
    /\ Return(Finalized(Top.response))
    /\ UNCHANGED <<cache, now, crashed>>

NoResponse ==
    /\ AtReferral
    /\ Top.response = NoPacket
    /\ Return(NoPacket)
    /\ UNCHANGED <<cache, now, crashed>>

HasAnswers ==
    /\ AtReferral
    /\ Top.response # NoPacket /\ Top.response.answers # <<>>
    /\ Continue([Top EXCEPT !.pc = "cname", !.hop = 0])
    /\ UNCHANGED <<cache, now, returned, crashed>>

(* A response without answers, of which the rest of the round makes sense. *)
Unanswered == AtReferral /\ Top.response # NoPacket /\ Top.response.answers = <<>>

(* Faulty variant: every error counts as "no such name". *)
HasAnyError ==
    /\ Unanswered
    /\ Top.response.rcode # "NOERROR"
    /\ CacheNegative("NXDOMAIN", Top.response)
    /\ Return(Finalized(Top.response))
    /\ UNCHANGED <<now, crashed>>

HasError ==
    /\ Unanswered
    /\ Top.response.rcode # "NOERROR"
    /\ IF Top.response.rcode = "NXDOMAIN"
          THEN CacheNegative("NXDOMAIN", Top.response)
          ELSE UNCHANGED cache
    /\ Return(Finalized(Top.response))
    /\ UNCHANGED <<now, crashed>>

(* Faulty variant: the response is returned as it came. *)
NoDataAsReceived(p) ==
    /\ CacheNegative("NODATA", p)
    /\ Return(p)

(* Neither an answer nor anything to go on with: no such record. *)
NoData(p) ==
    /\ CacheNegative("NODATA", p)
    /\ Return(Finalized(p))

HasNothing ==
    /\ Unanswered
    /\ Top.response.rcode = "NOERROR"
    /\ Top.response.authorities = <<>> /\ Top.response.additionals = <<>>
    /\ NoData(Top.response)
    /\ UNCHANGED <<now, crashed>>

(* A referral: go on with its glue, or else with its nameservers, each of  *)
(* which is looked up for both kinds of address.                           *)
HasReferral ==
    /\ Unanswered
    /\ Top.response.rcode = "NOERROR"
    /\ Top.response.authorities # <<>> \/ Top.response.additionals # <<>>
    /\ \E glue \in {AddCandidates(<<>>, Glue(Top.response))} :
          LET names == NsNames(Top.response)
              both(n) == <<[name |-> n, type |-> "A"], [name |-> n, type |-> "AAAA"]>>
          IN  Continue([Top EXCEPT
                 !.pc = IF glue = <<>> THEN "glueless" ELSE "servers",
                 !.candidates = glue,
                 !.todo = IF glue = <<>>
                             THEN FlattenSeq([i \in DOMAIN names |-> both(names[i])])
                             ELSE <<>>])
    /\ UNCHANGED <<cache, now, returned, crashed>>

LookupNameserver ==
    /\ At("glueless") /\ Top.todo # <<>>
    /\ Lookup([Top EXCEPT !.pc = "nameserver", !.todo = Tail(@)], Head(Top.todo))
    /\ UNCHANGED <<cache, now, returned>>

NameserverReturned ==
    /\ At("nameserver")
    /\ LET found == IF returned = NoPacket THEN <<>> ELSE Addresses(returned.answers)
       IN  Continue([Top EXCEPT !.pc = "glueless",
                                !.candidates = AddCandidates(@, found)])
    /\ UNCHANGED <<cache, now, returned, crashed>>

NameserversDone ==
    /\ At("glueless") /\ Top.todo = <<>>
    /\ IF Top.candidates = <<>>
          THEN NoData(Top.response)
          ELSE Continue([Top EXCEPT !.pc = "servers"]) /\ UNCHANGED <<cache, returned>>
    /\ UNCHANGED <<now, crashed>>

-----------------------------------------------------------------------------
(* The candidates are queried in turn, none a second time in a lookup. *)

(* Faulty variant: nobody keeps track. *)
NeverQueried(f, server) == FALSE

Queried(f, server) == Contains(f.queried, server)

AlreadyQueried ==
    /\ At("servers") /\ Top.candidates # <<>>
    /\ Queried(Top, Head(Top.candidates))
    /\ Continue([Top EXCEPT !.candidates = Tail(@)])
    /\ UNCHANGED <<cache, now, returned, crashed>>

QueryNameServer ==
    /\ At("servers") /\ Top.candidates # <<>>
    /\ LET server == Head(Top.candidates)
           asked  == [Top EXCEPT !.queried = Append(@, server), !.candidates = Tail(@)]
       IN  /\ ~Queried(Top, server)
           /\ \E p \in Upstream[server][Top.query] :
                 IF Usable(p)
                    THEN Continue([asked EXCEPT !.pc = "referral", !.response = p,
                                       !.candidates = <<>>, !.referrals = @ + 1])
                    ELSE Continue(asked)
    /\ UNCHANGED <<cache, now, returned, crashed>>

NoServerLeft ==
    /\ At("servers") /\ Top.candidates = <<>>
    /\ NoData(Top.response)
    /\ UNCHANGED <<now, crashed>>

-----------------------------------------------------------------------------
(* The CNAME hop loop *)

(* Faulty variant: hops are not limited. *)
CnameDoneUnlimited(f) ==
    \/ f.query.type = "CNAME"
    \/ OfType(f.response.answers, f.query.type) # <<>>
    \/ OfType(f.response.answers, "CNAME") = <<>>

(* The loop ends: nothing to follow, nothing left to find, or no hop left. *)
CnameDone(f) ==
    \/ f.query.type = "CNAME"
    \/ f.hop = MaxCnameHops
    \/ OfType(f.response.answers, f.query.type) # <<>>
    \/ OfType(f.response.answers, "CNAME") = <<>>

(* Faulty variant: the additional records are cached with the answers. *)
AnswerWithAdditionals(f) ==
    /\ cache' = Cache!WithEntry(CacheKey(f.query),
                   Cache!RecordsEntry(f.response.answers \o f.response.additionals, DefaultTtl))
    /\ Return(Finalized(f.response))

(* The answers are cached and returned. *)
Answer(f) ==
    /\ cache' = Cache!WithEntry(CacheKey(f.query),
                                Cache!RecordsEntry(f.response.answers, DefaultTtl))
    /\ Return(Finalized(f.response))

FollowCname ==
    /\ At("cname") /\ ~CnameDone(Top)
    /\ Lookup([Top EXCEPT !.pc = "target"], Target(Top.query, Top.response.answers))
    /\ UNCHANGED <<cache, now, returned>>

AnswerClient ==
    /\ At("cname") /\ CnameDone(Top)
    /\ Answer(Top)
    /\ UNCHANGED <<now, crashed>>

(* Faulty variants: the target's records are put in front of the CNAME;    *)
(* and a target that did not resolve is tried again, at no hop's cost.     *)
WithTargetInFront(f, rs) ==
    [f EXCEPT !.pc = "cname", !.hop = @ + 1, !.response.answers = rs \o @]

TargetAgain(f) ==
    /\ Continue([f EXCEPT !.pc = "cname"])
    /\ UNCHANGED <<cache, returned>>

(* The target's answers are appended, and the loop goes on; an empty       *)
(* answer breaks the loop.                                                 *)
WithTarget(f, rs) ==
    [f EXCEPT !.pc = "cname", !.hop = @ + 1, !.response.answers = @ \o rs]

TargetFailed(f) == Answer(f)

TargetReturned ==
    /\ At("target")
    /\ IF returned = NoPacket \/ returned.answers = <<>>
          THEN TargetFailed(Top)
          ELSE Continue(WithTarget(Top, returned.answers)) /\ UNCHANGED <<cache, returned>>
    /\ UNCHANGED <<now, crashed>>

-----------------------------------------------------------------------------

Tick ==
    /\ now < MaxTime
    /\ now' = now + 1
    /\ UNCHANGED <<cache, stack, returned, crashed>>

LookupStep ==
    \/ AnswerFromCache
    \/ AskRoot
    \/ TooManyReferrals
    \/ NoResponse
    \/ HasAnswers
    \/ HasError
    \/ HasNothing
    \/ HasReferral
    \/ LookupNameserver
    \/ NameserverReturned
    \/ NameserversDone
    \/ AlreadyQueried
    \/ QueryNameServer
    \/ NoServerLeft
    \/ FollowCname
    \/ AnswerClient
    \/ TargetReturned

Next ==
    \/ \E q \in ClientQuestion : ClientQuery(q)
    \/ LookupNothing
    \/ LookupStep
    \/ Tick

Spec == Init /\ [][Next]_vars

(* Every step of lookup is computation or a wait of at most a second. *)
FairSpec == Spec /\ WF_vars(LookupStep)

-----------------------------------------------------------------------------

(* Who can own a record of an answer: the name asked for, or the target of *)
(* a CNAME that comes before it.                                           *)
Connected(q, rs) ==
    \A i \in DOMAIN rs :
       \/ Lower[rs[i].owner] = Lower[q.name]
       \/ \E j \in 1..(i - 1) : rs[j].type = "CNAME" /\ Lower[rs[j].data] = Lower[rs[i].owner]

(* What the servers of the world may ever reply, and to which questions.   *)
Replies(q) == (UNION {Upstream[s][q] : s \in Address \cup {Root}}) \ {NoPacket}
AnswerRecords == UNION {UNION {ToSet(p.answers) : p \in Replies(q)} : q \in Question}
KeysReplied(Test(_)) == {CacheKey(q) : q \in {x \in Question : \E p \in Replies(x) : Test(p)}}
NxdomainKeys == KeysReplied(LAMBDA p : p.rcode = "NXDOMAIN")

(* No server replies with records that the question does not lead to.      *)
ServersConnect == \A q \in Question : \A p \in Replies(q) : Connected(q, p.answers)

(* What is cached for a question is a chain of CNAMEs that starts at its   *)
(* name, however many nested lookups, cached or not, it was put together   *)
(* from.                                                                   *)
AnswersConnected ==
    \A k \in Cache!Key : cache[k] # NoEntry /\ cache[k].result = "POSITIVE"
        => Connected([name |-> k.domain, type |-> k.type], cache[k].records)

(* Nothing but the answer sections of responses gets into the cache: no    *)
(* glue and no authority record, which nobody vouches for as an answer.    *)
OnlyAnswersCached ==
    \A k \in Cache!Key : cache[k] # NoEntry => ToSet(cache[k].records) \subseteq AnswerRecords

(* A name is held for non-existent only if a server said NXDOMAIN to that  *)
(* question; a server that fails or refuses does not make it so.           *)
NxdomainWasSaid ==
    \A k \in Cache!Key : cache[k] # NoEntry /\ cache[k].result = "NXDOMAIN" => k \in NxdomainKeys

(* A lookup queries no nameserver twice, whatever the referrals it follows *)
(* name: that, and not the referral limit alone, ends a referral loop.     *)
NoServerQueriedTwice ==
    \A i \in DOMAIN stack : IsInjective(stack[i].queried)

(* Whichever way lookup returns a response, it has the header of a         *)
(* recursive resolver's: never authoritative, recursion available.         *)
ResponsesFinalized == returned # NoPacket => ~returned.aa /\ returned.ra

(* Where names and delegations do not loop, nested lookups do not pile up. *)
NeverCrashes == ~crashed

(* When that is: the questions have ranks, those of clients below          *)
(* MaxDepth, and every reply to a question of such a rank that makes       *)
(* lookup call itself leads to questions of lower ranks.                   *)
NamesDescend(rank) ==
    /\ rank \in [Question -> Nat]
    /\ \A q \in ClientQuestion : rank[q] < MaxDepth
    /\ \A q \in Question : rank[q] < MaxDepth => \A p \in Replies(q) :
          /\ q.type # "CNAME"
             /\ OfType(p.answers, q.type) = <<>> /\ OfType(p.answers, "CNAME") # <<>>
                => rank[Target(q, p.answers)] < rank[q]
          /\ p.rcode = "NOERROR" /\ p.answers = <<>> /\ AddCandidates(<<>>, Glue(p)) = <<>>
                => \A i \in DOMAIN NsNames(p), type \in {"A", "AAAA"} :
                      rank[[name |-> NsNames(p)[i], type |-> type]] < rank[q]

(* Every query is answered. *)
LookupReturns == stack # <<>> ~> stack = <<>> \/ crashed

(* What the test FailedLookupDoesNotPolluteCache is named for: an answer   *)
(* "no such record" is cached only if some server gave it, and not because *)
(* nameservers could not be reached.                                       *)
NoDataKeys == KeysReplied(LAMBDA p : /\ p.rcode = "NOERROR" /\ p.answers = <<>>
                                     /\ OfType(p.authorities, "NS") = <<>>)

FailuresNotCached ==
    \A k \in Cache!Key : cache[k] # NoEntry /\ cache[k].result = "NODATA" => k \in NoDataKeys

(* "Follows CNAME chains (max 10 hops)": no more than MAX_CNAME_HOPS       *)
(* lookups of CNAME targets are under way for a client's question.         *)
CnameHopsBounded ==
    Cardinality({i \in DOMAIN stack : stack[i].pc = "target"}) <= MaxCnameHops

=============================================================================
