# A verification of dns-server-cpp

TLA+ models of a recursive DNS server, checked by TLC on small instances and, in part, proved by TLAPS for
every value of the constants. Paths below are relative to the repository (`src/` is its C++ source).

## 1. The system

| Component | State | Operations | Talks to | Modelled by |
|---|---|---|---|---|
| `DnsCache` (`src/DnsCache.cxx`, `include/DnsCache.hpp`) | map (lower-cased name, type) → records or negative result, expiration time; hit and miss counters | `put` ×4, `get`, `contains`, `remove`, `clear`, `size` | the resolver, which owns one | `DnsCache`, `TtlStore` |
| `RootServerManager` (`src/RootServerManager.cxx`) | per root server: status, consecutive failures, smoothed round-trip time; a mutex; the probing thread | `AskRootServer`, `StartProbing`, `ProbeLoop`, `ProbeFailedServers`, destructor | the root servers by UDP; the resolver | `RootServerManager` |
| `DnsResolver` (`src/DnsResolver.cxx`) | the cache, the root server manager; per activation of `lookup` the response, the servers queried, the candidates | `lookup` (recursive), `QueryNameServer`, `FinalizeResponse`, `is_cached` | the cache, the root servers, name servers by UDP | `DnsResolver`, `DnsResolverAges`; its packets in `Relay` |
| `DnsServer` (`src/DnsServer.cxx`) | two listening sockets, the resolver | constructor, `start` (endless loop), `handle_query` | clients by UDP, the resolver | `DnsServer`, `QueryService`, `Relay` |
| `BytePacketBuffer` (`src/BytePacketBuffer.cxx`) | bytes, position, length | reads, writes, `read_qname` with compression, `write_qname` | packets, records | `BytePacketBuffer`, `Qname` |
| `DnsPacket`, `DnsRecord`, `DnsQuestion`, `DnsHeader` | data of one packet | `read`, `write`, getters and setters | buffer | `DnsPacket`, `Relay`; what `lookup` branches on, in `DnsResolver` |
| `IPv4Address`, `IPv6Address`, `SocketAddress` | value types | parsing, conversion | all that use sockets | no: conversion without state |
| `CSVReader` | an input stream | `readRow` | `RootServerManager`'s constructor | no: file input at start |

**Interaction.** `DnsServer::start` takes one datagram at a time and calls `DnsResolver::lookup`. `lookup` answers
from the cache, or asks a root server and follows referrals, calling itself for the targets of CNAMEs and for name
servers without glue. Everything that concerns one query happens on one thread. The only concurrency in the program
is inside `RootServerManager`: `AskRootServer` and the probing thread share the servers' health under a mutex that
they release while they wait for the network. (Nothing in `src/` calls `StartProbing`; the class is modelled as it
can be used.)

**What is hard.** Interleaved updates of the health by calls whose answers overtake one another (§4.2). Outages,
lame and looping delegations, and nested lookups that leave traces in the cache (§4.3). Time: lazy expiry, TTL 0,
records kept past their age (§4.1, §5). Termination: retries, referral loops, CNAME loops, the join of the prober.
`PROJECT.json` lists each of these at its line.

**What makes each component correct.**
- The cache: the last value put for a question is what `get` returns, in any spelling of the name, until its
  deadline and not after; it never gives an empty positive answer; it never keeps a record past its TTL.
- The root server manager: consistent health fields; no server asked twice by a call; no server lost between the
  bands; failed servers last; an empty answer only after all was tried; failed servers recover; calls and prober end.
- The resolver: what is cached is an answer that servers gave to that question; every query gets a response,
  with a recursive resolver's header; failures are not taken for non-existence.
- The server: a query gets at most one response, its own, SERVFAIL when `lookup` fails; neither socket starves the
  other; no descriptor is lost when the constructor fails.
- The codec: `read_qname` terminates, stays inside the packet, and reads the names that are there; what is read and
  written again says the same, in records that are found where their lengths say.

## 2. The modules

```
TtlStore  <--refines--  DnsCache  <--INSTANCE--  DnsResolver  <--EXTENDS--  DnsResolverAges
                           ^                          ^                           ^
                     DnsCacheProofs          DnsResolverProofs                    |
                     MCDnsCache              MCDnsResolver  <--EXTENDS--  MCDnsResolverAges
                                                      ^
                                             MCDnsResolverLive
RootServerManager  <--  RootServerManagerProofs, MCRootServerManager

BytePacketBuffer  <--EXTENDS--  Qname  <--  QnameProofs, MCQname
       ^    ^---  BytePacketBufferProofs  <--EXTENDS--  QnameProofs, RelayProofs
   DnsPacket      <--EXTENDS--  Relay  <--  RelayProofs, MCRelay

QueryService  <--refines--  DnsServer  <--  DnsServerProofs, MCDnsServer

FoldFacts (lemmas about least numbers and folds)  <--  DnsCacheProofs, RootServerManagerProofs,
                                                       DnsResolverProofs, BytePacketBufferProofs
```

### TtlStore, DnsCache
`DnsCache` has the map (`cache`), the steady clock in seconds (`now`), the two counters and the return value of
`get`. Each overload of `put`, `get`, `remove` and `clear` is an action; `contains` is a `get`, as in the code,
and `size` changes nothing. Case is abstracted to the function `Lower`. `GivenTtl` is the code's "0 means 60
seconds", and `DefaultTtl` that 60. The C++ clock has a finer grain than the model's second; nothing depends on it,
since all TTLs are whole seconds and only comparisons with the clock matter.
The state operators (`Live`, `WithEntry`, `RecordsEntry`, `ResultEntry`, `AfterGet`) are what `DnsResolver` uses.

`TtlStore` is the abstract specification: values disappear at their deadline by themselves, and questions that
differ in case share a value. The refinement mapping (`Answers`) reads, for each spelling of a question, the live
entry of its key. `remove` is `Forget`, `clear` is `ForgetAll`, a tick is `Elapse`, a `put` that the cache refuses
is a stutter.

### RootServerManager
One action per critical section, or per network wait between two of them. `Select` is lines 100-151 (roll a
category, collect, filter, two fallbacks, pick); the random roll and pick are nondeterministic. The outcomes of an
attempt are `AttemptFails` (socket, short send, timeout, receive error, not a response, wrong ID, unreadable: all
seven mark the server), `AttemptIgnored` (an unwritable request or a datagram from another address: nothing is
marked) and `AttemptAnswered`. The prober's scan advances server by server (`next`), reads the status under
the lock (`ProbeSkip`, `ProbeSend`) and writes it under another (`ProbeAnswered`). The `unsigned` failure counter
wraps at `FailureModulus`. An object is destroyed only while no call is in progress, as C++ requires of its owner.

### DnsResolver, DnsResolverAges
The state is the explicit stack of the activations of `lookup`, each with its own response, hop counter, list of
queried servers and candidates; `pc` is the place in the function. `Lookup` pushes an activation, `Return` pops one;
`MaxDepth` activations exhaust the thread's stack (`crashed`). The network is the constant `Upstream`: the packets
that asking a server a question may come to, `NoPacket` among them for every timeout, error or unreadable reply of
`QueryNameServer` or `AskRootServer`. Selections from
a list of records (`OfType`, `NsNames`, `Glue`) are written with `FlattenSeq` and folds, which have definitions a
proof can use; `SelectSeq` is recursive. Of the header the model keeps the result code, AA and RA; ID and RD are set
from the query on every path that sets these. Time may pass between any two steps.

`DnsResolverAges` adds history variables (when each record last came from a server) to state what a cache with TTL
promises. They never restrict the resolver.

### BytePacketBuffer, Qname
Bytes are numbers and a buffer is the sequence of its `len` bytes. The loop of `read_qname` is the operator `Step` on
the record of its local variables and `pos` (`Reader`), one round at a time: a pointer (`Followed`), the end
(`Ended`), a reserved tag or a label (`Labelled`). `write_qname` is `WriteQname` where it does not throw (`Writable`):
seen as a text with a dot on either side, each dot gives way to the length of the label behind it. `Qname` runs them:
`Read` is one round, `PassOn` writes the name that was read into a new buffer and reads that. The properties compare
with `NamesOf`, which says what names a buffer holds by recursion over its parts, without a reader.

### DnsPacket, Relay
`DnsPacket` has `read` and `write` of the four classes as operators. All fields but names stay bytes. Reading yields
a set, empty when the code throws. The `switch` of `DnsRecord::read` is a table (`DataLayout`) of what the data of a
type consists of; `RdLength` is what `writeData` announces before it writes. Sums and selections are folds and
`FlattenSeq` here, too (`SumOf`, `Selected`). `Relay` is one query on its way: the
client's datagram (`Take` or `Ignore`), the question for a name server (`QuestionFor`, `Ask`), what is heard of it
(`Hear`, `HearNothing`, `TimeOut`), and the reply (`Response`, `ForClient`, `Capacity`, `Reply` or `CannotReply`).
Which servers are asked is `DnsResolver`'s matter; here it is one, and the answer comes from the constant `Answer`.

### QueryService, DnsServer
`DnsServer` has the constructor step by step (each system call may fail), the destructor, and the loop: what `poll`
found is the sequence `ready`, a turn is `Receive` or `ReceiveFails`, and the datagram received is ignored or
resolved and answered before the next turn. Of a packet it keeps what a reply must echo (ID, RD) and whether the loop
takes it for a query. The kernel's receive buffers (`inbox`, at most `QueueLimit`) and descriptors (`open`) are part
of the state. `overtaken` is a history variable. `QueryService` is the abstract specification: per channel a queue of
datagrams, of which the first is answered or dropped. The refinement mapping puts the datagram being served back in
front of its socket's buffer (`Pending`).

### MC modules
`MCDnsCache` has two spellings of one name and two types; records without and with a TTL; and ready-made entries,
one live, one expired, one empty and positive, one negative with records. `MCRootServerManager` only names the
symmetry of the callers. `MCDnsResolver` is a small world: a zone with two servers, one lame (it refers back to its
own zone, or refuses), with glue whose case differs from the NS records; a two-step CNAME chain to a name that does
not exist, the second of which comes together with NXDOMAIN; a CNAME to a host; a zone whose server has no glue; an
empty answer of the root; two CNAMEs in a loop. `MCDnsResolverLive` ranks the questions of this world, and its
assumptions, which TLC evaluates, say that the world meets the hypotheses of the theorems in §6.
`MCQname` has every buffer of up to four bytes out of eight that matter, and of five out of six. `MCRelay` puts queries
and answers together from headers with right and wrong counts, the question and up to two records, one of each type,
compressed as servers do, some with a wrong length, two with a dot inside a label. `MCDnsServer` has two queries that
differ in all that is echoed, and a datagram that is none.

Operators commented as "Faulty variant" are deliberate bugs next to the definitions they would replace. With one of
them in place, TLC finds the property that `PROJECT.json` pairs it with violated; no specification uses them.

## 3. The runs

Run a configuration with `tlc -config X.cfg M` (M is the module in the table).

| Run | Module, cfg | Bounds | What it shows |
|---|---|---|---|
| `dns_cache` | `MCDnsCache`, `MCDnsCache.cfg` | 2 spellings × 2 types, clock to 2, 2 counted `get`s; 36 185 states | §4.1 |
| `root_servers` | `MCRootServerManager`, `RootServers.cfg` | 2 servers, 2 callers, RTT 4 or 6, 3 attempts, counter modulo 2; 546 488 states | §4.2, safety |
| `root_servers_live` | `MCRootServerManager`, `RootServersLive.cfg` | 3 servers, 1 caller, 2 attempts; 29 906 states | §4.2, liveness; attempts fewer than servers |
| `resolver` | `MCDnsResolver`, `Resolver.cfg` | 3 questions, every server may be silent at any time, clock to 1, 2 referrals, 2 hops, 4 activations; 600 944 states | §4.3, safety |
| `resolver_live` | `MCDnsResolverLive`, `ResolverLive.cfg` | 4 questions, one of them answered empty by the root, only the lame server may be silent, clock to 2, 3 referrals, 3 hops; 344 376 states | §4.3, liveness |
| `qname` | `MCQname`, `Qname.cfg` | buffers to 5 bytes, any start, `MaxName` 4; 169 975 states | §4.4 |
| `relay` | `MCRelay`, `Relay.cfg` | 10 queries, some 2 500 answers, sizes 56 and 68 for 512 and 1232; 8 858 states | §4.5 |
| `dns_server` | `MCDnsServer`, `DnsServer.cfg` | 2 sockets, 3 datagrams, 2 in a receive buffer; 99 178 states | §4.6 |
| `relay_drop` | `MCRelay`, `RelayDrop.cfg` | one query, three correct answers, size 54 | a violation, §5 |
| `resolver_outage` | `MCDnsResolver`, `ResolverOutage.cfg` | one question, unreliable world | a violation, §5 |
| `resolver_cname_loop` | `MCDnsResolver`, `ResolverCnameLoop.cfg` | the CNAME loop, 6 activations | a violation, §5 |
| `resolver_ttl` | `MCDnsResolverAges`, `ResolverTtl.cfg` | a CNAME and its target, clock to 3 | a violation, §5 |

Why the bounds are enough.
- *Cache*: keys are independent but for case, so two spellings and two types show every interference; a clock to 2
  with TTLs 1, 2 and 3 has entries expire while others live, be overwritten before and after, and be met at the
  very deadline. The bound on `get` only limits the counters; expiry needs one.
- *Root servers*: two callers show every pairwise race, and the prober adds a third writer. RTT 4 has the fast limit
  5, so 6 is slow and 4 is fast; smoothing reaches 5, the limit itself. Three attempts with two servers end with the
  break on an empty list, two attempts with three servers with the end of the loop. Counter modulo 2 wraps.
- *Resolver*: the deepest nesting in the acyclic world is a CNAME chain of two steps (three activations);
  four are allowed, so that a crash means a nesting the world gives no reason for. Two
  referrals reach the limit through the lame server; two hops reach the hop limit through the chain, which repeats
  itself because each hop takes the first CNAME.
- *Names*: five bytes hold pointers to pointers, loops of one and of two pointers, loops through a label, labels that
  run over the end, and a name behind a pointer followed by bytes of the caller's. With the limit 4 names fall below
  it, on it and above it. Nothing in `Step` depends on the limit's value.
- *Relay*: the sizes lie between the lengths of replies. One of two addresses takes 53 bytes, one with an IPv6 address
  besides 65, and the client's OPT record 11 more: replies fall on both sides of 56, of 68 and of the client's own 60,
  and clients ask for less than 56 (20), for more than 68 (200) and for something between. Two records suffice for
  one to displace the next.
- *Server*: one socket is served while the other fills up; two datagrams in a buffer let a socket stay ready for ever.

Deadlock is checked in every run but those of `RootServers*.cfg`, where everything stops after the destructor, those
of `Qname.cfg` and `Relay*.cfg`, where one name or query is followed to its end, and that of `DnsServer.cfg`, where
the constructor may fail.

**Fairness.** `RootServerManager!FairSpec`: each call and the prober take their next step (every wait in the code
has a timeout of one second, the prober's sleep one of five, and critical sections are short), and, strongly, a
server that is sent probe after probe answers some of them; without that no server would ever recover.
Nothing is assumed about calls being made, the prober being started or the object being destroyed.
`DnsResolver!FairSpec`: `lookup` takes its next step, for the same reason. Nothing is assumed about the network.
`Qname!FairSpec`: the loop of `read_qname` goes on. `DnsServer!FairSpec`: the server's one thread goes on (`poll` has a
timeout), and, strongly, a `recvfrom` that is tried again and again on a socket with a datagram succeeds in the end;
`sendto` may fail for ever. Nothing is assumed about clients. That the thread goes on includes that `lookup` returns,
which is an assumption about the network and not a fact about the code: `LookupReturns` shows it for one world of
servers without CNAME loops (`NestingIsBounded` says for which worlds the stack lasts), and §5, 2, shows that a CNAME
loop makes `lookup` nest until the stack ends. `ServesEverySocket` says nothing about such a network, where the process
may end and serve no socket.

## 4. What holds

### 4.1 Cache
`PositiveHasRecords`: no positive entry is empty, whatever the caller hands in. `RecordsExpireInTime`: an entry the
cache makes itself expires no later than each of its records with a TTL. `ImplementsTtlStore`: neither lazy
expiry nor the case of names can be observed.

### 4.2 Root servers
`HealthConsistent`, `NoServerAskedTwice`, `BandsPartition`, `EmptyMeansExhausted` and `FailedOnlyAsLastResort` are
safety; `FailedServerRecovers`, `CallsReturn` and `ProberEnds` are liveness. The comments in the module state each
in full.

### 4.3 Resolver
`AnswersConnected`: the records cached for a question are a chain of CNAMEs from its name, each record owned by the
name or by a target before it. `OnlyAnswersCached`: no glue or authority record enters the cache.
`NxdomainWasSaid`: only NXDOMAIN makes a name non-existent. `NoServerQueriedTwice`, `ResponsesFinalized`,
`NeverCrashes` (in a world without loops, and with glue whose case differs), `LookupReturns`.

### 4.4 Names on the wire
`ReadsNames`: at every position `read_qname` accepts exactly the names that are there (up to the limit), with their
text, and puts the caller behind the name's own bytes; its limit on pointers, which is there against loops, rejects no
name. `RoundTrip`: a name passed on comes out as it went in, in as many bytes as announced, even when a label
contained a dot and is cut there. `Terminates`. `NamesBounded` holds with the bound `MaxName + 1`: the code compares
`name.size() + 1` with the 255 bytes of its error message (`src/BytePacketBuffer.cxx:153`), but a name takes its size
and two more on the wire, so that names of 256 bytes are accepted.

### 4.5 One query from bytes to bytes
`AnswerPassedOn`, `QuestionPassedOn` and `OptAsAsked` say what each side can read and that nothing of one hop gets into
the other; `RecordsWhereAnnounced` that a wrong length anywhere never makes other bytes pass for a record;
`ReplyFitsClient` that the reply is no longer than the client takes.

### 4.6 Server
`NoDescriptorLost`: whichever call of the constructor fails. `SocketsTakeTurns`: a socket with a datagram is overtaken
at most twice (2 is reached). `ImplementsQueryService`, and `ServesEverySocket`: the abstract queues make progress
once `start` is called.

## 5. What does not hold

1. **A failed lookup is cached as NODATA** (`src/DnsResolver.cxx:390`). When none of a referral's servers replies,
   `lookup` caches "no such record" for the question and returns the referral as a NOERROR response. The test
   `FailedLookupDoesNotPolluteCache` (`tests/test_DnsResolver.cxx:182`) is named for the opposite; it only
   meets the cases where no root server replies, in which nothing is cached, and where the root says NXDOMAIN.
2. **The limit of 10 CNAME hops does not limit chains** (`src/DnsResolver.cxx:263`). The README says "Follows CNAME
   chains (max 10 hops)". The counter belongs to one activation, and each target is looked up by a nested one with a
   counter of its own, so that a chain is followed as far as it goes and a loop until the stack ends. The test
   `ProtectsAgainstCNAMELoop` puts the CNAMEs in the cache first, where the loop is cut short by the hit.
3. **Records outlive their TTL through aliases** (`src/DnsResolver.cxx:277`). A hit returns records with their original
   TTL. Appended to a CNAME's answer they are cached anew, for that TTL from then on.
4. **Answers that fit are dropped** (`src/DnsServer.cxx:222`). "Gets the answer → Caches it → Sends back to client", says
   the README (line 20). The reply is written without compression, so an answer that arrived within the client's size
   may need more; `write` throws, the loop's `catch` swallows it, and the client gets neither a truncated reply nor
   SERVFAIL, on this try and, from the cache, on the next.

## 6. What is proved

The theorems hold for every value of the constants allowed by the only assumptions: `CacheConstants`,
`RootConstants`, `BufferConstants`, `DatagramConstant`, `SizeConstants`, `RelayConstants`, `ServerConstants`
and `ResolverConstants` (`Lower` is a function on names that changes nothing the second time, TTLs are naturals, there
is a server, the limit on names is positive, datagrams are bytes, a buffer has at least room for a header and less
than 65536 bytes, the two families differ, the data of a CNAME or NS record is a name and that of an address record an
address, servers reply with packets or not at all). Two theorems about the resolver have a hypothesis of their own.

| Theorem | Statement | Argument |
|---|---|---|
| `DnsCacheProofs!TypeCorrect` | `Spec => []TypeOK` | inductive as it stands; every overload is a `Put` of an `Entry` (`PutsArePuts`) |
| `PositiveAnswersHaveRecords` | `Spec => []PositiveHasRecords` | inductive with the type invariant |
| `RecordsExpire` | `Spec => RecordsExpireInTime` | `LeastTtl` is a lower bound of the caps (`LeastTtlProperties`, from `FoldFacts!LeastExists`) |
| `CacheImplementsTtlStore` | `Spec => ImplementsTtlStore` | step simulation: `PutAnswers` for the puts; a `get` changes the map but no answer; a tick changes exactly the answers whose deadline it reaches |
| `RootServerManagerProofs!TypeCorrect` | `Spec => []TypeOK` | inductive; `CandidatesProperties`, `MarkTypes` |
| `HealthIsConsistent` | `Spec => []HealthConsistent` | inductive: `MarkFailed` and `MarkAnswered` are the only writers, whoever calls them and however late |
| `AttemptsAreDistinct` | `Spec => []NoServerAskedTwice` | inductive: `Candidates` never meets `tried`, so each `Select` adds one to both sides |
| `BandsAlwaysPartition` | `Spec => []BandsPartition` | the server with the least time is at most `least + least \div 4`; a least time exists because there is a non-empty set of naturals |
| `FailedServersComeLast` | `Spec => FailedOnlyAsLastResort` | by the order of the three cases of `Candidates` |
| `EmptyAnswersAreEarned` | `Spec => []EmptyMeansExhausted` | with `NoServerAskedTwice` and the types: candidates are empty only when `tried` is all of `Server`, and the loop ends only at `attempt = MaxAttempts` |
| `QnameProofs!TypeCorrect` | `Spec => []TypeOK` | inductive: each kind of round keeps `pos <= Len(buff)` (`StepTypes`), because it only moves behind bytes found available |
| `NamesAreBounded` | `Spec => []NamesBounded` | the name fits in every round (`NameFits`), not only in the last |
| `NamesRoundTrip` | `Spec => []RoundTrip` | the invariant `Passing`: on the buffer that `write_qname` made, the reader stands at the start of a label with all labels before it in its name (`Underway`), or has the name (`Arrived`); `LabelArrives` and `EndArrives` are the two rounds |
| `NamesAreRead` | `Spec => []ReadsNames` | the invariant `Finding`: see *What read_qname accepts* |
| `EveryNameEnds` | `ReadQname(b, p)` is a reader that is done or has thrown, in the buffer, with a name that fits | each round follows one more pointer, of at most `Len(b)`, or moves on (`Rounds`), so no set of readers goes on for ever (`NoEndlessReading`); hence the recursion has a solution (`FinishExists`) |
| `DnsResolverProofs!TypeCorrect` | `Spec => []TypeOK` | `TypeInv`: besides types, each activation has what its place in the code relies on (`Placed`): a response where one is used, a round of the referral loop left where a referral is followed, a hop left and a CNAME in the answer where its target is looked up |
| `QueriesAreDistinct` | `Spec => []NoServerQueriedTwice` | `SourceInv`: `queried` is injective in every activation; a candidate is only asked after the test that it is not in `queried` |
| `ResponsesAreFinalized` | `Spec => []ResponsesFinalized` | `SourceInv`: every way to `Return` goes through `Finalized` |
| `CacheHoldsAnswers` | `Spec => []OnlyAnswersCached` | `SourceInv`: the records of the answer in hand, of what a nested lookup returned and of what is cached all stand in answer sections of replies |
| `NxdomainIsEarned` | `Spec => []NxdomainWasSaid` | `SourceInv`: a response says NXDOMAIN where it is cached only if a reply to that very question did |
| `CachedAnswersConnect` | `ServersConnect` implies `Spec => []AnswersConnected` | `ConnectInv`: a nested activation asks for the target its caller's answer ends with (`TargetsAsked`), what it returns answers that (`TargetAnswered`), and a chain followed by one from its target is a chain |
| `NestingIsBounded` | `NamesDescend(rank)` implies `Spec => []NeverCrashes` | `DescentInv`: ranks fall with each nested lookup, so that an activation's rank plus the number of those nested in it stays below `MaxDepth` (`Room`) |
| `RelayProofs!TypeCorrect` | `Spec => []TypeOK` | `Inv`: there is a request from `Take` on (`Understood`), and what is made of an answer was read from it (`Heard`); reading gives packets (`ReadPacketTypes`), field by field and section by section, and writing gives bytes (`PacketBytesTypes`) |
| `RepliesFitClients` | `Spec => []ReplyFitsClient` | `Fitting`: what was sent fits `Capacity`, which is within the client's offer, since `get_edns_info` brings that between the two sizes |
| `RecordsStandWhereAnnounced` | `Spec => []RecordsWhereAnnounced` | the sections of a packet that was read are traces of places (`SectionTrace`), which join (`TracesJoin`); the property's own recursion is solved by those places (`RecordStartIsPlace`), since reading at a place has at most one result |
| `WrittenIsRead` | a name written anywhere in a buffer is read there, in its own bytes | the rounds of the reader are those of `Passing`, shifted (`ShiftedStep`) |
| `PacketsReadBack` | what is written of a packet that was read is read back as one packet that says the same | see *Writing and reading back* |
| `QuestionsPassOn` | `Spec => []QuestionPassedOn` | `Relayed`: a question that was sent was written of `QuestionFor(Request)`, and that is read back |
| `AnswersPassOn` | `Spec => []AnswerPassedOn` | `Relayed`: a reply that was sent was written of `ForClient(Response)`, the response is what was heard, or SERVFAIL if nothing was, and the reply is read back (`ReplyReadBack`) |
| `OptsAreAsAsked` | `Spec => []OptAsAsked` | `Relayed`, and `WithoutOpt` leaves no OPT record (`OthersHaveNoOpt`), so the last one is the only one (`OneOpt`) |
| `DescriptorsAreClosed` | `Spec => []NoDescriptorLost` | the invariant `Sockets` says which descriptors are open at each step of the constructor |
| `SocketsAlternate` | `Spec => []SocketsTakeTurns` | the invariant `Turns`: at most once overtaken when `poll` is called, not at all if `poll` did not find it, and an overtaken socket has a datagram |
| `DnsServerProofs!TypeCorrect` | `Spec => []TypeOK` | `Sockets`, `Turns` and `Serving` together |
| `LoopImplementsService` | `Spec => ImplementsQueryService` | step simulation (`StepsOfService`): receiving changes nothing in `Pending`, being done removes its head, and `Serving` says that the reply echoes that head |

*Why the invariants are needed.* None of the resolver's properties is inductive. What is cached comes from the
response in hand, which comes from a reply, from a nested activation or from the cache; so each invariant says of
every activation, of the result that has just been returned, and of the cache what the property says of the cache
alone. `RoundTrip` speaks of the end of a loop, and only `Passing` says where the loop is. TLC checked each of these
invariants on the instance of its component's run before it was proved.

*The two hypotheses.* `ServersConnect`: no server replies to a question with records that the question does not lead
to. The program does not check this, and a server that does not keep to it breaks `AnswersConnected`.
`NamesDescend(rank)`: questions have ranks that fall wherever a reply makes `lookup` call itself. Where CNAMEs
loop there are no such ranks, and §5, 2, shows that then the stack does end. TLC evaluates both for the world of the
runs (`MCDnsResolverLive`), with ranks that reach its bound on the stack.

*Recursion.* A function defined by recursion is a `CHOOSE`, of which nothing follows before a solution is shown to
exist, and the library's theorems to that end take operators as parameters, which no installed prover can
instantiate. `FoldFacts` therefore shows it for the folds in use, by a least counterexample (`LeastExists`,
`FoldExists`, `FlattenSeqSums`); `EveryNameEnds` does so for `ReadQname`, as the least relation closed under rounds
(`Outcomes`); `LevelsExist` builds the solution of `NamesOf` level by level.

*What read_qname accepts.* `NamesOf` finds the names at every position by levels: at level n those of at most n labels
and pointers, each from the names at level n - 1 where the label ends or the pointer leads. It never looks at the
reader's loop, its `pos` or its limit on pointers. The invariant says of a reader at work one of two things. Either it
has been at a set `V` of positions, one part of the name at each (`OnTheWay`); then the names where it started are its
labels followed by the names at its cursor of at most `Len(b) - |V|` parts, and it has followed at most `|V|` pointers.
Or it is back at a position it has been at (`Trapped`); then there is no name where it started, at any level
(`LoopsAreNoNames`). The limit of one pointer per byte only matters in the second case: `V` holds as many positions as
there are bytes at most (`PartsLeft`). Nor does the limit on levels matter, since names with more parts than bytes
would be at a position twice. Every round keeps this (`MovesOn`), and a reader that ends or throws because of the
length has the name, or one that is too long (`TooLong`).

*Writing and reading back.* That a reply says what the answer said needs that `write` is undone by `read`, for
records at any place of a packet. The proof goes up from the bytes: a buffer that holds a text at a position holds its
parts there, one after the other (`HoldsParts`); a name is read at any position as in a buffer of its own, because each
round only looks at bytes behind the position it started from (`ShiftedStep`, `WrittenIsRead`); then the fields of a
layout (`HeldFieldsRead`), the length that `writeData` announces, which is the length of what it writes
(`RdLengthIsWritten`), a record, a section, the flags, of which `Bits` and `Number` are inverse (`FlagsRoundTrip`), the
header, and the packet (`WrittenPacketRead`). It holds of packets that are sound: names fit, and the data has the layout
of its type. What was read is sound (`ReadPacketSound`), and so are the packets the program makes of it
(`QuestionForSound`, `ResponseSound`, `ForClientIs`). `Relayed` then carries through all steps that the question and
the reply are what was written of those packets. A length that a header announces takes 16 bits, hence the assumption
that `MAX_BUFFER_SIZE` (1232 in the code) is less than 65536.

Only model-checked: the liveness properties, since the prover handles neither fairness nor `ENABLED`. Every other
property of a passing run is a theorem. The properties of the four runs that end in a violation (§5) do not hold.

## 7. Not modelled, and why

- `size`, `SelectCategory`, `is_cached`, printing and logging: they change no state that anything else reads
  (`is_cached` is a `contains`). `BytePacketBuffer`'s `get`, `step` and `seek` have no caller in the program.
- Addresses and the CSV reader: conversions and input without state of their own. Whether a datagram came from the
  address that was asked is a choice in `RootServerManager` (`AttemptIgnored`) and part of "no answer" elsewhere.
- TCP and truncation: nothing in `src/` looks at the TC bit; `Relay` passes it on like the other flags.
- A cache shared by threads: its methods take no lock, but the one resolver that uses it runs on the server's one
  thread, so there is nothing to interleave.
- The condition variable that is destroyed before the prober is joined (`include/RootServerManager.hpp:67`): in the plan.
- `lookup` on real packets: `DnsResolver` works on abstract packets and `Relay` on bytes with one server; what joins
  them is that `QueryNameServer` returns a packet that was read, or none.

## 8. Plan

Done: the cache, the root server manager, the resolver on worlds of servers, the codec of names and packets, a query
from bytes to bytes, the server loop; abstractions of the cache and the server with their refinements proved.
Next, in this order:

1. `ProberShutdown`: stop token, condition variable and join, with the members' order of destruction.
2. `DnsResolver` on a world with in-zone name servers without glue.
