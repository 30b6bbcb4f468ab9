-------------------------- MODULE RootServerManager --------------------------
(***************************************************************************)
(* class RootServerManager: the health of the root servers, the calls of   *)
(* AskRootServer that select servers by it and update it, and the thread   *)
(* that probes the servers marked as failed.                               *)
(*                                                                         *)
(* mtx protects status, failures and srtt and is released while a call     *)
(* or the prober waits for the network.  An action below is therefore one  *)
(* critical section, or the network wait between two of them; the callers  *)
(* and the prober interleave.  A server is its position in the vector,     *)
(* which stands for its address too (config/root_servers.csv repeats no    *)
(* address).                                                               *)
(***************************************************************************)
EXTENDS Integers, FiniteSets

CONSTANTS
    N,                \* how many root servers are configured
    Caller,           \* threads that call AskRootServer
    Rtt,              \* round-trip times that are measured, in ms
    MaxAttempts,      \* MAX_ATTEMPTS, 5 in the code
    FailureModulus    \* consecutive_failures wraps here, at 2^32 in the code

ASSUME RootConstants ==
    /\ N \in Nat \ {0}
    /\ Rtt \subseteq Nat
    /\ MaxAttempts \in Nat \ {0}
    /\ FailureModulus \in Nat \ {0}

Server == 1..N
ServerStatus == {"UNKNOWN", "SUCCESS", "FAIL"}
SelectionCategory == {"UNKNOWN", "SLOW_BAND", "FAST_BAND"}

VARIABLES
    status,           \* RootServer::status
    failures,         \* RootServer::consecutive_failures
    srtt,             \* RootServer::srtt_ms, 0 before the first measurement
    pc,               \* where each caller is in AskRootServer
    tried,            \* tried_servers of each call
    attempt,          \* how many rounds of the loop each call has begun
    selected,         \* selected_server of each call
    outcome,          \* how each caller's last call returned
    prober,           \* where the probing thread is
    next,             \* the server ProbeFailedServers is at, N + 1 at the end
    stop              \* the destructor has called request_stop

health == <<status, failures, srtt>>
calls == <<pc, tried, attempt, selected, outcome>>
probing == <<prober, next>>
vars == <<health, calls, probing, stop>>

TypeOK ==
    /\ status \in [Server -> ServerStatus]
    /\ failures \in [Server -> 0..(FailureModulus - 1)]
    /\ srtt \in [Server -> Nat]
    /\ pc \in [Caller -> {"idle", "selecting", "asking"}]
    /\ tried \in [Caller -> SUBSET Server]
    /\ attempt \in [Caller -> 0..MaxAttempts]
    /\ selected \in [Caller -> Server]
    /\ outcome \in [Caller -> {"none", "answer", "empty"}]
    /\ prober \in {"off", "waiting", "scanning", "probing", "ended"}
    /\ next \in 1..(N + 1) /\ (prober = "probing" => next \in Server)
    /\ stop \in BOOLEAN

(* The constructor has read at least one server, all of them UNKNOWN. *)
Init ==
    /\ status = [s \in Server |-> "UNKNOWN"]
    /\ failures = [s \in Server |-> 0]
    /\ srtt = [s \in Server |-> 0]
    /\ pc = [c \in Caller |-> "idle"]
    /\ tried = [c \in Caller |-> {}]
    /\ attempt = [c \in Caller |-> 0]
    /\ selected = [c \in Caller |-> 1]
    /\ outcome = [c \in Caller |-> "none"]
    /\ prober = "off"
    /\ next = 1
    /\ stop = FALSE

-----------------------------------------------------------------------------
(* Selection of a server *)

InStatus(st) == {s \in Server : status[s] = st}

(* The categories _select_category can roll: 1..10 gives UNKNOWN when some *)
(* server is, 11..20 the slow band, the rest the fast one.                 *)
Categories ==
    IF InStatus("SUCCESS") = {} /\ InStatus("UNKNOWN") # {}
        THEN {"UNKNOWN"}
        ELSE {"SLOW_BAND", "FAST_BAND"}
                \cup (IF InStatus("UNKNOWN") # {} THEN {"UNKNOWN"} ELSE {})

LeastSrtt ==
    CHOOSE r \in {srtt[s] : s \in InStatus("SUCCESS")} :
        \A s \in InStatus("SUCCESS") : r <= srtt[s]

FastLimit == IF InStatus("SUCCESS") = {} THEN 0 ELSE LeastSrtt + LeastSrtt \div 4

(* Faulty variant: the fast band leaves its limit out. *)
InCategoryStrict(category) ==
    CASE category = "UNKNOWN"   -> InStatus("UNKNOWN")
      [] category = "FAST_BAND" -> {s \in InStatus("SUCCESS") : srtt[s] < FastLimit}
      [] category = "SLOW_BAND" -> {s \in InStatus("SUCCESS") : srtt[s] > FastLimit}

InCategory(category) ==
    CASE category = "UNKNOWN"   -> InStatus("UNKNOWN")
      [] category = "FAST_BAND" -> {s \in InStatus("SUCCESS") : srtt[s] <= FastLimit}
      [] category = "SLOW_BAND" -> {s \in InStatus("SUCCESS") : srtt[s] > FastLimit}

(* Faulty variants: tried servers stay among the rolled category; there is *)
(* no fallback to servers that have not failed; none to those that have.   *)
CandidatesTriedToo(c, category) ==
    IF InCategory(category) # {} THEN InCategory(category) ELSE Server \ tried[c]

CandidatesAnyway(c, category) ==
    LET rolled == InCategory(category) \ tried[c]
    IN  IF rolled # {} THEN rolled ELSE Server \ tried[c]

CandidatesNotFailed(c, category) ==
    LET rolled == InCategory(category) \ tried[c]
    IN  IF rolled # {} THEN rolled ELSE (Server \ InStatus("FAIL")) \ tried[c]

(* The candidates of a round: those of the category, or else any server    *)
(* that has not failed, or else any server; never one already tried.       *)
Candidates(c, category) ==
    LET untried(S) == S \ tried[c]
        rolled     == untried(InCategory(category))
        healthy    == untried(Server \ InStatus("FAIL"))
    IN  CASE rolled # {}                  -> rolled
          [] rolled = {} /\ healthy # {}  -> healthy
          [] OTHER                        -> untried(Server)

-----------------------------------------------------------------------------
(* Updates of a server's health, each one critical section *)

Smoothed(old, rtt) == IF old = 0 THEN rtt ELSE (7 * old + rtt) \div 8

(* Faulty variants: a counter wider than it is declared, and an answer     *)
(* that does not end the run of failures.                                  *)
MarkFailedUnwrapped(s) ==
    /\ status' = [status EXCEPT ![s] = "FAIL"]
    /\ failures' = [failures EXCEPT ![s] = @ + 1]
    /\ UNCHANGED srtt

MarkAnsweredOnly(s, rtt) ==
    /\ status' = [status EXCEPT ![s] = "SUCCESS"]
    /\ srtt' = [srtt EXCEPT ![s] = Smoothed(@, rtt)]
    /\ UNCHANGED failures

MarkFailed(s) ==
    /\ status' = [status EXCEPT ![s] = "FAIL"]
    /\ failures' = [failures EXCEPT ![s] = (@ + 1) % FailureModulus]
    /\ UNCHANGED srtt

MarkAnswered(s, rtt) ==
    /\ status' = [status EXCEPT ![s] = "SUCCESS"]
    /\ failures' = [failures EXCEPT ![s] = 0]
    /\ srtt' = [srtt EXCEPT ![s] = Smoothed(@, rtt)]

-----------------------------------------------------------------------------
(* AskRootServer *)

Call(c) ==
    /\ ~stop
    /\ pc[c] = "idle"
    /\ pc' = [pc EXCEPT ![c] = "selecting"]
    /\ tried' = [tried EXCEPT ![c] = {}]
    /\ attempt' = [attempt EXCEPT ![c] = 0]
    /\ UNCHANGED <<health, selected, outcome, probing, stop>>

Select(c) ==
    /\ pc[c] = "selecting"
    /\ attempt[c] < MaxAttempts
    /\ \E category \in Categories : \E s \in Candidates(c, category) :
          /\ selected' = [selected EXCEPT ![c] = s]
          /\ tried' = [tried EXCEPT ![c] = @ \cup {s}]
    /\ attempt' = [attempt EXCEPT ![c] = @ + 1]
    /\ pc' = [pc EXCEPT ![c] = "asking"]
    /\ UNCHANGED <<health, outcome, probing, stop>>

Return(c, result) ==
    /\ pc' = [pc EXCEPT ![c] = "idle"]
    /\ outcome' = [outcome EXCEPT ![c] = result]

(* The loop is over, or breaks because no candidate is left. *)
GiveUp(c) ==
    /\ pc[c] = "selecting"
    /\ \/ attempt[c] = MaxAttempts
       \/ \E category \in Categories : Candidates(c, category) = {}
    /\ Return(c, "empty")
    /\ UNCHANGED <<health, tried, attempt, selected, probing, stop>>

(* No socket, a short send, no reply within a second, a receive error, a   *)
(* reply that is no response, has another ID or cannot be parsed.          *)
AttemptFails(c) ==
    /\ pc[c] = "asking"
    /\ MarkFailed(selected[c])
    /\ pc' = [pc EXCEPT ![c] = "selecting"]
    /\ UNCHANGED <<tried, attempt, selected, outcome, probing, stop>>

(* Faulty variant: an ignored attempt does not count as one. *)
AttemptIgnoredUncounted(c) ==
    /\ pc[c] = "asking"
    /\ pc' = [pc EXCEPT ![c] = "selecting"]
    /\ tried' = [tried EXCEPT ![c] = @ \ {selected[c]}]
    /\ attempt' = [attempt EXCEPT ![c] = @ - 1]
    /\ UNCHANGED <<health, selected, outcome, probing, stop>>

(* A request that cannot be written, or a datagram from another address:   *)
(* the attempt is over and the server's health is left alone.              *)
AttemptIgnored(c) ==
    /\ pc[c] = "asking"
    /\ pc' = [pc EXCEPT ![c] = "selecting"]
    /\ UNCHANGED <<health, tried, attempt, selected, outcome, probing, stop>>

AttemptAnswered(c, rtt) ==
    /\ pc[c] = "asking"
    /\ MarkAnswered(selected[c], rtt)
    /\ Return(c, "answer")
    /\ UNCHANGED <<tried, attempt, selected, probing, stop>>

-----------------------------------------------------------------------------
(* The probing thread *)

StartProbing ==
    /\ ~stop
    /\ prober = "off"
    /\ prober' = "waiting"
    /\ UNCHANGED <<health, calls, next, stop>>

(* Five seconds are over, or stop was requested. *)
ProbeWake ==
    /\ prober = "waiting"
    /\ prober' = IF stop THEN "ended" ELSE "scanning"
    /\ next' = 1
    /\ UNCHANGED <<health, calls, stop>>

ProbeSkip ==
    /\ prober = "scanning" /\ next <= N
    /\ status[next] # "FAIL"
    /\ next' = next + 1
    /\ UNCHANGED <<health, calls, prober, stop>>

(* The status is read under the lock; the probe is sent without it. *)
ProbeSend ==
    /\ prober = "scanning" /\ next <= N
    /\ status[next] = "FAIL"
    /\ prober' = "probing"
    /\ UNCHANGED <<health, calls, next, stop>>

(* Every failure on the way leaves the server as it is. *)
ProbeLost ==
    /\ prober = "probing"
    /\ prober' = "scanning"
    /\ next' = next + 1
    /\ UNCHANGED <<health, calls, stop>>

(* Faulty variants: the answer to a probe is measured and nothing else;    *)
(* and a round of probes follows the other without a look at the token.    *)
ProbeAnsweredUnmarked(s, rtt) ==
    /\ prober = "probing" /\ next = s
    /\ srtt' = [srtt EXCEPT ![s] = Smoothed(@, rtt)]
    /\ prober' = "scanning"
    /\ next' = next + 1
    /\ UNCHANGED <<status, failures, calls, stop>>

ProbeRoundAgain ==
    /\ prober = "scanning" /\ next = N + 1
    /\ next' = 1
    /\ UNCHANGED <<health, calls, prober, stop>>

ProbeAnswered(s, rtt) ==
    /\ prober = "probing" /\ next = s
    /\ MarkAnswered(s, rtt)
    /\ prober' = "scanning"
    /\ next' = next + 1
    /\ UNCHANGED <<calls, stop>>

ProbeRoundOver ==
    /\ prober = "scanning" /\ next = N + 1
    /\ prober' = IF stop THEN "ended" ELSE "waiting"
    /\ UNCHANGED <<health, calls, next, stop>>

(* The destructor; no call is in progress when an object is destroyed. *)
Destroy ==
    /\ ~stop
    /\ \A c \in Caller : pc[c] = "idle"
    /\ stop' = TRUE
    /\ UNCHANGED <<health, calls, probing>>

-----------------------------------------------------------------------------

CallStep(c) ==
    \/ Select(c)
    \/ GiveUp(c)
    \/ AttemptFails(c)
    \/ AttemptIgnored(c)
    \/ \E rtt \in Rtt : AttemptAnswered(c, rtt)

ProbeStep ==
    \/ ProbeWake
    \/ ProbeSkip
    \/ ProbeSend
    \/ ProbeLost
    \/ \E s \in Server, rtt \in Rtt : ProbeAnswered(s, rtt)
    \/ ProbeRoundOver

Next ==
    \/ \E c \in Caller : Call(c) \/ CallStep(c)
    \/ StartProbing
    \/ ProbeStep
    \/ Destroy

Spec == Init /\ [][Next]_vars

(* Every wait for the network ends after a second, so a call and the       *)
(* prober always take their next step, and a server that is up answers     *)
(* some of the probes it is sent again and again.                          *)
FairSpec ==
    /\ Spec
    /\ \A c \in Caller : WF_vars(CallStep(c))
    /\ WF_vars(ProbeStep)
    /\ \A s \in Server : SF_vars(\E rtt \in Rtt : ProbeAnswered(s, rtt))

-----------------------------------------------------------------------------

(* The three fields of a server, written by calls that overtake one        *)
(* another and by the prober, tell one story: a server is UNKNOWN only     *)
(* while nothing was ever measured or missed, and a server in SUCCESS has  *)
(* no failure counted against it.                                          *)
HealthConsistent ==
    \A s \in Server :
       /\ status[s] = "UNKNOWN" => failures[s] = 0 /\ srtt[s] = 0
       /\ status[s] = "SUCCESS" => failures[s] = 0

(* One call asks as many different servers as it makes attempts, whatever  *)
(* happens to their status and bands between its rounds.                   *)
NoServerAskedTwice ==
    \A c \in Caller : Cardinality(tried[c]) = attempt[c]

(* The two bands split the servers in SUCCESS without gap or overlap, hold *)
(* no other server, and the fast one is never empty if there is any: no    *)
(* rounding of least_srtt / 4 loses a server.                              *)
BandsPartition ==
    LET fast == InCategory("FAST_BAND")
        slow == InCategory("SLOW_BAND")
    IN  /\ fast \cup slow = InStatus("SUCCESS")
        /\ fast \cap slow = {}
        /\ InStatus("SUCCESS") # {} => fast # {}

(* A call comes back empty-handed only after it asked MAX_ATTEMPTS servers *)
(* or all of them: the break on an empty candidate list is never taken     *)
(* while a server is left.                                                 *)
EmptyMeansExhausted ==
    \A c \in Caller : pc[c] = "idle" /\ outcome[c] = "empty" =>
       Cardinality(tried[c]) >= IF N < MaxAttempts THEN N ELSE MaxAttempts

(* A call asks a server marked as failed only when, at that moment, every  *)
(* server it has not asked yet is marked as failed.                        *)
FailedOnlyAsLastResort ==
    [][\A c \in Caller :
          attempt'[c] > attempt[c] /\ status[selected'[c]] = "FAIL" =>
             Server \ tried[c] \subseteq InStatus("FAIL")]_vars

(* Once the prober runs, a failed server that answers probes again is put  *)
(* back into a band, unless the manager is destroyed first, however the    *)
(* prober's scan interleaves with calls that mark servers as failed.       *)
FailedServerRecovers ==
    \A s \in Server :
       status[s] = "FAIL" /\ prober # "off" ~> status[s] = "SUCCESS" \/ stop

(* Every call of AskRootServer returns. *)
CallsReturn == \A c \in Caller : pc[c] # "idle" ~> pc[c] = "idle"

(* After the destructor's request_stop the probing thread ends, so joining *)
(* it ends too, although ProbeFailedServers does not look at the token.    *)
ProberEnds == stop /\ prober # "off" ~> prober = "ended"

=============================================================================
