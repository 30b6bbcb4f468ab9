----------------------- MODULE RootServerManagerProofs -----------------------
(***************************************************************************)
(* Proofs about module RootServerManager, for every number of servers,     *)
(* callers and attempts, every set of round-trip times and every width of  *)
(* the failure counter.                                                    *)
(***************************************************************************)
EXTENDS RootServerManager, FiniteSetTheorems, TLAPS

Facts == INSTANCE FoldFacts

(* The smoothed round-trip time of two naturals is one. *)
LEMMA SmoothedType ==
    ASSUME NEW old \in Nat, NEW rtt \in Nat
    PROVE  Smoothed(old, rtt) \in Nat
<1>1. (7 * old + rtt) \div 8 \in Nat
  <2>1. 7 * old + rtt \in Nat
    OBVIOUS
  <2> QED BY <2>1
<1> QED BY <1>1 DEF Smoothed

(* The two updates of a server's health keep the types of its fields. *)
LEMMA MarkTypes ==
    ASSUME TypeOK, NEW s \in Server,
           MarkFailed(s) \/ \E rtt \in Rtt : MarkAnswered(s, rtt)
    PROVE  /\ status' \in [Server -> ServerStatus]
           /\ failures' \in [Server -> 0..(FailureModulus - 1)]
           /\ srtt' \in [Server -> Nat]
<1>1. CASE MarkFailed(s)
  <2>1. (failures[s] + 1) % FailureModulus \in 0..(FailureModulus - 1)
    BY RootConstants DEF TypeOK
  <2> QED BY <1>1, <2>1 DEF TypeOK, MarkFailed, ServerStatus
<1>2. ASSUME NEW rtt \in Rtt, MarkAnswered(s, rtt)
      PROVE  /\ status' \in [Server -> ServerStatus]
             /\ failures' \in [Server -> 0..(FailureModulus - 1)]
             /\ srtt' \in [Server -> Nat]
  <2>1. Smoothed(srtt[s], rtt) \in Nat
    BY SmoothedType, RootConstants DEF TypeOK
  <2>2. 0 \in 0..(FailureModulus - 1)
    BY RootConstants
  <2> QED BY <1>2, <2>1, <2>2 DEF TypeOK, MarkAnswered, ServerStatus
<1> QED BY <1>1, <1>2

(* A candidate is a server that the call has not tried; there is none only *)
(* when the call has tried them all; a failed one means no other is left.  *)
LEMMA CandidatesProperties ==
    ASSUME TypeOK, NEW c \in Caller, NEW category \in Categories
    PROVE  /\ Candidates(c, category) \subseteq Server \ tried[c]
           /\ Candidates(c, category) = {} => tried[c] = Server
           /\ \A s \in Candidates(c, category) :
                 status[s] = "FAIL" => Server \ tried[c] \subseteq InStatus("FAIL")
<1>1. category \in SelectionCategory
  BY DEF Categories, SelectionCategory
<1>2. InCategory(category) \subseteq Server \ InStatus("FAIL")
  BY <1>1 DEF SelectionCategory, InCategory, InStatus
<1>3. tried[c] \subseteq Server
  BY DEF TypeOK
<1>4. InStatus("FAIL") = {s \in Server : status[s] = "FAIL"}
  BY DEF InStatus
<1> DEFINE rolled  == InCategory(category) \ tried[c]
           healthy == (Server \ InStatus("FAIL")) \ tried[c]
           rest    == Server \ tried[c]
<1>5. Candidates(c, category) = IF rolled # {} THEN rolled
                                ELSE IF healthy # {} THEN healthy ELSE rest
  BY DEF Candidates
<1>6. CASE rolled # {}
  BY <1>2, <1>3, <1>4, <1>5, <1>6
<1>7. CASE rolled = {} /\ healthy # {}
  BY <1>2, <1>3, <1>4, <1>5, <1>7
<1>8. CASE rolled = {} /\ healthy = {}
  BY <1>2, <1>3, <1>4, <1>5, <1>8
<1> QED BY <1>6, <1>7, <1>8

-----------------------------------------------------------------------------

(* The state keeps its types, the wrapping failure counter and the integer *)
(* smoothing of round-trip times included.                                 *)
THEOREM TypeCorrect == Spec => []TypeOK
<1>1. Init => TypeOK
  <2>1. 1 \in Server /\ 1 \in 1..(N + 1)
    BY RootConstants DEF Server
  <2>2. 0 \in 0..(FailureModulus - 1) /\ 0 \in 0..MaxAttempts
    BY RootConstants
  <2>3. ASSUME Init
        PROVE  /\ status \in [Server -> ServerStatus]
               /\ failures \in [Server -> 0..(FailureModulus - 1)]
               /\ srtt \in [Server -> Nat]
    BY <2>2, <2>3 DEF Init, ServerStatus
  <2>4. ASSUME Init
        PROVE  /\ tried \in [Caller -> SUBSET Server]
               /\ attempt \in [Caller -> 0..MaxAttempts]
               /\ selected \in [Caller -> Server]
    BY <2>1, <2>2, <2>4 DEF Init
  <2>5. ASSUME Init
        PROVE  /\ pc \in [Caller -> {"idle", "selecting", "asking"}]
               /\ outcome \in [Caller -> {"none", "answer", "empty"}]
               /\ prober \in {"off", "waiting", "scanning", "probing", "ended"}
               /\ next \in 1..(N + 1) /\ (prober = "probing" => next \in Server)
               /\ stop \in BOOLEAN
    BY <2>1, <2>5 DEF Init
  <2> QED BY <2>3, <2>4, <2>5 DEF TypeOK
<1>2. TypeOK /\ [Next]_vars => TypeOK'
  <2> SUFFICES ASSUME TypeOK, [Next]_vars
               PROVE  TypeOK'
    OBVIOUS
  <2> USE DEF health, calls, probing
  <2>1. ASSUME NEW c \in Caller, Call(c)
        PROVE  TypeOK'
    BY <2>1, RootConstants DEF TypeOK, Call
  <2>2. ASSUME NEW c \in Caller, Select(c)
        PROVE  TypeOK'
    <3>1. PICK category \in Categories : \E s \in Candidates(c, category) :
             /\ selected' = [selected EXCEPT ![c] = s]
             /\ tried' = [tried EXCEPT ![c] = @ \cup {s}]
      BY <2>2 DEF Select
    <3>2. PICK s \in Server :
             /\ selected' = [selected EXCEPT ![c] = s]
             /\ tried' = [tried EXCEPT ![c] = @ \cup {s}]
      BY <3>1, CandidatesProperties
    <3>3. attempt[c] + 1 \in 0..MaxAttempts
      BY <2>2, RootConstants DEF TypeOK, Select
    <3> QED BY <2>2, <3>2, <3>3 DEF TypeOK, Select
  <2>3. ASSUME NEW c \in Caller, GiveUp(c)
        PROVE  TypeOK'
    BY <2>3 DEF TypeOK, GiveUp, Return
  <2>4. ASSUME NEW c \in Caller, AttemptFails(c)
        PROVE  TypeOK'
    <3>1. selected[c] \in Server
      BY DEF TypeOK
    <3> QED BY <2>4, <3>1, MarkTypes DEF TypeOK, AttemptFails
  <2>5. ASSUME NEW c \in Caller, AttemptIgnored(c)
        PROVE  TypeOK'
    BY <2>5 DEF TypeOK, AttemptIgnored
  <2>6. ASSUME NEW c \in Caller, NEW rtt \in Rtt, AttemptAnswered(c, rtt)
        PROVE  TypeOK'
    <3>1. selected[c] \in Server
      BY DEF TypeOK
    <3> QED BY <2>6, <3>1, MarkTypes DEF TypeOK, AttemptAnswered, Return
  <2>7. CASE StartProbing
    BY <2>7 DEF TypeOK, StartProbing
  <2>8. CASE ProbeStep
    <3>1. CASE ProbeWake
      BY <3>1, RootConstants DEF TypeOK, ProbeWake
    <3>2. CASE ProbeSkip
      BY <3>2, RootConstants DEF TypeOK, ProbeSkip
    <3>3. CASE ProbeSend
      <4>1. next \in Server
        BY <3>3, RootConstants DEF TypeOK, ProbeSend, Server
      <4> QED BY <3>3, <4>1 DEF TypeOK, ProbeSend
    <3>4. CASE ProbeLost
      <4>1. next \in Server
        BY <3>4 DEF TypeOK, ProbeLost
      <4> QED BY <3>4, <4>1, RootConstants DEF TypeOK, ProbeLost, Server
    <3>5. ASSUME NEW s \in Server, NEW rtt \in Rtt, ProbeAnswered(s, rtt)
          PROVE  TypeOK'
      <4>1. next' \in 1..(N + 1)
        BY <3>5, RootConstants DEF TypeOK, ProbeAnswered, Server
      <4> QED BY <3>5, <4>1, MarkTypes DEF TypeOK, ProbeAnswered
    <3>6. CASE ProbeRoundOver
      BY <3>6 DEF TypeOK, ProbeRoundOver
    <3> QED BY <2>8, <3>1, <3>2, <3>3, <3>4, <3>5, <3>6 DEF ProbeStep
  <2>9. CASE Destroy
    BY <2>9 DEF TypeOK, Destroy
  <2>10. CASE UNCHANGED vars
    BY <2>10 DEF TypeOK, vars
  <2> QED BY <2>1, <2>2, <2>3, <2>4, <2>5, <2>6, <2>7, <2>8, <2>9, <2>10 DEF Next, CallStep
<1> QED BY <1>1, <1>2, PTL DEF Spec

(* The fields of a server agree, however the calls and the prober that     *)
(* write them overtake one another.                                        *)
THEOREM HealthIsConsistent == Spec => []HealthConsistent
<1>1. Init => HealthConsistent
  BY DEF Init, HealthConsistent
<1>2. TypeOK /\ HealthConsistent /\ [Next]_vars => HealthConsistent'
  <2> SUFFICES ASSUME TypeOK, HealthConsistent, [Next]_vars
               PROVE  HealthConsistent'
    OBVIOUS
  <2>1. ASSUME NEW s \in Server, MarkFailed(s)
        PROVE  HealthConsistent'
    BY <2>1 DEF TypeOK, HealthConsistent, MarkFailed
  <2>2. ASSUME NEW s \in Server, NEW rtt \in Rtt, MarkAnswered(s, rtt)
        PROVE  HealthConsistent'
    BY <2>2 DEF TypeOK, HealthConsistent, MarkAnswered
  <2>3. CASE UNCHANGED health
    BY <2>3 DEF HealthConsistent, health
  <2>4. ASSUME NEW c \in Caller, Call(c) \/ Select(c) \/ GiveUp(c) \/ AttemptIgnored(c)
        PROVE  UNCHANGED health
    BY <2>4 DEF Call, Select, GiveUp, AttemptIgnored
  <2>5. ASSUME NEW c \in Caller, AttemptFails(c)
        PROVE  HealthConsistent'
    BY <2>1, <2>5 DEF TypeOK, AttemptFails
  <2>6. ASSUME NEW c \in Caller, NEW rtt \in Rtt, AttemptAnswered(c, rtt)
        PROVE  HealthConsistent'
    BY <2>2, <2>6 DEF TypeOK, AttemptAnswered
  <2>7. ASSUME StartProbing \/ ProbeWake \/ ProbeSkip \/ ProbeSend \/ ProbeLost
                 \/ ProbeRoundOver \/ Destroy \/ UNCHANGED vars
        PROVE  UNCHANGED health
    BY <2>7 DEF StartProbing, ProbeWake, ProbeSkip, ProbeSend, ProbeLost,
                ProbeRoundOver, Destroy, vars
  <2>8. ASSUME NEW s \in Server, NEW rtt \in Rtt, ProbeAnswered(s, rtt)
        PROVE  HealthConsistent'
    BY <2>2, <2>8 DEF ProbeAnswered
  <2> QED BY <2>3, <2>4, <2>5, <2>6, <2>7, <2>8 DEF Next, CallStep, ProbeStep
<1> QED BY <1>1, <1>2, TypeCorrect, PTL DEF Spec

(* A call never spends an attempt on a server it has asked before: the     *)
(* candidates of every round, fallbacks included, leave out the tried      *)
(* servers, although other threads change the bands between rounds.        *)
THEOREM AttemptsAreDistinct == Spec => []NoServerAskedTwice
<1> DEFINE Counted == /\ \A c \in Caller : IsFiniteSet(tried[c])
                      /\ NoServerAskedTwice
<1>1. Init => Counted
  BY FS_EmptySet DEF Init, NoServerAskedTwice
<1>2. TypeOK /\ Counted /\ [Next]_vars => Counted'
  <2> SUFFICES ASSUME TypeOK, Counted, [Next]_vars
               PROVE  Counted'
    OBVIOUS
  <2>1. ASSUME NEW c \in Caller, Call(c)
        PROVE  Counted'
    BY <2>1, FS_EmptySet DEF TypeOK, Call, NoServerAskedTwice
  <2>2. ASSUME NEW c \in Caller, Select(c)
        PROVE  Counted'
    <3>1. PICK category \in Categories : \E s \in Candidates(c, category) :
             tried' = [tried EXCEPT ![c] = @ \cup {s}]
      BY <2>2 DEF Select
    <3>2. PICK s \in Server \ tried[c] : tried' = [tried EXCEPT ![c] = @ \cup {s}]
      BY <3>1, CandidatesProperties
    <3>3. /\ IsFiniteSet(tried[c] \cup {s})
          /\ Cardinality(tried[c] \cup {s}) = Cardinality(tried[c]) + 1
      BY <3>2, FS_AddElement
    <3> QED BY <2>2, <3>2, <3>3 DEF TypeOK, Select, NoServerAskedTwice
  <2>3. ASSUME UNCHANGED <<tried, attempt>>
        PROVE  Counted'
    BY <2>3 DEF NoServerAskedTwice
  <2>4. ASSUME NEW c \in Caller,
               \/ GiveUp(c) \/ AttemptFails(c) \/ AttemptIgnored(c)
               \/ \E rtt \in Rtt : AttemptAnswered(c, rtt)
        PROVE  UNCHANGED <<tried, attempt>>
    BY <2>4 DEF GiveUp, AttemptFails, AttemptIgnored, AttemptAnswered
  <2>5. ASSUME StartProbing \/ ProbeStep \/ Destroy \/ UNCHANGED vars
        PROVE  UNCHANGED <<tried, attempt>>
    BY <2>5 DEF StartProbing, ProbeStep, ProbeWake, ProbeSkip, ProbeSend, ProbeLost,
                ProbeAnswered, ProbeRoundOver, Destroy, vars, calls
  <2> QED BY <2>1, <2>2, <2>3, <2>4, <2>5 DEF Next, CallStep
<1> QED BY <1>1, <1>2, TypeCorrect, PTL DEF Spec

-----------------------------------------------------------------------------

(* In every state the fast and the slow band split the servers in SUCCESS, *)
(* and the fast one holds at least the server with the least srtt.         *)
THEOREM BandsAlwaysPartition == Spec => []BandsPartition
<1>1. TypeOK => BandsPartition
  <2> SUFFICES ASSUME TypeOK
               PROVE  BandsPartition
    OBVIOUS
  <2> DEFINE S == InStatus("SUCCESS")
             R == {srtt[s] : s \in S}
  <2>1. /\ InCategory("FAST_BAND") = {s \in S : srtt[s] <= FastLimit}
        /\ InCategory("SLOW_BAND") = {s \in S : srtt[s] > FastLimit}
    BY DEF InCategory
  <2>2. R \subseteq Nat /\ S \subseteq Server
    BY DEF TypeOK, InStatus
  <2>3. ASSUME NEW a \in S
        PROVE  LeastSrtt \in R /\ \A s \in S : LeastSrtt <= srtt[s]
    <3>1. \E r \in R : \A x \in R : r <= x
      BY <2>2, Facts!LeastExists
    <3>2. \E r \in R : \A s \in S : r <= srtt[s]
      BY <3>1
    <3> QED BY <3>2 DEF LeastSrtt
  <2>4. FastLimit \in Nat
    <3>1. CASE S = {}
      BY <3>1 DEF FastLimit
    <3>2. CASE S # {}
      <4>1. LeastSrtt \in Nat
        BY <2>2, <2>3, <3>2
      <4>2. LeastSrtt + LeastSrtt \div 4 \in Nat
        BY <4>1
      <4> QED BY <3>2, <4>2 DEF FastLimit
    <3> QED BY <3>1, <3>2
  <2>5. \A s \in S : srtt[s] \in Nat
    BY <2>2
  <2>6. ASSUME S # {}
        PROVE  InCategory("FAST_BAND") # {}
    <3>1. PICK s \in S : srtt[s] = LeastSrtt
      BY <2>3, <2>6
    <3>2. LeastSrtt \in Nat
      BY <2>5, <3>1
    <3>3. LeastSrtt <= LeastSrtt + LeastSrtt \div 4
      BY <3>2
    <3>4. FastLimit = LeastSrtt + LeastSrtt \div 4
      BY <2>6 DEF FastLimit
    <3> QED BY <2>1, <3>1, <3>3, <3>4
  <2>7. \A s \in S : srtt[s] <= FastLimit \/ srtt[s] > FastLimit
    BY <2>4, <2>5
  <2>8. \A s \in S : ~(srtt[s] <= FastLimit /\ srtt[s] > FastLimit)
    BY <2>4, <2>5
  <2> QED BY <2>1, <2>6, <2>7, <2>8 DEF BandsPartition
<1> QED BY <1>1, TypeCorrect, PTL

(* A call asks a failed server only when every server it has left has      *)
(* failed: the fallback to "any untried server" cannot reach one earlier,  *)
(* whatever the roll and whatever the other threads did since.             *)
THEOREM FailedServersComeLast == Spec => FailedOnlyAsLastResort
<1> DEFINE LastResort ==
       \A c \in Caller :
          attempt'[c] > attempt[c] /\ status[selected'[c]] = "FAIL" =>
             Server \ tried[c] \subseteq InStatus("FAIL")
<1>1. TypeOK /\ [Next]_vars => [LastResort]_vars
  <2> SUFFICES ASSUME TypeOK, [Next]_vars
               PROVE  LastResort
    OBVIOUS
  <2>1. ASSUME NEW c \in Caller, Select(c)
        PROVE  LastResort
    <3>1. PICK category \in Categories : \E s \in Candidates(c, category) :
             selected' = [selected EXCEPT ![c] = s]
      BY <2>1 DEF Select
    <3>2. PICK s \in Candidates(c, category) : selected'[c] = s
      BY <3>1 DEF TypeOK
    <3>3. \A d \in Caller \ {c} : attempt'[d] = attempt[d]
      BY <2>1 DEF TypeOK, Select
    <3>4. \A d \in Caller : attempt[d] \in Nat
      BY DEF TypeOK
    <3> QED BY <3>2, <3>3, <3>4, CandidatesProperties
  <2>2. ASSUME \A c \in Caller : attempt'[c] \in {attempt[c], 0}
        PROVE  LastResort
    <3>1. \A c \in Caller : attempt[c] \in Nat
      BY DEF TypeOK
    <3> QED BY <2>2, <3>1
  <2>3. ASSUME NEW c \in Caller, Call(c)
        PROVE  \A d \in Caller : attempt'[d] \in {attempt[d], 0}
    BY <2>3 DEF TypeOK, Call
  <2>4. ASSUME NEW c \in Caller,
               \/ GiveUp(c) \/ AttemptFails(c) \/ AttemptIgnored(c)
               \/ \E rtt \in Rtt : AttemptAnswered(c, rtt)
        PROVE  UNCHANGED attempt
    BY <2>4 DEF GiveUp, AttemptFails, AttemptIgnored, AttemptAnswered
  <2>5. ASSUME StartProbing \/ ProbeStep \/ Destroy \/ UNCHANGED vars
        PROVE  UNCHANGED attempt
    BY <2>5 DEF StartProbing, ProbeStep, ProbeWake, ProbeSkip, ProbeSend, ProbeLost,
                ProbeAnswered, ProbeRoundOver, Destroy, vars, calls
  <2> QED BY <2>1, <2>2, <2>3, <2>4, <2>5 DEF Next, CallStep
<1> QED BY <1>1, TypeCorrect, PTL DEF Spec, FailedOnlyAsLastResort

(* A call returns an empty packet only after MAX_ATTEMPTS different servers *)
(* or all of them: the "break" on an empty candidate list costs no server.  *)
THEOREM EmptyAnswersAreEarned == Spec => []EmptyMeansExhausted
<1> DEFINE Enough == IF N < MaxAttempts THEN N ELSE MaxAttempts
<1>1. Init => EmptyMeansExhausted
  BY DEF Init, EmptyMeansExhausted
<1>2. TypeOK /\ NoServerAskedTwice /\ EmptyMeansExhausted /\ [Next]_vars => EmptyMeansExhausted'
  <2> SUFFICES ASSUME TypeOK, NoServerAskedTwice, EmptyMeansExhausted, [Next]_vars
               PROVE  EmptyMeansExhausted'
    OBVIOUS
  <2>1. ASSUME NEW c \in Caller, GiveUp(c)
        PROVE  EmptyMeansExhausted'
    <3>1. Cardinality(Server) = N
      BY FS_Interval, RootConstants DEF Server
    <3>2. attempt[c] = MaxAttempts \/ tried[c] = Server
      BY <2>1, CandidatesProperties DEF GiveUp
    <3>3. Cardinality(tried[c]) >= Enough
      BY <3>1, <3>2, RootConstants DEF NoServerAskedTwice
    <3>4. UNCHANGED tried /\ \A d \in Caller \ {c} : pc'[d] = pc[d] /\ outcome'[d] = outcome[d]
      BY <2>1 DEF TypeOK, GiveUp, Return
    <3> QED BY <3>3, <3>4 DEF EmptyMeansExhausted
  <2>2. ASSUME NEW c \in Caller,
               \/ Call(c) \/ Select(c) \/ AttemptFails(c) \/ AttemptIgnored(c)
               \/ \E rtt \in Rtt : AttemptAnswered(c, rtt)
        PROVE  EmptyMeansExhausted'
    <3>1. /\ pc'[c] # "idle" \/ outcome'[c] # "empty"
          /\ \A d \in Caller \ {c} : /\ pc'[d] = pc[d] /\ outcome'[d] = outcome[d]
                                     /\ tried'[d] = tried[d]
      BY <2>2 DEF TypeOK, Call, Select, AttemptFails, AttemptIgnored, AttemptAnswered, Return
    <3> QED BY <3>1 DEF EmptyMeansExhausted
  <2>3. ASSUME StartProbing \/ ProbeStep \/ Destroy \/ UNCHANGED vars
        PROVE  EmptyMeansExhausted'
    BY <2>3 DEF StartProbing, ProbeStep, ProbeWake, ProbeSkip, ProbeSend, ProbeLost,
                ProbeAnswered, ProbeRoundOver, Destroy, vars, calls, EmptyMeansExhausted
  <2> QED BY <2>1, <2>2, <2>3 DEF Next, CallStep
<1> QED BY <1>1, <1>2, TypeCorrect, AttemptsAreDistinct, PTL DEF Spec

=============================================================================
