------------------------------ MODULE TtlStore ------------------------------
(***************************************************************************)
(* What a DNS cache promises to the resolver, with nothing about how it    *)
(* keeps the promise: a question, however it is spelled, is answered with  *)
(* the value last stored for it, as long as that value was not forgotten   *)
(* and its deadline has not passed, and with Nothing otherwise.            *)
(*                                                                         *)
(* Values disappear the moment their deadline is reached.  The program     *)
(* keeps them until somebody asks (module DnsCache), and module DnsCache   *)
(* claims that nobody can tell the difference.                             *)
(***************************************************************************)
EXTENDS Integers

CONSTANTS
    Question,     \* questions as clients spell them
    Alias,        \* Alias[q]: q and the questions that differ from it only in case
    Value,        \* what can be stored; each value has a field "expires"
    Nothing       \* the answer when there is no value

VARIABLES
    store,        \* the value that would be answered to each question
    now,          \* the clock
    answer        \* what the last Fetch returned

vars == <<store, now, answer>>

Init ==
    /\ store = [q \in Question |-> Nothing]
    /\ now = 0
    /\ answer = Nothing

Assign(q, v) == [p \in Question |-> IF p \in Alias[q] THEN v ELSE store[p]]

(* Some value with a deadline ahead, named by the answer q has afterwards. *)
Store(q) ==
    /\ store'[q] \in Value
    /\ store'[q].expires > now
    /\ store' = Assign(q, store'[q])
    /\ UNCHANGED <<now, answer>>

Fetch(q) ==
    /\ answer' = store[q]
    /\ UNCHANGED <<store, now>>

Forget(q) ==
    /\ store' = Assign(q, Nothing)
    /\ UNCHANGED <<now, answer>>

ForgetAll ==
    /\ store' = [q \in Question |-> Nothing]
    /\ UNCHANGED <<now, answer>>

(* Time passes and takes with it every value whose deadline is reached. *)
Elapse ==
    /\ now' = now + 1
    /\ store' = [q \in Question |->
                    IF store[q] # Nothing /\ store[q].expires <= now'
                        THEN Nothing ELSE store[q]]
    /\ UNCHANGED answer

Next ==
    \/ \E q \in Question :
          \/ Store(q)
          \/ Fetch(q)
          \/ Forget(q)
    \/ ForgetAll
    \/ Elapse

Spec == Init /\ [][Next]_vars

=============================================================================
