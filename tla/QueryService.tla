---------------------------- MODULE QueryService ----------------------------
(***************************************************************************)
(* What a DNS server promises to its clients, with nothing about sockets,  *)
(* polling or who resolves the queries: the datagrams that come in over a  *)
(* channel are dealt with one after the other; each gets at most one       *)
(* reply, which goes to its sender over the same channel and carries its   *)
(* ID and its RD bit; what is not a query gets none.                       *)
(***************************************************************************)
EXTENDS Naturals, Sequences

CONSTANTS
    Channel,      \* ways on which datagrams come in
    Datagram,     \* records with fields from, id, rd and query
    Result,       \* what a reply can say
    NoReply       \* before the first reply

VARIABLES
    pending,      \* for each channel the datagrams not dealt with, in order
    reply         \* the last reply that was sent

vars == <<pending, reply>>

Init ==
    /\ pending = [c \in Channel |-> <<>>]
    /\ reply = NoReply

ReplyTo(d, c, result) ==
    [to |-> d.from, channel |-> c, id |-> d.id, rd |-> d.rd, result |-> result]

Arrive(c, d) ==
    /\ pending' = [pending EXCEPT ![c] = Append(@, d)]
    /\ UNCHANGED reply

Answer(c, result) ==
    /\ pending[c] # <<>> /\ Head(pending[c]).query
    /\ reply' = ReplyTo(Head(pending[c]), c, result)
    /\ pending' = [pending EXCEPT ![c] = Tail(@)]

(* No reply: it was no query, the reply is too large, or sending failed.   *)
Drop(c) ==
    /\ pending[c] # <<>>
    /\ pending' = [pending EXCEPT ![c] = Tail(@)]
    /\ UNCHANGED reply

Finish(c) == Drop(c) \/ \E result \in Result : Answer(c, result)

Next == \E c \in Channel : Finish(c) \/ \E d \in Datagram : Arrive(c, d)

Spec == Init /\ [][Next]_vars

(* As long as a channel has datagrams, one after the other is dealt with.  *)
Progress == \A c \in Channel : WF_vars(Finish(c))

=============================================================================
