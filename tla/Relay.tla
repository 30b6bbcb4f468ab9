-------------------------------- MODULE Relay --------------------------------
(***************************************************************************)
(* One query from datagram to datagram: DnsServer::start reads what a      *)
(* client sent, QueryNameServer writes the question for a name server and  *)
(* reads what it answers, and the server puts a reply together and writes  *)
(* it for the client.  All packets are bytes on the way.                   *)
(*                                                                         *)
(* Which servers lookup asks, and what it caches, is in module             *)
(* DnsResolver; here one question is put to one server.                    *)
(***************************************************************************)
EXTENDS DnsPacket

CONSTANTS
    Query,        \* datagrams that clients send
    Answer        \* datagrams that the name server sends

ASSUME RelayConstants == Query \cup Answer \subseteq Seq(Byte)

VARIABLES
    query,        \* the client's datagram
    question,     \* the datagram for the name server, <<>> before
    answer,       \* what is received for an answer, <<>> if there is none
    resolved,     \* what QueryNameServer returned: NoPacket for a failure
    reply,        \* the datagram for the client, <<>> before
    stage         \* what is to happen next, or what has happened

vars == <<query, question, answer, resolved, reply, stage>>

Stage == {"arrived", "asking", "waiting", "replying", "sent", "dropped"}

(* Faulty variant: recvfrom is told of a larger buffer. *)
ReceivedWhole(datagram) == datagram

(* recvfrom cuts what is longer than the buffer. *)
Received(datagram) == SubSeq(datagram, 1, MinOf(Len(datagram), MaxSize))

Requests == ReadPacket(Received(query))
Request == CHOOSE p \in Requests : TRUE

TypeOK ==
    /\ query \in Query
    /\ {question, answer, reply} \subseteq Seq(Byte)
    /\ \A b \in {question, answer, reply} : Len(b) <= MaxSize
    /\ resolved \in Packet
    /\ stage \in Stage

Init ==
    /\ query \in Query
    /\ question = <<>> /\ answer = <<>> /\ reply = <<>>
    /\ resolved = NoPacket
    /\ stage = "arrived"

-----------------------------------------------------------------------------

(* What the server takes up: readable, not a response, with a question.    *)
IsQuery(p) == ~IsResponse(p) /\ p.question # <<>>

Take ==
    /\ stage = "arrived"
    /\ \E p \in Requests : IsQuery(p)
    /\ stage' = "asking"
    /\ UNCHANGED <<query, question, answer, resolved, reply>>

Ignore ==
    /\ stage = "arrived"
    /\ \A p \in Requests : ~IsQuery(p)
    /\ stage' = "dropped"
    /\ UNCHANGED <<query, question, answer, resolved, reply>>

(* Faulty variant: the client's packet is sent on as it is. *)
QuestionAsReceived(p) == p

(* The packet for the name server: no recursion, the largest buffer.       *)
QuestionFor(p) ==
    WithOpt([NoPacket EXCEPT !.id = p.id, !.question = p.question], MaxSize, FALSE)

Ask ==
    /\ stage = "asking"
    /\ \E b \in WritePacket(QuestionFor(Request), MaxSize) : question' = b
    /\ stage' = "waiting"
    /\ UNCHANGED <<query, answer, resolved, reply>>

(* The question cannot be written: lookup gets no packet.                  *)
CannotAsk ==
    /\ stage = "asking"
    /\ WritePacket(QuestionFor(Request), MaxSize) = {}
    /\ stage' = "replying"
    /\ UNCHANGED <<query, question, answer, resolved, reply>>

IsAnswer(p) == IsResponse(p) /\ p.id = Request.id

Hear(b) ==
    /\ stage = "waiting"
    /\ answer' = Received(b)
    /\ resolved' \in {p \in ReadPacket(Received(b)) : IsAnswer(p)}
    /\ stage' = "replying"
    /\ UNCHANGED <<query, question, reply>>

HearNothing(b) ==
    /\ stage = "waiting"
    /\ \A p \in ReadPacket(Received(b)) : ~IsAnswer(p)
    /\ stage' = "replying"
    /\ UNCHANGED <<query, question, answer, resolved, reply>>

TimeOut ==
    /\ stage = "waiting"
    /\ stage' = "replying"
    /\ UNCHANGED <<query, question, answer, resolved, reply>>

(* FinalizeResponse puts a missing question back.                          *)
Finalized(p) ==
    IF IsResponse(p) /\ p.question = <<>> THEN [p EXCEPT !.question = Request.question] ELSE p

ServerFailure(p) == [NoPacket EXCEPT !.question = p.question, !.flags = {QR} \cup ServFail]

(* The header of a recursive resolver, whatever the name server's was.     *)
Enforced(p) ==
    [p EXCEPT !.id = Request.id,
              !.flags = SetTo((@ \cup {QR, RA}) \ {AA}, RD, RD \in Request.flags)]

Response == Enforced(IF IsResponse(resolved) THEN Finalized(resolved) ELSE ServerFailure(Request))

(* Faulty variant: the name server's OPT record stays in. *)
ForClientWithOpts(p) ==
    IF Edns(Request) = {} THEN p
    ELSE LET edns == CHOOSE e \in Edns(Request) : TRUE
         IN  WithOpt(p, edns.size, edns.dnssecOk)

(* The name server's OPT record goes; the client's comes back if it had one. *)
ForClient(p) ==
    IF Edns(Request) = {} THEN WithoutOpt(p)
    ELSE LET edns == CHOOSE e \in Edns(Request) : TRUE
         IN  WithOpt(WithoutOpt(p), edns.size, edns.dnssecOk)

(* Faulty variant: every client takes the largest reply. *)
CapacityOfServer == MaxSize

Capacity == IF Edns(Request) = {} THEN DefaultSize ELSE (CHOOSE e \in Edns(Request) : TRUE).size

Reply ==
    /\ stage = "replying"
    /\ \E b \in WritePacket(ForClient(Response), Capacity) : reply' = b
    /\ stage' = "sent"
    /\ UNCHANGED <<query, question, answer, resolved>>

(* The reply cannot be written: the exception ends the work on the query.  *)
CannotReply ==
    /\ stage = "replying"
    /\ WritePacket(ForClient(Response), Capacity) = {}
    /\ stage' = "dropped"
    /\ UNCHANGED <<query, question, answer, resolved, reply>>

Next ==
    \/ Take \/ Ignore
    \/ Ask \/ CannotAsk
    \/ \E b \in Answer : Hear(b) \/ HearNothing(b)
    \/ TimeOut
    \/ Reply \/ CannotReply

Spec == Init /\ [][Next]_vars

-----------------------------------------------------------------------------

(* What a record says, whichever way its names and its length are written. *)
Content(r) ==
    [name |-> Unrooted(r.name), type |-> r.type, class |-> r.class, ttl |-> r.ttl,
     data |-> [i \in DOMAIN r.data |->
                  IF LayoutOf(r)[i] = AName THEN Unrooted(r.data[i]) ELSE r.data[i]]]
Contents(rs) == [i \in DOMAIN rs |-> Content(rs[i])]
Questions(qs) == [i \in DOMAIN qs |-> [qs[i] EXCEPT !.name = Unrooted(@)]]

OwnFlags == {QR, AA, RD, RA}

(* The name server reads the client's question, and nothing else that the  *)
(* client said: no wish for recursion, no EDNS but the server's own.       *)
QuestionPassedOn ==
    question # <<>> =>
        \E p \in ReadPacket(question) :
            /\ Questions(p.question) = Questions(Request.question)
            /\ p.id = Request.id
            /\ OwnFlags \cap p.flags = {}
            /\ Edns(p) = {[size |-> MaxSize, dnssecOk |-> FALSE]}
            /\ Len(RecordsOf(p)) = 1

(* The client can read its reply, and finds in it the records the name     *)
(* server sent, section by section and in order, and its result code: the  *)
(* names are expanded and the lengths computed anew, but no record says    *)
(* anything else.  Without an answer it finds SERVFAIL for its question.   *)
AnswerPassedOn ==
    stage = "sent" =>
        \E p \in ReadPacket(reply) :
            /\ p.id = Request.id
            /\ IF answer = <<>>
                   THEN /\ Questions(p.question) = Questions(Request.question)
                        /\ WithoutOpt(p).additionals \o p.answers \o p.authorities = <<>>
                        /\ p.flags \ OwnFlags = ServFail
                   ELSE /\ Contents(p.answers) = Contents(resolved.answers)
                        /\ Contents(p.authorities) = Contents(resolved.authorities)
                        /\ Contents(WithoutOpt(p).additionals)
                               = Contents(WithoutOpt(resolved).additionals)
                        /\ p.flags \ OwnFlags = resolved.flags \ OwnFlags

(* The start of a record found by the lengths that packets announce, with  *)
(* no look at any data: k is the number of records before it.              *)
RecordStart(b, k) ==
    LET fields(p, layout) == CHOOSE f \in ReadFields(b, p, layout) : TRUE
        head(p) == fields(p, <<AName, 2, 2, 4, 2>>)
        start[n \in 0..k] ==
            IF n > 0 THEN head(start[n - 1]).pos + U16(head(start[n - 1]).values[5])
            ELSE IF SubSeq(b, 5, 6) = <<0, 0>> THEN 12
            ELSE fields(12, <<AName, 2, 2>>).pos
    IN  start[k]

(* Records are read by their contents, yet each is found where the lengths *)
(* of those before it say: a length that is wrong, in any record and by    *)
(* any amount, never makes the program take other bytes for a record.      *)
RecordsWhereAnnounced ==
    answer # <<>> =>
        \A k \in DOMAIN RecordsOf(resolved) :
            \E h \in ReadFields(answer, RecordStart(answer, k - 1), <<AName, 2, 2, 4, 2>>) :
                LET r == RecordsOf(resolved)[k]
                IN  h.values = <<r.name, r.type, r.class, r.ttl, r.rdlength>>

(* A client that says nothing about sizes gets at most DefaultSize bytes,  *)
(* one that does what it says, where less than DefaultSize counts as that. *)
ReplyFitsClient ==
    stage = "sent" =>
        LET opts == Selected(Request.additionals, IsOpt)
        IN  Len(reply) <= IF opts = <<>> THEN DefaultSize
                          ELSE MaxOf(DefaultSize, U16(opts[1].class))

(* The reply has an OPT record, and only one, just if the client's query   *)
(* had one, with the client's DO bit: what the name server had to say of   *)
(* its own EDNS stays between it and the program.                          *)
OptAsAsked ==
    stage = "sent" =>
        \A p \in ReadPacket(reply) :
            /\ Len(Selected(p.additionals, IsOpt)) = Cardinality(Edns(Request))
            /\ \A e \in Edns(Request), f \in Edns(p) : f.dnssecOk = e.dnssecOk

(* "Sends back to client": an answer that reached the program in no more   *)
(* bytes than the client takes is passed on.                               *)
AnswersReachClients ==
    stage = "dropped" /\ answer # <<>> => Len(answer) > Capacity

=============================================================================
