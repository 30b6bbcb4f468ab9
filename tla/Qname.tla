-------------------------------- MODULE Qname --------------------------------
(***************************************************************************)
(* The life of one domain name: read_qname reads it somewhere in a         *)
(* datagram, round by round; write_qname writes it into a packet, as       *)
(* DnsPacket::write does with every name it passes on; and its receiver    *)
(* reads that.                                                             *)
(***************************************************************************)
EXTENDS BytePacketBuffer

CONSTANT
    Datagram      \* buffers that are received

ASSUME DatagramConstant == Datagram \subseteq Seq(Byte)

VARIABLES
    buff,         \* the bytes of the buffer that is read
    reader,       \* the local variables of read_qname, and pos
    relayed       \* the name first read, once it is written; <<>> before

vars == <<buff, reader, relayed>>

-----------------------------------------------------------------------------

(* The caller's position never leaves the buffer, not even when the name   *)
(* is rejected: remaining() subtracts it, unsigned, from the length.       *)
TypeOK ==
    /\ buff \in Seq(Byte)
    /\ reader \in Reader
    /\ reader.pos <= Len(buff)
    /\ relayed \in Seq(Byte)

Init ==
    /\ buff \in Datagram
    /\ \E p \in 0..Len(buff) : reader = StartAt(p)
    /\ relayed = <<>>

Read ==
    /\ reader.status = "reading"
    /\ reader' = Step(buff, reader)
    /\ UNCHANGED <<buff, relayed>>

(* Written into a new buffer, unless that throws, and read from its start. *)
PassOn ==
    /\ reader.status = "done" /\ relayed = <<>>
    /\ Writable(reader.name)
    /\ buff' = WriteQname(reader.name)
    /\ relayed' = reader.name
    /\ reader' = StartAt(0)

Next == Read \/ PassOn

Spec == Init /\ [][Next]_vars
FairSpec == Spec /\ WF_vars(Read)

-----------------------------------------------------------------------------

(* What names there are, without a reader: the labels of the name at each  *)
(* position of b and the end of its own bytes, one or none.  A name that   *)
(* ends is at no position twice, so Len(b) parts are enough.               *)
NamesOf(b) ==
    LET at[n \in 0..Len(b)] ==
            [p \in 0..Len(b) |->
                IF n = 0 \/ p = Len(b) THEN {}
                ELSE LET part == b[p + 1]
                         rest(q) == IF q <= Len(b) THEN at[n - 1][q] ELSE {}
                     IN  CASE part = 0 -> {[labels |-> <<>>, end |-> p + 1]}
                           [] part \in 1..63 ->
                                {[labels |-> <<SubSeq(b, p + 2, p + 1 + part)>> \o r.labels,
                                  end    |-> r.end] : r \in rest(p + 1 + part)}
                           [] part >= 192 /\ p + 1 < Len(b) ->
                                {[labels |-> r.labels, end |-> p + 2] : r \in rest(Target(b, p))}
                           [] OTHER -> {}]
    IN  at[Len(b)]

Text(labels) ==
    IF labels = <<>> THEN <<Dot>>
    ELSE labels[1] \o FlattenSeq([i \in 1..Len(labels) - 1 |-> <<Dot>> \o labels[i + 1]])

(* read_qname accepts the names there are, with their text, and leaves the *)
(* caller behind the name's own bytes, wherever the pointers led; it       *)
(* rejects only what is no name or too long.  In particular the limit on   *)
(* pointers, which is there against loops, never rejects a name.           *)
ReadsNames ==
    LET names == NamesOf(buff)[reader.from]
    IN  /\ reader.status = "done" =>
              \E n \in names : reader.name = Text(n.labels) /\ reader.pos = n.end
        /\ reader.status = "thrown" =>
              \A n \in names : Len(Text(n.labels)) + 1 > MaxName

(* A name that is passed on comes out as it went in, but for a dot at its  *)
(* end, and it takes the number of bytes that writeData announced for it,  *)
(* even if its labels contained dots and were cut anew.                    *)
RoundTrip ==
    relayed # <<>> =>
        /\ reader.status # "thrown"
        /\ reader.status = "done" =>
              /\ Unrooted(reader.name) = Unrooted(relayed)
              /\ reader.pos = Len(buff)
              /\ Len(buff) = WireLength(relayed)

(* The names that read_qname lets through fit the limit but for one byte:  *)
(* it counts a byte less than a name takes on the wire.                    *)
NamesBounded == reader.status = "done" => WireLength(reader.name) <= MaxName + 1

(* Pointer loops, with and without labels in them, come to an end.         *)
Terminates == []<>(reader.status # "reading")

=============================================================================
