----------------------------- MODULE DnsPacket -----------------------------
(***************************************************************************)
(* Packets on the wire: DnsHeader, DnsQuestion, DnsRecord and DnsPacket,   *)
(* their read and write, and the OPT record of EDNS.                       *)
(*                                                                         *)
(* Reading is an operator whose value is the set of its results: one, or   *)
(* none when the code throws.  Everything but names is kept as its bytes,  *)
(* so that all 32 bits of a TTL have room; the flags are the set of the    *)
(* numbers of the bits that are set.                                       *)
(***************************************************************************)
EXTENDS BytePacketBuffer

CONSTANTS
    DefaultSize,  \* DEFAULT_BUFFER_SIZE, 512, also the least size of EDNS
    MaxSize       \* MAX_BUFFER_SIZE, 1232, also the greatest

ASSUME SizeConstants ==
    /\ DefaultSize \in Nat /\ MaxSize \in Nat
    /\ 12 <= DefaultSize /\ DefaultSize <= MaxSize /\ MaxSize < 65536

MinOf(m, n) == IF m < n THEN m ELSE n
MaxOf(m, n) == IF m < n THEN n ELSE m
SumOf(ns) == FoldLeft(LAMBDA m, n : m + n, 0, ns)

(* enum class QuestionType; all other types are read as unknown. *)
A     == <<0, 1>>
NS    == <<0, 2>>
CNAME == <<0, 5>>
SOA   == <<0, 6>>
MX    == <<0, 15>>
AAAA  == <<0, 28>>
OPT   == <<0, 41>>

(* The bits of FLAGS. *)
QR == 15
AA == 10
RD == 8
RA == 7
ServFail == {1}

Bits(n) == {i \in 0..15 : (n \div 2 ^ i) % 2 = 1}
Number(bits) == SumOf([i \in 1..16 |-> IF i - 1 \in bits THEN 2 ^ (i - 1) ELSE 0])
SetTo(flags, bit, value) == IF value THEN flags \cup {bit} ELSE flags \ {bit}

Bytes(n) == {bytes \in Seq(Byte) : Len(bytes) = n}

DnsRecord ==
    [name : Seq(Byte), type : Bytes(2), class : Bytes(2), ttl : Bytes(4),
     rdlength : Bytes(2), data : Seq(Seq(Byte))]

DnsQuestion == [name : Seq(Byte), type : Bytes(2), class : Bytes(2)]

Packet ==
    [id : Bytes(2), flags : SUBSET (0..15), question : Seq(DnsQuestion),
     answers : Seq(DnsRecord), authorities : Seq(DnsRecord), additionals : Seq(DnsRecord)]

(* DnsPacket(): also what stands for the answer of a server that gave none. *)
NoPacket ==
    [id |-> <<0, 0>>, flags |-> {}, question |-> <<>>,
     answers |-> <<>>, authorities |-> <<>>, additionals |-> <<>>]

IsResponse(p) == QR \in p.flags

-----------------------------------------------------------------------------
(* Reading *)

AName == -1       \* in a layout: a name; any other element counts bytes

ReadField(b, s, field) ==
    IF field = AName
        THEN {[pos |-> r.pos, values |-> Append(s.values, r.name)] :
                 r \in {x \in {ReadQname(b, s.pos)} : x.status = "done"}}
    ELSE IF Available(b, s.pos, field)
        THEN {[pos    |-> s.pos + field,
               values |-> Append(s.values, SubSeq(b, s.pos + 1, s.pos + field))]}
    ELSE {}

ReadFields(b, p, layout) ==
    FoldLeft(LAMBDA S, field : UNION {ReadField(b, s, field) : s \in S},
             {[pos |-> p, values |-> <<>>]}, layout)

(* What the data of a record consists of.  The lengths of addresses are    *)
(* fixed; rdlength must agree with them, as with the length of all else.   *)
DataLayout(type, rdlength) ==
    CASE type = A             -> <<4>>
      [] type = AAAA          -> <<16>>
      [] type \in {CNAME, NS} -> <<AName>>
      [] type = MX            -> <<2, AName>>
      [] type = SOA           -> <<AName, AName, 4, 4, 4, 4, 4>>
      [] OTHER                -> <<rdlength>>

ReadQuestion(b, p) ==
    {[pos   |-> q.pos,
      value |-> [name |-> q.values[1], type |-> q.values[2], class |-> q.values[3]]] :
        q \in ReadFields(b, p, <<AName, 2, 2>>)}

(* Faulty variant: the data is not held against its announced length. *)
ReadDataUnchecked(b, p, type, rdlength) ==
    IF Available(b, p, rdlength) THEN ReadFields(b, p, DataLayout(type, rdlength)) ELSE {}

ReadData(b, p, type, rdlength) ==
    IF Available(b, p, rdlength)
        THEN {d \in ReadFields(b, p, DataLayout(type, rdlength)) : d.pos - p = rdlength}
        ELSE {}

ReadRecord(b, p) ==
    UNION {{[pos   |-> data.pos,
             value |-> [name |-> h.values[1], type |-> h.values[2], class |-> h.values[3],
                        ttl |-> h.values[4], rdlength |-> h.values[5], data |-> data.values]] :
               data \in ReadData(b, h.pos, h.values[2], U16(h.values[5]))} :
              h \in ReadFields(b, p, <<AName, 2, 2, 4, 2>>)}

(* The four sections: the question and three of records.                   *)
ReadSection(b, p, section, count) ==
    LET item(q) == IF section = 1 THEN ReadQuestion(b, q) ELSE ReadRecord(b, q)
    IN  FoldLeft(LAMBDA S, i : UNION {{[pos |-> r.pos, values |-> Append(s.values, r.value)] :
                                          r \in item(s.pos)} : s \in S},
                 {[pos |-> p, values |-> <<>>]}, [i \in 1..count |-> i])

(* All four, from the end of the header h, with the counts it gives.       *)
ReadSections(b, h) ==
    FoldLeft(LAMBDA S, i : UNION {{[pos |-> r.pos, values |-> Append(s.values, r.values)] :
                                      r \in ReadSection(b, s.pos, i, U16(h.values[2 + i]))} :
                                     s \in S},
             {[pos |-> h.pos, values |-> <<>>]}, <<1, 2, 3, 4>>)

(* DnsPacket::read: more than one question is refused.                     *)
ReadPacket(b) ==
    UNION {{[id |-> h.values[1], flags |-> Bits(U16(h.values[2])),
             question |-> s.values[1], answers |-> s.values[2],
             authorities |-> s.values[3], additionals |-> s.values[4]] :
               s \in ReadSections(b, h)} :
              h \in {x \in ReadFields(b, 0, <<2, 2, 2, 2, 2, 2>>) : U16(x.values[3]) <= 1}}

-----------------------------------------------------------------------------
(* Writing *)

LayoutOf(r) == DataLayout(r.type, Len(r.data[1]))

(* Faulty variant: the length the record had when it was read. *)
RdLengthAsRead(r) == U16(r.rdlength)

(* writeData announces the length before it writes the data. *)
RdLength(r) ==
    SumOf([i \in DOMAIN r.data |->
              IF LayoutOf(r)[i] = AName THEN WireLength(r.data[i]) ELSE Len(r.data[i])])

WriteData(r) ==
    FlattenSeq([i \in DOMAIN r.data |->
                   IF LayoutOf(r)[i] = AName THEN WriteQname(r.data[i]) ELSE r.data[i]])

WriteRecord(r) ==
    WriteQname(r.name) \o r.type \o r.class \o r.ttl \o U16Bytes(RdLength(r)) \o WriteData(r)

WriteQuestion(q) == WriteQname(q.name) \o q.type \o q.class

WriteAll(rs) == FlattenSeq([i \in DOMAIN rs |-> WriteRecord(rs[i])])

RecordsOf(p) == p.answers \o p.authorities \o p.additionals

NamesIn(p) ==
    {p.question[i].name : i \in DOMAIN p.question}
        \cup UNION {{RecordsOf(p)[i].name}
                       \cup {RecordsOf(p)[i].data[j] :
                                j \in {k \in DOMAIN RecordsOf(p)[i].data :
                                          LayoutOf(RecordsOf(p)[i])[k] = AName}} :
                       i \in DOMAIN RecordsOf(p)}

(* DnsPacket::write: the counts are those of the sections.                 *)
PacketBytes(p) ==
    p.id \o U16Bytes(Number(p.flags)) \o U16Bytes(Len(p.question)) \o U16Bytes(Len(p.answers))
        \o U16Bytes(Len(p.authorities)) \o U16Bytes(Len(p.additionals))
        \o FlattenSeq([i \in DOMAIN p.question |-> WriteQuestion(p.question[i])])
        \o WriteAll(RecordsOf(p))


(* A name that cannot be written, or a byte past the capacity, throws.     *)
WritePacket(p, capacity) ==
    IF \A name \in NamesIn(p) : Writable(name)
        THEN {b \in {PacketBytes(p)} : Len(b) <= MinOf(capacity, MaxSize)}
        ELSE {}

-----------------------------------------------------------------------------
(* EDNS *)

IsOpt(r) == r.type = OPT
Selected(rs, Test(_)) ==
    FlattenSeq([i \in DOMAIN rs |-> IF Test(rs[i]) THEN <<rs[i]>> ELSE <<>>])

(* get_edns_info: the first OPT record, if any; the DO bit is the highest  *)
(* of the lower half of the TTL.                                           *)
Edns(p) ==
    LET opts == Selected(p.additionals, IsOpt)
    IN  {[size     |-> MinOf(MaxOf(DefaultSize, U16(opts[i].class)), MaxSize),
          dnssecOk |-> opts[i].ttl[3] >= 128] : i \in DOMAIN opts \cap {1}}

(* create_additional_opt_record, with extended_rcode and version 0. *)
OptRecord(size, dnssecOk) ==
    [name |-> <<>>, type |-> OPT, class |-> U16Bytes(size),
     ttl |-> <<0, 0, IF dnssecOk THEN 128 ELSE 0, 0>>, rdlength |-> <<0, 0>>, data |-> << <<>> >>]

WithOpt(p, size, dnssecOk) ==
    [p EXCEPT !.additionals = Append(@, OptRecord(size, dnssecOk))]

WithoutOpt(p) == [p EXCEPT !.additionals = Selected(@, LAMBDA r : ~IsOpt(r))]

=============================================================================
