---------------------------- MODULE RelayProofs ----------------------------
(***************************************************************************)
(* Theorems about one query on its way, for all datagrams that clients and *)
(* name servers may send: first what is read of a datagram, and that what  *)
(* is sent fits; then that what is written is read back, part by part; and *)
(* from that what a reply says.                                            *)
(***************************************************************************)
EXTENDS Relay, BytePacketBufferProofs, FiniteSetTheorems

-----------------------------------------------------------------------------
(* Reading *)

(* Where reading stands: at a position of the buffer, with what was read.  *)
Place(b) == [pos : 0..Len(b), values : Seq(Seq(Byte))]

Field == Nat \cup {AName}

(* One field: a name, or as many bytes as it counts. *)
LEMMA ReadFieldTypes ==
    ASSUME NEW b \in Seq(Byte), NEW s \in Place(b), NEW field \in Field,
           NEW r \in ReadField(b, s, field)
    PROVE  /\ r \in Place(b) /\ Len(r.values) = Len(s.values) + 1
           /\ \A i \in 1..Len(s.values) : r.values[i] = s.values[i]
           /\ field # AName => Len(r.values[Len(s.values) + 1]) = field
           /\ field = AName => Fits(r.values[Len(s.values) + 1])
<1>1. s.pos \in 0..Len(b) /\ s.values \in Seq(Seq(Byte)) /\ Len(b) \in Nat
    BY DEF Place
<1>2. PICK value \in Seq(Byte), p \in 0..Len(b) :
         /\ r = [pos |-> p, values |-> Append(s.values, value)]
         /\ field # AName => Len(value) = field
         /\ field = AName => Fits(value)
  <2>1. CASE field = AName
    <3>1. /\ ReadQname(b, s.pos).name \in Seq(Byte)
          /\ ReadQname(b, s.pos).pos \in 0..Len(b)
          /\ Fits(ReadQname(b, s.pos).name)
      <4> DEFINE end == ReadQname(b, s.pos)
      <4>1. end \in Reader /\ end.pos <= Len(b) /\ Fits(end.name)
          BY <1>1, EveryNameEnds
      <4> HIDE DEF end
      <4>2. end.name \in Seq(Byte) /\ end.pos \in 0..Len(b)
          BY <1>1, <4>1 DEF Reader
      <4> QED
          BY <4>1, <4>2 DEF end
    <3>2. r = [pos |-> ReadQname(b, s.pos).pos,
               values |-> Append(s.values, ReadQname(b, s.pos).name)]
        BY <2>1 DEF ReadField
    <3> QED
        BY <2>1, <3>1, <3>2
  <2>2. CASE field # AName
    <3> DEFINE value == SubSeq(b, s.pos + 1, s.pos + field)
    <3>1. field \in Nat
        BY <2>2 DEF Field
    <3>2. /\ Available(b, s.pos, field)
          /\ r = [pos |-> s.pos + field, values |-> Append(s.values, value)]
        BY <2>2 DEF ReadField
    <3>3. s.pos + field \in 0..Len(b)
        BY <1>1, <3>1, <3>2 DEF Available
    <3>4. value \in Seq(Byte) /\ Len(value) = field
        BY <1>1, <3>1, <3>3, Slice
    <3> HIDE DEF value
    <3> QED
        BY <2>2, <3>2, <3>3, <3>4
  <2> QED
      BY <2>1, <2>2
<1>3. r.pos = p /\ r.values = Append(s.values, value) /\ r \in Place(b)
    BY <1>1, <1>2 DEF Place
<1> QED
    BY <1>1, <1>2, <1>3

(* ReadFields by its rounds: what is read up to each field. *)
FieldRounds(g, b, p, layout) ==
    /\ g[0] = {[pos |-> p, values |-> <<>>]}
    /\ \A k \in 1..Len(layout) : g[k] = UNION {ReadField(b, s, layout[k]) : s \in g[k - 1]}

LEMMA ReadFieldsRounds ==
    ASSUME NEW b \in Seq(Byte), NEW p \in 0..Len(b), NEW layout \in Seq(Field)
    PROVE  \E g : FieldRounds(g, b, p, layout) /\ ReadFields(b, p, layout) = g[Len(layout)]
<1> DEFINE n == Len(layout)
           V == SUBSET Place(b)
           base == {[pos |-> p, values |-> <<>>]}
           op(S, field) == UNION {ReadField(b, s, field) : s \in S}
           step == [x \in V \X (1..n) |-> op(x[1], layout[x[2]])]
           fold == CHOOSE iter : iter = [t \in SUBSET (DOMAIN layout) |->
                      IF t = {} THEN base ELSE op(iter[t \ {Max(t)}], layout[Max(t)])]
           g == [k \in 0..n |-> fold[1..k]]
<1>1. n \in Nat /\ DOMAIN layout = 1..n /\ base \in V
    BY DEF Place
<1>2. step \in [V \X (1..n) -> V]
  <2>1. ASSUME NEW S \in V, NEW k \in 1..n
        PROVE  op(S, layout[k]) \in V
      BY <1>1, ReadFieldTypes
  <2> HIDE DEF op, V
  <2> QED
      BY <2>1
<1>3. PICK f : Solves(f, n, V, base, step)
  <2> HIDE DEF n, V, base, step
  <2> QED
      BY <1>1, <1>2, FoldExists
<1> HIDE DEF op
<1>4. f = [t \in SUBSET (DOMAIN layout) |->
             IF t = {} THEN base ELSE op(f[t \ {Max(t)}], layout[Max(t)])]
  <2>1. \A v \in V, k \in 1..n : step[<<v, k>>] = op(v, layout[k])
      OBVIOUS
  <2> HIDE DEF V, step
  <2>2. /\ f = [t \in SUBSET (1..n) |->
                   IF t = {} THEN base ELSE step[<<f[t \ {Max(t)}], Max(t)>>]]
        /\ \A t \in SUBSET (1..n) : t # {} => Max(t) \in 1..n /\ f[t \ {Max(t)}] \in V
      BY <1>1, <1>3, SolvesSteps
  <2> QED
      BY <1>1, <2>1, <2>2
<1>5. fold = [t \in SUBSET (DOMAIN layout) |->
                IF t = {} THEN base ELSE op(fold[t \ {Max(t)}], layout[Max(t)])]
    BY <1>4
<1>6. ReadFields(b, p, layout) = fold[1..n]
    BY <1>1 DEF ReadFields, FoldLeft, MapThenFoldSet, op
<1> HIDE DEF fold
<1>7. fold[{}] = base /\ 1..0 = {}
    BY <1>1, <1>5
<1>8. ASSUME NEW k \in 1..n
      PROVE  fold[1..k] = op(fold[1..(k - 1)], layout[k])
  <2>1. 1..k \in SUBSET (DOMAIN layout)
      BY <1>1
  <2> QED
      BY <1>1, <1>5, <2>1, MaxOfPrefix
<1>9. g[0] = base /\ g[n] = fold[1..n] /\ \A k \in 1..n : g[k] = op(g[k - 1], layout[k])
    BY <1>1, <1>7, <1>8
<1> HIDE DEF g
<1> QED
    BY <1>6, <1>9 DEF FieldRounds, op

(* All fields of a layout: what was read is unique, of the layout's        *)
(* lengths, and its names no longer than read_qname lets through.          *)
Filled(b, layout, k) ==
    {s \in Place(b) : /\ Len(s.values) = k
                      /\ \A i \in 1..k : layout[i] # AName => Len(s.values[i]) = layout[i]
                      /\ \A i \in 1..k : layout[i] = AName => Fits(s.values[i])}

LEMMA ReadFieldsTypes ==
    ASSUME NEW b \in Seq(Byte), NEW p \in 0..Len(b), NEW layout \in Seq(Field)
    PROVE  /\ ReadFields(b, p, layout) \subseteq Filled(b, layout, Len(layout))
           /\ \A r, s \in ReadFields(b, p, layout) : r = s
<1> DEFINE n == Len(layout)
           One(S) == \A r, s \in S : r = s
<1>1. PICK g : FieldRounds(g, b, p, layout) /\ ReadFields(b, p, layout) = g[n]
    BY ReadFieldsRounds
<1> DEFINE good == {k \in 0..n : g[k] \subseteq Filled(b, layout, k) /\ One(g[k])}
<1>2. n \in Nat
    OBVIOUS
<1>3. 0 \in good
  <2>1. g[0] = {[pos |-> p, values |-> <<>>]}
      BY <1>1 DEF FieldRounds
  <2>2. [pos |-> p, values |-> <<>>] \in Filled(b, layout, 0)
      BY DEF Filled, Place
  <2> QED
      BY <1>2, <2>1, <2>2
<1>4. ASSUME NEW k \in 1..n, k - 1 \in good
      PROVE  k \in good
  <2>1. /\ g[k] = UNION {ReadField(b, s, layout[k]) : s \in g[k - 1]}
        /\ layout[k] \in Field
      BY <1>1 DEF FieldRounds
  <2>2. g[k - 1] \subseteq Filled(b, layout, k - 1) /\ One(g[k - 1])
      BY <1>4
  <2>3. ASSUME NEW s \in g[k - 1], NEW r \in ReadField(b, s, layout[k])
        PROVE  r \in Filled(b, layout, k)
    <3>1. /\ s \in Place(b) /\ Len(s.values) = k - 1
          /\ \A i \in 1..(k - 1) : layout[i] # AName => Len(s.values[i]) = layout[i]
          /\ \A i \in 1..(k - 1) : layout[i] = AName => Fits(s.values[i])
        BY <2>2 DEF Filled
    <3>2. /\ r \in Place(b) /\ Len(r.values) = k
          /\ \A i \in 1..(k - 1) : r.values[i] = s.values[i]
          /\ layout[k] # AName => Len(r.values[k]) = layout[k]
          /\ layout[k] = AName => Fits(r.values[k])
        BY <2>1, <3>1, ReadFieldTypes
    <3>3. \A i \in 1..k : i = k \/ i \in 1..(k - 1)
        OBVIOUS
    <3> QED
        BY <3>1, <3>2, <3>3 DEF Filled
  <2>4. ASSUME NEW s \in g[k - 1]
        PROVE  One(ReadField(b, s, layout[k]))
      BY DEF ReadField
  <2>5. g[k] \subseteq Filled(b, layout, k)
      BY <2>1, <2>3
  <2>6. One(g[k])
      BY <2>1, <2>2, <2>4
  <2> QED
      BY <2>5, <2>6
<1>5. n \in good
  <2> HIDE DEF good, n
  <2>1. \A k \in 1..n : k - 1 \in good => k \in good
      BY <1>4
  <2>2. 0..n \subseteq good
      BY <1>2, <1>3, <2>1, Upwards
  <2> QED
      BY <1>2, <2>2
<1> HIDE DEF good
<1> QED
    BY <1>1, <1>5 DEF good

LEMMA FilledFields ==
    ASSUME NEW b \in Seq(Byte), NEW layout, NEW n \in Nat, NEW s \in Filled(b, layout, n),
           NEW i \in 1..n
    PROVE  /\ s.pos \in 0..Len(b) /\ s.values[i] \in Seq(Byte)
           /\ layout[i] # AName => s.values[i] \in Bytes(layout[i])
           /\ layout[i] = AName => Fits(s.values[i])
<1>1. s.pos \in 0..Len(b) /\ s.values \in Seq(Seq(Byte)) /\ Len(s.values) = n
    BY DEF Filled, Place
<1>2. s.values[i] \in Seq(Byte)
    BY <1>1
<1>3. /\ layout[i] # AName => Len(s.values[i]) = layout[i]
      /\ layout[i] = AName => Fits(s.values[i])
    BY DEF Filled
<1> QED
    BY <1>1, <1>2, <1>3 DEF Bytes

LEMMA LayoutTypes ==
    ASSUME NEW type, NEW rdlength \in Nat
    PROVE  DataLayout(type, rdlength) \in Seq(Field)
<1>1. \A n \in {2, 4, 16, rdlength, AName} : n \in Field
    BY DEF Field
<1> HIDE DEF AName
<1>2. /\ <<4>> \in Seq(Field) /\ <<16>> \in Seq(Field) /\ <<AName>> \in Seq(Field)
      /\ <<2, AName>> \in Seq(Field) /\ <<AName, AName, 4, 4, 4, 4, 4>> \in Seq(Field)
      /\ <<rdlength>> \in Seq(Field)
    BY <1>1
<1> QED
    BY <1>2 DEF DataLayout

LEMMA U16Types ==
    ASSUME NEW bytes \in Bytes(2)
    PROVE  U16(bytes) \in Nat
<1>1. bytes[1] \in 0..255 /\ bytes[2] \in 0..255
  <2>1. bytes \in Seq(Byte) /\ 1 \in 1..Len(bytes) /\ 2 \in 1..Len(bytes)
      BY DEF Bytes
  <2> QED
      BY <2>1, ByteAt
<1>2. \A high, low \in 0..255 : high * 256 + low \in Nat
    OBVIOUS
<1> QED
    BY <1>1, <1>2 DEF U16

(* The fields of a question, and those of a record before its data. *)
QuestionFields == <<AName, 2, 2>>
HeadFields == <<AName, 2, 2, 4, 2>>

Item(b, Value) == [pos : 0..Len(b), value : Value]

LEMMA ReadQuestionTypes ==
    ASSUME NEW b \in Seq(Byte), NEW p \in 0..Len(b)
    PROVE  ReadQuestion(b, p) \subseteq Item(b, DnsQuestion)
<1> SUFFICES ASSUME NEW q \in ReadFields(b, p, QuestionFields)
             PROVE  [pos   |-> q.pos,
                     value |-> [name |-> q.values[1], type |-> q.values[2],
                                class |-> q.values[3]]] \in Item(b, DnsQuestion)
    BY DEF ReadQuestion, QuestionFields
<1> DEFINE layout == QuestionFields
<1>1. layout \in Seq(Field) /\ Len(layout) = 3 /\ layout[2] = 2 /\ layout[3] = 2
    BY DEF Field, QuestionFields
<1> HIDE DEF layout
<1>2. q \in Filled(b, layout, 3)
    BY <1>1, ReadFieldsTypes DEF layout
<1>3. /\ 1 \in 1..3 /\ 2 \in 1..3 /\ 3 \in 1..3
      /\ 2 # AName
    BY DEF AName
<1>4. /\ q.pos \in 0..Len(b) /\ q.values[1] \in Seq(Byte)
      /\ q.values[2] \in Bytes(2) /\ q.values[3] \in Bytes(2)
    BY <1>1, <1>2, <1>3, FilledFields
<1> QED
    BY <1>4 DEF Item, DnsQuestion

(* The data of a record, and all of it: the position behind it is the one  *)
(* its announced length leads to.                                          *)
LEMMA ReadDataTypes ==
    ASSUME NEW b \in Seq(Byte), NEW p \in 0..Len(b), NEW type, NEW rdlength \in Nat,
           NEW d \in ReadData(b, p, type, rdlength)
    PROVE  d \in Place(b) /\ d.pos = p + rdlength
<1> DEFINE layout == DataLayout(type, rdlength)
<1>1. d \in ReadFields(b, p, layout) /\ d.pos - p = rdlength
    BY DEF ReadData
<1>2. layout \in Seq(Field)
    BY LayoutTypes
<1> HIDE DEF layout
<1>3. d \in Place(b)
    BY <1>1, <1>2, ReadFieldsTypes DEF Filled
<1>4. d.pos \in Nat /\ p \in Nat
    BY <1>3 DEF Place
<1> QED
    BY <1>1, <1>3, <1>4

(* The head of a record. *)
LEMMA HeadTypes ==
    ASSUME NEW b \in Seq(Byte), NEW p \in 0..Len(b), NEW h \in ReadFields(b, p, HeadFields)
    PROVE  /\ h.pos \in 0..Len(b) /\ h.values \in Seq(Seq(Byte)) /\ Len(h.values) = 5
           /\ h.values[1] \in Seq(Byte) /\ h.values[2] \in Bytes(2) /\ h.values[3] \in Bytes(2)
           /\ h.values[4] \in Bytes(4) /\ h.values[5] \in Bytes(2)
<1> DEFINE layout == HeadFields
<1>1. /\ layout \in Seq(Field) /\ Len(layout) = 5
      /\ layout[2] = 2 /\ layout[3] = 2 /\ layout[4] = 4 /\ layout[5] = 2
    BY DEF Field, HeadFields
<1> HIDE DEF layout
<1>2. h \in Filled(b, layout, 5)
    BY <1>1, ReadFieldsTypes DEF layout
<1>3. /\ 1 \in 1..5 /\ 2 \in 1..5 /\ 3 \in 1..5 /\ 4 \in 1..5 /\ 5 \in 1..5
      /\ 2 # AName /\ 4 # AName
    BY DEF AName
<1>4. h.pos \in 0..Len(b) /\ h.values \in Seq(Seq(Byte)) /\ Len(h.values) = 5
    BY <1>2 DEF Filled, Place
<1> QED
    BY <1>1, <1>2, <1>3, <1>4, FilledFields

LEMMA ReadRecordTypes ==
    ASSUME NEW b \in Seq(Byte), NEW p \in 0..Len(b)
    PROVE  ReadRecord(b, p) \subseteq Item(b, DnsRecord)
<1> SUFFICES ASSUME NEW h \in ReadFields(b, p, HeadFields),
                    NEW data \in ReadData(b, h.pos, h.values[2], U16(h.values[5]))
             PROVE  [pos   |-> data.pos,
                     value |-> [name |-> h.values[1], type |-> h.values[2],
                                class |-> h.values[3], ttl |-> h.values[4],
                                rdlength |-> h.values[5], data |-> data.values]]
                        \in Item(b, DnsRecord)
    BY DEF ReadRecord, HeadFields
<1>1. /\ h.pos \in 0..Len(b)
      /\ h.values[1] \in Seq(Byte) /\ h.values[2] \in Bytes(2) /\ h.values[3] \in Bytes(2)
      /\ h.values[4] \in Bytes(4) /\ h.values[5] \in Bytes(2)
    BY HeadTypes
<1>2. data \in Place(b)
    BY <1>1, U16Types, ReadDataTypes
<1> QED
    BY <1>1, <1>2 DEF Item, DnsRecord, Place

(* A section by its items: where the section starts, each item starts at   *)
(* the end of the one before it.                                           *)
ReadItem(b, p, section) == IF section = 1 THEN ReadQuestion(b, p) ELSE ReadRecord(b, p)
ItemValue(section) == IF section = 1 THEN DnsQuestion ELSE DnsRecord

LEMMA ReadItemTypes ==
    ASSUME NEW b \in Seq(Byte), NEW p \in 0..Len(b), NEW section
    PROVE  ReadItem(b, p, section) \subseteq Item(b, ItemValue(section))
BY ReadQuestionTypes, ReadRecordTypes DEF ReadItem, ItemValue

SectionPlace(b, section) == [pos : 0..Len(b), values : Seq(ItemValue(section))]

NextItem(b, section, S) ==
    UNION {{[pos |-> r.pos, values |-> Append(s.values, r.value)] :
               r \in ReadItem(b, s.pos, section)} : s \in S}

SectionRounds(g, b, p, section, count) ==
    /\ g[0] = {[pos |-> p, values |-> <<>>]}
    /\ \A k \in 1..count : g[k] = NextItem(b, section, g[k - 1])

LEMMA NextItemTypes ==
    ASSUME NEW b \in Seq(Byte), NEW section, NEW S, S \subseteq SectionPlace(b, section)
    PROVE  NextItem(b, section, S) \subseteq SectionPlace(b, section)
<1> SUFFICES ASSUME NEW s \in S, NEW r \in ReadItem(b, s.pos, section)
             PROVE  [pos |-> r.pos, values |-> Append(s.values, r.value)]
                        \in SectionPlace(b, section)
    BY DEF NextItem
<1>1. s.pos \in 0..Len(b) /\ s.values \in Seq(ItemValue(section))
    BY DEF SectionPlace
<1>2. r.pos \in 0..Len(b) /\ r.value \in ItemValue(section)
    BY <1>1, ReadItemTypes DEF Item
<1> QED
    BY <1>1, <1>2 DEF SectionPlace

LEMMA ReadSectionRounds ==
    ASSUME NEW b \in Seq(Byte), NEW p \in 0..Len(b), NEW section, NEW count \in Nat
    PROVE  \E g : /\ SectionRounds(g, b, p, section, count)
                  /\ ReadSection(b, p, section, count) = g[count]
<1> DEFINE V == SUBSET SectionPlace(b, section)
           base == {[pos |-> p, values |-> <<>>]}
           step == [x \in V \X (1..count) |-> NextItem(b, section, x[1])]
           fold == CHOOSE iter : iter = [t \in SUBSET (1..count) |->
                      IF t = {} THEN base ELSE NextItem(b, section, iter[t \ {Max(t)}])]
           g == [k \in 0..count |-> fold[1..k]]
<1>1. base \in V
    BY DEF SectionPlace
<1>2. step \in [V \X (1..count) -> V]
    BY NextItemTypes
<1>3. PICK f : Solves(f, count, V, base, step)
  <2> HIDE DEF V, base, step
  <2> QED
      BY <1>1, <1>2, FoldExists
<1>4. f = [t \in SUBSET (1..count) |->
             IF t = {} THEN base ELSE NextItem(b, section, f[t \ {Max(t)}])]
  <2>1. \A v \in V, k \in 1..count : step[<<v, k>>] = NextItem(b, section, v)
      OBVIOUS
  <2> HIDE DEF V, step
  <2>2. /\ f = [t \in SUBSET (1..count) |->
                   IF t = {} THEN base ELSE step[<<f[t \ {Max(t)}], Max(t)>>]]
        /\ \A t \in SUBSET (1..count) : t # {} => Max(t) \in 1..count /\ f[t \ {Max(t)}] \in V
      BY <1>3, SolvesSteps
  <2> QED
      BY <2>1, <2>2
<1>5. fold = [t \in SUBSET (1..count) |->
                IF t = {} THEN base ELSE NextItem(b, section, fold[t \ {Max(t)}])]
    BY <1>4
<1>6. ReadSection(b, p, section, count) = fold[1..count]
    BY DEF ReadSection, FoldLeft, MapThenFoldSet, NextItem, ReadItem
<1> HIDE DEF fold
<1>7. fold[{}] = base /\ 1..0 = {}
    BY <1>5
<1>8. ASSUME NEW k \in 1..count
      PROVE  fold[1..k] = NextItem(b, section, fold[1..(k - 1)])
  <2>1. 1..k \in SUBSET (1..count)
      OBVIOUS
  <2> QED
      BY <1>5, <2>1, MaxOfPrefix
<1>9. /\ g[0] = base /\ g[count] = fold[1..count]
      /\ \A k \in 1..count : g[k] = NextItem(b, section, g[k - 1])
    BY <1>7, <1>8
<1> HIDE DEF g
<1> QED
    BY <1>6, <1>9 DEF SectionRounds

(* places are the ends of the items, from the start of the first one.      *)
SectionTrace(places, b, p, section, s) ==
    /\ places \in [0..Len(s.values) -> 0..Len(b)]
    /\ places[0] = p /\ places[Len(s.values)] = s.pos
    /\ \A k \in 1..Len(s.values) :
          [pos |-> places[k], value |-> s.values[k]] \in ReadItem(b, places[k - 1], section)

LEMMA TraceGrows ==
    ASSUME NEW b \in Seq(Byte), NEW p \in 0..Len(b), NEW section,
           NEW s \in SectionPlace(b, section), NEW places, SectionTrace(places, b, p, section, s),
           NEW r \in ReadItem(b, s.pos, section),
           NEW t, t = [pos |-> r.pos, values |-> Append(s.values, r.value)]
    PROVE  \E q : SectionTrace(q, b, p, section, t)
<1> DEFINE n == Len(s.values)
           q == [k \in 0..(n + 1) |-> IF k = n + 1 THEN r.pos ELSE places[k]]
<1>1. /\ s.pos \in 0..Len(b) /\ s.values \in Seq(ItemValue(section)) /\ n \in Nat
      /\ r.pos \in 0..Len(b) /\ r.value \in ItemValue(section)
      /\ r = [pos |-> r.pos, value |-> r.value]
    BY ReadItemTypes DEF SectionPlace, Item
<1>2. /\ Len(t.values) = n + 1 /\ t.values[n + 1] = r.value /\ t.pos = r.pos
      /\ \A k \in 1..n : t.values[k] = s.values[k]
    BY <1>1
<1>3. /\ places \in [0..n -> 0..Len(b)] /\ places[0] = p /\ places[n] = s.pos
      /\ \A k \in 1..n :
            [pos |-> places[k], value |-> s.values[k]] \in ReadItem(b, places[k - 1], section)
    BY DEF SectionTrace
<1> HIDE DEF n
<1>4. q \in [0..(n + 1) -> 0..Len(b)] /\ q[0] = p /\ q[n + 1] = r.pos /\ q[n] = s.pos
    BY <1>1, <1>3
<1>5. ASSUME NEW k \in 1..(n + 1)
      PROVE  [pos |-> q[k], value |-> t.values[k]] \in ReadItem(b, q[k - 1], section)
  <2>1. CASE k = n + 1
    <3>1. q[k] = r.pos /\ q[k - 1] = s.pos
        BY <1>1, <1>4, <2>1
    <3> HIDE DEF q
    <3> QED
        BY <1>1, <1>2, <2>1, <3>1
  <2>2. CASE k # n + 1
    <3>1. k \in 1..n /\ q[k] = places[k] /\ q[k - 1] = places[k - 1]
        BY <1>1, <2>2
    <3> HIDE DEF q
    <3> QED
        BY <1>2, <1>3, <3>1
  <2> QED
      BY <2>1, <2>2
<1> HIDE DEF q
<1> QED
    BY <1>2, <1>4, <1>5 DEF SectionTrace

LEMMA ReadSectionTraces ==
    ASSUME NEW b \in Seq(Byte), NEW p \in 0..Len(b), NEW section, NEW count \in Nat,
           NEW s \in ReadSection(b, p, section, count)
    PROVE  /\ s \in SectionPlace(b, section) /\ Len(s.values) = count
           /\ \E places : SectionTrace(places, b, p, section, s)
<1> DEFINE Good(k, r) == /\ r \in SectionPlace(b, section) /\ Len(r.values) = k
                         /\ \E places : SectionTrace(places, b, p, section, r)
<1>1. PICK g : /\ SectionRounds(g, b, p, section, count)
               /\ ReadSection(b, p, section, count) = g[count]
    BY ReadSectionRounds
<1> DEFINE good == {k \in 0..count : \A r \in g[k] : Good(k, r)}
<1>2. 0 \in good
  <2> DEFINE r == [pos |-> p, values |-> <<>>]
             places == [k \in 0..0 |-> p]
  <2>1. g[0] = {r}
      BY <1>1 DEF SectionRounds
  <2>2. r \in SectionPlace(b, section) /\ Len(r.values) = 0 /\ r.pos = p
      BY DEF SectionPlace
  <2>3. SectionTrace(places, b, p, section, r)
      BY <2>2 DEF SectionTrace
  <2> HIDE DEF r, places
  <2> QED
      BY <2>1, <2>2, <2>3
<1>3. ASSUME NEW k \in 1..count, k - 1 \in good
      PROVE  k \in good
  <2>1. g[k] = NextItem(b, section, g[k - 1])
      BY <1>1 DEF SectionRounds
  <2> SUFFICES ASSUME NEW r \in g[k - 1], NEW i \in ReadItem(b, r.pos, section), NEW t,
                      t = [pos |-> i.pos, values |-> Append(r.values, i.value)]
               PROVE  Good(k, t)
    <3> HIDE DEF Good
    <3> QED
        BY <2>1 DEF NextItem
  <2>3. /\ r \in SectionPlace(b, section) /\ Len(r.values) = k - 1
        /\ \E places : SectionTrace(places, b, p, section, r)
      BY <1>3
  <2>4. \E places : SectionTrace(places, b, p, section, t)
      BY <2>3, TraceGrows
  <2>5. r.pos \in 0..Len(b) /\ r.values \in Seq(ItemValue(section))
      BY <2>3 DEF SectionPlace
  <2>6. i.pos \in 0..Len(b) /\ i.value \in ItemValue(section)
      BY <2>5, ReadItemTypes DEF Item
  <2>7. t \in SectionPlace(b, section) /\ Len(t.values) = k
      BY <2>3, <2>5, <2>6 DEF SectionPlace
  <2> QED
      BY <2>4, <2>7
<1>4. count \in good
  <2> HIDE DEF good
  <2>1. \A k \in 1..count : k - 1 \in good => k \in good
      BY <1>3
  <2>2. 0..count \subseteq good
      BY <1>2, <2>1, Upwards
  <2> QED
      BY <2>2
<1> QED
    BY <1>1, <1>4

-----------------------------------------------------------------------------
(* Packets *)

HeaderFields == <<2, 2, 2, 2, 2, 2>>

LEMMA HeaderTypes ==
    ASSUME NEW b \in Seq(Byte), NEW h \in ReadFields(b, 0, HeaderFields)
    PROVE  /\ 12 <= Len(b) /\ h.pos = 12
           /\ \A i \in 1..6 : h.values[i] \in Bytes(2) /\ h.values[i] = SubSeq(b, 2 * i - 1, 2 * i)
<1> DEFINE layout == HeaderFields
           Good(k, s) == /\ s.pos = 2 * k /\ s.pos <= Len(b) /\ s.values \in Seq(Seq(Byte))
                         /\ Len(s.values) = k
                         /\ \A i \in 1..k : s.values[i] = SubSeq(b, 2 * i - 1, 2 * i)
<1>1. /\ layout \in Seq(Field) /\ Len(layout) = 6 /\ \A i \in 1..6 : layout[i] = 2
      /\ 2 # AName /\ 0 \in 0..Len(b) /\ Len(b) \in Nat
    BY DEF HeaderFields, Field, AName
<1> HIDE DEF layout
<1>2. PICK g : FieldRounds(g, b, 0, layout) /\ ReadFields(b, 0, layout) = g[6]
    BY <1>1, ReadFieldsRounds
<1> DEFINE good == {k \in 0..6 : \A s \in g[k] : Good(k, s)}
<1>3. 0 \in good
  <2>1. g[0] = {[pos |-> 0, values |-> <<>>]}
      BY <1>2 DEF FieldRounds
  <2>2. Good(0, [pos |-> 0, values |-> <<>>])
      BY <1>1
  <2> HIDE DEF Good
  <2> QED
      BY <2>1, <2>2
<1>4. ASSUME NEW k \in 1..6, k - 1 \in good
      PROVE  k \in good
  <2>1. g[k] = UNION {ReadField(b, s, 2) : s \in g[k - 1]}
      BY <1>1, <1>2 DEF FieldRounds
  <2> SUFFICES ASSUME NEW s \in g[k - 1], NEW r \in ReadField(b, s, 2)
               PROVE  Good(k, r)
    <3> HIDE DEF Good
    <3> QED
        BY <2>1
  <2>2. /\ s.pos = 2 * (k - 1) /\ s.values \in Seq(Seq(Byte)) /\ Len(s.values) = k - 1
        /\ \A i \in 1..(k - 1) : s.values[i] = SubSeq(b, 2 * i - 1, 2 * i)
      BY <1>4
  <2>3. /\ Available(b, s.pos, 2)
        /\ r = [pos |-> s.pos + 2,
                values |-> Append(s.values, SubSeq(b, s.pos + 1, s.pos + 2))]
      BY <1>1 DEF ReadField
  <2>4. s.pos + 1 = 2 * k - 1 /\ s.pos + 2 = 2 * k /\ 2 * k <= Len(b)
      BY <1>1, <2>2, <2>3 DEF Available
  <2> DEFINE bytes == SubSeq(b, 2 * k - 1, 2 * k)
  <2>5. bytes \in Seq(Byte)
      BY <1>1, <2>4, Slice
  <2>6. r.pos = 2 * k /\ r.values = Append(s.values, bytes)
      BY <2>3, <2>4
  <2> HIDE DEF bytes
  <2>7. /\ r.values \in Seq(Seq(Byte)) /\ Len(r.values) = k /\ r.values[k] = bytes
        /\ \A i \in 1..(k - 1) : r.values[i] = s.values[i]
      BY <2>2, <2>5, <2>6
  <2> QED
      BY <2>2, <2>4, <2>6, <2>7 DEF bytes
<1>5. 6 \in good
  <2> HIDE DEF good
  <2>1. \A k \in 1..6 : k - 1 \in good => k \in good
      BY <1>4
  <2>2. 0..6 \subseteq good
      BY <1>3, <2>1, Upwards
  <2> QED
      BY <2>2
<1>6. /\ h.pos = 12 /\ h.pos <= Len(b)
      /\ \A i \in 1..6 : h.values[i] = SubSeq(b, 2 * i - 1, 2 * i)
  <2>1. h \in g[6]
      BY <1>2 DEF layout
  <2>2. Good(6, h)
    <3> HIDE DEF Good
    <3> QED
        BY <1>5, <2>1
  <2>3. 2 * 6 = 12
      OBVIOUS
  <2> QED
      BY <2>2, <2>3
<1>7. ASSUME NEW i \in 1..6
      PROVE  h.values[i] \in Bytes(2)
  <2>1. 2 * i <= Len(b) /\ 2 * i \in Nat /\ 2 * i - 1 \in Nat \ {0} /\ 2 * i - 1 <= 2 * i
      BY <1>1, <1>6
  <2>2. SubSeq(b, 2 * i - 1, 2 * i) \in Seq(Byte) /\ Len(SubSeq(b, 2 * i - 1, 2 * i)) = 2
      BY <1>1, <2>1, Slice
  <2> QED
      BY <1>6, <2>2 DEF Bytes
<1> QED
    BY <1>1, <1>6, <1>7

SectionsPlace(b) == [pos : 0..Len(b), values : Seq(Seq(DnsQuestion) \cup Seq(DnsRecord))]

NextSection(b, h, S, i) ==
    UNION {{[pos |-> r.pos, values |-> Append(s.values, r.values)] :
              r \in ReadSection(b, s.pos, i, U16(h.values[2 + i]))} : s \in S}

LEMMA NextSectionTypes ==
    ASSUME NEW b \in Seq(Byte), NEW h \in ReadFields(b, 0, HeaderFields), NEW i \in 1..4,
           NEW S, S \subseteq SectionsPlace(b)
    PROVE  NextSection(b, h, S, i) \subseteq SectionsPlace(b)
<1> SUFFICES ASSUME NEW s \in S, NEW r \in ReadSection(b, s.pos, i, U16(h.values[2 + i]))
             PROVE  [pos |-> r.pos, values |-> Append(s.values, r.values)] \in SectionsPlace(b)
    BY DEF NextSection
<1>1. s.pos \in 0..Len(b) /\ s.values \in Seq(Seq(DnsQuestion) \cup Seq(DnsRecord))
    BY DEF SectionsPlace
<1>2. U16(h.values[2 + i]) \in Nat
    BY HeaderTypes, U16Types
<1>3. r \in SectionPlace(b, i)
    BY <1>1, <1>2, ReadSectionTraces
<1>4. r.pos \in 0..Len(b) /\ r.values \in Seq(DnsQuestion) \cup Seq(DnsRecord)
    BY <1>3 DEF SectionPlace, ItemValue
<1> QED
    BY <1>1, <1>4 DEF SectionsPlace

(* The four sections, one after the other.                                 *)
LEMMA ReadSectionsRounds ==
    ASSUME NEW b \in Seq(Byte), NEW h \in ReadFields(b, 0, HeaderFields)
    PROVE  \E g : /\ g[0] = {[pos |-> h.pos, values |-> <<>>]}
                  /\ \A k \in 1..4 : g[k] = NextSection(b, h, g[k - 1], k)
                  /\ ReadSections(b, h) = g[4]
<1> DEFINE four == <<1, 2, 3, 4>>
           n == 4
           V == SUBSET SectionsPlace(b)
           base == {[pos |-> h.pos, values |-> <<>>]}
           step == [x \in V \X (1..n) |-> NextSection(b, h, x[1], four[x[2]])]
           fold == CHOOSE iter : iter = [t \in SUBSET (DOMAIN four) |->
                      IF t = {} THEN base ELSE NextSection(b, h, iter[t \ {Max(t)}], four[Max(t)])]
           g == [k \in 0..n |-> fold[1..k]]
<1>1. n \in Nat /\ DOMAIN four = 1..n /\ \A k \in 1..n : four[k] = k /\ k \in 1..4
    OBVIOUS
<1>2. base \in V
    BY HeaderTypes DEF SectionsPlace
<1> HIDE DEF four, n
<1>3. step \in [V \X (1..n) -> V]
    BY <1>1, NextSectionTypes
<1>4. PICK f : Solves(f, n, V, base, step)
  <2> HIDE DEF V, base, step
  <2> QED
      BY <1>1, <1>2, <1>3, FoldExists
<1>5. f = [t \in SUBSET (DOMAIN four) |->
             IF t = {} THEN base ELSE NextSection(b, h, f[t \ {Max(t)}], four[Max(t)])]
  <2>1. \A v \in V, k \in 1..n : step[<<v, k>>] = NextSection(b, h, v, four[k])
      OBVIOUS
  <2> HIDE DEF V, step
  <2>2. /\ f = [t \in SUBSET (1..n) |->
                   IF t = {} THEN base ELSE step[<<f[t \ {Max(t)}], Max(t)>>]]
        /\ \A t \in SUBSET (1..n) : t # {} => Max(t) \in 1..n /\ f[t \ {Max(t)}] \in V
      BY <1>1, <1>4, SolvesSteps
  <2>3. DOMAIN four = 1..n
      BY <1>1
  <2> QED
      BY <2>1, <2>2, <2>3
<1>6. fold = [t \in SUBSET (DOMAIN four) |->
                IF t = {} THEN base ELSE NextSection(b, h, fold[t \ {Max(t)}], four[Max(t)])]
    BY <1>5
<1>7. ReadSections(b, h) = fold[1..n]
    BY <1>1 DEF ReadSections, FoldLeft, MapThenFoldSet, NextSection, four, n
<1> HIDE DEF fold
<1>8. fold[{}] = base /\ 1..0 = {}
    BY <1>6
<1>9. ASSUME NEW k \in 1..n
      PROVE  fold[1..k] = NextSection(b, h, fold[1..(k - 1)], k)
  <2>1. 1..k \in SUBSET (DOMAIN four) /\ four[k] = k
      BY <1>1
  <2>2. Max(1..k) = k /\ (1..k) \ {Max(1..k)} = 1..(k - 1) /\ 1..k # {}
      BY <2>1, MaxOfPrefix
  <2> QED
      BY <1>6, <2>1, <2>2
<1>10. g[0] = base /\ g[n] = fold[1..n] /\ \A k \in 1..n : g[k] = NextSection(b, h, g[k - 1], k)
    BY <1>1, <1>8, <1>9
<1> HIDE DEF g, base
<1> QED
    BY <1>7, <1>10 DEF base, n

LEMMA Appended ==
    ASSUME NEW w, NEW x, NEW y
    PROVE  /\ Append(<<>>, w) = <<w>> /\ Append(<<w>>, x) = <<w, x>>
           /\ Append(<<w, x>>, y) = <<w, x, y>>
<1> DEFINE S == {w, x, y}
<1>1. w \in S /\ x \in S /\ y \in S
    OBVIOUS
<1> HIDE DEF S
<1>2. Append(<<>>, w) = <<w>>
    BY <1>1
<1>3. Append(<<w>>, x) = <<w, x>>
  <2> DEFINE s == Append(<<w>>, x)
  <2>1. s \in Seq(S) /\ Len(s) = 2 /\ s[1] = w /\ s[2] = x
      BY <1>1
  <2> HIDE DEF s
  <2>2. s = <<s[1], s[2]>>
      BY <2>1
  <2> QED
      BY <2>1, <2>2 DEF s
<1>4. Append(<<w, x>>, y) = <<w, x, y>>
  <2> DEFINE s == Append(<<w, x>>, y)
  <2>1. s \in Seq(S) /\ Len(s) = 3 /\ s[1] = w /\ s[2] = x /\ s[3] = y
      BY <1>1
  <2> HIDE DEF s
  <2>2. s = <<s[1], s[2], s[3]>>
      BY <2>1
  <2> QED
      BY <2>1, <2>2 DEF s
<1> QED
    BY <1>2, <1>3, <1>4

LEMMA AppendedToThree ==
    ASSUME NEW w, NEW x, NEW y, NEW z
    PROVE  Append(<<w, x, y>>, z) = <<w, x, y, z>>
<1> DEFINE S == {w, x, y, z}
           s == Append(<<w, x, y>>, z)
<1>1. w \in S /\ x \in S /\ y \in S /\ z \in S
    OBVIOUS
<1> HIDE DEF S
<1>2. s \in Seq(S) /\ Len(s) = 4 /\ s[1] = w /\ s[2] = x /\ s[3] = y /\ s[4] = z
    BY <1>1
<1> HIDE DEF s
<1>3. s = <<s[1], s[2], s[3], s[4]>>
    BY <1>2
<1> QED
    BY <1>2, <1>3 DEF s

LEMMA NextSectionPart ==
    ASSUME NEW b \in Seq(Byte), NEW h, NEW i, NEW S, NEW t \in NextSection(b, h, S, i)
    PROVE  \E s \in S : \E r \in ReadSection(b, s.pos, i, U16(h.values[2 + i])) :
              t = [pos |-> r.pos, values |-> Append(s.values, r.values)]
BY DEF NextSection

(* What a packet is made of.                                               *)
Parts(p, b, h, s1, s2, s3, s4) ==
    /\ U16(h.values[3]) <= 1
    /\ s1 \in ReadSection(b, 12, 1, U16(h.values[3]))
    /\ s2 \in ReadSection(b, s1.pos, 2, U16(h.values[4]))
    /\ s3 \in ReadSection(b, s2.pos, 3, U16(h.values[5]))
    /\ s4 \in ReadSection(b, s3.pos, 4, U16(h.values[6]))
    /\ p = [id |-> h.values[1], flags |-> Bits(U16(h.values[2])),
            question |-> s1.values, answers |-> s2.values,
            authorities |-> s3.values, additionals |-> s4.values]

LEMMA ReadPacketParts ==
    ASSUME NEW b \in Seq(Byte), NEW p \in ReadPacket(b)
    PROVE  \E h \in ReadFields(b, 0, HeaderFields) : \E s1, s2, s3, s4 :
              Parts(p, b, h, s1, s2, s3, s4)
<1>1. PICK h \in ReadFields(b, 0, HeaderFields) :
         /\ U16(h.values[3]) <= 1
         /\ \E s \in ReadSections(b, h) :
               p = [id |-> h.values[1], flags |-> Bits(U16(h.values[2])),
                    question |-> s.values[1], answers |-> s.values[2],
                    authorities |-> s.values[3], additionals |-> s.values[4]]
    BY DEF ReadPacket, HeaderFields
<1>2. PICK s \in ReadSections(b, h) :
         p = [id |-> h.values[1], flags |-> Bits(U16(h.values[2])),
              question |-> s.values[1], answers |-> s.values[2],
              authorities |-> s.values[3], additionals |-> s.values[4]]
    BY <1>1
<1>3. PICK g : /\ g[0] = {[pos |-> h.pos, values |-> <<>>]}
               /\ \A k \in 1..4 : g[k] = NextSection(b, h, g[k - 1], k)
               /\ ReadSections(b, h) = g[4]
    BY ReadSectionsRounds
<1>4. /\ g[1] = NextSection(b, h, g[0], 1) /\ g[2] = NextSection(b, h, g[1], 2)
      /\ g[3] = NextSection(b, h, g[2], 3) /\ g[4] = NextSection(b, h, g[3], 4)
  <2>1. /\ 1 \in 1..4 /\ 2 \in 1..4 /\ 3 \in 1..4 /\ 4 \in 1..4
        /\ 1 - 1 = 0 /\ 2 - 1 = 1 /\ 3 - 1 = 2 /\ 4 - 1 = 3
      OBVIOUS
  <2> QED
      BY <1>3, <2>1
<1>5. PICK t3 \in g[3] : \E r \in ReadSection(b, t3.pos, 4, U16(h.values[6])) :
         s = [pos |-> r.pos, values |-> Append(t3.values, r.values)]
  <2>1. s \in NextSection(b, h, g[3], 4) /\ 2 + 4 = 6
      BY <1>3, <1>4
  <2> QED
      BY <2>1, NextSectionPart
<1>6. PICK t2 \in g[2] : \E r \in ReadSection(b, t2.pos, 3, U16(h.values[5])) :
         t3 = [pos |-> r.pos, values |-> Append(t2.values, r.values)]
  <2>1. t3 \in NextSection(b, h, g[2], 3) /\ U16(h.values[2 + 3]) = U16(h.values[5])
      BY <1>4, <1>5
  <2> QED
      BY <2>1 DEF NextSection
<1>7. PICK t1 \in g[1] : \E r \in ReadSection(b, t1.pos, 2, U16(h.values[4])) :
         t2 = [pos |-> r.pos, values |-> Append(t1.values, r.values)]
  <2>1. t2 \in NextSection(b, h, g[1], 2) /\ 2 + 2 = 4
      BY <1>4, <1>6
  <2> QED
      BY <2>1, NextSectionPart
<1>8. PICK t0 \in g[0] : \E r \in ReadSection(b, t0.pos, 1, U16(h.values[3])) :
         t1 = [pos |-> r.pos, values |-> Append(t0.values, r.values)]
  <2>1. t1 \in NextSection(b, h, g[0], 1) /\ 2 + 1 = 3
      BY <1>4, <1>7
  <2> QED
      BY <2>1, NextSectionPart
<1>9. t0.pos = 12 /\ t0.values = <<>>
  <2>1. h.pos = 12
      BY HeaderTypes
  <2> QED
      BY <1>3, <1>8, <2>1
<1>10. PICK s1 \in ReadSection(b, 12, 1, U16(h.values[3])) :
          t1.pos = s1.pos /\ t1.values = <<s1.values>>
    BY <1>8, <1>9, Appended
<1>11. PICK s2 \in ReadSection(b, s1.pos, 2, U16(h.values[4])) :
          t2.pos = s2.pos /\ t2.values = <<s1.values, s2.values>>
  <2>1. PICK r \in ReadSection(b, t1.pos, 2, U16(h.values[4])) :
           t2 = [pos |-> r.pos, values |-> Append(t1.values, r.values)]
      BY <1>7
  <2>2. Append(<<s1.values>>, r.values) = <<s1.values, r.values>>
      BY Appended
  <2>3. t2.pos = r.pos /\ t2.values = <<s1.values, r.values>>
      BY <1>10, <2>1, <2>2
  <2> QED
      BY <1>10, <2>1, <2>3
<1>12. PICK s3 \in ReadSection(b, s2.pos, 3, U16(h.values[5])) :
          t3.pos = s3.pos /\ t3.values = <<s1.values, s2.values, s3.values>>
  <2>1. PICK r \in ReadSection(b, t2.pos, 3, U16(h.values[5])) :
           t3 = [pos |-> r.pos, values |-> Append(t2.values, r.values)]
      BY <1>6
  <2>2. Append(<<s1.values, s2.values>>, r.values) = <<s1.values, s2.values, r.values>>
      BY Appended
  <2>3. t3.pos = r.pos /\ t3.values = <<s1.values, s2.values, r.values>>
      BY <1>11, <2>1, <2>2
  <2> QED
      BY <1>11, <2>1, <2>3
<1>13. PICK s4 \in ReadSection(b, s3.pos, 4, U16(h.values[6])) :
          s.values = <<s1.values, s2.values, s3.values, s4.values>>
  <2>1. PICK r \in ReadSection(b, t3.pos, 4, U16(h.values[6])) :
           s = [pos |-> r.pos, values |-> Append(t3.values, r.values)]
      BY <1>5
  <2>2. Append(<<s1.values, s2.values, s3.values>>, r.values)
           = <<s1.values, s2.values, s3.values, r.values>>
      BY AppendedToThree
  <2>3. s.pos = r.pos /\ s.values = <<s1.values, s2.values, s3.values, r.values>>
      BY <1>12, <2>1, <2>2
  <2> QED
      BY <1>12, <2>1, <2>3
<1>14. Parts(p, b, h, s1, s2, s3, s4)
    BY <1>1, <1>2, <1>10, <1>11, <1>12, <1>13 DEF Parts
<1> QED
    BY <1>14

LEMMA PartsTypes ==
    ASSUME NEW b \in Seq(Byte), NEW h \in ReadFields(b, 0, HeaderFields),
           NEW p, NEW s1, NEW s2, NEW s3, NEW s4, Parts(p, b, h, s1, s2, s3, s4)
    PROVE  /\ s1 \in SectionPlace(b, 1) /\ s2 \in SectionPlace(b, 2)
           /\ s3 \in SectionPlace(b, 3) /\ s4 \in SectionPlace(b, 4)
           /\ 12 \in 0..Len(b) /\ s1.pos \in 0..Len(b) /\ s2.pos \in 0..Len(b)
           /\ s3.pos \in 0..Len(b)
           /\ \A i \in 1..6 : U16(h.values[i]) \in Nat
<1>1. 12 \in 0..Len(b) /\ \A i \in 1..6 : U16(h.values[i]) \in Nat
  <2>1. 12 <= Len(b) /\ Len(b) \in Nat /\ \A i \in 1..6 : h.values[i] \in Bytes(2)
      BY HeaderTypes
  <2>2. \A i \in 1..6 : U16(h.values[i]) \in Nat
      BY <2>1, U16Types
  <2> QED
      BY <2>1, <2>2
<1>2. /\ U16(h.values[3]) \in Nat /\ U16(h.values[4]) \in Nat
      /\ U16(h.values[5]) \in Nat /\ U16(h.values[6]) \in Nat
  <2>1. 3 \in 1..6 /\ 4 \in 1..6 /\ 5 \in 1..6 /\ 6 \in 1..6
      OBVIOUS
  <2> QED
      BY <1>1, <2>1
<1>3. s1 \in SectionPlace(b, 1) /\ s1.pos \in 0..Len(b)
    BY <1>1, <1>2, ReadSectionTraces DEF Parts, SectionPlace
<1>4. s2 \in SectionPlace(b, 2) /\ s2.pos \in 0..Len(b)
    BY <1>2, <1>3, ReadSectionTraces DEF Parts, SectionPlace
<1>5. s3 \in SectionPlace(b, 3) /\ s3.pos \in 0..Len(b)
    BY <1>2, <1>4, ReadSectionTraces DEF Parts, SectionPlace
<1>6. s4 \in SectionPlace(b, 4)
    BY <1>2, <1>5, ReadSectionTraces DEF Parts
<1> QED
    BY <1>1, <1>3, <1>4, <1>5, <1>6

(* Whatever a datagram holds, what is read of it is a packet.              *)
LEMMA ReadPacketTypes ==
    ASSUME NEW b \in Seq(Byte)
    PROVE  ReadPacket(b) \subseteq Packet
<1> SUFFICES ASSUME NEW p \in ReadPacket(b)
             PROVE  p \in Packet
    OBVIOUS
<1>1. PICK h \in ReadFields(b, 0, HeaderFields) : \E s1, s2, s3, s4 :
         Parts(p, b, h, s1, s2, s3, s4)
    BY ReadPacketParts
<1>2. PICK s1, s2, s3, s4 : Parts(p, b, h, s1, s2, s3, s4)
    BY <1>1
<1>3. /\ s1.values \in Seq(DnsQuestion) /\ s2.values \in Seq(DnsRecord)
      /\ s3.values \in Seq(DnsRecord) /\ s4.values \in Seq(DnsRecord)
    BY <1>2, PartsTypes DEF SectionPlace, ItemValue
<1>4. h.values[1] \in Bytes(2)
  <2>1. 1 \in 1..6
      OBVIOUS
  <2> QED
      BY <2>1, HeaderTypes
<1>5. Bits(U16(h.values[2])) \in SUBSET (0..15)
    BY DEF Bits
<1>6. p = [id |-> h.values[1], flags |-> Bits(U16(h.values[2])),
            question |-> s1.values, answers |-> s2.values,
            authorities |-> s3.values, additionals |-> s4.values]
    BY <1>2 DEF Parts
<1> QED
    BY <1>3, <1>4, <1>5, <1>6 DEF Packet

-----------------------------------------------------------------------------
(* Writing *)

LEMMA SumTypes ==
    ASSUME NEW ns \in Seq(Int)
    PROVE  SumOf(ns) \in Int
<1> DEFINE n == Len(ns)
           step == [x \in Int \X (1..n) |-> x[1] + ns[x[2]]]
           fold == CHOOSE iter : iter = [t \in SUBSET (DOMAIN ns) |->
                      IF t = {} THEN 0 ELSE iter[t \ {Max(t)}] + ns[Max(t)]]
<1>1. n \in Nat /\ DOMAIN ns = 1..n /\ 0 \in Int
    OBVIOUS
<1>2. step \in [Int \X (1..n) -> Int]
    BY <1>1
<1>3. PICK f : Solves(f, n, Int, 0, step)
  <2> HIDE DEF n, step
  <2> QED
      BY <1>1, <1>2, FoldExists
<1>4. f = [t \in SUBSET (DOMAIN ns) |->
             IF t = {} THEN 0 ELSE f[t \ {Max(t)}] + ns[Max(t)]]
  <2>1. \A v \in Int, k \in 1..n : step[<<v, k>>] = v + ns[k]
      OBVIOUS
  <2> HIDE DEF step
  <2>2. /\ f = [t \in SUBSET (1..n) |->
                   IF t = {} THEN 0 ELSE step[<<f[t \ {Max(t)}], Max(t)>>]]
        /\ \A t \in SUBSET (1..n) : t # {} => Max(t) \in 1..n /\ f[t \ {Max(t)}] \in Int
      BY <1>1, <1>3, SolvesSteps
  <2> QED
      BY <1>1, <2>1, <2>2
<1>5. fold = [t \in SUBSET (DOMAIN ns) |->
                IF t = {} THEN 0 ELSE fold[t \ {Max(t)}] + ns[Max(t)]]
    BY <1>4
<1>6. SumOf(ns) = fold[1..n]
    BY <1>1 DEF SumOf, FoldLeft, MapThenFoldSet
<1> HIDE DEF fold
<1>7. fold[{}] = 0
    BY <1>1, <1>5
<1>8. ASSUME NEW k \in 1..n, fold[1..(k - 1)] \in Int
      PROVE  fold[1..k] \in Int
  <2>1. 1..k \in SUBSET (DOMAIN ns) /\ ns[k] \in Int
      BY <1>1
  <2>2. fold[1..k] = fold[1..(k - 1)] + ns[k]
      BY <1>1, <1>5, <2>1, MaxOfPrefix
  <2> QED
      BY <1>8, <2>1, <2>2
<1>9. fold[1..n] \in Int
  <2> HIDE DEF n
  <2> QED
      BY <1>1, <1>7, <1>8, FoldInvariant
<1> QED
    BY <1>6, <1>9

LEMMA U16BytesTypes ==
    ASSUME NEW n \in Int
    PROVE  U16Bytes(n) \in Bytes(2)
<1>1. (n \div 256) % 256 \in Byte /\ n % 256 \in Byte
    BY DEF Byte
<1> QED
    BY <1>1 DEF U16Bytes, Bytes

LEMMA NumberTypes ==
    ASSUME NEW bits
    PROVE  Number(bits) \in Int
<1> DEFINE ns == [i \in 1..16 |-> IF i - 1 \in bits THEN 2 ^ (i - 1) ELSE 0]
<1>1. \A i \in 1..16 : 2 ^ (i - 1) \in Int
    OBVIOUS
<1>2. ns \in Seq(Int)
    BY <1>1
<1> HIDE DEF ns
<1>3. SumOf(ns) \in Int
    BY <1>2, SumTypes
<1> QED
    BY <1>3 DEF ns, Number

LEMMA WriteQnameTypes ==
    ASSUME NEW name \in Seq(Byte), Writable(name)
    PROVE  WriteQname(name) \in Seq(Byte) /\ WireLength(name) \in Int
<1>1. CASE IsRoot(name)
    BY <1>1 DEF WriteQname, WireLength, Byte
<1>2. CASE ~IsRoot(name)
    BY <1>2, WrittenName DEF WireLength
<1> QED
    BY <1>1, <1>2

(* The names in a record can be written.                                   *)
Writeable(r) ==
    /\ Writable(r.name)
    /\ \A i \in DOMAIN r.data : LayoutOf(r)[i] = AName => Writable(r.data[i])

LEMMA WriteRecordTypes ==
    ASSUME NEW r \in DnsRecord, Writeable(r)
    PROVE  WriteRecord(r) \in Seq(Byte)
<1> DEFINE data == [i \in DOMAIN r.data |->
                      IF LayoutOf(r)[i] = AName THEN WriteQname(r.data[i]) ELSE r.data[i]]
           lengths == [i \in DOMAIN r.data |->
                         IF LayoutOf(r)[i] = AName THEN WireLength(r.data[i]) ELSE Len(r.data[i])]
<1>1. /\ r.name \in Seq(Byte) /\ r.data \in Seq(Seq(Byte))
      /\ r.type \in Seq(Byte) /\ r.class \in Seq(Byte) /\ r.ttl \in Seq(Byte)
    BY DEF DnsRecord, Bytes
<1>2. DOMAIN r.data = 1..Len(r.data) /\ Len(r.data) \in Nat
    BY <1>1
<1>3. ASSUME NEW i \in 1..Len(r.data)
      PROVE  data[i] \in Seq(Byte) /\ lengths[i] \in Int
  <2>1. r.data[i] \in Seq(Byte) /\ Len(r.data[i]) \in Int
      BY <1>1
  <2> QED
      BY <1>2, <2>1, WriteQnameTypes DEF Writeable
<1>4. data \in Seq(Seq(Byte)) /\ lengths \in Seq(Int)
  <2> DEFINE n == Len(r.data)
  <2>1. data = [i \in 1..n |-> data[i]] /\ lengths = [i \in 1..n |-> lengths[i]]
      BY <1>2
  <2> HIDE DEF data, lengths
  <2>2. data \in [1..n -> Seq(Byte)] /\ lengths \in [1..n -> Int]
      BY <1>3, <2>1
  <2> HIDE DEF n
  <2> QED
      BY <1>2, <2>2 DEF n
<1>5. WriteData(r) \in Seq(Byte)
    BY <1>4, FlattenSeqType DEF WriteData
<1>6. RdLength(r) \in Int
    BY <1>4, SumTypes DEF RdLength
<1>7. WriteQname(r.name) \in Seq(Byte)
    BY <1>1, WriteQnameTypes DEF Writeable
<1>8. U16Bytes(RdLength(r)) \in Seq(Byte)
    BY <1>6, U16BytesTypes DEF Bytes
<1> HIDE DEF data, lengths
<1> QED
    BY <1>1, <1>5, <1>7, <1>8 DEF WriteRecord

LEMMA WriteQuestionTypes ==
    ASSUME NEW q \in DnsQuestion, Writable(q.name)
    PROVE  WriteQuestion(q) \in Seq(Byte)
<1>1. q.name \in Seq(Byte) /\ q.type \in Seq(Byte) /\ q.class \in Seq(Byte)
    BY DEF DnsQuestion, Bytes
<1>2. WriteQname(q.name) \in Seq(Byte)
    BY <1>1, WriteQnameTypes
<1> QED
    BY <1>1, <1>2 DEF WriteQuestion

LEMMA RecordsTypes ==
    ASSUME NEW p \in Packet
    PROVE  RecordsOf(p) \in Seq(DnsRecord)
BY DEF Packet, RecordsOf

LEMMA NamesAreWritable ==
    ASSUME NEW p \in Packet, \A name \in NamesIn(p) : Writable(name)
    PROVE  /\ \A i \in DOMAIN p.question : Writable(p.question[i].name)
           /\ \A i \in DOMAIN RecordsOf(p) : Writeable(RecordsOf(p)[i])
<1>1. \A i \in DOMAIN p.question : p.question[i].name \in NamesIn(p)
    BY DEF NamesIn
<1>2. \A i \in DOMAIN RecordsOf(p) : RecordsOf(p)[i].name \in NamesIn(p)
    BY DEF NamesIn
<1>3. \A i \in DOMAIN RecordsOf(p) : \A k \in DOMAIN RecordsOf(p)[i].data :
         LayoutOf(RecordsOf(p)[i])[k] = AName => RecordsOf(p)[i].data[k] \in NamesIn(p)
    BY DEF NamesIn
<1> QED
    BY <1>1, <1>2, <1>3 DEF Writeable

LEMMA PacketBytesTypes ==
    ASSUME NEW p \in Packet, \A name \in NamesIn(p) : Writable(name)
    PROVE  PacketBytes(p) \in Seq(Byte)
<1> DEFINE questions == [i \in DOMAIN p.question |-> WriteQuestion(p.question[i])]
           records == [i \in DOMAIN RecordsOf(p) |-> WriteRecord(RecordsOf(p)[i])]
<1>1. /\ p.id \in Seq(Byte) /\ p.question \in Seq(DnsQuestion)
      /\ p.answers \in Seq(DnsRecord) /\ p.authorities \in Seq(DnsRecord)
      /\ p.additionals \in Seq(DnsRecord) /\ RecordsOf(p) \in Seq(DnsRecord)
    BY RecordsTypes DEF Packet, Bytes
<1>2. questions \in Seq(Seq(Byte))
  <2>1. \A i \in 1..Len(p.question) : WriteQuestion(p.question[i]) \in Seq(Byte)
      BY <1>1, WriteQuestionTypes, NamesAreWritable
  <2>2. DOMAIN p.question = 1..Len(p.question) /\ Len(p.question) \in Nat
      BY <1>1
  <2> QED
      BY <2>1, <2>2
<1>3. records \in Seq(Seq(Byte))
  <2>1. ASSUME NEW i \in 1..Len(RecordsOf(p))
        PROVE  WriteRecord(RecordsOf(p)[i]) \in Seq(Byte)
    <3>1. i \in DOMAIN RecordsOf(p) /\ RecordsOf(p)[i] \in DnsRecord
        BY <1>1
    <3>2. Writeable(RecordsOf(p)[i])
        BY <3>1, NamesAreWritable
    <3> QED
        BY <3>1, <3>2, WriteRecordTypes
  <2>2. DOMAIN RecordsOf(p) = 1..Len(RecordsOf(p)) /\ Len(RecordsOf(p)) \in Nat
      BY <1>1
  <2> QED
      BY <2>1, <2>2
<1>4. FlattenSeq(questions) \in Seq(Byte) /\ WriteAll(RecordsOf(p)) \in Seq(Byte)
  <2> HIDE DEF questions, records
  <2>1. FlattenSeq(questions) \in Seq(Byte) /\ FlattenSeq(records) \in Seq(Byte)
      BY <1>2, <1>3, FlattenSeqType
  <2> QED
      BY <2>1 DEF WriteAll, records
<1>5. /\ Len(p.question) \in Int /\ Len(p.answers) \in Int
      /\ Len(p.authorities) \in Int /\ Len(p.additionals) \in Int
    BY <1>1
<1>6. /\ U16Bytes(Number(p.flags)) \in Seq(Byte)
      /\ U16Bytes(Len(p.question)) \in Seq(Byte) /\ U16Bytes(Len(p.answers)) \in Seq(Byte)
      /\ U16Bytes(Len(p.authorities)) \in Seq(Byte) /\ U16Bytes(Len(p.additionals)) \in Seq(Byte)
    BY <1>5, NumberTypes, U16BytesTypes DEF Bytes
<1> QED
    BY <1>1, <1>4, <1>6 DEF PacketBytes

(* What is written is a datagram within its capacity. *)
LEMMA WritePacketTypes ==
    ASSUME NEW p \in Packet, NEW capacity \in Nat, NEW b \in WritePacket(p, capacity)
    PROVE  b \in Seq(Byte) /\ Len(b) <= capacity /\ Len(b) <= MaxSize
<1>1. /\ \A name \in NamesIn(p) : Writable(name)
      /\ b = PacketBytes(p) /\ Len(b) <= MinOf(capacity, MaxSize)
    BY DEF WritePacket
<1>2. b \in Seq(Byte) /\ Len(b) \in Nat
    BY <1>1, PacketBytesTypes
<1> QED
    BY <1>1, <1>2, SizeConstants DEF MinOf

-----------------------------------------------------------------------------
(* EDNS *)

(* The OPT records of a section, and the others. *)
LEMMA SelectedTypes ==
    ASSUME NEW rs \in Seq(DnsRecord)
    PROVE  /\ Selected(rs, IsOpt) \in Seq(DnsRecord)
           /\ Selected(rs, LAMBDA r : ~IsOpt(r)) \in Seq(DnsRecord)
<1> DEFINE opts == [i \in DOMAIN rs |-> IF IsOpt(rs[i]) THEN <<rs[i]>> ELSE <<>>]
           others == [i \in DOMAIN rs |-> IF ~IsOpt(rs[i]) THEN <<rs[i]>> ELSE <<>>]
<1>1. opts \in Seq(Seq(DnsRecord)) /\ others \in Seq(Seq(DnsRecord))
  <2>1. DOMAIN rs = 1..Len(rs) /\ Len(rs) \in Nat
      OBVIOUS
  <2>2. \A i \in 1..Len(rs) : opts[i] \in Seq(DnsRecord) /\ others[i] \in Seq(DnsRecord)
      OBVIOUS
  <2>3. opts = [i \in 1..Len(rs) |-> opts[i]] /\ others = [i \in 1..Len(rs) |-> others[i]]
      BY <2>1
  <2> HIDE DEF opts, others
  <2> QED
      BY <2>1, <2>2, <2>3
<1> HIDE DEF opts, others
<1>2. FlattenSeq(opts) \in Seq(DnsRecord) /\ FlattenSeq(others) \in Seq(DnsRecord)
    BY <1>1, FlattenSeqType
<1> QED
    BY <1>2 DEF Selected, opts, others

LEMMA WithoutOptTypes ==
    ASSUME NEW p \in Packet
    PROVE  WithoutOpt(p) \in Packet
<1>1. Selected(p.additionals, LAMBDA r : ~IsOpt(r)) \in Seq(DnsRecord)
    BY SelectedTypes DEF Packet
<1> QED
    BY <1>1 DEF WithoutOpt, Packet

LEMMA WithOptTypes ==
    ASSUME NEW p \in Packet, NEW size \in Int, NEW dnssecOk
    PROVE  WithOpt(p, size, dnssecOk) \in Packet
<1>1. OPT \in Bytes(2) /\ <<0, 0, IF dnssecOk THEN 128 ELSE 0, 0>> \in Bytes(4)
      /\ <<0, 0>> \in Bytes(2) /\ <<>> \in Seq(Byte) /\ << <<>> >> \in Seq(Seq(Byte))
  <2>1. 0 \in Byte /\ 41 \in Byte /\ (IF dnssecOk THEN 128 ELSE 0) \in Byte
      BY DEF Byte
  <2> QED
      BY <2>1 DEF OPT, Bytes
<1>2. U16Bytes(size) \in Bytes(2)
    BY U16BytesTypes
<1>3. OptRecord(size, dnssecOk) \in DnsRecord
    BY <1>1, <1>2 DEF OptRecord, DnsRecord
<1>4. p.additionals \in Seq(DnsRecord)
    BY DEF Packet
<1>5. Append(p.additionals, OptRecord(size, dnssecOk)) \in Seq(DnsRecord)
    BY <1>3, <1>4
<1> QED
    BY <1>5 DEF WithOpt, Packet

(* The size of EDNS is in bounds, and no more than what was said.          *)
LEMMA EdnsTypes ==
    ASSUME NEW p \in Packet, NEW e \in Edns(p)
    PROVE  LET opts == Selected(p.additionals, IsOpt)
           IN  /\ e.size \in Nat /\ opts # <<>> /\ U16(opts[1].class) \in Nat
               /\ e.size <= MaxOf(DefaultSize, U16(opts[1].class))
<1> DEFINE opts == Selected(p.additionals, IsOpt)
<1>1. opts \in Seq(DnsRecord)
    BY SelectedTypes DEF Packet
<1>2. 1 \in DOMAIN opts /\ e.size = MinOf(MaxOf(DefaultSize, U16(opts[1].class)), MaxSize)
    BY DEF Edns
<1> HIDE DEF opts
<1>3. opts[1] \in DnsRecord
    BY <1>1, <1>2
<1>4. U16(opts[1].class) \in Nat
    BY <1>3, U16Types DEF DnsRecord
<1>5. opts # <<>>
    BY <1>2
<1>6. e.size \in Nat /\ e.size <= MaxOf(DefaultSize, U16(opts[1].class))
  <2> DEFINE n == U16(opts[1].class)
  <2>1. n \in Nat /\ e.size = MinOf(MaxOf(DefaultSize, n), MaxSize)
      BY <1>2, <1>4
  <2> HIDE DEF n
  <2>2. e.size \in Nat /\ e.size <= MaxOf(DefaultSize, n)
      BY <2>1, SizeConstants DEF MinOf, MaxOf
  <2> QED
      BY <2>2 DEF n
<1> QED
    BY <1>4, <1>5, <1>6 DEF opts

-----------------------------------------------------------------------------
(* The query on its way *)

LEMMA ReceivedTypes ==
    ASSUME NEW b \in Seq(Byte)
    PROVE  Received(b) \in Seq(Byte) /\ Len(Received(b)) <= MaxSize
<1> DEFINE n == MinOf(Len(b), MaxSize)
<1>1. n \in Nat /\ n <= Len(b) /\ n <= MaxSize
    BY SizeConstants DEF MinOf
<1> HIDE DEF n
<1>2. SubSeq(b, 1, n) \in Seq(Byte) /\ Len(SubSeq(b, 1, n)) = n
    BY <1>1, Slice
<1> QED
    BY <1>1, <1>2 DEF Received, n

LEMMA NoPacketTypes == NoPacket \in Packet
<1>1. <<0, 0>> \in Bytes(2)
    BY DEF Bytes, Byte
<1> QED
    BY <1>1 DEF NoPacket, Packet

(* From Take on there is a request; what was heard is what was read of the *)
(* answer; and a reply was written for the client's capacity.              *)
Understood == stage \in {"asking", "waiting", "replying", "sent"} => Requests # {}
Heard == answer # <<>> => resolved \in ReadPacket(answer)
Fitting == stage = "sent" => Len(reply) <= Capacity

Inv == TypeOK /\ Understood /\ Heard /\ Fitting

LEMMA RequestTypes ==
    ASSUME query \in Query, Requests # {}
    PROVE  /\ Request \in Packet /\ Capacity \in Nat
           /\ Capacity <= LET opts == Selected(Request.additionals, IsOpt)
                          IN  IF opts = <<>> THEN DefaultSize
                              ELSE MaxOf(DefaultSize, U16(opts[1].class))
<1>1. Request \in Packet
  <2>1. Received(query) \in Seq(Byte)
      BY ReceivedTypes, RelayConstants
  <2>2. Request \in Requests
      BY DEF Request
  <2> QED
      BY <2>1, <2>2, ReadPacketTypes DEF Requests
<1> DEFINE opts == Selected(Request.additionals, IsOpt)
           limit == IF opts = <<>> THEN DefaultSize ELSE MaxOf(DefaultSize, U16(opts[1].class))
<1>2. CASE Edns(Request) = {}
  <2>1. opts \in Seq(DnsRecord)
      BY <1>1, SelectedTypes DEF Packet
  <2>2. opts = <<>>
    <3>1. 1 \notin DOMAIN opts
        BY <1>2 DEF Edns
    <3> HIDE DEF opts
    <3> QED
        BY <2>1, <3>1
  <2>3. limit = DefaultSize
      BY <2>2
  <2> HIDE DEF opts, limit
  <2>4. Capacity \in Nat /\ Capacity <= limit
      BY <1>2, <2>3, SizeConstants DEF Capacity
  <2> QED
      BY <1>1, <2>4 DEF opts, limit
<1>3. CASE Edns(Request) # {}
  <2> DEFINE e == CHOOSE x \in Edns(Request) : TRUE
  <2>1. e \in Edns(Request) /\ Capacity = e.size
      BY <1>3 DEF Capacity
  <2> HIDE DEF e
  <2>2. /\ e.size \in Nat /\ opts # <<>>
        /\ e.size <= MaxOf(DefaultSize, U16(opts[1].class))
      BY <1>1, <2>1, EdnsTypes
  <2>3. Capacity \in Nat /\ Capacity <= limit
      BY <2>1, <2>2
  <2> QED
      BY <1>1, <2>3
<1> QED
    BY <1>2, <1>3

LEMMA QuestionForTypes ==
    ASSUME NEW p \in Packet
    PROVE  QuestionFor(p) \in Packet
<1> DEFINE q == [NoPacket EXCEPT !.id = p.id, !.question = p.question]
<1>1. q \in Packet
    BY NoPacketTypes DEF Packet
<1> HIDE DEF q
<1>2. MaxSize \in Int
    BY SizeConstants
<1>3. WithOpt(q, MaxSize, FALSE) \in Packet
    BY <1>1, <1>2, WithOptTypes
<1> QED
    BY <1>3 DEF QuestionFor, q

LEMMA ResponseTypes ==
    ASSUME Request \in Packet, resolved \in Packet
    PROVE  Response \in Packet
<1>1. Finalized(resolved) \in Packet
    BY DEF Finalized, Packet
<1>2. ServerFailure(Request) \in Packet
  <2>1. {QR} \cup ServFail \in SUBSET (0..15)
      BY DEF QR, ServFail
  <2> QED
      BY <2>1, NoPacketTypes DEF ServerFailure, Packet
<1>3. ASSUME NEW p \in Packet
      PROVE  Enforced(p) \in Packet
  <2>1. p.flags \in SUBSET (0..15) /\ Request.id \in Bytes(2)
      BY DEF Packet
  <2>2. SetTo((p.flags \cup {QR, RA}) \ {AA}, RD, RD \in Request.flags) \in SUBSET (0..15)
      BY <2>1 DEF SetTo, QR, RA, AA, RD
  <2> QED
      BY <2>1, <2>2 DEF Enforced, Packet
<1> QED
    BY <1>1, <1>2, <1>3 DEF Response

LEMMA ForClientTypes ==
    ASSUME Request \in Packet, NEW p \in Packet
    PROVE  ForClient(p) \in Packet
<1>1. WithoutOpt(p) \in Packet
    BY WithoutOptTypes
<1>2. CASE Edns(Request) = {}
    BY <1>1, <1>2 DEF ForClient
<1>3. CASE Edns(Request) # {}
  <2> DEFINE e == CHOOSE x \in Edns(Request) : TRUE
  <2>1. e \in Edns(Request)
      BY <1>3
  <2>2. ForClient(p) = WithOpt(WithoutOpt(p), e.size, e.dnssecOk)
      BY <1>3 DEF ForClient
  <2> HIDE DEF e
  <2>3. e.size \in Int
      BY <2>1, EdnsTypes
  <2> QED
      BY <1>1, <2>2, <2>3, WithOptTypes
<1> QED
    BY <1>2, <1>3

LEMMA QueryStays ==
    ASSUME query' = query
    PROVE  Requests' = Requests /\ Request' = Request /\ Capacity' = Capacity
BY DEF Requests, Request, Capacity

LEMMA InvInit == Init => Inv
<1> SUFFICES ASSUME Init
             PROVE  Inv
    OBVIOUS
<1>1. <<>> \in Seq(Byte) /\ Len(<<>>) = 0 /\ 0 <= MaxSize
    BY SizeConstants
<1> QED
    BY <1>1, NoPacketTypes
       DEF Init, Inv, TypeOK, Stage, Understood, Heard, Fitting

LEMMA TakeKeeps ==
    ASSUME Inv, Take \/ Ignore
    PROVE  Inv'
<1>1. /\ UNCHANGED <<query, question, answer, resolved, reply>>
      /\ stage' \in {"asking", "dropped"} /\ (stage' = "asking" => Requests # {})
    BY DEF Take, Ignore
<1>2. Requests' = Requests
    BY <1>1, QueryStays
<1> QED
    BY <1>1, <1>2 DEF Inv, TypeOK, Stage, Understood, Heard, Fitting

LEMMA AskKeeps ==
    ASSUME Inv, Ask \/ CannotAsk
    PROVE  Inv'
<1>1. /\ stage = "asking" /\ UNCHANGED <<query, answer, resolved, reply>>
      /\ stage' \in {"waiting", "replying"}
      /\ question' = question \/ question' \in WritePacket(QuestionFor(Request), MaxSize)
    BY DEF Ask, CannotAsk
<1>2. /\ Request \in Packet /\ Requests # {} /\ Requests' = Requests
    BY <1>1, QueryStays, RequestTypes DEF Inv, TypeOK, Understood
<1>3. QuestionFor(Request) \in Packet /\ MaxSize \in Nat
    BY <1>2, QuestionForTypes, SizeConstants
<1>4. question' \in Seq(Byte) /\ Len(question') <= MaxSize
    BY <1>1, <1>3, WritePacketTypes DEF Inv, TypeOK
<1> QED
    BY <1>1, <1>2, <1>4 DEF Inv, TypeOK, Stage, Understood, Heard, Fitting

LEMMA HearKeeps ==
    ASSUME Inv, TimeOut \/ \E b \in Answer : Hear(b) \/ HearNothing(b)
    PROVE  Inv'
<1>1. /\ stage = "waiting" /\ UNCHANGED <<query, question, reply>> /\ stage' = "replying"
      /\ \/ UNCHANGED <<answer, resolved>>
         \/ \E b \in Answer : answer' = Received(b) /\ resolved' \in ReadPacket(Received(b))
    BY DEF Hear, HearNothing, TimeOut
<1>2. Requests' = Requests
    BY <1>1, QueryStays
<1>3. \A b \in Answer : Received(b) \in Seq(Byte) /\ Len(Received(b)) <= MaxSize
    BY ReceivedTypes, RelayConstants
<1>4. /\ answer' \in Seq(Byte) /\ Len(answer') <= MaxSize /\ resolved' \in Packet
      /\ answer' # <<>> => resolved' \in ReadPacket(answer')
    BY <1>1, <1>3, ReadPacketTypes DEF Inv, TypeOK, Heard
<1> QED
    BY <1>1, <1>2, <1>4 DEF Inv, TypeOK, Stage, Understood, Heard, Fitting

LEMMA ReplyKeeps ==
    ASSUME Inv, Reply \/ CannotReply
    PROVE  Inv'
<1>1. /\ stage = "replying" /\ UNCHANGED <<query, question, answer, resolved>>
      /\ \/ stage' = "dropped" /\ reply' = reply
         \/ stage' = "sent" /\ reply' \in WritePacket(ForClient(Response), Capacity)
    BY DEF Reply, CannotReply
<1>2. /\ Request \in Packet /\ Capacity \in Nat /\ Requests # {}
      /\ Requests' = Requests /\ Capacity' = Capacity
    BY <1>1, QueryStays, RequestTypes DEF Inv, TypeOK, Understood
<1>3. ForClient(Response) \in Packet
    BY <1>2, ResponseTypes, ForClientTypes DEF Inv, TypeOK
<1>4. /\ reply' \in Seq(Byte) /\ Len(reply') <= MaxSize
      /\ stage' = "sent" => Len(reply') <= Capacity
    BY <1>1, <1>2, <1>3, WritePacketTypes DEF Inv, TypeOK
<1> QED
    BY <1>1, <1>2, <1>4 DEF Inv, TypeOK, Stage, Understood, Heard, Fitting

LEMMA Invariance == Spec => []Inv
<1>1. Inv /\ [Next]_vars => Inv'
  <2> SUFFICES ASSUME Inv, [Next]_vars
               PROVE  Inv'
      OBVIOUS
  <2>1. CASE Take \/ Ignore
      BY <2>1, TakeKeeps
  <2>2. CASE Ask \/ CannotAsk
      BY <2>2, AskKeeps
  <2>3. CASE TimeOut \/ \E b \in Answer : Hear(b) \/ HearNothing(b)
      BY <2>3, HearKeeps
  <2>4. CASE Reply \/ CannotReply
      BY <2>4, ReplyKeeps
  <2>5. CASE UNCHANGED vars
    <3>1. /\ UNCHANGED <<query, question, answer, resolved, reply, stage>>
          /\ Requests' = Requests /\ Capacity' = Capacity
        BY <2>5, QueryStays DEF vars
    <3> QED
        BY <3>1 DEF Inv, TypeOK, Understood, Heard, Fitting
  <2> QED
      BY <2>1, <2>2, <2>3, <2>4, <2>5 DEF Next
<1> QED
    BY <1>1, InvInit, PTL DEF Spec

(* Whatever clients and name servers send, the program works with packets  *)
(* and datagrams of at most MaxSize bytes.                                 *)
THEOREM TypeCorrect == Spec => []TypeOK
<1>1. Inv => TypeOK
    BY DEF Inv
<1> QED
    BY <1>1, Invariance, PTL

(* No reply is longer than its client takes: what a client says of its     *)
(* size is found in the packet, wherever its OPT record stands, and kept   *)
(* to, whatever the name server's answer grows to without compression.     *)
THEOREM RepliesFitClients == Spec => []ReplyFitsClient
<1>1. Inv => ReplyFitsClient
  <2> SUFFICES ASSUME Inv, stage = "sent"
               PROVE  ReplyFitsClient
      BY DEF ReplyFitsClient
  <2> DEFINE opts == Selected(Request.additionals, IsOpt)
             limit == IF opts = <<>> THEN DefaultSize ELSE MaxOf(DefaultSize, U16(opts[1].class))
  <2>1. Request \in Packet /\ Capacity \in Nat /\ Capacity <= limit
      BY RequestTypes DEF Inv, TypeOK, Understood
  <2>2. Len(reply) <= Capacity /\ Len(reply) \in Nat
      BY DEF Inv, TypeOK, Fitting
  <2>3. limit \in Nat
    <3>1. opts \in Seq(DnsRecord)
        BY <2>1, SelectedTypes DEF Packet
    <3> HIDE DEF opts
    <3>2. opts # <<>> => U16(opts[1].class) \in Nat
      <4>1. opts # <<>> => opts[1] \in DnsRecord
          BY <3>1
      <4> QED
          BY <4>1, U16Types DEF DnsRecord
    <3> QED
        BY <3>2, SizeConstants DEF MaxOf
  <2>4. Len(reply) <= limit
    <3> HIDE DEF limit
    <3> QED
        BY <2>1, <2>2, <2>3
  <2> QED
      BY <2>4 DEF ReplyFitsClient
<1> QED
    BY <1>1, Invariance, PTL

-----------------------------------------------------------------------------
(* Where records stand *)

(* places are the ends of the records rs, from the start of the first.     *)
RecordTrace(places, b, p, rs, e) ==
    /\ places \in [0..Len(rs) -> 0..Len(b)]
    /\ places[0] = p /\ places[Len(rs)] = e
    /\ \A k \in 1..Len(rs) :
          [pos |-> places[k], value |-> rs[k]] \in ReadRecord(b, places[k - 1])

LEMMA TracesJoin ==
    ASSUME NEW b \in Seq(Byte), NEW p, NEW m, NEW e,
           NEW rs \in Seq(DnsRecord), NEW ss \in Seq(DnsRecord),
           NEW x, RecordTrace(x, b, p, rs, m), NEW y, RecordTrace(y, b, m, ss, e)
    PROVE  \E z : RecordTrace(z, b, p, rs \o ss, e)
<1> DEFINE n == Len(rs)
           l == Len(ss)
           z == [k \in 0..(n + l) |-> IF k <= n THEN x[k] ELSE y[k - n]]
           all == rs \o ss
<1>1. /\ n \in Nat /\ l \in Nat /\ Len(all) = n + l
      /\ \A k \in 1..n : all[k] = rs[k]
      /\ \A k \in (n + 1)..(n + l) : all[k] = ss[k - n]
    OBVIOUS
<1>2. /\ x \in [0..n -> 0..Len(b)] /\ x[0] = p /\ x[n] = m
      /\ \A k \in 1..n : [pos |-> x[k], value |-> rs[k]] \in ReadRecord(b, x[k - 1])
    BY DEF RecordTrace
<1>3. /\ y \in [0..l -> 0..Len(b)] /\ y[0] = m /\ y[l] = e
      /\ \A k \in 1..l : [pos |-> y[k], value |-> ss[k]] \in ReadRecord(b, y[k - 1])
    BY DEF RecordTrace
<1> HIDE DEF n, l, all
<1>4. /\ \A k \in 0..n : z[k] = x[k]
      /\ \A k \in 0..l : z[n + k] = y[k]
  <2>1. ASSUME NEW k \in 0..n
        PROVE  z[k] = x[k]
      BY <1>1
  <2>2. ASSUME NEW k \in 0..l
        PROVE  z[n + k] = y[k]
    <3>1. n + k \in 0..(n + l) /\ (n + k) - n = k
        BY <1>1
    <3>2. CASE k = 0
        BY <1>1, <1>2, <1>3, <3>1, <3>2
    <3>3. CASE k # 0
      <4>1. ~(n + k <= n)
          BY <1>1, <3>3
      <4> QED
          BY <3>1, <4>1
    <3> QED
        BY <3>2, <3>3
  <2> HIDE DEF z
  <2> QED
      BY <2>1, <2>2
<1>5. z \in [0..(n + l) -> 0..Len(b)]
  <2>1. \A k \in 0..(n + l) : z[k] \in 0..Len(b)
    <3> SUFFICES ASSUME NEW k \in 0..(n + l)
                 PROVE  z[k] \in 0..Len(b)
        OBVIOUS
    <3>1. CASE k <= n
        BY <1>1, <1>2, <3>1
    <3>2. CASE ~(k <= n)
      <4>1. k - n \in 0..l /\ z[k] = y[k - n]
          BY <1>1, <3>2
      <4> QED
          BY <1>3, <4>1
    <3> QED
        BY <3>1, <3>2
  <2> QED
      BY <2>1
<1> HIDE DEF z
<1>6. z[0] = p /\ z[n + l] = e
  <2>1. 0 \in 0..n /\ l \in 0..l
      BY <1>1
  <2> QED
      BY <1>2, <1>3, <1>4, <2>1
<1>7. ASSUME NEW k \in 1..(n + l)
      PROVE  [pos |-> z[k], value |-> all[k]] \in ReadRecord(b, z[k - 1])
  <2>1. CASE k <= n
    <3>1. k \in 1..n /\ k \in 0..n /\ k - 1 \in 0..n
        BY <1>1, <2>1
    <3> QED
        BY <1>1, <1>2, <1>4, <3>1
  <2>2. CASE ~(k <= n)
    <3> DEFINE j == k - n
    <3>1. /\ j \in 1..l /\ j \in 0..l /\ j - 1 \in 0..l
          /\ n + j = k /\ n + (j - 1) = k - 1 /\ k \in (n + 1)..(n + l)
        BY <1>1, <2>2
    <3>2. z[k] = y[j] /\ z[k - 1] = y[j - 1]
      <4> HIDE DEF j
      <4>1. z[n + j] = y[j] /\ z[n + (j - 1)] = y[j - 1]
          BY <1>4, <3>1
      <4> QED
          BY <3>1, <4>1
    <3>3. all[k] = ss[j]
        BY <1>1, <3>1
    <3> HIDE DEF j
    <3> QED
        BY <1>3, <3>1, <3>2, <3>3
  <2> QED
      BY <2>1, <2>2
<1>8. RecordTrace(z, b, p, all, e)
    BY <1>1, <1>5, <1>6, <1>7 DEF RecordTrace
<1> QED
    BY <1>8 DEF all

(* Where the records start, and where one at p ends, by what is announced. *)
FirstStart(b) ==
    IF SubSeq(b, 5, 6) = <<0, 0>> THEN 12
    ELSE (CHOOSE f \in ReadFields(b, 12, QuestionFields) : TRUE).pos
Announced(b, p) ==
    LET h == CHOOSE f \in ReadFields(b, p, HeadFields) : TRUE
    IN  h.pos + U16(h.values[5])

LEMMA FirstStarts ==
    ASSUME NEW b \in Seq(Byte), NEW h \in ReadFields(b, 0, HeaderFields),
           NEW p, NEW s1, NEW s2, NEW s3, NEW s4, Parts(p, b, h, s1, s2, s3, s4)
    PROVE  s1.pos = FirstStart(b)
<1> DEFINE count == U16(h.values[3])
<1>1. h.values[3] = SubSeq(b, 5, 6) /\ h.values[3] \in Bytes(2) /\ 12 \in 0..Len(b)
  <2>1. 3 \in 1..6 /\ 2 * 3 - 1 = 5 /\ 2 * 3 = 6
      OBVIOUS
  <2> QED
      BY <2>1, HeaderTypes, PartsTypes
<1>2. count \in 0..1
  <2>1. count \in Nat /\ count <= 1
      BY <1>1, U16Types DEF Parts
  <2> QED
      BY <2>1
<1>3. PICK places : SectionTrace(places, b, 12, 1, s1) /\ Len(s1.values) = count
    BY <1>1, <1>2, ReadSectionTraces DEF Parts
<1>4. CASE h.values[3] = <<0, 0>>
  <2>1. count = 0
      BY <1>4 DEF U16
  <2>2. s1.pos = 12
      BY <1>3, <2>1 DEF SectionTrace
  <2> QED
      BY <1>1, <1>4, <2>2 DEF FirstStart
<1>5. CASE h.values[3] # <<0, 0>>
  <2>1. count = 1
    <3> SUFFICES ASSUME count = 0
                 PROVE  FALSE
        BY <1>2
    <3> DEFINE bytes == h.values[3]
    <3>1. bytes \in Seq(Byte) /\ Len(bytes) = 2
        BY <1>1 DEF Bytes
    <3> HIDE DEF bytes
    <3>2. bytes[1] \in 0..255 /\ bytes[2] \in 0..255
      <4>1. 1 \in 1..Len(bytes) /\ 2 \in 1..Len(bytes)
          BY <3>1
      <4> QED
          BY <3>1, <4>1, ByteAt
    <3>3. bytes[1] * 256 + bytes[2] = 0
        BY DEF U16, bytes
    <3>4. \A high, low \in 0..255 : high * 256 + low = 0 => high = 0 /\ low = 0
        OBVIOUS
    <3>5. bytes[1] = 0 /\ bytes[2] = 0
        BY <3>2, <3>3, <3>4
    <3>6. bytes = <<bytes[1], bytes[2]>>
        BY <3>1
    <3> QED
        BY <1>5, <3>5, <3>6 DEF bytes
  <2>2. [pos |-> s1.pos, value |-> s1.values[1]] \in ReadQuestion(b, 12)
    <3>1. 1 \in 1..1 /\ 1 - 1 = 0
        OBVIOUS
    <3> QED
        BY <1>3, <2>1, <3>1 DEF SectionTrace, ReadItem
  <2>3. PICK q \in ReadFields(b, 12, QuestionFields) : s1.pos = q.pos
      BY <2>2 DEF ReadQuestion, QuestionFields
  <2>4. QuestionFields \in Seq(Field)
      BY DEF QuestionFields, Field
  <2>5. q = CHOOSE f \in ReadFields(b, 12, QuestionFields) : TRUE
      BY <1>1, <2>3, <2>4, ReadFieldsTypes
  <2> QED
      BY <1>1, <1>5, <2>3, <2>5 DEF FirstStart
<1> QED
    BY <1>4, <1>5

LEMMA PacketTraces ==
    ASSUME NEW b \in Seq(Byte), NEW p \in ReadPacket(b)
    PROVE  \E places, e : RecordTrace(places, b, FirstStart(b), RecordsOf(p), e)
<1>1. PICK h \in ReadFields(b, 0, HeaderFields) : \E s1, s2, s3, s4 :
         Parts(p, b, h, s1, s2, s3, s4)
    BY ReadPacketParts
<1>2. PICK s1, s2, s3, s4 : Parts(p, b, h, s1, s2, s3, s4)
    BY <1>1
<1>3. /\ s1.pos \in 0..Len(b) /\ s2.pos \in 0..Len(b) /\ s3.pos \in 0..Len(b)
      /\ U16(h.values[4]) \in Nat /\ U16(h.values[5]) \in Nat /\ U16(h.values[6]) \in Nat
  <2>1. 4 \in 1..6 /\ 5 \in 1..6 /\ 6 \in 1..6
      OBVIOUS
  <2> QED
      BY <1>2, <2>1, PartsTypes
<1>4. /\ s2.values \in Seq(DnsRecord) /\ s3.values \in Seq(DnsRecord)
      /\ s4.values \in Seq(DnsRecord)
    BY <1>2, PartsTypes DEF SectionPlace, ItemValue
<1>5. PICK x : RecordTrace(x, b, s1.pos, s2.values, s2.pos)
  <2>1. \E x : SectionTrace(x, b, s1.pos, 2, s2)
      BY <1>2, <1>3, ReadSectionTraces DEF Parts
  <2> QED
      BY <2>1 DEF SectionTrace, RecordTrace, ReadItem
<1>6. PICK y : RecordTrace(y, b, s2.pos, s3.values, s3.pos)
  <2>1. \E y : SectionTrace(y, b, s2.pos, 3, s3)
      BY <1>2, <1>3, ReadSectionTraces DEF Parts
  <2> QED
      BY <2>1 DEF SectionTrace, RecordTrace, ReadItem
<1>7. PICK z : RecordTrace(z, b, s3.pos, s4.values, s4.pos)
  <2>1. \E z : SectionTrace(z, b, s3.pos, 4, s4)
      BY <1>2, <1>3, ReadSectionTraces DEF Parts
  <2> QED
      BY <2>1 DEF SectionTrace, RecordTrace, ReadItem
<1>8. PICK u : RecordTrace(u, b, s1.pos, s2.values \o s3.values, s3.pos)
    BY <1>4, <1>5, <1>6, TracesJoin
<1>9. s2.values \o s3.values \in Seq(DnsRecord)
    BY <1>4
<1>10. PICK v : RecordTrace(v, b, s1.pos, (s2.values \o s3.values) \o s4.values, s4.pos)
    BY <1>4, <1>7, <1>8, <1>9, TracesJoin
<1>11. RecordsOf(p) = (s2.values \o s3.values) \o s4.values
    BY <1>2 DEF Parts, RecordsOf
<1>12. s1.pos = FirstStart(b)
    BY <1>2, FirstStarts
<1> QED
    BY <1>10, <1>11, <1>12

(* A record that was read starts with its head, and ends where the length  *)
(* in the head says.                                                       *)
LEMMA RecordEndsAsAnnounced ==
    ASSUME NEW b \in Seq(Byte), NEW p \in 0..Len(b), NEW e, NEW r,
           [pos |-> e, value |-> r] \in ReadRecord(b, p)
    PROVE  /\ e = Announced(b, p)
           /\ \E h \in ReadFields(b, p, HeadFields) :
                 h.values = <<r.name, r.type, r.class, r.ttl, r.rdlength>>
<1>1. PICK h \in ReadFields(b, p, HeadFields) :
         \E data \in ReadData(b, h.pos, h.values[2], U16(h.values[5])) :
            /\ e = data.pos
            /\ r = [name |-> h.values[1], type |-> h.values[2],
                    class |-> h.values[3], ttl |-> h.values[4],
                    rdlength |-> h.values[5], data |-> data.values]
  <2> DEFINE it == [pos |-> e, value |-> r]
  <2>1. PICK h \in ReadFields(b, p, HeadFields) :
           \E data \in ReadData(b, h.pos, h.values[2], U16(h.values[5])) :
              it = [pos   |-> data.pos,
                    value |-> [name |-> h.values[1], type |-> h.values[2],
                               class |-> h.values[3], ttl |-> h.values[4],
                               rdlength |-> h.values[5], data |-> data.values]]
    <3>1. it \in ReadRecord(b, p)
        OBVIOUS
    <3> HIDE DEF it
    <3> QED
        BY <3>1 DEF ReadRecord, HeadFields
  <2>2. it.pos = e /\ it.value = r
      OBVIOUS
  <2> HIDE DEF it
  <2> QED
      BY <2>1, <2>2
<1>2. /\ h.pos \in 0..Len(b) /\ h.values[5] \in Bytes(2)
      /\ h.values \in Seq(Seq(Byte)) /\ Len(h.values) = 5
    BY HeadTypes
<1>3. e = h.pos + U16(h.values[5])
    BY <1>1, <1>2, U16Types, ReadDataTypes
<1>4. h = CHOOSE f \in ReadFields(b, p, HeadFields) : TRUE
  <2>1. HeadFields \in Seq(Field)
      BY DEF HeadFields, Field
  <2> QED
      BY <2>1, ReadFieldsTypes
<1>5. h.values = <<h.values[1], h.values[2], h.values[3], h.values[4], h.values[5]>>
  <2> DEFINE v == h.values
  <2>1. v \in Seq(Seq(Byte)) /\ Len(v) = 5
      BY <1>2
  <2> HIDE DEF v
  <2>2. v = <<v[1], v[2], v[3], v[4], v[5]>>
      BY <2>1
  <2> QED
      BY <2>2 DEF v
<1>6. e = Announced(b, p)
    BY <1>3, <1>4 DEF Announced
<1>7. /\ r.name = h.values[1] /\ r.type = h.values[2] /\ r.class = h.values[3]
      /\ r.ttl = h.values[4] /\ r.rdlength = h.values[5]
    BY <1>1
<1> QED
    BY <1>5, <1>6, <1>7

LEMMA RecordStartIsPlace ==
    ASSUME NEW b \in Seq(Byte), NEW rs \in Seq(DnsRecord), NEW places, NEW e,
           RecordTrace(places, b, FirstStart(b), rs, e), NEW k \in 0..Len(rs)
    PROVE  RecordStart(b, k) = places[k]
<1> DEFINE w == [n \in 0..k |-> places[n]]
           start == CHOOSE f : f = [n \in 0..k |-> IF n > 0 THEN Announced(b, f[n - 1])
                                                   ELSE FirstStart(b)]
<1>1. /\ places[0] = FirstStart(b)
      /\ \A n \in 1..k : places[n] = Announced(b, places[n - 1])
  <2>1. ASSUME NEW n \in 1..k
        PROVE  places[n] = Announced(b, places[n - 1])
    <3>1. n \in 1..Len(rs) /\ n - 1 \in 0..Len(rs)
        OBVIOUS
    <3>2. /\ [pos |-> places[n], value |-> rs[n]] \in ReadRecord(b, places[n - 1])
          /\ places[n - 1] \in 0..Len(b)
        BY <3>1 DEF RecordTrace
    <3> QED
        BY <3>2, RecordEndsAsAnnounced
  <2>2. places[0] = FirstStart(b)
      BY DEF RecordTrace
  <2> QED
      BY <2>1, <2>2
<1>2. w = [n \in 0..k |-> IF n > 0 THEN Announced(b, w[n - 1]) ELSE FirstStart(b)]
  <2>1. ASSUME NEW n \in 0..k
        PROVE  w[n] = IF n > 0 THEN Announced(b, w[n - 1]) ELSE FirstStart(b)
    <3>1. CASE n > 0
      <4>1. n \in 1..k /\ n - 1 \in 0..k
          BY <3>1
      <4> QED
          BY <1>1, <3>1, <4>1
    <3>2. CASE ~(n > 0)
        BY <1>1, <3>2
    <3> QED
        BY <3>1, <3>2
  <2>2. w = [n \in 0..k |-> w[n]]
      OBVIOUS
  <2> HIDE DEF w
  <2> QED
      BY <2>1, <2>2
<1> HIDE DEF w
<1>3. start = [n \in 0..k |-> IF n > 0 THEN Announced(b, start[n - 1]) ELSE FirstStart(b)]
    BY <1>2
<1>4. RecordStart(b, k) = start[k]
    BY DEF RecordStart, Announced, FirstStart, HeadFields, QuestionFields
<1> HIDE DEF start
<1> DEFINE same == {n \in 0..k : start[n] = places[n]}
<1>5. 0 \in same
    BY <1>1, <1>3
<1>6. ASSUME NEW n \in 1..k, n - 1 \in same
      PROVE  n \in same
  <2>1. n \in 0..k /\ n > 0
      OBVIOUS
  <2>2. start[n] = Announced(b, start[n - 1])
      BY <1>3, <2>1
  <2> QED
      BY <1>1, <1>6, <2>1, <2>2
<1>7. k \in same
  <2> HIDE DEF same
  <2>1. \A n \in 1..k : n - 1 \in same => n \in same
      BY <1>6
  <2>2. k \in Nat /\ k \in 0..k
      OBVIOUS
  <2>3. 0..k \subseteq same
      BY <1>5, <2>1, <2>2, Upwards
  <2> QED
      BY <2>2, <2>3
<1> QED
    BY <1>4, <1>7

(* No length that is wrong, in any record of any answer, makes the program *)
(* take other bytes for a record than those the lengths before it lead to. *)
THEOREM RecordsStandWhereAnnounced == Spec => []RecordsWhereAnnounced
<1>1. ASSUME NEW b \in Seq(Byte), NEW p \in ReadPacket(b), NEW k \in DOMAIN RecordsOf(p)
      PROVE  \E h \in ReadFields(b, RecordStart(b, k - 1), HeadFields) :
                LET r == RecordsOf(p)[k]
                IN  h.values = <<r.name, r.type, r.class, r.ttl, r.rdlength>>
  <2> DEFINE rs == RecordsOf(p)
  <2>1. rs \in Seq(DnsRecord)
      BY ReadPacketTypes, RecordsTypes
  <2>2. PICK places, e : RecordTrace(places, b, FirstStart(b), rs, e)
      BY PacketTraces
  <2> HIDE DEF rs
  <2>3. k \in 1..Len(rs) /\ k - 1 \in 0..Len(rs)
      BY <2>1 DEF rs
  <2>4. /\ [pos |-> places[k], value |-> rs[k]] \in ReadRecord(b, places[k - 1])
        /\ places[k - 1] \in 0..Len(b) /\ RecordStart(b, k - 1) = places[k - 1]
      BY <2>1, <2>2, <2>3, RecordStartIsPlace DEF RecordTrace
  <2> DEFINE r == rs[k]
  <2>5. [pos |-> places[k], value |-> r] \in ReadRecord(b, places[k - 1])
      BY <2>4
  <2> HIDE DEF r
  <2>6. \E h \in ReadFields(b, places[k - 1], HeadFields) :
           h.values = <<r.name, r.type, r.class, r.ttl, r.rdlength>>
      BY <2>4, <2>5, RecordEndsAsAnnounced
  <2> QED
      BY <2>4, <2>6 DEF r, rs
<1>2. Inv => RecordsWhereAnnounced
  <2> SUFFICES ASSUME Inv, answer # <<>>
               PROVE  RecordsWhereAnnounced
      BY DEF RecordsWhereAnnounced
  <2>1. answer \in Seq(Byte) /\ resolved \in ReadPacket(answer)
      BY DEF Inv, TypeOK, Heard
  <2> QED
      BY <1>1, <2>1 DEF RecordsWhereAnnounced, HeadFields
<1> QED
    BY <1>2, Invariance, PTL

-----------------------------------------------------------------------------
(* What a datagram holds *)

(* A datagram that holds x and y, one after the other. *)
LEMMA HoldsBoth ==
    ASSUME NEW b \in Seq(Byte), NEW p \in Nat, NEW x \in Seq(Byte), NEW y \in Seq(Byte),
           Holds(b, p, x \o y)
    PROVE  Holds(b, p, x) /\ Holds(b, p + Len(x), y) /\ Len(x \o y) = Len(x) + Len(y)
<1> DEFINE n == Len(x)
           l == Len(y)
           z == x \o y
<1>1. /\ n \in Nat /\ l \in Nat /\ Len(z) = n + l
      /\ \A k \in 1..n : z[k] = x[k]
      /\ \A k \in 1..l : z[n + k] = y[k]
    OBVIOUS
<1>2. p + Len(z) <= Len(b) /\ Len(b) \in Nat /\ \A k \in 1..Len(z) : b[p + k] = z[k]
    BY DEF Holds
<1> HIDE DEF n, l, z
<1>3. p + n <= Len(b) /\ (p + n) + l <= Len(b)
    BY <1>1, <1>2
<1>4. \A k \in 1..n : b[p + k] = x[k]
  <2> SUFFICES ASSUME NEW k \in 1..n
               PROVE  b[p + k] = x[k]
      OBVIOUS
  <2>1. k \in 1..Len(z)
      BY <1>1
  <2> QED
      BY <1>1, <1>2, <2>1
<1>5. \A k \in 1..l : b[(p + n) + k] = y[k]
  <2> SUFFICES ASSUME NEW k \in 1..l
               PROVE  b[(p + n) + k] = y[k]
      OBVIOUS
  <2>1. n + k \in 1..Len(z) /\ p + (n + k) = (p + n) + k
      BY <1>1
  <2> QED
      BY <1>1, <1>2, <2>1
<1> QED
    BY <1>1, <1>3, <1>4, <1>5 DEF Holds, n, l, z

(* The parts of a datagram, and where each ends. *)
Parted(at, b, p, s) ==
    /\ at \in [0..Len(s) -> 0..Len(b)]
    /\ at[0] = p
    /\ \A k \in 1..Len(s) : at[k] = at[k - 1] + Len(s[k]) /\ Holds(b, at[k - 1], s[k])

(* The parts of what a datagram holds are held one after the other. *)
LEMMA HoldsParts ==
    ASSUME NEW b \in Seq(Byte), NEW p \in Nat, NEW s \in Seq(Seq(Byte)),
           Holds(b, p, FlattenSeq(s))
    PROVE  \E at : Parted(at, b, p, s) /\ at[Len(s)] = p + Len(FlattenSeq(s))
<1> DEFINE n == Len(s)
<1>1. PICK sums : Sums(sums, s, Byte)
    BY FlattenSeqSums
<1> DEFINE sum(k) == IF k = 0 THEN <<>> ELSE sums[k]
           at == [k \in 0..n |-> p + Len(sum(k))]
<1>2. n \in Nat /\ \A k \in 1..n : s[k] \in Seq(Byte)
    OBVIOUS
<1>3. \A k \in 0..n : sum(k) \in Seq(Byte)
    BY <1>1, <1>2 DEF Sums
<1>4. ASSUME NEW k \in 1..n
      PROVE  sum(k) = sum(k - 1) \o s[k]
  <2>1. sums[k] = IF k = 1 THEN s[k] ELSE sums[k - 1] \o s[k]
      BY <1>1 DEF Sums
  <2>2. CASE k = 1
    <3>1. sum(k) = s[k] /\ sum(k - 1) = <<>>
        BY <2>1, <2>2
    <3>2. <<>> \o s[k] = s[k]
        BY <1>2
    <3> HIDE DEF sum
    <3> QED
        BY <3>1, <3>2
  <2>3. CASE k # 1
    <3>1. k # 0 /\ k - 1 # 0
        BY <1>2, <2>3
    <3> QED
        BY <2>1, <2>3, <3>1
  <2> QED
      BY <2>2, <2>3
<1>5. FlattenSeq(s) = sum(n)
    BY <1>1 DEF Sums
<1> HIDE DEF sum, n
(* Downwards: what b holds of the sums. *)
<1> DEFINE held == {k \in 0..n : Holds(b, p, sum(n - k))}
<1>6. 0 \in held
    BY <1>2, <1>5
<1>7. \A k \in 1..n : k - 1 \in held => k \in held
  <2> SUFFICES ASSUME NEW k \in 1..n, k - 1 \in held
               PROVE  Holds(b, p, sum(n - k))
      BY <1>2
  <2> DEFINE j == n - (k - 1)
  <2>1. j \in 1..n /\ j - 1 = n - k /\ j - 1 \in 0..n
      BY <1>2
  <2>2. Holds(b, p, sum(j))
      OBVIOUS
  <2> HIDE DEF j
  <2>3. Holds(b, p, sum(j - 1) \o s[j])
      BY <1>4, <2>1, <2>2
  <2>4. Holds(b, p, sum(j - 1))
      BY <1>2, <1>3, <2>1, <2>3, HoldsBoth
  <2> QED
      BY <2>1, <2>4
<1>8. 0..n \subseteq held
  <2> HIDE DEF held
  <2> QED
      BY <1>2, <1>6, <1>7, Upwards
<1>9. \A k \in 0..n : Holds(b, p, sum(k))
  <2> SUFFICES ASSUME NEW k \in 0..n
               PROVE  Holds(b, p, sum(k))
      OBVIOUS
  <2>1. n - k \in 0..n /\ n - (n - k) = k
      BY <1>2
  <2> QED
      BY <1>8, <2>1
<1>10. ASSUME NEW k \in 1..n
       PROVE  at[k] = at[k - 1] + Len(s[k]) /\ Holds(b, at[k - 1], s[k])
  <2>1. k \in 0..n /\ k - 1 \in 0..n
      BY <1>2
  <2>2. Holds(b, p, sum(k - 1) \o s[k])
      BY <1>4, <1>9, <2>1
  <2>3. sum(k - 1) \in Seq(Byte) /\ s[k] \in Seq(Byte)
      BY <1>2, <1>3, <2>1
  <2>4. /\ Holds(b, p + Len(sum(k - 1)), s[k])
        /\ Len(sum(k - 1) \o s[k]) = Len(sum(k - 1)) + Len(s[k])
      BY <2>2, <2>3, HoldsBoth
  <2>5. Len(sum(k)) = Len(sum(k - 1)) + Len(s[k])
      BY <1>4, <2>4
  <2>6. at[k] = p + Len(sum(k)) /\ at[k - 1] = p + Len(sum(k - 1))
      BY <2>1
  <2>7. Len(sum(k - 1)) \in Nat /\ Len(s[k]) \in Nat
      BY <2>3
  <2>8. \A x, y \in Nat : p + (x + y) = (p + x) + y
      OBVIOUS
  <2> HIDE DEF at
  <2>9. at[k] = at[k - 1] + Len(s[k])
      BY <2>5, <2>6, <2>7, <2>8
  <2> QED
      BY <2>4, <2>6, <2>9
<1>11. at \in [0..n -> 0..Len(b)]
  <2>1. \A k \in 0..n : p + Len(sum(k)) \in 0..Len(b)
      BY <1>3, <1>9 DEF Holds
  <2> QED
      BY <2>1
<1>12. at[0] = p /\ at[n] = p + Len(FlattenSeq(s))
  <2>1. Len(sum(0)) = 0
      BY DEF sum
  <2> QED
      BY <1>2, <1>5, <2>1
<1>13. Parted(at, b, p, s)
    BY <1>10, <1>11, <1>12 DEF Parted, n
<1> QED
    BY <1>12, <1>13 DEF n

LEMMA SmallRemainder ==
    ASSUME NEW h \in Nat, h < 256
    PROVE  h % 256 = h
<1> DEFINE q == h \div 256
           r == h % 256
<1>1. q \in Int /\ r \in 0..255 /\ h = 256 * q + r
    OBVIOUS
<1> HIDE DEF q, r
<1>2. r = h
    BY <1>1
<1> QED
    BY <1>2 DEF r

(* A number of 16 bits is what its two bytes say. *)
LEMMA U16RoundTrip ==
    ASSUME NEW n \in Nat, n < 65536
    PROVE  U16(U16Bytes(n)) = n
<1> DEFINE h == n \div 256
           l == n % 256
<1>1. h \in Nat /\ h < 256 /\ l \in Nat /\ l < 256 /\ h * 256 + l = n
    OBVIOUS
<1>2. U16Bytes(n) = <<h % 256, l>>
    BY DEF U16Bytes
<1> HIDE DEF h, l
<1>3. h \in Nat /\ h < 256
    BY <1>1
<1>4. h % 256 = h
    BY <1>3, SmallRemainder
<1> QED
    BY <1>1, <1>2, <1>4 DEF U16

-----------------------------------------------------------------------------
(* Fields *)

(* A name as it is read after it was written. *)
AsRead(name) == IF IsRoot(name) THEN <<Dot>> ELSE Unrooted(name)

(* The bytes of a field, what is read of them, and what fits one.          *)
FieldBytes(field, value) == IF field = AName THEN WriteQname(value) ELSE value
FieldAsRead(field, value) == IF field = AName THEN AsRead(value) ELSE value
FitsField(field, value) ==
    /\ value \in Seq(Byte)
    /\ IF field = AName THEN Writable(value) /\ Fits(value) ELSE Len(value) = field

LEMMA FieldBytesTypes ==
    ASSUME NEW field, NEW value, FitsField(field, value)
    PROVE  FieldBytes(field, value) \in Seq(Byte)
BY WriteQnameTypes DEF FieldBytes, FitsField

(* A field that is held at a position is read there. *)
LEMMA HeldFieldRead ==
    ASSUME NEW b \in Seq(Byte), NEW s, s.pos \in Nat, NEW field \in Field,
           NEW value, FitsField(field, value), Holds(b, s.pos, FieldBytes(field, value))
    PROVE  ReadField(b, s, field) =
              {[pos    |-> s.pos + Len(FieldBytes(field, value)),
                values |-> Append(s.values, FieldAsRead(field, value))]}
<1>1. CASE field = AName
  <2>1. value \in Seq(Byte) /\ Writable(value) /\ Fits(value) /\ Holds(b, s.pos, WriteQname(value))
      BY <1>1 DEF FitsField, FieldBytes
  <2> DEFINE r == ReadQname(b, s.pos)
  <2>2. r.status = "done" /\ r.pos = s.pos + Len(WriteQname(value)) /\ r.name = AsRead(value)
      BY <2>1, WrittenIsRead DEF AsRead
  <2>3. ReadField(b, s, field) = {[pos |-> r.pos, values |-> Append(s.values, r.name)]}
    <3>1. {x \in {r} : x.status = "done"} = {r}
        BY <2>2
    <3>2. ReadField(b, s, field) = {[pos |-> x.pos, values |-> Append(s.values, x.name)] :
                                        x \in {x \in {r} : x.status = "done"}}
        BY <1>1 DEF ReadField
    <3> HIDE DEF r
    <3> QED
        BY <3>1, <3>2
  <2> HIDE DEF r
  <2> QED
      BY <1>1, <2>2, <2>3 DEF FieldBytes, FieldAsRead
<1>2. CASE field # AName
  <2> DEFINE p == s.pos
  <2>1. value \in Seq(Byte) /\ Len(value) = field /\ Holds(b, p, value) /\ field \in Nat /\ p \in Nat
      BY <1>2 DEF FitsField, FieldBytes, Field
  <2> HIDE DEF p
  <2>2. Available(b, p, field)
      BY <2>1 DEF Available, Holds
  <2>3. SubSeq(b, p + 1, p + field) = value
    <3>1. SubSeq(value, 1, field) = value
        BY <2>1
    <3>2. ASSUME NEW i \in Nat, i = 1
          PROVE  SubSeq(b, p + i, p + field) = SubSeq(value, i, field)
      <4>1. i > 0 /\ i <= field + 1 /\ field <= Len(value)
          BY <2>1, <3>2
      <4> QED
          BY <2>1, <4>1, HeldSlice
    <3> QED
        BY <3>1, <3>2
  <2> QED
      BY <1>2, <2>1, <2>2, <2>3 DEF ReadField, FieldBytes, FieldAsRead, p
<1> QED
    BY <1>1, <1>2

(* Fields that b holds one after the other are read as they were written.  *)
FieldsHeld(at, b, layout, values) ==
    /\ Len(values) = Len(layout)
    /\ \A k \in 1..Len(layout) :
          /\ FitsField(layout[k], values[k])
          /\ at[k - 1] \in Nat
          /\ at[k] = at[k - 1] + Len(FieldBytes(layout[k], values[k]))
          /\ Holds(b, at[k - 1], FieldBytes(layout[k], values[k]))

FieldsAsRead(b, p, e, layout, values) ==
    ReadFields(b, p, layout) =
       {[pos |-> e, values |-> [i \in 1..Len(layout) |-> FieldAsRead(layout[i], values[i])]]}

(* So are several of them, one after the other. *)
LEMMA HeldFieldsRead ==
    ASSUME NEW b \in Seq(Byte), NEW layout \in Seq(Field), NEW values \in Seq(Seq(Byte)),
           NEW at, at[0] \in 0..Len(b), FieldsHeld(at, b, layout, values)
    PROVE  FieldsAsRead(b, at[0], at[Len(layout)], layout, values)
<1> DEFINE n == Len(layout)
           v == [i \in 1..n |-> FieldAsRead(layout[i], values[i])]
           up(k) == [i \in 1..k |-> v[i]]
<1>1. PICK g : FieldRounds(g, b, at[0], layout) /\ ReadFields(b, at[0], layout) = g[n]
    BY ReadFieldsRounds
<1>2. n \in Nat
    OBVIOUS
<1> DEFINE good == {k \in 0..n : g[k] = {[pos |-> at[k], values |-> up(k)]}}
<1>3. 0 \in good
  <2>1. up(0) = <<>>
      OBVIOUS
  <2> HIDE DEF up
  <2> QED
      BY <1>1, <1>2, <2>1 DEF FieldRounds
<1>4. ASSUME NEW k \in 1..n, k - 1 \in good
      PROVE  k \in good
  <2> DEFINE s == [pos |-> at[k - 1], values |-> up(k - 1)]
  <2>1. g[k] = UNION {ReadField(b, x, layout[k]) : x \in g[k - 1]} /\ layout[k] \in Field
      BY <1>1 DEF FieldRounds
  <2>2. g[k - 1] = {s}
      BY <1>4
  <2>3. /\ FitsField(layout[k], values[k]) /\ s.pos \in Nat
        /\ at[k] = s.pos + Len(FieldBytes(layout[k], values[k]))
        /\ Holds(b, s.pos, FieldBytes(layout[k], values[k]))
      BY DEF FieldsHeld
  <2> HIDE DEF s
  <2>4. ReadField(b, s, layout[k]) =
           {[pos |-> at[k], values |-> Append(s.values, FieldAsRead(layout[k], values[k]))]}
      BY <2>1, <2>3, HeldFieldRead
  <2>5. Append(up(k - 1), v[k]) = up(k)
    <3> HIDE DEF v
    <3>1. Len(up(k - 1)) = k - 1 /\ k - 1 \in Nat
        BY <1>2
    <3> QED
        BY <3>1
  <2>6. v[k] = FieldAsRead(layout[k], values[k]) /\ s.values = up(k - 1)
      BY DEF s
  <2> HIDE DEF up, v
  <2>7. g[k] = {[pos |-> at[k], values |-> up(k)]}
      BY <2>1, <2>2, <2>4, <2>5, <2>6
  <2> QED
      BY <2>7
<1>5. n \in good
  <2> HIDE DEF good, n
  <2>1. 0..n \subseteq good
      BY <1>2, <1>3, <1>4, Upwards
  <2> QED
      BY <1>2, <2>1
<1>6. up(n) = v
    OBVIOUS
<1> HIDE DEF up, v
<1> QED
    BY <1>1, <1>5, <1>6 DEF v, FieldsAsRead

-----------------------------------------------------------------------------
(* The data of a record and its length *)

LEMMA SumSteps ==
    ASSUME NEW ns \in Seq(Int)
    PROVE  \E g : /\ g[0] = 0 /\ SumOf(ns) = g[Len(ns)]
                  /\ \A k \in 1..Len(ns) : g[k] = g[k - 1] + ns[k]
<1> DEFINE n == Len(ns)
           step == [x \in Int \X (1..n) |-> x[1] + ns[x[2]]]
           fold == CHOOSE iter : iter = [t \in SUBSET (DOMAIN ns) |->
                      IF t = {} THEN 0 ELSE iter[t \ {Max(t)}] + ns[Max(t)]]
           g == [k \in 0..n |-> fold[1..k]]
<1>1. n \in Nat /\ DOMAIN ns = 1..n /\ 0 \in Int
    OBVIOUS
<1>2. step \in [Int \X (1..n) -> Int]
    BY <1>1
<1>3. PICK f : Solves(f, n, Int, 0, step)
  <2> HIDE DEF n, step
  <2> QED
      BY <1>1, <1>2, FoldExists
<1>4. f = [t \in SUBSET (DOMAIN ns) |->
             IF t = {} THEN 0 ELSE f[t \ {Max(t)}] + ns[Max(t)]]
  <2>1. \A v \in Int, k \in 1..n : step[<<v, k>>] = v + ns[k]
      OBVIOUS
  <2> HIDE DEF step
  <2>2. /\ f = [t \in SUBSET (1..n) |->
                   IF t = {} THEN 0 ELSE step[<<f[t \ {Max(t)}], Max(t)>>]]
        /\ \A t \in SUBSET (1..n) : t # {} => Max(t) \in 1..n /\ f[t \ {Max(t)}] \in Int
      BY <1>1, <1>3, SolvesSteps
  <2> QED
      BY <1>1, <2>1, <2>2
<1>5. fold = [t \in SUBSET (DOMAIN ns) |->
                IF t = {} THEN 0 ELSE fold[t \ {Max(t)}] + ns[Max(t)]]
    BY <1>4
<1>6. SumOf(ns) = fold[1..n]
    BY <1>1 DEF SumOf, FoldLeft, MapThenFoldSet
<1> HIDE DEF fold
<1>7. fold[{}] = 0 /\ 1..0 = {}
    BY <1>1, <1>5
<1>8. ASSUME NEW k \in 1..n
      PROVE  fold[1..k] = fold[1..(k - 1)] + ns[k]
  <2>1. 1..k \in SUBSET (DOMAIN ns)
      BY <1>1
  <2> QED
      BY <1>1, <1>5, <2>1, MaxOfPrefix
<1>9. g[0] = 0 /\ g[n] = fold[1..n] /\ \A k \in 1..n : g[k] = g[k - 1] + ns[k]
    BY <1>1, <1>7, <1>8
<1> HIDE DEF g
<1> QED
    BY <1>6, <1>9

(* A name has the length that was announced for it. *)
LEMMA AnnouncedLength ==
    ASSUME NEW name \in Seq(Byte), Writable(name)
    PROVE  Len(WriteQname(name)) = WireLength(name)
<1>1. CASE IsRoot(name)
  <2>1. WriteQname(name) = <<0>> /\ WireLength(name) = 1
      BY <1>1 DEF WriteQname, WireLength
  <2> QED
      BY <2>1
<1>2. CASE ~IsRoot(name)
  <2>1. Len(WriteQname(name)) = Len(Unrooted(name)) + 2
      BY <1>2, WrittenName
  <2>2. name # <<>> /\ Len(name) \in Nat
      BY <1>2 DEF IsRoot
  <2> DEFINE u == Len(Unrooted(name))
  <2>3. u = IF Last(name) = Dot THEN Len(name) - 1 ELSE Len(name)
      BY <2>2, UnrootedLength
  <2>4. WireLength(name) = Len(name) + (IF Last(name) = Dot THEN 1 ELSE 2)
      BY <1>2 DEF WireLength
  <2> HIDE DEF u
  <2> QED
      BY <2>1, <2>2, <2>3, <2>4 DEF u
<1> QED
    BY <1>1, <1>2

(* The data of a record takes the length that is announced before it.      *)
LEMMA RdLengthIsWritten ==
    ASSUME NEW r \in DnsRecord, Writeable(r)
    PROVE  WriteData(r) \in Seq(Byte) /\ RdLength(r) = Len(WriteData(r))
<1> DEFINE n == Len(r.data)
           data == [i \in DOMAIN r.data |->
                      IF LayoutOf(r)[i] = AName THEN WriteQname(r.data[i]) ELSE r.data[i]]
           lengths == [i \in DOMAIN r.data |->
                         IF LayoutOf(r)[i] = AName THEN WireLength(r.data[i]) ELSE Len(r.data[i])]
<1>1. r.data \in Seq(Seq(Byte)) /\ n \in Nat /\ DOMAIN r.data = 1..n
    BY DEF DnsRecord
<1>2. ASSUME NEW i \in 1..n
      PROVE  data[i] \in Seq(Byte) /\ lengths[i] \in Int /\ Len(data[i]) = lengths[i]
  <2>1. r.data[i] \in Seq(Byte) /\ Len(r.data[i]) \in Int
      BY <1>1
  <2>2. LayoutOf(r)[i] = AName => Writable(r.data[i])
      BY <1>1 DEF Writeable
  <2> QED
      BY <1>1, <2>1, <2>2, WriteQnameTypes, AnnouncedLength
<1>3. data = [i \in 1..n |-> data[i]] /\ lengths = [i \in 1..n |-> lengths[i]]
    BY <1>1
<1>4. WriteData(r) = FlattenSeq(data) /\ RdLength(r) = SumOf(lengths)
    BY DEF WriteData, RdLength
<1> HIDE DEF data, lengths, n
<1>5. data \in Seq(Seq(Byte)) /\ lengths \in Seq(Int) /\ Len(data) = n /\ Len(lengths) = n
  <2>1. data \in [1..n -> Seq(Byte)] /\ lengths \in [1..n -> Int]
      BY <1>2, <1>3
  <2> QED
      BY <1>1, <2>1
<1>6. PICK sums : Sums(sums, data, Byte)
    BY <1>5, FlattenSeqSums
<1>7. PICK g : /\ g[0] = 0 /\ SumOf(lengths) = g[n]
               /\ \A k \in 1..n : g[k] = g[k - 1] + lengths[k]
    BY <1>5, SumSteps
<1> DEFINE sum(k) == IF k = 0 THEN <<>> ELSE sums[k]
           good == {k \in 0..n : sum(k) \in Seq(Byte) /\ Len(sum(k)) = g[k]}
<1>8. 0 \in good
  <2>1. sum(0) \in Seq(Byte) /\ Len(sum(0)) = 0
      OBVIOUS
  <2> QED
      BY <1>1, <1>7, <2>1
<1>9. ASSUME NEW k \in 1..n, k - 1 \in good
      PROVE  k \in good
  <2>1. /\ sums[k] \in Seq(Byte) /\ sums[k] = IF k = 1 THEN data[k] ELSE sums[k - 1] \o data[k]
      BY <1>5, <1>6 DEF Sums
  <2>2. data[k] \in Seq(Byte) /\ Len(data[k]) = lengths[k] /\ g[k] = g[k - 1] + lengths[k]
        /\ lengths[k] \in Int
      BY <1>2, <1>7
  <2>3. CASE k = 1
    <3>1. g[k - 1] = 0 /\ sum(k) = data[k]
        BY <1>7, <2>1, <2>3
    <3> HIDE DEF sum
    <3> QED
        BY <2>2, <3>1
  <2>4. CASE k # 1
    <3>1. k # 0 /\ k - 1 # 0 /\ k \in 0..n
        BY <1>1, <2>4
    <3>2. sum(k) = sum(k - 1) \o data[k]
        BY <2>1, <2>4, <3>1
    <3>3. sum(k - 1) \in Seq(Byte) /\ Len(sum(k - 1)) = g[k - 1]
        BY <1>9
    <3> HIDE DEF sum
    <3>4. /\ sum(k) \in Seq(Byte)
          /\ Len(sum(k)) = Len(sum(k - 1)) + Len(data[k])
      <4>1. sum(k - 1) \in Seq(Byte) /\ data[k] \in Seq(Byte)
          BY <2>2, <3>3
      <4> QED
          BY <3>2, <4>1, Joined
    <3> QED
        BY <2>2, <3>1, <3>3, <3>4
  <2> QED
      BY <2>3, <2>4
<1>10. n \in good
  <2> HIDE DEF good
  <2>1. 0..n \subseteq good
      BY <1>1, <1>8, <1>9, Upwards
  <2> QED
      BY <1>1, <2>1
<1>11. FlattenSeq(data) = sum(n)
    BY <1>5, <1>6 DEF Sums
<1> QED
    BY <1>4, <1>7, <1>10, <1>11

(* A record as records are read: its data has the parts of its type, and   *)
(* its names are of a length that read_qname lets through.                 *)
Sound(r) ==
    /\ r \in DnsRecord
    /\ Fits(r.name)
    /\ Len(r.data) = Len(LayoutOf(r))
    /\ \A k \in 1..Len(r.data) :
          IF LayoutOf(r)[k] = AName THEN Fits(r.data[k]) ELSE Len(r.data[k]) = LayoutOf(r)[k]

(* The length that is announced leads to the layout that was written. *)
LEMMA LayoutStays ==
    ASSUME NEW r, Sound(r), Writeable(r)
    PROVE  LayoutOf(r) \in Seq(Field) /\ DataLayout(r.type, RdLength(r)) = LayoutOf(r)
<1>1. r.data \in Seq(Seq(Byte)) /\ Len(r.data) = Len(LayoutOf(r))
    BY DEF Sound, DnsRecord
<1>2. CASE r.type \in {A, AAAA, CNAME, NS, MX, SOA}
  <2>1. /\ DataLayout(r.type, 0) \in Seq(Field)
        /\ \A m, n : DataLayout(r.type, m) = DataLayout(r.type, n)
    <3>1. DataLayout(r.type, 0) \in Seq(Field)
        BY LayoutTypes
    <3>2. \A m, n : DataLayout(r.type, m) = DataLayout(r.type, n)
        BY <1>2 DEF DataLayout
    <3> QED
        BY <3>1, <3>2
  <2>2. DataLayout(r.type, 0) = LayoutOf(r) /\ DataLayout(r.type, RdLength(r)) = LayoutOf(r)
    <3> HIDE DEF DataLayout
    <3> QED
        BY <2>1, Zenon DEF LayoutOf
  <2> QED
      BY <2>1, <2>2
<1>3. CASE r.type \notin {A, AAAA, CNAME, NS, MX, SOA}
  <2>1. \A n : DataLayout(r.type, n) = <<n>>
      BY <1>3 DEF DataLayout
  <2>2. LayoutOf(r) = <<Len(r.data[1])>>
    <3> HIDE DEF DataLayout
    <3> QED
        BY <2>1 DEF LayoutOf
  <2>3. Len(r.data) = 1 /\ Len(r.data[1]) \in Nat
    <3>1. Len(r.data) = 1
        BY <1>1, <2>2
    <3> QED
        BY <1>1, <3>1
  <2>4. LayoutOf(r)[1] # AName
      BY <2>2, <2>3 DEF AName
  <2>5. RdLength(r) = Len(r.data[1])
    <3> DEFINE n == Len(r.data[1])
               lengths == [i \in DOMAIN r.data |->
                             IF LayoutOf(r)[i] = AName THEN WireLength(r.data[i])
                                                       ELSE Len(r.data[i])]
    <3>1. DOMAIN r.data = {1}
        BY <1>1, <2>3
    <3>2. lengths = [i \in {1} |-> n]
        BY <2>4, <3>1
    <3> HIDE DEF lengths, n
    <3>3. lengths \in Seq(Int) /\ Len(lengths) = 1 /\ lengths[1] = n /\ n \in Int
      <4>1. lengths = [i \in 1..1 |-> n] /\ n \in Int
          BY <2>3, <3>2 DEF n
      <4> QED
          BY <4>1
    <3>4. SumOf(lengths) = n
      <4>1. PICK g : /\ g[0] = 0 /\ SumOf(lengths) = g[1]
                     /\ \A k \in 1..1 : g[k] = g[k - 1] + lengths[k]
          BY <3>3, SumSteps
      <4>2. g[1] = g[0] + lengths[1]
        <5>1. 1 \in 1..1 /\ 1 - 1 = 0
            OBVIOUS
        <5> QED
            BY <4>1, <5>1
      <4> QED
          BY <3>3, <4>1, <4>2
    <3> QED
        BY <3>4 DEF RdLength, lengths, n
  <2>6. DataLayout(r.type, RdLength(r)) = LayoutOf(r)
    <3> HIDE DEF DataLayout
    <3> QED
        BY <2>1, <2>2, <2>5
  <2>7. <<Len(r.data[1])>> \in Seq(Field)
      BY <2>3 DEF Field
  <2> QED
      BY <2>2, <2>6, <2>7
<1> QED
    BY <1>2, <1>3

-----------------------------------------------------------------------------
(* Records *)

(* What is read of a record, and of a question, after it was written.      *)
DataAsRead(r) == [k \in DOMAIN r.data |-> FieldAsRead(LayoutOf(r)[k], r.data[k])]
RecordAsRead(r) ==
    [name |-> AsRead(r.name), type |-> r.type, class |-> r.class, ttl |-> r.ttl,
     rdlength |-> U16Bytes(RdLength(r)),
     data |-> DataAsRead(r)]
QuestionAsRead(q) == [name |-> AsRead(q.name), type |-> q.type, class |-> q.class]

(* The head of a record and what follows it. *)
HeadAnd(name, v, w, x, y, z) == WriteQname(name) \o v \o w \o x \o y \o z

(* The bytes w, up to position p of b, and z behind them, end at e.        *)
LEMMA Peeled ==
    ASSUME NEW b \in Seq(Byte), NEW p \in Nat, NEW x \in Seq(Byte), NEW y \in Seq(Byte),
           Holds(b, p, x \o y)
    PROVE  /\ Holds(b, p, x) /\ Holds(b, p + Len(x), y) /\ p + Len(x) \in Nat
           /\ p + Len(x \o y) = (p + Len(x)) + Len(y)
<1>1. Holds(b, p, x) /\ Holds(b, p + Len(x), y) /\ Len(x \o y) = Len(x) + Len(y)
    BY HoldsBoth
<1>2. Len(x) \in Nat /\ Len(y) \in Nat
    OBVIOUS
<1> DEFINE z == x \o y
<1> HIDE DEF z
<1>3. p + Len(z) = (p + Len(x)) + Len(y) /\ p + Len(x) \in Nat
    BY <1>1, <1>2 DEF z
<1> QED
    BY <1>1, <1>3 DEF z

(* The fields of a record before its data, where it is held. *)
LEMMA HeldHead ==
    ASSUME NEW b \in Seq(Byte), NEW p \in 0..Len(b), NEW u, FitsField(AName, u),
           NEW v \in Bytes(2), NEW w \in Bytes(2), NEW x \in Bytes(4), NEW y \in Bytes(2),
           NEW z \in Seq(Byte), Holds(b, p, HeadAnd(u, v, w, x, y, z))
    PROVE  \E at : /\ FieldsHeld(at, b, HeadFields, <<u, v, w, x, y>>)
                    /\ at[0] = p /\ at[5] \in Nat /\ Holds(b, at[5], z)
                    /\ p + Len(HeadAnd(u, v, w, x, y, z)) = at[5] + Len(z)
<1> DEFINE q == WriteQname(u)
           two == q \o v
           three == two \o w
           four == three \o x
           five == four \o y
           all == HeadAnd(u, v, w, x, y, z)
           p1 == p + Len(q)
           p2 == p + Len(two)
           p3 == p + Len(three)
           p4 == p + Len(four)
           p5 == p + Len(five)
           values == <<u, v, w, x, y>>
           ends == <<p1, p2, p3, p4, p5>>
           at == [k \in 0..5 |-> IF k = 0 THEN p ELSE ends[k]]
           L == HeadFields
<1>1. /\ L \in Seq(Field) /\ Len(L) = 5
      /\ L[1] = AName /\ L[2] = 2 /\ L[3] = 2 /\ L[4] = 4 /\ L[5] = 2
    BY DEF HeadFields, Field
<1>2. /\ u \in Seq(Byte) /\ v \in Seq(Byte) /\ w \in Seq(Byte)
      /\ x \in Seq(Byte) /\ y \in Seq(Byte)
    BY DEF FitsField, Bytes
<1>3. /\ values \in Seq(Seq(Byte)) /\ Len(values) = 5 /\ values[1] = u /\ values[2] = v
      /\ values[3] = w /\ values[4] = x /\ values[5] = y
    BY <1>2
<1>4. q \in Seq(Byte)
    BY FieldBytesTypes DEF FieldBytes
<1>5. all = five \o z
    BY DEF HeadAnd
<1> HIDE DEF q, all
<1>12. two \in Seq(Byte)
    BY <1>2, <1>4
<1> HIDE DEF two
<1>13. three \in Seq(Byte)
    BY <1>2, <1>12
<1> HIDE DEF three
<1>14. four \in Seq(Byte)
    BY <1>2, <1>13
<1> HIDE DEF four
<1>15. five \in Seq(Byte)
    BY <1>2, <1>14
<1> HIDE DEF five
<1>16. Holds(b, p, five) /\ Holds(b, p5, z) /\ p5 \in Nat /\ p + Len(all) = p5 + Len(z)
  <2>1. Holds(b, p, five \o z)
      BY <1>5 DEF all
  <2> QED
      BY <1>5, <1>15, <2>1, Peeled
<1>17. Holds(b, p, four) /\ Holds(b, p4, y) /\ p4 \in Nat /\ p5 = p4 + Len(y)
    BY <1>2, <1>14, <1>16, Peeled DEF five
<1>18. Holds(b, p, three) /\ Holds(b, p3, x) /\ p3 \in Nat /\ p4 = p3 + Len(x)
    BY <1>2, <1>13, <1>17, Peeled DEF four
<1>19. Holds(b, p, two) /\ Holds(b, p2, w) /\ p2 \in Nat /\ p3 = p2 + Len(w)
    BY <1>2, <1>12, <1>18, Peeled DEF three
<1>20. Holds(b, p, q) /\ Holds(b, p1, v) /\ p1 \in Nat /\ p2 = p1 + Len(v)
    BY <1>2, <1>4, <1>19, Peeled DEF two
<1> HIDE DEF p1, p2, p3, p4, p5
<1>6. /\ at[0] = p /\ at[1] = p1 /\ at[2] = p2 /\ at[3] = p3 /\ at[4] = p4 /\ at[5] = p5
    OBVIOUS
<1> HIDE DEF values, ends, at, L
<1>7. /\ FieldBytes(L[1], values[1]) = q
      /\ FieldBytes(L[2], values[2]) = v /\ FieldBytes(L[3], values[3]) = w
      /\ FieldBytes(L[4], values[4]) = x /\ FieldBytes(L[5], values[5]) = y
    BY <1>1, <1>3 DEF FieldBytes, AName, q
<1>8. /\ FitsField(L[1], values[1]) /\ FitsField(L[2], values[2]) /\ FitsField(L[3], values[3])
      /\ FitsField(L[4], values[4]) /\ FitsField(L[5], values[5])
    BY <1>1, <1>2, <1>3 DEF FitsField, Bytes, AName
<1>9. FieldsHeld(at, b, L, values)
  <2> DEFINE Good(k) == /\ FitsField(L[k], values[k])
                        /\ at[k - 1] \in Nat
                        /\ at[k] = at[k - 1] + Len(FieldBytes(L[k], values[k]))
                        /\ Holds(b, at[k - 1], FieldBytes(L[k], values[k]))
  <2>1. Good(1)
      BY <1>20, <1>6, <1>7, <1>8, 1 - 1 = 0 DEF p1
  <2>2. Good(2)
      BY <1>19, <1>20, <1>6, <1>7, <1>8, 2 - 1 = 1
  <2>3. Good(3)
      BY <1>18, <1>19, <1>6, <1>7, <1>8, 3 - 1 = 2
  <2>4. Good(4)
      BY <1>17, <1>18, <1>6, <1>7, <1>8, 4 - 1 = 3
  <2>5. Good(5)
      BY <1>16, <1>17, <1>6, <1>7, <1>8, 5 - 1 = 4
  <2> HIDE DEF Good
  <2>6. \A k \in 1..5 : k = 1 \/ k = 2 \/ k = 3 \/ k = 4 \/ k = 5
      OBVIOUS
  <2>7. \A k \in 1..5 : Good(k)
      BY <2>1, <2>2, <2>3, <2>4, <2>5, <2>6
  <2> QED
      BY <1>1, <1>3, <2>7 DEF FieldsHeld, Good
<1> QED
    BY <1>6, <1>9, <1>16 DEF L, all, values

LEMMA HeldHeadRead ==
    ASSUME NEW b \in Seq(Byte), NEW at, at[0] \in 0..Len(b),
           NEW values \in Seq(Seq(Byte)), FieldsHeld(at, b, HeadFields, values)
    PROVE  FieldsAsRead(b, at[0], at[5], HeadFields, values)
<1>1. HeadFields \in Seq(Field) /\ Len(HeadFields) = 5
    BY DEF HeadFields, Field
<1>2. FieldsAsRead(b, at[0], at[Len(HeadFields)], HeadFields, values)
    BY <1>1, HeldFieldsRead
<1> QED
    BY <1>1, <1>2

LEMMA PartsAreFields ==
    ASSUME NEW b \in Seq(Byte), NEW e, NEW s \in Seq(Seq(Byte)), NEW at, Parted(at, b, e, s),
           NEW layout, NEW values, Len(layout) = Len(s), Len(values) = Len(s),
           \A k \in 1..Len(s) : /\ FitsField(layout[k], values[k])
                                /\ s[k] = FieldBytes(layout[k], values[k])
    PROVE  FieldsHeld(at, b, layout, values)
<1> SUFFICES ASSUME NEW k \in 1..Len(s)
             PROVE  /\ FitsField(layout[k], values[k])
                    /\ at[k - 1] \in Nat
                    /\ at[k] = at[k - 1] + Len(FieldBytes(layout[k], values[k]))
                    /\ Holds(b, at[k - 1], FieldBytes(layout[k], values[k]))
    BY DEF FieldsHeld
<1>1. k - 1 \in 0..Len(s) /\ Len(b) \in Nat
    OBVIOUS
<1>2. at \in [0..Len(s) -> 0..Len(b)]
    BY DEF Parted
<1>3. at[k - 1] \in 0..Len(b)
    BY <1>1, <1>2
<1>4. at[k] = at[k - 1] + Len(s[k]) /\ Holds(b, at[k - 1], s[k])
    BY DEF Parted
<1> QED
    BY <1>1, <1>3, <1>4

(* The parts of the data of a record are fields of its layout. *)
DataParts(r) ==
    [i \in DOMAIN r.data |-> IF LayoutOf(r)[i] = AName THEN WriteQname(r.data[i]) ELSE r.data[i]]

(* The data of a record is its parts, each of which fits its field. *)
LEMMA DataIsParts ==
    ASSUME NEW r, Sound(r), Writeable(r)
    PROVE  /\ DataParts(r) \in Seq(Seq(Byte)) /\ WriteData(r) = FlattenSeq(DataParts(r))
           /\ Len(DataParts(r)) = Len(r.data) /\ Len(LayoutOf(r)) = Len(r.data)
           /\ \A k \in 1..Len(r.data) :
                 /\ FitsField(LayoutOf(r)[k], r.data[k])
                 /\ DataParts(r)[k] = FieldBytes(LayoutOf(r)[k], r.data[k])
<1> DEFINE n == Len(r.data)
           s == DataParts(r)
<1>1. /\ r.data \in Seq(Seq(Byte)) /\ n \in Nat /\ DOMAIN r.data = 1..n
      /\ Len(LayoutOf(r)) = n
    BY DEF Sound, DnsRecord
<1>2. ASSUME NEW k \in 1..n
      PROVE  /\ FitsField(LayoutOf(r)[k], r.data[k])
             /\ s[k] = FieldBytes(LayoutOf(r)[k], r.data[k])
             /\ s[k] \in Seq(Byte)
  <2>1. r.data[k] \in Seq(Byte)
      BY <1>1
  <2>2. LayoutOf(r)[k] = AName => Writable(r.data[k])
      BY <1>1 DEF Writeable
  <2>3. IF LayoutOf(r)[k] = AName THEN Fits(r.data[k]) ELSE Len(r.data[k]) = LayoutOf(r)[k]
      BY DEF Sound
  <2>4. FitsField(LayoutOf(r)[k], r.data[k])
      BY <2>1, <2>2, <2>3 DEF FitsField
  <2>5. s[k] = FieldBytes(LayoutOf(r)[k], r.data[k])
      BY <1>1 DEF FieldBytes, DataParts
  <2> QED
      BY <2>4, <2>5, FieldBytesTypes
<1>3. s = [i \in 1..n |-> s[i]]
    BY <1>1 DEF DataParts
<1>4. s \in Seq(Seq(Byte)) /\ Len(s) = n
  <2>1. s \in [1..n -> Seq(Byte)]
      BY <1>2, <1>3
  <2> HIDE DEF n, s
  <2> QED
      BY <1>1, <2>1
<1>5. WriteData(r) = FlattenSeq(s)
    BY DEF WriteData, DataParts
<1> QED
    BY <1>1, <1>2, <1>4, <1>5

LEMMA HeldDataFields ==
    ASSUME NEW b \in Seq(Byte), NEW e \in Nat, NEW r, Sound(r), Writeable(r),
           e \in 0..Len(b), Holds(b, e, WriteData(r))
    PROVE  ReadFields(b, e, LayoutOf(r)) =
              {[pos |-> e + Len(WriteData(r)), values |-> DataAsRead(r)]}
<1> DEFINE s == DataParts(r)
           layout == LayoutOf(r)
<1>1. /\ s \in Seq(Seq(Byte)) /\ WriteData(r) = FlattenSeq(s)
      /\ Len(s) = Len(r.data) /\ Len(layout) = Len(r.data)
      /\ \A k \in 1..Len(r.data) :
            FitsField(layout[k], r.data[k]) /\ s[k] = FieldBytes(layout[k], r.data[k])
    BY DataIsParts
<1>2. r.data \in Seq(Seq(Byte)) /\ layout \in Seq(Field)
    BY LayoutStays DEF Sound, DnsRecord
<1> HIDE DEF s, layout
<1>3. PICK at : Parted(at, b, e, s) /\ at[Len(s)] = e + Len(FlattenSeq(s))
    BY <1>1, HoldsParts
<1>4. at[0] = e
    BY <1>3 DEF Parted
<1>5. FieldsHeld(at, b, layout, r.data)
    BY <1>1, <1>3, PartsAreFields
<1>6. FieldsAsRead(b, e, at[Len(layout)], layout, r.data)
    BY <1>2, <1>4, <1>5, HeldFieldsRead
<1>7. DataAsRead(r) = [i \in 1..Len(layout) |-> FieldAsRead(layout[i], r.data[i])]
  <2>1. DOMAIN r.data = 1..Len(layout)
      BY <1>1, <1>2
  <2> QED
      BY <2>1 DEF DataAsRead, layout
<1> QED
    BY <1>1, <1>3, <1>6, <1>7 DEF layout, FieldsAsRead

LEMMA HeldSize ==
    ASSUME NEW b \in Seq(Byte), Len(b) < 65536, NEW e \in Nat, NEW z \in Seq(Byte),
           Holds(b, e, z)
    PROVE  /\ e \in 0..Len(b) /\ Len(z) \in Nat /\ Len(z) < 65536
           /\ Available(b, e, Len(z)) /\ (e + Len(z)) - e = Len(z)
<1> DEFINE l == Len(b)
           n == Len(z)
<1>1. l \in Nat /\ n \in Nat /\ e + n <= l /\ l < 65536
    BY DEF Holds
<1> HIDE DEF l, n
<1>2. e \in 0..l
    BY <1>1
<1>3. n \in Nat /\ n < 65536
    BY <1>1
<1>4. (e + n) - e = n
    BY <1>1
<1>5. Available(b, e, n)
    BY <1>1 DEF Available, l
<1> QED
    BY <1>2, <1>3, <1>4, <1>5 DEF l, n

(* Data is read in the length that was announced for it. *)
LEMMA HeldDataRead ==
    ASSUME NEW b \in Seq(Byte), Len(b) < 65536, NEW e \in Nat,
           NEW r, Sound(r), Writeable(r), Holds(b, e, WriteData(r))
    PROVE  ReadData(b, e, r.type, U16(U16Bytes(RdLength(r)))) =
              {[pos |-> e + Len(WriteData(r)), values |-> DataAsRead(r)]}
<1>1. WriteData(r) \in Seq(Byte) /\ RdLength(r) = Len(WriteData(r))
    BY RdLengthIsWritten DEF Sound
<1> DEFINE n == Len(WriteData(r))
           d == [pos |-> e + n, values |-> DataAsRead(r)]
           l == RdLength(r)
<1>2. /\ e \in 0..Len(b) /\ n \in Nat /\ n < 65536
      /\ Available(b, e, n) /\ (e + n) - e = n
    BY <1>1, HeldSize
<1>3. U16(U16Bytes(n)) = n
    BY <1>2, U16RoundTrip
<1>4. DataLayout(r.type, l) = LayoutOf(r)
    BY LayoutStays
<1>5. e \in 0..Len(b)
    BY <1>2
<1>6. ReadFields(b, e, LayoutOf(r)) = {d}
    BY <1>5, HeldDataFields
<1>7. d.pos - e = n
    BY <1>2
<1>8. n = l
    BY <1>1
<1> HIDE DEF d, n, l
<1>9. ReadFields(b, e, DataLayout(r.type, l)) = {d}
    BY <1>4, <1>6
<1>10. ReadData(b, e, r.type, l) = {d}
    BY <1>2, <1>7, <1>8, <1>9 DEF ReadData
<1>11. U16(U16Bytes(l)) = l
    BY <1>3, <1>8
<1> QED
    BY <1>10, <1>11 DEF d, l, n

(* A record that a datagram holds is read, with its names expanded and its *)
(* length computed anew.                                                   *)
LEMMA HeldRecordRead ==
    ASSUME NEW b \in Seq(Byte), Len(b) < 65536, NEW p \in Nat,
           NEW r, Sound(r), Writeable(r), Holds(b, p, WriteRecord(r))
    PROVE  ReadRecord(b, p) = {[pos |-> p + Len(WriteRecord(r)), value |-> RecordAsRead(r)]}
<1> DEFINE y == U16Bytes(RdLength(r))
           z == WriteData(r)
           parts == <<r.name, r.type, r.class, r.ttl, y>>
           all == WriteRecord(r)
           head == [i \in 1..5 |-> FieldAsRead(HeadFields[i], parts[i])]
<1>1. /\ r \in DnsRecord /\ r.name \in Seq(Byte) /\ r.data \in Seq(Seq(Byte))
      /\ r.type \in Bytes(2) /\ r.class \in Bytes(2) /\ r.ttl \in Bytes(4)
    BY DEF Sound, DnsRecord
<1>2. z \in Seq(Byte) /\ RdLength(r) = Len(z) /\ RdLength(r) \in Nat
    BY <1>1, RdLengthIsWritten
<1>3. FitsField(AName, r.name)
    BY <1>1 DEF Writeable, Sound, FitsField
<1>4. y \in Bytes(2)
    BY <1>2, U16BytesTypes
<1>5. all = HeadAnd(r.name, r.type, r.class, r.ttl, y, z)
    BY DEF WriteRecord, HeadAnd
<1>6. p \in 0..Len(b)
  <2>1. all \in Seq(Byte)
      BY <1>1, WriteRecordTypes
  <2>2. Holds(b, p, all)
      OBVIOUS
  <2> HIDE DEF all
  <2> QED
      BY <2>1, <2>2 DEF Holds
<1>7. parts \in Seq(Seq(Byte)) /\ Len(parts) = 5
  <2>1. r.type \in Seq(Byte) /\ r.class \in Seq(Byte) /\ r.ttl \in Seq(Byte) /\ y \in Seq(Byte)
      BY <1>1, <1>4 DEF Bytes
  <2> HIDE DEF y
  <2> QED
      BY <1>1, <2>1
<1>8. \E at : /\ FieldsHeld(at, b, HeadFields, parts)
              /\ at[0] = p /\ at[5] \in Nat /\ Holds(b, at[5], z)
              /\ p + Len(all) = at[5] + Len(z)
  <2>1. Holds(b, p, HeadAnd(r.name, r.type, r.class, r.ttl, y, z))
      BY <1>5
  <2> HIDE DEF y, z, all
  <2> QED
      BY <1>1, <1>2, <1>3, <1>4, <1>5, <1>6, <2>1, HeldHead
<1> HIDE DEF y, z, all, parts, head
<1>9. PICK e : /\ e \in Nat /\ Holds(b, e, z) /\ p + Len(all) = e + Len(z)
              /\ ReadFields(b, p, HeadFields) = {[pos |-> e, values |-> head]}
  <2>1. PICK at : /\ FieldsHeld(at, b, HeadFields, parts)
                  /\ at[0] = p /\ at[5] \in Nat /\ Holds(b, at[5], z)
                  /\ p + Len(all) = at[5] + Len(z)
      BY <1>8
  <2>2. FieldsAsRead(b, at[0], at[5], HeadFields, parts)
    <3>1. at[0] \in 0..Len(b)
        BY <1>6, <2>1
    <3> QED
        BY <1>7, <2>1, <3>1, HeldHeadRead
  <2>3. FieldsAsRead(b, p, at[5], HeadFields, parts)
      BY <2>1, <2>2
  <2>4. Len(HeadFields) = 5
      BY DEF HeadFields
  <2> QED
      BY <2>1, <2>3, <2>4 DEF FieldsAsRead, head
<1>10. /\ head[1] = AsRead(r.name) /\ head[2] = r.type /\ head[3] = r.class
       /\ head[4] = r.ttl /\ head[5] = y
    BY DEF head, parts, HeadFields, FieldAsRead, AName
<1>11. ReadData(b, e, head[2], U16(head[5])) = {[pos |-> e + Len(z), values |-> DataAsRead(r)]}
  <2>1. Holds(b, e, WriteData(r))
      BY <1>9 DEF z
  <2>2. ReadData(b, e, r.type, U16(U16Bytes(RdLength(r)))) =
           {[pos |-> e + Len(WriteData(r)), values |-> DataAsRead(r)]}
      BY <1>9, <2>1, HeldDataRead
  <2> QED
      BY <1>10, <2>2 DEF y, z
<1>12. RecordAsRead(r) = [name |-> head[1], type |-> head[2], class |-> head[3],
                          ttl |-> head[4], rdlength |-> head[5], data |-> DataAsRead(r)]
    BY <1>10 DEF RecordAsRead, y
<1>13. ReadRecord(b, p) =
          UNION {{[pos |-> d.pos,
                   value |-> [name |-> h.values[1], type |-> h.values[2], class |-> h.values[3],
                              ttl |-> h.values[4], rdlength |-> h.values[5], data |-> d.values]] :
                     d \in ReadData(b, h.pos, h.values[2], U16(h.values[5]))} :
                    h \in ReadFields(b, p, HeadFields)}
    BY DEF ReadRecord, HeadFields
<1>14. ReadRecord(b, p) = {[pos |-> e + Len(z), value |-> RecordAsRead(r)]}
  <2> DEFINE hd == [pos |-> e, values |-> head]
             dt == [pos |-> e + Len(z), values |-> DataAsRead(r)]
             item(h, d) == [pos |-> d.pos,
                   value |-> [name |-> h.values[1], type |-> h.values[2], class |-> h.values[3],
                              ttl |-> h.values[4], rdlength |-> h.values[5], data |-> d.values]]
  <2>1. /\ ReadFields(b, p, HeadFields) = {hd}
        /\ ReadData(b, hd.pos, hd.values[2], U16(hd.values[5])) = {dt}
      BY <1>9, <1>11
  <2>2. item(hd, dt) = [pos |-> e + Len(z), value |-> RecordAsRead(r)]
      BY <1>12
  <2>3. ReadRecord(b, p) =
           UNION {{item(h, d) : d \in ReadData(b, h.pos, h.values[2], U16(h.values[5]))} :
                     h \in ReadFields(b, p, HeadFields)}
      BY <1>13
  <2> HIDE DEF hd, dt, item
  <2> QED
      BY <2>1, <2>2, <2>3
<1> QED
    BY <1>9, <1>14 DEF all

-----------------------------------------------------------------------------
(* Flags *)

LEMMA LastBitAt ==
    ASSUME NEW lo \in Nat, lo < 2 ^ 15, NEW w \in {0, 1}, NEW hi \in Nat
    PROVE  ((lo + w * 2 ^ 15 + hi * 2 ^ 16) \div 2 ^ 15) % 2 = w
<1> DEFINE q == w + 2 * hi
<1>1. q \in Nat /\ q % 2 = w /\ lo + w * 2 ^ 15 + hi * 2 ^ 16 = lo + q * 2 ^ 15
    OBVIOUS
<1> HIDE DEF q
<1>2. (lo + q * 2 ^ 15) \div 2 ^ 15 = q
    BY <1>1
<1> QED
    BY <1>1, <1>2

(* The flags: bit i of the number of a set of bits is set just if i is in  *)
(* the set.  g adds the numbers of the bits up, from the lowest; what is   *)
(* above bit i is a multiple h of its double.                              *)
LEMMA FlagsRoundTrip ==
    ASSUME NEW bits \in SUBSET (0..15)
    PROVE  Number(bits) \in Nat /\ Number(bits) < 65536 /\ Bits(Number(bits)) = bits
<1> DEFINE n == Number(bits)
           w(k) == IF k \in bits THEN 1 ELSE 0
           ns == [i \in 1..16 |-> IF i - 1 \in bits THEN 2 ^ (i - 1) ELSE 0]
<1>1. ns \in Seq(Int) /\ Len(ns) = 16
  <2>1. \A i \in 1..16 : 2 ^ (i - 1) \in Int
      OBVIOUS
  <2> QED
      BY <2>1
<1>2. \A k \in 0..15 : w(k) \in {0, 1}
    OBVIOUS
<1>3. PICK g : g[0] = 0 /\ n = g[16] /\ \A k \in 1..16 : g[k] = g[k - 1] + ns[k]
  <2>1. n = SumOf(ns)
      BY DEF Number
  <2> HIDE DEF n, ns
  <2>2. PICK g : /\ g[0] = 0 /\ SumOf(ns) = g[Len(ns)]
                 /\ \A k \in 1..Len(ns) : g[k] = g[k - 1] + ns[k]
      BY <1>1, SumSteps
  <2> QED
      BY <1>1, <2>1, <2>2
<1>4. /\ g[1] = g[0] + w(0) * 2 ^ 0
      /\ g[2] = g[1] + w(1) * 2 ^ 1
      /\ g[3] = g[2] + w(2) * 2 ^ 2
      /\ g[4] = g[3] + w(3) * 2 ^ 3
      /\ g[5] = g[4] + w(4) * 2 ^ 4
      /\ g[6] = g[5] + w(5) * 2 ^ 5
      /\ g[7] = g[6] + w(6) * 2 ^ 6
      /\ g[8] = g[7] + w(7) * 2 ^ 7
      /\ g[9] = g[8] + w(8) * 2 ^ 8
      /\ g[10] = g[9] + w(9) * 2 ^ 9
      /\ g[11] = g[10] + w(10) * 2 ^ 10
      /\ g[12] = g[11] + w(11) * 2 ^ 11
      /\ g[13] = g[12] + w(12) * 2 ^ 12
      /\ g[14] = g[13] + w(13) * 2 ^ 13
      /\ g[15] = g[14] + w(14) * 2 ^ 14
      /\ g[16] = g[15] + w(15) * 2 ^ 15
  <2>1. \A k \in 1..16 : g[k] = g[k - 1] + (IF k - 1 \in bits THEN 2 ^ (k - 1) ELSE 0)
      BY <1>3
  <2>2. g[1] = g[0] + w(0) * 2 ^ 0
      BY <2>1, 1 \in 1..16, 1 - 1 = 0
  <2>3. g[2] = g[1] + w(1) * 2 ^ 1
      BY <2>1, 2 \in 1..16, 2 - 1 = 1
  <2>4. g[3] = g[2] + w(2) * 2 ^ 2
      BY <2>1, 3 \in 1..16, 3 - 1 = 2
  <2>5. g[4] = g[3] + w(3) * 2 ^ 3
      BY <2>1, 4 \in 1..16, 4 - 1 = 3
  <2>6. g[5] = g[4] + w(4) * 2 ^ 4
      BY <2>1, 5 \in 1..16, 5 - 1 = 4
  <2>7. g[6] = g[5] + w(5) * 2 ^ 5
      BY <2>1, 6 \in 1..16, 6 - 1 = 5
  <2>8. g[7] = g[6] + w(6) * 2 ^ 6
      BY <2>1, 7 \in 1..16, 7 - 1 = 6
  <2>9. g[8] = g[7] + w(7) * 2 ^ 7
      BY <2>1, 8 \in 1..16, 8 - 1 = 7
  <2>10. g[9] = g[8] + w(8) * 2 ^ 8
      BY <2>1, 9 \in 1..16, 9 - 1 = 8
  <2>11. g[10] = g[9] + w(9) * 2 ^ 9
      BY <2>1, 10 \in 1..16, 10 - 1 = 9
  <2>12. g[11] = g[10] + w(10) * 2 ^ 10
      BY <2>1, 11 \in 1..16, 11 - 1 = 10
  <2>13. g[12] = g[11] + w(11) * 2 ^ 11
      BY <2>1, 12 \in 1..16, 12 - 1 = 11
  <2>14. g[13] = g[12] + w(12) * 2 ^ 12
      BY <2>1, 13 \in 1..16, 13 - 1 = 12
  <2>15. g[14] = g[13] + w(13) * 2 ^ 13
      BY <2>1, 14 \in 1..16, 14 - 1 = 13
  <2>16. g[15] = g[14] + w(14) * 2 ^ 14
      BY <2>1, 15 \in 1..16, 15 - 1 = 14
  <2>17. g[16] = g[15] + w(15) * 2 ^ 15
      BY <2>1, 16 \in 1..16, 16 - 1 = 15
  <2> QED
      BY <2>2, <2>3, <2>4, <2>5, <2>6, <2>7, <2>8, <2>9, <2>10,
         <2>11, <2>12, <2>13, <2>14, <2>15, <2>16, <2>17
<1>5. /\ w(0) \in {0, 1} /\ w(1) \in {0, 1} /\ w(2) \in {0, 1} /\ w(3) \in {0, 1}
      /\ w(4) \in {0, 1} /\ w(5) \in {0, 1} /\ w(6) \in {0, 1} /\ w(7) \in {0, 1}
      /\ w(8) \in {0, 1} /\ w(9) \in {0, 1} /\ w(10) \in {0, 1} /\ w(11) \in {0, 1}
      /\ w(12) \in {0, 1} /\ w(13) \in {0, 1} /\ w(14) \in {0, 1} /\ w(15) \in {0, 1}
    BY <1>2
<1> HIDE DEF w, n, ns
<1>6. /\ g[0] \in Nat /\ g[0] < 2 ^ 0
      /\ g[1] \in Nat /\ g[1] < 2 ^ 1
      /\ g[2] \in Nat /\ g[2] < 2 ^ 2
      /\ g[3] \in Nat /\ g[3] < 2 ^ 3
      /\ g[4] \in Nat /\ g[4] < 2 ^ 4
      /\ g[5] \in Nat /\ g[5] < 2 ^ 5
      /\ g[6] \in Nat /\ g[6] < 2 ^ 6
      /\ g[7] \in Nat /\ g[7] < 2 ^ 7
      /\ g[8] \in Nat /\ g[8] < 2 ^ 8
      /\ g[9] \in Nat /\ g[9] < 2 ^ 9
      /\ g[10] \in Nat /\ g[10] < 2 ^ 10
      /\ g[11] \in Nat /\ g[11] < 2 ^ 11
      /\ g[12] \in Nat /\ g[12] < 2 ^ 12
      /\ g[13] \in Nat /\ g[13] < 2 ^ 13
      /\ g[14] \in Nat /\ g[14] < 2 ^ 14
      /\ g[15] \in Nat /\ g[15] < 2 ^ 15
      /\ g[16] \in Nat /\ g[16] < 2 ^ 16
  <2>1. /\ g[0] = 0 /\ g[1] \in Nat /\ g[1] < 2 ^ 1 /\ g[2] \in Nat /\ g[2] < 2 ^ 2
        /\ g[3] \in Nat /\ g[3] < 2 ^ 3 /\ g[4] \in Nat /\ g[4] < 2 ^ 4
        /\ g[5] \in Nat /\ g[5] < 2 ^ 5 /\ g[6] \in Nat /\ g[6] < 2 ^ 6
      BY <1>3, <1>4, <1>5
  <2>2. /\ g[7] \in Nat /\ g[7] < 2 ^ 7 /\ g[8] \in Nat /\ g[8] < 2 ^ 8
        /\ g[9] \in Nat /\ g[9] < 2 ^ 9 /\ g[10] \in Nat /\ g[10] < 2 ^ 10
        /\ g[11] \in Nat /\ g[11] < 2 ^ 11
      BY <1>4, <1>5, <2>1
  <2>3. /\ g[12] \in Nat /\ g[12] < 2 ^ 12 /\ g[13] \in Nat /\ g[13] < 2 ^ 13
        /\ g[14] \in Nat /\ g[14] < 2 ^ 14
      BY <1>4, <1>5, <2>2
  <2>4. g[15] \in Nat /\ g[15] < 2 ^ 15
      BY <1>4, <1>5, <2>3
  <2>5. g[16] \in Nat /\ g[16] < 2 ^ 16
      BY <1>4, <1>5, <2>4
  <2> QED
      BY <2>1, <2>2, <2>3, <2>4, <2>5
<1>7. PICK h15 \in Nat : n = g[16] + h15 * 2 ^ 16
  <2>1. 0 \in Nat /\ n = g[16] + 0 * 2 ^ 16
      BY <1>3, <1>6
  <2> QED
      BY <2>1
<1>8. PICK h14 \in Nat : n = g[15] + h14 * 2 ^ 15
  <2>1. w(15) + 2 * h15 \in Nat /\ n = g[15] + (w(15) + 2 * h15) * 2 ^ 15
      BY <1>4, <1>5, <1>6, <1>7
  <2> QED
      BY <2>1
<1>9. PICK h13 \in Nat : n = g[14] + h13 * 2 ^ 14
  <2>1. w(14) + 2 * h14 \in Nat /\ n = g[14] + (w(14) + 2 * h14) * 2 ^ 14
      BY <1>4, <1>5, <1>6, <1>8
  <2> QED
      BY <2>1
<1>10. PICK h12 \in Nat : n = g[13] + h12 * 2 ^ 13
  <2>1. w(13) + 2 * h13 \in Nat /\ n = g[13] + (w(13) + 2 * h13) * 2 ^ 13
      BY <1>4, <1>5, <1>6, <1>9
  <2> QED
      BY <2>1
<1>11. PICK h11 \in Nat : n = g[12] + h11 * 2 ^ 12
  <2>1. w(12) + 2 * h12 \in Nat /\ n = g[12] + (w(12) + 2 * h12) * 2 ^ 12
      BY <1>4, <1>5, <1>6, <1>10
  <2> QED
      BY <2>1
<1>12. PICK h10 \in Nat : n = g[11] + h10 * 2 ^ 11
  <2>1. w(11) + 2 * h11 \in Nat /\ n = g[11] + (w(11) + 2 * h11) * 2 ^ 11
      BY <1>4, <1>5, <1>6, <1>11
  <2> QED
      BY <2>1
<1>13. PICK h9 \in Nat : n = g[10] + h9 * 2 ^ 10
  <2>1. w(10) + 2 * h10 \in Nat /\ n = g[10] + (w(10) + 2 * h10) * 2 ^ 10
      BY <1>4, <1>5, <1>6, <1>12
  <2> QED
      BY <2>1
<1>14. PICK h8 \in Nat : n = g[9] + h8 * 2 ^ 9
  <2>1. w(9) + 2 * h9 \in Nat /\ n = g[9] + (w(9) + 2 * h9) * 2 ^ 9
      BY <1>4, <1>5, <1>6, <1>13
  <2> QED
      BY <2>1
<1>15. PICK h7 \in Nat : n = g[8] + h7 * 2 ^ 8
  <2>1. w(8) + 2 * h8 \in Nat /\ n = g[8] + (w(8) + 2 * h8) * 2 ^ 8
      BY <1>4, <1>5, <1>6, <1>14
  <2> QED
      BY <2>1
<1>16. PICK h6 \in Nat : n = g[7] + h6 * 2 ^ 7
  <2>1. w(7) + 2 * h7 \in Nat /\ n = g[7] + (w(7) + 2 * h7) * 2 ^ 7
      BY <1>4, <1>5, <1>6, <1>15
  <2> QED
      BY <2>1
<1>17. PICK h5 \in Nat : n = g[6] + h5 * 2 ^ 6
  <2>1. w(6) + 2 * h6 \in Nat /\ n = g[6] + (w(6) + 2 * h6) * 2 ^ 6
      BY <1>4, <1>5, <1>6, <1>16
  <2> QED
      BY <2>1
<1>18. PICK h4 \in Nat : n = g[5] + h4 * 2 ^ 5
  <2>1. w(5) + 2 * h5 \in Nat /\ n = g[5] + (w(5) + 2 * h5) * 2 ^ 5
      BY <1>4, <1>5, <1>6, <1>17
  <2> QED
      BY <2>1
<1>19. PICK h3 \in Nat : n = g[4] + h3 * 2 ^ 4
  <2>1. w(4) + 2 * h4 \in Nat /\ n = g[4] + (w(4) + 2 * h4) * 2 ^ 4
      BY <1>4, <1>5, <1>6, <1>18
  <2> QED
      BY <2>1
<1>20. PICK h2 \in Nat : n = g[3] + h2 * 2 ^ 3
  <2>1. w(3) + 2 * h3 \in Nat /\ n = g[3] + (w(3) + 2 * h3) * 2 ^ 3
      BY <1>4, <1>5, <1>6, <1>19
  <2> QED
      BY <2>1
<1>21. PICK h1 \in Nat : n = g[2] + h1 * 2 ^ 2
  <2>1. w(2) + 2 * h2 \in Nat /\ n = g[2] + (w(2) + 2 * h2) * 2 ^ 2
      BY <1>4, <1>5, <1>6, <1>20
  <2> QED
      BY <2>1
<1>22. PICK h0 \in Nat : n = g[1] + h0 * 2 ^ 1
  <2>1. w(1) + 2 * h1 \in Nat /\ n = g[1] + (w(1) + 2 * h1) * 2 ^ 1
      BY <1>4, <1>5, <1>6, <1>21
  <2> QED
      BY <2>1
<1>23. ASSUME NEW k \in 0..15
      PROVE  (n \div 2 ^ k) % 2 = w(k)
  <2>1. (n \div 2 ^ 0) % 2 = w(0)
    <3>1. n = g[0] + w(0) * 2 ^ 0 + h0 * 2 ^ 1
        BY <1>4, <1>5, <1>6, <1>22
    <3>2. g[0] \in Nat /\ g[0] < 2 ^ 0 /\ w(0) \in {0, 1}
        BY <1>5, <1>6
    <3> QED
        BY <3>1, <3>2
  <2>2. (n \div 2 ^ 1) % 2 = w(1)
    <3>1. n = g[1] + w(1) * 2 ^ 1 + h1 * 2 ^ 2
        BY <1>4, <1>5, <1>6, <1>21
    <3>2. g[1] \in Nat /\ g[1] < 2 ^ 1 /\ w(1) \in {0, 1}
        BY <1>5, <1>6
    <3> QED
        BY <3>1, <3>2
  <2>3. (n \div 2 ^ 2) % 2 = w(2)
    <3>1. n = g[2] + w(2) * 2 ^ 2 + h2 * 2 ^ 3
        BY <1>4, <1>5, <1>6, <1>20
    <3>2. g[2] \in Nat /\ g[2] < 2 ^ 2 /\ w(2) \in {0, 1}
        BY <1>5, <1>6
    <3> QED
        BY <3>1, <3>2
  <2>4. (n \div 2 ^ 3) % 2 = w(3)
    <3>1. n = g[3] + w(3) * 2 ^ 3 + h3 * 2 ^ 4
        BY <1>4, <1>5, <1>6, <1>19
    <3>2. g[3] \in Nat /\ g[3] < 2 ^ 3 /\ w(3) \in {0, 1}
        BY <1>5, <1>6
    <3> QED
        BY <3>1, <3>2
  <2>5. (n \div 2 ^ 4) % 2 = w(4)
    <3>1. n = g[4] + w(4) * 2 ^ 4 + h4 * 2 ^ 5
        BY <1>4, <1>5, <1>6, <1>18
    <3>2. g[4] \in Nat /\ g[4] < 2 ^ 4 /\ w(4) \in {0, 1}
        BY <1>5, <1>6
    <3> QED
        BY <3>1, <3>2
  <2>6. (n \div 2 ^ 5) % 2 = w(5)
    <3>1. n = g[5] + w(5) * 2 ^ 5 + h5 * 2 ^ 6
        BY <1>4, <1>5, <1>6, <1>17
    <3>2. g[5] \in Nat /\ g[5] < 2 ^ 5 /\ w(5) \in {0, 1}
        BY <1>5, <1>6
    <3> QED
        BY <3>1, <3>2
  <2>7. (n \div 2 ^ 6) % 2 = w(6)
    <3>1. n = g[6] + w(6) * 2 ^ 6 + h6 * 2 ^ 7
        BY <1>4, <1>5, <1>6, <1>16
    <3>2. g[6] \in Nat /\ g[6] < 2 ^ 6 /\ w(6) \in {0, 1}
        BY <1>5, <1>6
    <3> QED
        BY <3>1, <3>2
  <2>8. (n \div 2 ^ 7) % 2 = w(7)
    <3>1. n = g[7] + w(7) * 2 ^ 7 + h7 * 2 ^ 8
        BY <1>4, <1>5, <1>6, <1>15
    <3>2. g[7] \in Nat /\ g[7] < 2 ^ 7 /\ w(7) \in {0, 1}
        BY <1>5, <1>6
    <3> QED
        BY <3>1, <3>2
  <2>9. (n \div 2 ^ 8) % 2 = w(8)
    <3>1. n = g[8] + w(8) * 2 ^ 8 + h8 * 2 ^ 9
        BY <1>4, <1>5, <1>6, <1>14
    <3>2. g[8] \in Nat /\ g[8] < 2 ^ 8 /\ w(8) \in {0, 1}
        BY <1>5, <1>6
    <3> QED
        BY <3>1, <3>2
  <2>10. (n \div 2 ^ 9) % 2 = w(9)
    <3>1. n = g[9] + w(9) * 2 ^ 9 + h9 * 2 ^ 10
        BY <1>4, <1>5, <1>6, <1>13
    <3>2. g[9] \in Nat /\ g[9] < 2 ^ 9 /\ w(9) \in {0, 1}
        BY <1>5, <1>6
    <3> QED
        BY <3>1, <3>2
  <2>11. (n \div 2 ^ 10) % 2 = w(10)
    <3>1. n = g[10] + w(10) * 2 ^ 10 + h10 * 2 ^ 11
        BY <1>4, <1>5, <1>6, <1>12
    <3>2. g[10] \in Nat /\ g[10] < 2 ^ 10 /\ w(10) \in {0, 1}
        BY <1>5, <1>6
    <3> QED
        BY <3>1, <3>2
  <2>12. (n \div 2 ^ 11) % 2 = w(11)
    <3>1. n = g[11] + w(11) * 2 ^ 11 + h11 * 2 ^ 12
        BY <1>4, <1>5, <1>6, <1>11
    <3>2. g[11] \in Nat /\ g[11] < 2 ^ 11 /\ w(11) \in {0, 1}
        BY <1>5, <1>6
    <3> QED
        BY <3>1, <3>2
  <2>13. (n \div 2 ^ 12) % 2 = w(12)
    <3>1. n = g[12] + w(12) * 2 ^ 12 + h12 * 2 ^ 13
        BY <1>4, <1>5, <1>6, <1>10
    <3>2. g[12] \in Nat /\ g[12] < 2 ^ 12 /\ w(12) \in {0, 1}
        BY <1>5, <1>6
    <3> QED
        BY <3>1, <3>2
  <2>14. (n \div 2 ^ 13) % 2 = w(13)
    <3>1. n = g[13] + w(13) * 2 ^ 13 + h13 * 2 ^ 14
        BY <1>4, <1>5, <1>6, <1>9
    <3>2. g[13] \in Nat /\ g[13] < 2 ^ 13 /\ w(13) \in {0, 1}
        BY <1>5, <1>6
    <3> QED
        BY <3>1, <3>2
  <2>15. (n \div 2 ^ 14) % 2 = w(14)
    <3>1. n = g[14] + w(14) * 2 ^ 14 + h14 * 2 ^ 15
        BY <1>4, <1>5, <1>6, <1>8
    <3>2. g[14] \in Nat /\ g[14] < 2 ^ 14 /\ w(14) \in {0, 1}
        BY <1>5, <1>6
    <3> QED
        BY <3>1, <3>2
  <2>16. (n \div 2 ^ 15) % 2 = w(15)
    <3>1. n = g[15] + w(15) * 2 ^ 15 + h15 * 2 ^ 16
        BY <1>4, <1>5, <1>6, <1>7
    <3>2. g[15] \in Nat /\ g[15] < 2 ^ 15 /\ w(15) \in {0, 1}
        BY <1>5, <1>6
    <3> QED
        BY <3>1, <3>2, LastBitAt
  <2>17. k = 0 \/ k = 1 \/ k = 2 \/ k = 3 \/ k = 4 \/ k = 5 \/ k = 6 \/ k = 7
         \/ k = 8 \/ k = 9 \/ k = 10 \/ k = 11 \/ k = 12 \/ k = 13 \/ k = 14 \/ k = 15
      OBVIOUS
  <2> QED
      BY <2>1, <2>2, <2>3, <2>4, <2>5, <2>6, <2>7, <2>8, <2>9,
         <2>10, <2>11, <2>12, <2>13, <2>14, <2>15, <2>16, <2>17
<1>24. Bits(n) = bits
  <2>1. Bits(n) = {k \in 0..15 : w(k) = 1}
      BY <1>23 DEF Bits
  <2>2. \A k \in 0..15 : w(k) = 1 <=> k \in bits
      BY DEF w
  <2>3. bits = {k \in 0..15 : k \in bits}
      OBVIOUS
  <2> QED
      BY <2>1, <2>2, <2>3
<1> QED
    BY <1>3, <1>6, <1>24 DEF n

-----------------------------------------------------------------------------
(* What names, records and questions say *)

(* A name says the same after it was written and read. *)
LEMMA SameName ==
    ASSUME NEW name \in Seq(Byte), Writable(name)
    PROVE  AsRead(name) \in Seq(Byte) /\ Unrooted(AsRead(name)) = Unrooted(name)
<1>1. CASE IsRoot(name)
  <2>1. Unrooted(<<Dot>>) = <<>> /\ Unrooted(<<>>) = <<>>
    <3>1. Last(<<Dot>>) = Dot /\ Front(<<Dot>>) = <<>>
        BY DEF Last, Front
    <3> QED
        BY <3>1 DEF Unrooted
  <2>2. <<Dot>> \in Seq(Byte)
      BY DEF Dot, Byte
  <2> QED
      BY <1>1, <2>1, <2>2 DEF AsRead, IsRoot
<1>2. CASE ~IsRoot(name)
  <2> DEFINE u == Unrooted(name)
             d == Dotted(name)
             n == Len(u)
  <2>1. /\ d \in Seq(Byte) /\ Len(d) = n + 2 /\ n \in Nat /\ u # <<>>
        /\ SubSeq(d, 2, Len(d) - 1) = u /\ d[Len(d) - 1] # Dot /\ u \in Seq(Byte)
      BY <1>2, WrittenName, UnrootedLength, DottedTypes
  <2> HIDE DEF u, d
  <2>2. n > 0 /\ u[n] = d[n + 1]
    <3>1. n # 0
        BY <2>1
    <3>2. /\ \A k \in 1..((n + 1) + 1 - 2) : SubSeq(d, 2, n + 1)[k] = d[2 + k - 1]
        BY <2>1, <3>1, Slice, 2 \in Nat \ {0}
    <3>3. n \in 1..((n + 1) + 1 - 2) /\ 2 + n - 1 = n + 1 /\ Len(d) - 1 = n + 1
        BY <2>1, <3>1
    <3> QED
        BY <2>1, <3>1, <3>2, <3>3
  <2>3. Last(u) # Dot
    <3>1. Last(u) = u[n]
        BY DEF Last
    <3>2. n + 1 = Len(d) - 1
        BY <2>1
    <3> QED
        BY <2>1, <2>2, <3>1, <3>2
  <2>4. Unrooted(u) = u
      BY <2>3 DEF Unrooted
  <2> QED
      BY <1>2, <2>1, <2>4 DEF AsRead, u
<1> QED
    BY <1>1, <1>2

(* A record says the same after it was written and read. *)
LEMMA SameContent ==
    ASSUME NEW r, Sound(r), Writeable(r)
    PROVE  Content(RecordAsRead(r)) = Content(r) /\ RecordAsRead(r).type = r.type
<1> DEFINE s == RecordAsRead(r)
           layout == LayoutOf(r)
           n == Len(r.data)
<1>1. /\ r.name \in Seq(Byte) /\ r.data \in Seq(Seq(Byte)) /\ n \in Nat /\ DOMAIN r.data = 1..n
      /\ Len(layout) = n
    BY DEF Sound, DnsRecord
<1>2. /\ s.name = AsRead(r.name) /\ s.type = r.type /\ s.class = r.class /\ s.ttl = r.ttl
      /\ s.data = DataAsRead(r)
    BY DEF RecordAsRead
<1>3. DOMAIN s.data = 1..n /\ \A k \in 1..n : s.data[k] = FieldAsRead(layout[k], r.data[k])
    BY <1>1, <1>2 DEF DataAsRead
<1> HIDE DEF s
<1>4. LayoutOf(s) = layout
  <2>1. CASE r.type \in {A, AAAA, CNAME, NS, MX, SOA}
    <3>1. \A i, j : DataLayout(r.type, i) = DataLayout(r.type, j)
        BY <2>1 DEF DataLayout
    <3> HIDE DEF DataLayout
    <3> QED
        BY <1>2, <3>1, Zenon DEF LayoutOf
  <2>2. CASE r.type \notin {A, AAAA, CNAME, NS, MX, SOA}
    <3>1. \A i : DataLayout(r.type, i) = <<i>>
        BY <2>2 DEF DataLayout
    <3>2. layout = <<Len(r.data[1])>>
      <4> HIDE DEF DataLayout
      <4> QED
          BY <3>1 DEF LayoutOf
    <3>3. n = 1 /\ layout[1] # AName
      <4>1. Len(layout) = 1
          BY <3>2
      <4>2. r.data[1] \in Seq(Byte)
          BY <1>1, <4>1
      <4> QED
          BY <1>1, <3>2, <4>1, <4>2 DEF AName
    <3>4. s.data[1] = r.data[1]
        BY <1>3, <3>3 DEF FieldAsRead
    <3> HIDE DEF DataLayout
    <3> QED
        BY <1>2, <3>4 DEF LayoutOf
  <2> QED
      BY <2>1, <2>2
<1>5. ASSUME NEW k \in 1..n
      PROVE  (IF layout[k] = AName THEN Unrooted(s.data[k]) ELSE s.data[k])
                = IF layout[k] = AName THEN Unrooted(r.data[k]) ELSE r.data[k]
  <2>1. r.data[k] \in Seq(Byte) /\ (layout[k] = AName => Writable(r.data[k]))
      BY <1>1 DEF Writeable
  <2> HIDE DEF layout
  <2> QED
      BY <1>3, <2>1, SameName DEF FieldAsRead
<1>6. Unrooted(s.name) = Unrooted(r.name)
    BY <1>1, <1>2, SameName DEF Writeable
<1> DEFINE said(x) == [i \in DOMAIN x.data |->
                         IF LayoutOf(x)[i] = AName THEN Unrooted(x.data[i]) ELSE x.data[i]]
<1>7. said(s) = said(r)
    BY <1>1, <1>3, <1>4, <1>5
<1>8. \A x : Content(x) = [name |-> Unrooted(x.name), type |-> x.type, class |-> x.class,
                          ttl |-> x.ttl, data |-> said(x)]
    BY DEF Content
<1> HIDE DEF said
<1>9. Content(s) = Content(r)
    BY <1>2, <1>6, <1>7, <1>8
<1> QED
    BY <1>2, <1>9 DEF s

SoundQuestion(q) == q \in DnsQuestion /\ Fits(q.name)

LEMMA ThreePeeled ==
    ASSUME NEW b \in Seq(Byte), NEW p \in Nat, NEW x \in Seq(Byte), NEW y \in Seq(Byte),
           NEW z \in Seq(Byte), Holds(b, p, x \o y \o z)
    PROVE  /\ Holds(b, p, x) /\ Holds(b, p + Len(x), y) /\ Holds(b, p + Len(x \o y), z)
           /\ p + Len(x) \in Nat /\ p + Len(x \o y) \in Nat
           /\ p + Len(x \o y) = (p + Len(x)) + Len(y)
           /\ p + Len(x \o y \o z) = (p + Len(x \o y)) + Len(z)
<1> DEFINE two == x \o y
<1>1. two \in Seq(Byte)
    OBVIOUS
<1> HIDE DEF two
<1>2. Holds(b, p, two \o z)
    BY DEF two
<1>3. /\ Holds(b, p, two) /\ Holds(b, p + Len(two), z) /\ p + Len(two) \in Nat
      /\ p + Len(two \o z) = (p + Len(two)) + Len(z)
    BY <1>1, <1>2, Peeled
<1>4. /\ Holds(b, p, x) /\ Holds(b, p + Len(x), y) /\ p + Len(x) \in Nat
      /\ p + Len(x \o y) = (p + Len(x)) + Len(y)
    BY <1>3, Peeled DEF two
<1> QED
    BY <1>3, <1>4 DEF two

(* A question that a datagram holds is read. *)
LEMMA HeldQuestionRead ==
    ASSUME NEW b \in Seq(Byte), NEW p \in Nat,
           NEW q, SoundQuestion(q), Writable(q.name), Holds(b, p, WriteQuestion(q))
    PROVE  ReadQuestion(b, p) = {[pos |-> p + Len(WriteQuestion(q)), value |-> QuestionAsRead(q)]}
<1> DEFINE L == QuestionFields
           u == WriteQname(q.name)
           two == u \o q.type
           all == WriteQuestion(q)
           values == <<q.name, q.type, q.class>>
           at == [k \in 0..3 |-> IF k = 0 THEN p ELSE
                                  IF k = 1 THEN p + Len(u) ELSE
                                  IF k = 2 THEN p + Len(two) ELSE p + Len(all)]
           read == [i \in 1..3 |-> FieldAsRead(L[i], values[i])]
<1>1. /\ L \in Seq(Field) /\ Len(L) = 3 /\ L[1] = AName /\ L[2] = 2 /\ L[3] = 2
    BY DEF QuestionFields, Field
<1>2. /\ q.name \in Seq(Byte) /\ q.type \in Seq(Byte) /\ q.class \in Seq(Byte)
      /\ Len(q.type) = 2 /\ Len(q.class) = 2 /\ Fits(q.name)
    BY DEF SoundQuestion, DnsQuestion, Bytes
<1>3. /\ values \in Seq(Seq(Byte)) /\ Len(values) = 3
      /\ values[1] = q.name /\ values[2] = q.type /\ values[3] = q.class
    BY <1>2
<1>4. u \in Seq(Byte)
    BY <1>2, WriteQnameTypes
<1>5. all = two \o q.class
    BY DEF WriteQuestion
<1> HIDE DEF u, all, L
<1>6. two \in Seq(Byte)
    BY <1>2, <1>4
<1> HIDE DEF two
<1>7. all \in Seq(Byte) /\ Holds(b, p, all)
    BY <1>2, <1>5, <1>6 DEF all
<1>8. /\ Holds(b, p + Len(two), q.class) /\ p + Len(two) \in Nat
      /\ p + Len(all) = (p + Len(two)) + Len(q.class)
      /\ Holds(b, p, u) /\ Holds(b, p + Len(u), q.type) /\ p + Len(u) \in Nat
      /\ p + Len(two) = (p + Len(u)) + Len(q.type)
  <2> DEFINE v == q.type
             w == q.class
  <2>1. v \in Seq(Byte) /\ w \in Seq(Byte) /\ all = u \o v \o w /\ two = u \o v
      BY <1>2, <1>5 DEF two
  <2>2. Holds(b, p, u \o v \o w)
      BY <1>7, <2>1
  <2> HIDE DEF v, w
  <2>3. /\ Holds(b, p, u) /\ Holds(b, p + Len(u), v) /\ Holds(b, p + Len(u \o v), w)
        /\ p + Len(u) \in Nat /\ p + Len(u \o v) \in Nat
        /\ p + Len(u \o v) = (p + Len(u)) + Len(v)
        /\ p + Len(u \o v \o w) = (p + Len(u \o v)) + Len(w)
      BY <1>4, <2>1, <2>2, ThreePeeled
  <2> QED
      BY <2>1, <2>3 DEF v, w
<1>10. /\ at[0] = p /\ at[1] = p + Len(u) /\ at[2] = p + Len(two) /\ at[3] = p + Len(all)
    OBVIOUS
<1> HIDE DEF at, values
<1>11. /\ FieldBytes(L[1], values[1]) = u /\ FieldBytes(L[2], values[2]) = q.type
       /\ FieldBytes(L[3], values[3]) = q.class
    BY <1>1, <1>3 DEF FieldBytes, AName, u
<1>12. /\ FitsField(L[1], values[1]) /\ FitsField(L[2], values[2]) /\ FitsField(L[3], values[3])
    BY <1>1, <1>2, <1>3 DEF FitsField, AName
<1>13. FieldsHeld(at, b, L, values)
  <2> DEFINE Good(k) == /\ FitsField(L[k], values[k])
                        /\ at[k - 1] \in Nat
                        /\ at[k] = at[k - 1] + Len(FieldBytes(L[k], values[k]))
                        /\ Holds(b, at[k - 1], FieldBytes(L[k], values[k]))
  <2>1. Good(1)
      BY <1>8, <1>10, <1>11, <1>12, 1 - 1 = 0
  <2>2. Good(2)
      BY <1>8, <1>10, <1>11, <1>12, 2 - 1 = 1
  <2>3. Good(3)
      BY <1>8, <1>10, <1>11, <1>12, 3 - 1 = 2
  <2> HIDE DEF Good
  <2>4. \A k \in 1..3 : k = 1 \/ k = 2 \/ k = 3
      OBVIOUS
  <2>5. \A k \in 1..3 : Good(k)
      BY <2>1, <2>2, <2>3, <2>4
  <2> QED
      BY <1>1, <1>3, <2>5 DEF FieldsHeld, Good
<1>14. at[0] \in 0..Len(b)
  <2>1. Len(all) \in Nat /\ p + Len(all) <= Len(b) /\ Len(b) \in Nat
      BY <1>7 DEF Holds
  <2> QED
      BY <1>10, <2>1
<1>15. FieldsAsRead(b, at[0], at[Len(L)], L, values)
    BY <1>1, <1>3, <1>13, <1>14, HeldFieldsRead
<1>16. ReadFields(b, p, L) = {[pos |-> p + Len(all), values |-> read]}
    BY <1>1, <1>10, <1>15 DEF FieldsAsRead
<1>17. read[1] = AsRead(q.name) /\ read[2] = q.type /\ read[3] = q.class
    BY <1>1, <1>3 DEF FieldAsRead, AName
<1>18. ReadQuestion(b, p) =
          {[pos |-> x.pos, value |-> [name |-> x.values[1], type |-> x.values[2],
                                      class |-> x.values[3]]] : x \in ReadFields(b, p, L)}
    BY DEF ReadQuestion, QuestionFields, L
<1> HIDE DEF read
<1>19. ReadQuestion(b, p) = {[pos |-> p + Len(all), value |-> QuestionAsRead(q)]}
    BY <1>16, <1>17, <1>18 DEF QuestionAsRead
<1> QED
    BY <1>19 DEF all

-----------------------------------------------------------------------------
(* Sections *)

(* Items that each can be read where the one before it ends are a section. *)
ItemsRead(at, b, section, n, T, values) ==
    /\ at[0] \in 0..Len(b) /\ values \in [1..n -> T]
    /\ \A k \in 1..n :
          ReadItem(b, at[k - 1], section) = {[pos |-> at[k], value |-> values[k]]}

LEMMA ItemsAreSection ==
    ASSUME NEW b \in Seq(Byte), NEW section, NEW n \in Nat, NEW at, NEW T, NEW values,
           ItemsRead(at, b, section, n, T, values)
    PROVE  ReadSection(b, at[0], section, n) = {[pos |-> at[n], values |-> values]}
<1> DEFINE up(k) == [i \in 1..k |-> values[i]]
<1>1. at[0] \in 0..Len(b) /\ values \in [1..n -> T]
    BY DEF ItemsRead
<1>2. PICK g : /\ SectionRounds(g, b, at[0], section, n)
               /\ ReadSection(b, at[0], section, n) = g[n]
    BY <1>1, ReadSectionRounds
<1> DEFINE right == {k \in 0..n : g[k] = {[pos |-> at[k], values |-> up(k)]}}
<1>3. 0 \in right
  <2>1. up(0) = <<>>
      OBVIOUS
  <2> HIDE DEF up
  <2> QED
      BY <1>2, <2>1 DEF SectionRounds
<1>4. ASSUME NEW k \in 1..n, k - 1 \in right
      PROVE  k \in right
  <2> DEFINE s == [pos |-> at[k - 1], values |-> up(k - 1)]
             r == [pos |-> at[k], value |-> values[k]]
  <2>1. g[k] = NextItem(b, section, g[k - 1])
      BY <1>2 DEF SectionRounds
  <2>2. g[k - 1] = {s} /\ ReadItem(b, s.pos, section) = {r}
      BY <1>4 DEF ItemsRead
  <2> DEFINE item(x, y) == [pos |-> y.pos, values |-> Append(x.values, y.value)]
  <2>3. item(s, r) = [pos |-> at[k], values |-> Append(up(k - 1), values[k])]
      OBVIOUS
  <2>4. g[k] = UNION {{item(x, y) : y \in ReadItem(b, x.pos, section)} : x \in g[k - 1]}
      BY <2>1 DEF NextItem
  <2> HIDE DEF s, r, item
  <2>6. g[k] = {item(s, r)}
      BY <2>2, <2>4
  <2>5. Append(up(k - 1), values[k]) = up(k)
    <3>1. k - 1 \in Nat /\ (k - 1) + 1 = k /\ \A i \in 1..k : values[i] \in T
        BY <1>1
    <3>2. up(k - 1) \in Seq(T) /\ Len(up(k - 1)) = k - 1
        BY <3>1
    <3> QED
        BY <3>1, <3>2
  <2> HIDE DEF up
  <2>7. g[k] = {[pos |-> at[k], values |-> up(k)]}
      BY <2>3, <2>5, <2>6
  <2> QED
      BY <2>7
<1>5. n \in right
  <2> HIDE DEF right
  <2>1. \A k \in 1..n : k - 1 \in right => k \in right
      BY <1>4
  <2>2. 0..n \subseteq right
      BY <1>3, <2>1, Upwards
  <2> QED
      BY <2>2
<1>6. up(n) = values
    BY <1>1
<1> HIDE DEF up
<1> QED
    BY <1>2, <1>5, <1>6

(* What takes a byte at least is not more than there are bytes. *)
LEMMA PartsCounted ==
    ASSUME NEW b \in Seq(Byte), NEW p \in Nat, NEW s \in Seq(Seq(Byte)), NEW at,
           Parted(at, b, p, s), \A k \in 1..Len(s) : s[k] # <<>>
    PROVE  Len(s) <= Len(b)
<1> DEFINE n == Len(s)
           l == Len(b)
           far == {k \in 0..n : k <= at[k]}
<1>1. n \in Nat /\ l \in Nat /\ at \in [0..n -> 0..l]
    BY DEF Parted
<1>2. 0 \in far
    BY <1>1
<1>3. ASSUME NEW k \in 1..n, k - 1 \in far
      PROVE  k \in far
  <2>1. s[k] \in Seq(Byte) /\ s[k] # <<>>
      OBVIOUS
  <2> DEFINE m == Len(s[k])
  <2>2. m \in Nat /\ m # 0
      BY <2>1
  <2>3. at[k] = at[k - 1] + m
      BY DEF Parted
  <2> HIDE DEF m, n, l
  <2>4. k \in Nat /\ k - 1 \in 0..n /\ k \in 0..n
      BY <1>1
  <2>5. at[k - 1] \in Nat /\ k - 1 <= at[k - 1]
      BY <1>1, <1>3, <2>4
  <2>6. k <= at[k]
      BY <2>2, <2>3, <2>4, <2>5
  <2> QED
      BY <2>4, <2>6
<1>4. n \in far
  <2> HIDE DEF far, n
  <2>1. \A k \in 1..n : k - 1 \in far => k \in far
      BY <1>3
  <2>2. 0..n \subseteq far
      BY <1>1, <1>2, <2>1, Upwards
  <2> QED
      BY <1>1, <2>2
<1>5. n <= at[n] /\ at[n] \in 0..l
    BY <1>1, <1>4
<1> HIDE DEF n, l
<1> QED
    BY <1>1, <1>5 DEF n, l

LEMMA NotEmpty ==
    ASSUME NEW x \in Seq(Byte), NEW y \in Seq(Byte), NEW z \in Seq(Byte), x # <<>>
    PROVE  (x \o y) \o z # <<>>
<1> DEFINE k == Len(x)
           m == Len(y)
           n == Len(z)
           all == (x \o y) \o z
<1>1. k \in Nat /\ k # 0 /\ m \in Nat /\ n \in Nat /\ Len(all) = (k + m) + n
    OBVIOUS
<1> HIDE DEF k, m, n, all
<1>2. Len(all) # 0
    BY <1>1
<1> QED
    BY <1>2 DEF all

LEMMA NameNotEmpty ==
    ASSUME NEW name \in Seq(Byte), Writable(name)
    PROVE  WriteQname(name) \in Seq(Byte) /\ WriteQname(name) # <<>>
<1>1. WriteQname(name) \in Seq(Byte)
    BY WriteQnameTypes
<1>2. CASE IsRoot(name)
    BY <1>1, <1>2 DEF WriteQname
<1>3. CASE ~IsRoot(name)
  <2> DEFINE w == WriteQname(name)
             n == Len(Unrooted(name))
  <2>1. Len(w) = n + 2 /\ n \in Nat
      BY <1>3, WrittenName
  <2> HIDE DEF w, n
  <2>2. Len(w) # 0
      BY <2>1
  <2>3. w # <<>>
      BY <2>2
  <2> QED
      BY <1>1, <2>3 DEF w
<1> QED
    BY <1>2, <1>3

(* Each record takes at least a byte, so there are no more than there are  *)
(* bytes.                                                                  *)
LEMMA RecordNotEmpty ==
    ASSUME NEW r \in DnsRecord, Writeable(r)
    PROVE  WriteRecord(r) \in Seq(Byte) /\ WriteRecord(r) # <<>>
<1> DEFINE u == WriteQname(r.name)
           l == U16Bytes(RdLength(r))
           d == WriteData(r)
<1>1. u \in Seq(Byte) /\ u # <<>>
    BY NameNotEmpty DEF DnsRecord, Writeable
<1>2. d \in Seq(Byte) /\ l \in Seq(Byte)
  <2>1. d \in Seq(Byte) /\ RdLength(r) = Len(d)
      BY RdLengthIsWritten
  <2>2. RdLength(r) \in Int
      BY <2>1
  <2> QED
      BY <2>1, <2>2, U16BytesTypes DEF Bytes
<1> DEFINE t == r.type
           c == r.class
           e == r.ttl
<1>3. t \in Seq(Byte) /\ c \in Seq(Byte) /\ e \in Seq(Byte)
    BY DEF DnsRecord, Bytes
<1>4. WriteRecord(r) = ((((u \o t) \o c) \o e) \o l) \o d
    BY DEF WriteRecord
<1> HIDE DEF u, l, d, t, c, e
<1>5. (u \o t) \o c # <<>> /\ (u \o t) \o c \in Seq(Byte)
    BY <1>1, <1>3, NotEmpty
<1> DEFINE three == (u \o t) \o c
<1> HIDE DEF three
<1>6. three # <<>> /\ three \in Seq(Byte)
    BY <1>5 DEF three
<1>7. (three \o e) \o l # <<>> /\ (three \o e) \o l \in Seq(Byte)
    BY <1>2, <1>3, <1>6, NotEmpty
<1> DEFINE five == (three \o e) \o l
<1> HIDE DEF five
<1>8. five # <<>> /\ five \in Seq(Byte)
    BY <1>7 DEF five
<1>9. (five \o d) \o <<>> # <<>>
    BY <1>2, <1>8, NotEmpty
<1>10. five \o d \in Seq(Byte) /\ (five \o d) \o <<>> = five \o d
    BY <1>2, <1>8
<1> QED
    BY <1>4, <1>9, <1>10 DEF five, three

AllSound(rs) == \A i \in DOMAIN rs : Sound(rs[i]) /\ Writeable(rs[i])

(* Records that a datagram holds, one after the other. *)
RecordsHeld(at, b, p, rs) ==
    /\ Parted(at, b, p, [i \in DOMAIN rs |-> WriteRecord(rs[i])])
    /\ AllSound(rs)

LEMMA HeldRecords ==
    ASSUME NEW b \in Seq(Byte), NEW p \in Nat, NEW rs \in Seq(DnsRecord), AllSound(rs),
           Holds(b, p, WriteAll(rs))
    PROVE  \E at : RecordsHeld(at, b, p, rs) /\ Len(rs) <= Len(b)
<1> DEFINE s == [i \in DOMAIN rs |-> WriteRecord(rs[i])]
           n == Len(rs)
<1>1. n \in Nat /\ DOMAIN rs = 1..n /\ \A i \in 1..n : rs[i] \in DnsRecord
    OBVIOUS
<1>2. \A i \in 1..n : s[i] \in Seq(Byte) /\ s[i] # <<>>
    BY <1>1, RecordNotEmpty DEF AllSound
<1>3. s = [i \in 1..n |-> s[i]]
    BY <1>1
<1>4. WriteAll(rs) = FlattenSeq(s)
    BY DEF WriteAll
<1> HIDE DEF s, n
<1>5. s \in Seq(Seq(Byte)) /\ Len(s) = n
  <2>1. s \in [1..n -> Seq(Byte)]
      BY <1>2, <1>3
  <2> QED
      BY <1>1, <2>1
<1>6. PICK at : Parted(at, b, p, s)
    BY <1>4, <1>5, HoldsParts
<1>7. Len(s) <= Len(b)
    BY <1>2, <1>5, <1>6, PartsCounted
<1>8. RecordsHeld(at, b, p, rs)
    BY <1>6 DEF RecordsHeld, s
<1> QED
    BY <1>5, <1>7, <1>8 DEF n

RecordsAsRead(rs) == [i \in DOMAIN rs |-> RecordAsRead(rs[i])]

(* The records ss are those of rs from the one behind the first lo on.     *)
PartOf(rs, lo, hi, ss) ==
    /\ lo \in Nat /\ hi = lo + Len(ss) /\ hi <= Len(rs)
    /\ \A i \in 1..Len(ss) : rs[lo + i] = ss[i]

OfRecords(section) == section # 1

(* A section as it is read. *)
SectionAs(b, p, e, section, rs) ==
    ReadSection(b, p, section, Len(rs)) = {[pos |-> e, values |-> RecordsAsRead(rs)]}

(* A section is read from where its first record is held, to where its     *)
(* last one ends.                                                          *)
LEMMA HeldSectionRead ==
    ASSUME NEW b \in Seq(Byte), Len(b) < 65536, NEW p \in Nat, NEW rs \in Seq(DnsRecord),
           NEW at, RecordsHeld(at, b, p, rs), NEW section, OfRecords(section),
           NEW lo, NEW hi, NEW ss \in Seq(DnsRecord), PartOf(rs, lo, hi, ss)
    PROVE  SectionAs(b, at[lo], at[hi], section, ss)
<1> DEFINE l == Len(rs)
           n == Len(ss)
           s == [i \in DOMAIN rs |-> WriteRecord(rs[i])]
           up == [k \in 0..n |-> at[lo + k]]
           values == RecordsAsRead(ss)
           T == {RecordAsRead(ss[i]) : i \in 1..n}
<1>1. /\ l \in Nat /\ DOMAIN rs = 1..l /\ n \in Nat /\ DOMAIN ss = 1..n
      /\ lo \in Nat /\ hi = lo + n /\ hi <= l /\ \A i \in 1..n : rs[lo + i] = ss[i]
    BY DEF PartOf
<1>2. AllSound(rs) /\ Parted(at, b, p, s)
    BY DEF RecordsHeld
<1>3. \A k \in 1..l : s[k] = WriteRecord(rs[k])
    BY <1>1
<1>4. values \in [1..n -> T] /\ \A i \in 1..n : values[i] = RecordAsRead(ss[i])
    BY <1>1 DEF RecordsAsRead
<1>9. Len(s) = l
    BY <1>1
<1> HIDE DEF l, n, s, values, T
<1>10. \A k \in 0..l : at[k] \in 0..Len(b) /\ at[k] \in Nat
  <2>1. at \in [0..l -> 0..Len(b)]
      BY <1>2, <1>9 DEF Parted
  <2>2. Len(b) \in Nat
      OBVIOUS
  <2> DEFINE e == Len(b)
  <2> HIDE DEF e
  <2>3. at \in [0..l -> 0..e] /\ e \in Nat
      BY <2>1, <2>2 DEF e
  <2>4. \A k \in 0..l : at[k] \in 0..e /\ at[k] \in Nat
      BY <2>3
  <2> QED
      BY <2>4 DEF e
<1>11. \A k \in 1..l : at[k] = at[k - 1] + Len(s[k]) /\ Holds(b, at[k - 1], s[k])
    BY <1>2, <1>9 DEF Parted
<1>12. \A k \in 1..l : Sound(rs[k]) /\ Writeable(rs[k])
    BY <1>1, <1>2 DEF AllSound
<1>5. ASSUME NEW k \in 1..n
      PROVE  ReadItem(b, up[k - 1], section) = {[pos |-> up[k], value |-> values[k]]}
  <2> DEFINE j == lo + k
  <2>1. j \in 1..l /\ j - 1 \in 0..l /\ lo + (k - 1) = j - 1 /\ k - 1 \in 0..n /\ k \in 0..n
      BY <1>1
  <2>2. up[k - 1] = at[j - 1] /\ up[k] = at[j] /\ values[k] = RecordAsRead(rs[j])
      BY <1>1, <1>4, <2>1
  <2> HIDE DEF j, up
  <2> DEFINE r == rs[j]
  <2>5. Sound(r) /\ Writeable(r) /\ s[j] = WriteRecord(r)
      BY <1>3, <1>12, <2>1
  <2> HIDE DEF r
  <2>6. at[j - 1] \in Nat
      BY <1>10, <2>1
  <2>7. Holds(b, at[j - 1], s[j]) /\ at[j] = at[j - 1] + Len(s[j])
      BY <1>11, <2>1
  <2>3. /\ Sound(r) /\ Writeable(r) /\ at[j - 1] \in Nat /\ Holds(b, at[j - 1], WriteRecord(r))
        /\ at[j] = at[j - 1] + Len(WriteRecord(r))
      BY <2>5, <2>6, <2>7
  <2>4. ReadRecord(b, at[j - 1]) =
           {[pos |-> at[j - 1] + Len(WriteRecord(r)), value |-> RecordAsRead(r)]}
      BY <2>3, HeldRecordRead
  <2> QED
      BY <2>2, <2>3, <2>4 DEF ReadItem, OfRecords, r
<1>6. up[0] = at[lo] /\ up[n] = at[hi] /\ at[lo] \in 0..Len(b)
  <2>1. 0 \in 0..n /\ n \in 0..n /\ lo + 0 = lo /\ lo \in 0..l
      BY <1>1
  <2> QED
      BY <1>1, <1>10, <2>1
<1> HIDE DEF up
<1>7. ItemsRead(up, b, section, n, T, values)
    BY <1>4, <1>5, <1>6 DEF ItemsRead
<1>8. ReadSection(b, up[0], section, n) = {[pos |-> up[n], values |-> values]}
    BY <1>1, <1>7, ItemsAreSection
<1> QED
    BY <1>6, <1>8 DEF SectionAs, values, n

-----------------------------------------------------------------------------
(* The header *)

Six(u, v, w, x, y, z) == u \o v \o w \o x \o y \o z

LEMMA HeldSix ==
    ASSUME NEW b \in Seq(Byte), NEW u \in Bytes(2), NEW v \in Bytes(2), NEW w \in Bytes(2),
           NEW x \in Bytes(2), NEW y \in Bytes(2), NEW z \in Bytes(2),
           Holds(b, 0, Six(u, v, w, x, y, z))
    PROVE  /\ Holds(b, 0, u) /\ Holds(b, 2, v) /\ Holds(b, 4, w)
           /\ Holds(b, 6, x) /\ Holds(b, 8, y) /\ Holds(b, 10, z)
           /\ Six(u, v, w, x, y, z) \in Bytes(12)
<1> DEFINE two == u \o v
           three == two \o w
           four == three \o x
           five == four \o y
           all == Six(u, v, w, x, y, z)
<1>1. /\ u \in Seq(Byte) /\ Len(u) = 2 /\ v \in Seq(Byte) /\ Len(v) = 2
      /\ w \in Seq(Byte) /\ Len(w) = 2 /\ x \in Seq(Byte) /\ Len(x) = 2
      /\ y \in Seq(Byte) /\ Len(y) = 2 /\ z \in Seq(Byte) /\ Len(z) = 2
    BY DEF Bytes
<1>2. all = five \o z
    BY DEF Six
<1> HIDE DEF all
<1>3. two \in Seq(Byte) /\ Len(two) = 4
  <2>1. u \o v \in Seq(Byte) /\ Len(u \o v) = Len(u) + Len(v)
      BY <1>1, Joined
  <2> HIDE DEF two
  <2> QED
      BY <1>1, <2>1 DEF two
<1> HIDE DEF two
<1>4. three \in Seq(Byte) /\ Len(three) = 6
  <2>1. two \o w \in Seq(Byte) /\ Len(two \o w) = Len(two) + Len(w)
      BY <1>1, <1>3, Joined
  <2> HIDE DEF three
  <2> QED
      BY <1>1, <1>3, <2>1 DEF three
<1> HIDE DEF three
<1>5. four \in Seq(Byte) /\ Len(four) = 8
  <2>1. three \o x \in Seq(Byte) /\ Len(three \o x) = Len(three) + Len(x)
      BY <1>1, <1>4, Joined
  <2> HIDE DEF four
  <2> QED
      BY <1>1, <1>4, <2>1 DEF four
<1> HIDE DEF four
<1>6. five \in Seq(Byte) /\ Len(five) = 10
  <2>1. four \o y \in Seq(Byte) /\ Len(four \o y) = Len(four) + Len(y)
      BY <1>1, <1>5, Joined
  <2> HIDE DEF five
  <2> QED
      BY <1>1, <1>5, <2>1 DEF five
<1> HIDE DEF five
<1>7. all \in Seq(Byte) /\ Len(all) = 12
  <2>1. five \o z \in Seq(Byte) /\ Len(five \o z) = Len(five) + Len(z)
      BY <1>1, <1>6, Joined
  <2> QED
      BY <1>1, <1>2, <1>6, <2>1
<1>8. Holds(b, 0, five \o z) /\ 0 \in Nat
    BY <1>2 DEF all
<1>9. Holds(b, 0, five) /\ Holds(b, 10, z)
  <2>1. Holds(b, 0, five) /\ Holds(b, 0 + Len(five), z)
      BY <1>1, <1>6, <1>8, Peeled
  <2>2. 0 + Len(five) = 10
      BY <1>6
  <2> QED
      BY <2>1, <2>2
<1>10. Holds(b, 0, four) /\ Holds(b, 8, y)
  <2>1. Holds(b, 0, four) /\ Holds(b, 0 + Len(four), y)
      BY <1>1, <1>5, <1>8, <1>9, Peeled DEF five
  <2>2. 0 + Len(four) = 8
      BY <1>5
  <2> QED
      BY <2>1, <2>2
<1>11. Holds(b, 0, three) /\ Holds(b, 6, x)
  <2>1. Holds(b, 0, three) /\ Holds(b, 0 + Len(three), x)
      BY <1>1, <1>4, <1>8, <1>10, Peeled DEF four
  <2>2. 0 + Len(three) = 6
      BY <1>4
  <2> QED
      BY <2>1, <2>2
<1>12. Holds(b, 0, two) /\ Holds(b, 4, w)
  <2>1. Holds(b, 0, two) /\ Holds(b, 0 + Len(two), w)
      BY <1>1, <1>3, <1>8, <1>11, Peeled DEF three
  <2>2. 0 + Len(two) = 4
      BY <1>3
  <2> QED
      BY <2>1, <2>2
<1>13. Holds(b, 0, u) /\ Holds(b, 2, v)
  <2>1. Holds(b, 0, u) /\ Holds(b, 0 + Len(u), v)
      BY <1>1, <1>8, <1>12, Peeled DEF two
  <2>2. 0 + Len(u) = 2
      BY <1>1
  <2> QED
      BY <2>1, <2>2
<1>14. all \in Bytes(12)
    BY <1>7 DEF Bytes
<1> QED
    BY <1>9, <1>10, <1>11, <1>12, <1>13, <1>14 DEF all

(* The six numbers of a header are read. *)
LEMMA HeldHeader ==
    ASSUME NEW b \in Seq(Byte), NEW u \in Bytes(2), NEW v \in Bytes(2), NEW w \in Bytes(2),
           NEW x \in Bytes(2), NEW y \in Bytes(2), NEW z \in Bytes(2),
           Holds(b, 0, Six(u, v, w, x, y, z))
    PROVE  ReadFields(b, 0, HeaderFields) = {[pos |-> 12, values |-> <<u, v, w, x, y, z>>]}
<1> DEFINE values == <<u, v, w, x, y, z>>
           at == [k \in 0..6 |-> 2 * k]
           L == HeaderFields
<1>1. L \in Seq(Field) /\ Len(L) = 6 /\ (\A k \in 1..6 : L[k] = 2) /\ 2 # AName
    BY DEF HeaderFields, Field, AName
<1>2. /\ u \in Seq(Byte) /\ Len(u) = 2 /\ v \in Seq(Byte) /\ Len(v) = 2
      /\ w \in Seq(Byte) /\ Len(w) = 2 /\ x \in Seq(Byte) /\ Len(x) = 2
      /\ y \in Seq(Byte) /\ Len(y) = 2 /\ z \in Seq(Byte) /\ Len(z) = 2
    BY DEF Bytes
<1>3. /\ values \in Seq(Seq(Byte)) /\ Len(values) = 6
      /\ values[1] = u /\ values[2] = v /\ values[3] = w /\ values[4] = x
      /\ values[5] = y /\ values[6] = z
    BY <1>2
<1>4. /\ Holds(b, 0, u) /\ Holds(b, 2, v) /\ Holds(b, 4, w)
      /\ Holds(b, 6, x) /\ Holds(b, 8, y) /\ Holds(b, 10, z)
    BY HeldSix
<1>5. /\ at[0] = 0 /\ at[1] = 2 /\ at[2] = 4 /\ at[3] = 6 /\ at[4] = 8 /\ at[5] = 10
      /\ at[6] = 12 /\ at[0] \in 0..Len(b)
    OBVIOUS
<1>6. \A k \in 1..6 : k = 1 \/ k = 2 \/ k = 3 \/ k = 4 \/ k = 5 \/ k = 6
    OBVIOUS
<1> HIDE DEF values, L
<1>7. ASSUME NEW k \in 1..6
      PROVE  /\ values[k] \in Seq(Byte) /\ Len(values[k]) = 2
             /\ at[k - 1] \in Nat /\ at[k] = at[k - 1] + 2 /\ Holds(b, at[k - 1], values[k])
  <2>1. values[k] \in Seq(Byte) /\ Len(values[k]) = 2
      BY <1>2, <1>3, <1>6
  <2>2. k - 1 \in 0..6 /\ k \in 0..6 /\ 2 * (k - 1) \in Nat /\ 2 * k = 2 * (k - 1) + 2
      OBVIOUS
  <2>3. at[k - 1] \in Nat /\ at[k] = at[k - 1] + 2
      BY <2>2
  <2> HIDE DEF at
  <2>4. Holds(b, at[k - 1], values[k])
    <3>1. /\ 1 - 1 = 0 /\ 2 - 1 = 1 /\ 3 - 1 = 2 /\ 4 - 1 = 3 /\ 5 - 1 = 4 /\ 6 - 1 = 5
        OBVIOUS
    <3> QED
        BY <1>3, <1>4, <1>5, <1>6, <3>1
  <2> QED
      BY <2>1, <2>3, <2>4
<1> HIDE DEF at
<1>8. FieldsHeld(at, b, L, values)
    BY <1>1, <1>3, <1>7 DEF FieldsHeld, FitsField, FieldBytes
<1>9. FieldsAsRead(b, at[0], at[Len(L)], L, values)
    BY <1>1, <1>3, <1>5, <1>8, HeldFieldsRead
<1>10. ReadFields(b, 0, L) = {[pos |-> 12, values |-> [k \in 1..6 |-> FieldAsRead(L[k], values[k])]]}
    BY <1>1, <1>5, <1>9 DEF FieldsAsRead
<1>11. [k \in 1..6 |-> FieldAsRead(L[k], values[k])] = values
  <2>1. \A k \in 1..6 : FieldAsRead(L[k], values[k]) = values[k]
      BY <1>1 DEF FieldAsRead
  <2>2. values = [k \in 1..6 |-> values[k]]
      BY <1>3
  <2> QED
      BY <2>1, <2>2
<1> QED
    BY <1>10, <1>11 DEF L, values

LEMMA SixTypes ==
    ASSUME NEW u \in Bytes(2), NEW v \in Bytes(2), NEW w \in Bytes(2),
           NEW x \in Bytes(2), NEW y \in Bytes(2), NEW z \in Bytes(2)
    PROVE  Six(u, v, w, x, y, z) \in Seq(Byte) /\ Len(Six(u, v, w, x, y, z)) = 12
<1>1. /\ u \in Seq(Byte) /\ Len(u) = 2 /\ v \in Seq(Byte) /\ Len(v) = 2
      /\ w \in Seq(Byte) /\ Len(w) = 2 /\ x \in Seq(Byte) /\ Len(x) = 2
      /\ y \in Seq(Byte) /\ Len(y) = 2 /\ z \in Seq(Byte) /\ Len(z) = 2
    BY DEF Bytes
<1> DEFINE two == u \o v
           three == two \o w
           four == three \o x
           five == four \o y
           all == Six(u, v, w, x, y, z)
<1>2. two \in Seq(Byte) /\ Len(two) = Len(u) + Len(v)
    BY <1>1, Joined
<1> HIDE DEF two
<1>3. three \in Seq(Byte) /\ Len(three) = Len(two) + Len(w)
    BY <1>1, <1>2, Joined
<1>4. all = five \o z
    BY DEF Six, two
<1> HIDE DEF three
<1>5. four \in Seq(Byte) /\ Len(four) = Len(three) + Len(x)
    BY <1>1, <1>3, Joined
<1> HIDE DEF four
<1>6. five \in Seq(Byte) /\ Len(five) = Len(four) + Len(y)
    BY <1>1, <1>5, Joined
<1> HIDE DEF five
<1>7. five \o z \in Seq(Byte) /\ Len(five \o z) = Len(five) + Len(z)
    BY <1>1, <1>6, Joined
<1>8. Len(five \o z) = 12
    BY <1>1, <1>2, <1>3, <1>5, <1>6, <1>7
<1> HIDE DEF all
<1> QED
    BY <1>4, <1>7, <1>8 DEF all

LEMMA HoldsItself ==
    ASSUME NEW b \in Seq(Byte)
    PROVE  Holds(b, 0, b)
<1>1. Len(b) \in Nat /\ 0 + Len(b) <= Len(b) /\ \A k \in 1..Len(b) : b[0 + k] = b[k]
    OBVIOUS
<1> QED
    BY <1>1 DEF Holds

Follows(t, s, r) == t = [pos |-> r.pos, values |-> Append(s.values, r.values)]

LEMMA NextSectionOf ==
    ASSUME NEW b, NEW h, NEW i, NEW count, count = U16(h.values[2 + i]), NEW s, NEW r, NEW t,
           ReadSection(b, s.pos, i, count) = {r}, Follows(t, s, r)
    PROVE  NextSection(b, h, {s}, i) = {t}
<1> DEFINE item(x, y) == [pos |-> y.pos, values |-> Append(x.values, y.values)]
<1>1. NextSection(b, h, {s}, i) =
         UNION {{item(x, y) : y \in ReadSection(b, x.pos, i, count)} : x \in {s}}
    BY DEF NextSection
<1>2. item(s, r) = t
    BY DEF Follows
<1> HIDE DEF item
<1>3. NextSection(b, h, {s}, i) = {item(s, r)}
    BY <1>1
<1> QED
    BY <1>2, <1>3

(* The sections that follow a header. *)
SectionsOf(b, h, r1, r2, r3, r4) ==
    /\ ReadSection(b, 12, 1, U16(h.values[3])) = {r1}
    /\ ReadSection(b, r1.pos, 2, U16(h.values[4])) = {r2}
    /\ ReadSection(b, r2.pos, 3, U16(h.values[5])) = {r3}
    /\ ReadSection(b, r3.pos, 4, U16(h.values[6])) = {r4}

(* Four sections that follow each other are read in turn. *)
LEMMA ReadSectionsOf ==
    ASSUME NEW b \in Seq(Byte), NEW h \in ReadFields(b, 0, HeaderFields),
           NEW r1, NEW r2, NEW r3, NEW r4, SectionsOf(b, h, r1, r2, r3, r4)
    PROVE  ReadSections(b, h) =
              {[pos |-> r4.pos, values |-> <<r1.values, r2.values, r3.values, r4.values>>]}
<1> DEFINE s0 == [pos |-> 12, values |-> <<>>]
           s1 == [pos |-> r1.pos, values |-> <<r1.values>>]
           s2 == [pos |-> r2.pos, values |-> <<r1.values, r2.values>>]
           s3 == [pos |-> r3.pos, values |-> <<r1.values, r2.values, r3.values>>]
           s4 == [pos |-> r4.pos, values |-> <<r1.values, r2.values, r3.values, r4.values>>]
<1>1. PICK g : /\ g[0] = {[pos |-> h.pos, values |-> <<>>]}
               /\ \A k \in 1..4 : g[k] = NextSection(b, h, g[k - 1], k)
               /\ ReadSections(b, h) = g[4]
    BY ReadSectionsRounds
<1>2. /\ g[1] = NextSection(b, h, g[0], 1) /\ g[2] = NextSection(b, h, g[1], 2)
      /\ g[3] = NextSection(b, h, g[2], 3) /\ g[4] = NextSection(b, h, g[3], 4)
  <2>1. /\ 1 \in 1..4 /\ 2 \in 1..4 /\ 3 \in 1..4 /\ 4 \in 1..4
        /\ 1 - 1 = 0 /\ 2 - 1 = 1 /\ 3 - 1 = 2 /\ 4 - 1 = 3
      OBVIOUS
  <2> QED
      BY <1>1, <2>1
<1>3. g[0] = {s0}
  <2>1. h.pos = 12
      BY HeaderTypes
  <2> QED
      BY <1>1, <2>1
<1>4. /\ 2 + 1 = 3 /\ 2 + 2 = 4 /\ 2 + 3 = 5 /\ 2 + 4 = 6
    OBVIOUS
<1>5. /\ s0.pos = 12 /\ s0.values = <<>>
      /\ s1.pos = r1.pos /\ s1.values = <<r1.values>>
      /\ s2.pos = r2.pos /\ s2.values = <<r1.values, r2.values>>
      /\ s3.pos = r3.pos /\ s3.values = <<r1.values, r2.values, r3.values>>
    OBVIOUS
<1>6. Follows(s1, s0, r1) /\ Follows(s2, s1, r2) /\ Follows(s3, s2, r3) /\ Follows(s4, s3, r4)
  <2>1. Append(<<>>, r1.values) = <<r1.values>>
      BY Appended
  <2>2. Append(<<r1.values>>, r2.values) = <<r1.values, r2.values>>
      BY Appended
  <2>3. Append(<<r1.values, r2.values>>, r3.values) = <<r1.values, r2.values, r3.values>>
      BY Appended
  <2>4. Append(<<r1.values, r2.values, r3.values>>, r4.values)
           = <<r1.values, r2.values, r3.values, r4.values>>
      BY AppendedToThree
  <2>5. Follows(s1, s0, r1)
      BY <1>5, <2>1 DEF Follows
  <2>6. Follows(s2, s1, r2)
      BY <1>5, <2>2 DEF Follows
  <2>7. Follows(s3, s2, r3)
      BY <1>5, <2>3 DEF Follows
  <2>8. Follows(s4, s3, r4)
      BY <1>5, <2>4 DEF Follows
  <2> QED
      BY <2>5, <2>6, <2>7, <2>8
<1>11. /\ U16(h.values[3]) = U16(h.values[2 + 1]) /\ U16(h.values[4]) = U16(h.values[2 + 2])
       /\ U16(h.values[5]) = U16(h.values[2 + 3]) /\ U16(h.values[6]) = U16(h.values[2 + 4])
    BY <1>4
<1> HIDE DEF s0, s1, s2, s3, s4
<1>7. g[1] = {s1}
  <2>1. ReadSection(b, s0.pos, 1, U16(h.values[3])) = {r1}
      BY <1>5 DEF SectionsOf
  <2>2. NextSection(b, h, {s0}, 1) = {s1}
      BY <1>6, <1>11, <2>1, NextSectionOf
  <2> QED
      BY <1>2, <1>3, <2>2
<1>8. g[2] = {s2}
  <2>1. ReadSection(b, s1.pos, 2, U16(h.values[4])) = {r2}
      BY <1>5 DEF SectionsOf
  <2>2. NextSection(b, h, {s1}, 2) = {s2}
      BY <1>6, <1>11, <2>1, NextSectionOf
  <2> QED
      BY <1>2, <1>7, <2>2
<1>9. g[3] = {s3}
  <2>1. ReadSection(b, s2.pos, 3, U16(h.values[5])) = {r3}
      BY <1>5 DEF SectionsOf
  <2>2. NextSection(b, h, {s2}, 3) = {s3}
      BY <1>6, <1>11, <2>1, NextSectionOf
  <2> QED
      BY <1>2, <1>8, <2>2
<1>10. g[4] = {s4}
  <2>1. ReadSection(b, s3.pos, 4, U16(h.values[6])) = {r4}
      BY <1>5 DEF SectionsOf
  <2>2. NextSection(b, h, {s3}, 4) = {s4}
      BY <1>6, <1>11, <2>1, NextSectionOf
  <2> QED
      BY <1>2, <1>9, <2>2
<1> QED
    BY <1>1, <1>10 DEF s4

LEMMA ReadPacketOf ==
    ASSUME NEW b \in Seq(Byte), NEW h, ReadFields(b, 0, HeaderFields) = {h},
           U16(h.values[3]) <= 1,
           NEW r1, NEW r2, NEW r3, NEW r4, SectionsOf(b, h, r1, r2, r3, r4)
    PROVE  ReadPacket(b) =
              {[id |-> h.values[1], flags |-> Bits(U16(h.values[2])), question |-> r1.values,
                answers |-> r2.values, authorities |-> r3.values, additionals |-> r4.values]}
<1> DEFINE s == [pos |-> r4.pos, values |-> <<r1.values, r2.values, r3.values, r4.values>>]
           item(x, y) == [id |-> x.values[1], flags |-> Bits(U16(x.values[2])),
                          question |-> y.values[1], answers |-> y.values[2],
                          authorities |-> y.values[3], additionals |-> y.values[4]]
<1>1. ReadSections(b, h) = {s}
    BY ReadSectionsOf
<1>2. {x \in ReadFields(b, 0, HeaderFields) : U16(x.values[3]) <= 1} = {h}
    OBVIOUS
<1>3. ReadPacket(b) =
         UNION {{item(x, y) : y \in ReadSections(b, x)} :
                   x \in {x \in ReadFields(b, 0, HeaderFields) : U16(x.values[3]) <= 1}}
    BY DEF ReadPacket, HeaderFields
<1>4. item(h, s) = [id |-> h.values[1], flags |-> Bits(U16(h.values[2])), question |-> r1.values,
                    answers |-> r2.values, authorities |-> r3.values, additionals |-> r4.values]
    OBVIOUS
<1> HIDE DEF item, s
<1>5. ReadPacket(b) = {item(h, s)}
    BY <1>1, <1>2, <1>3
<1> QED
    BY <1>4, <1>5

-----------------------------------------------------------------------------
(* Packets that are written *)

QuestionsAsRead(qs) == [i \in DOMAIN qs |-> QuestionAsRead(qs[i])]
WriteQuestions(qs) == FlattenSeq([i \in DOMAIN qs |-> WriteQuestion(qs[i])])

(* The question section is read. *)
LEMMA HeldQuestionsRead ==
    ASSUME NEW b \in Seq(Byte), NEW p \in Nat, NEW qs \in Seq(DnsQuestion),
           \A i \in DOMAIN qs : SoundQuestion(qs[i]) /\ Writable(qs[i].name),
           Holds(b, p, WriteQuestions(qs))
    PROVE  ReadSection(b, p, 1, Len(qs)) =
              {[pos |-> p + Len(WriteQuestions(qs)), values |-> QuestionsAsRead(qs)]}
<1> DEFINE s == [i \in DOMAIN qs |-> WriteQuestion(qs[i])]
           n == Len(qs)
           values == QuestionsAsRead(qs)
           T == {QuestionAsRead(qs[i]) : i \in 1..n}
<1>1. n \in Nat /\ DOMAIN qs = 1..n /\ \A i \in 1..n : qs[i] \in DnsQuestion
    OBVIOUS
<1>2. \A i \in 1..n : s[i] \in Seq(Byte)
    BY <1>1, WriteQuestionTypes
<1>3. s = [i \in 1..n |-> s[i]] /\ \A i \in 1..n : s[i] = WriteQuestion(qs[i])
    BY <1>1
<1>4. WriteQuestions(qs) = FlattenSeq(s)
    BY DEF WriteQuestions
<1>5. values \in [1..n -> T] /\ \A i \in 1..n : values[i] = QuestionAsRead(qs[i])
    BY <1>1 DEF QuestionsAsRead
<1> HIDE DEF s, n, values, T
<1>6. s \in Seq(Seq(Byte)) /\ Len(s) = n
  <2>1. s \in [1..n -> Seq(Byte)]
      BY <1>2, <1>3
  <2> QED
      BY <1>1, <2>1
<1>7. PICK at : Parted(at, b, p, s) /\ at[n] = p + Len(WriteQuestions(qs))
    BY <1>4, <1>6, HoldsParts
<1>8. /\ at \in [0..n -> 0..Len(b)] /\ at[0] = p
      /\ \A k \in 1..n : at[k] = at[k - 1] + Len(s[k]) /\ Holds(b, at[k - 1], s[k])
    BY <1>6, <1>7 DEF Parted
<1>9. ASSUME NEW k \in 1..n
      PROVE  ReadItem(b, at[k - 1], 1) = {[pos |-> at[k], value |-> values[k]]}
  <2> DEFINE q == qs[k]
             e == at[k - 1]
  <2>1. k - 1 \in 0..n
      BY <1>1
  <2>2. /\ SoundQuestion(q) /\ Writable(q.name) /\ e \in Nat /\ Holds(b, e, WriteQuestion(q))
        /\ at[k] = e + Len(WriteQuestion(q)) /\ values[k] = QuestionAsRead(q)
      BY <1>1, <1>3, <1>5, <1>8, <2>1
  <2> HIDE DEF q, e
  <2>3. ReadQuestion(b, e) = {[pos |-> e + Len(WriteQuestion(q)), value |-> QuestionAsRead(q)]}
      BY <2>2, HeldQuestionRead
  <2>4. ReadItem(b, e, 1) = ReadQuestion(b, e)
      BY DEF ReadItem
  <2> QED
      BY <2>2, <2>3, <2>4 DEF e
<1>10. ItemsRead(at, b, 1, n, T, values)
  <2>1. at[0] \in 0..Len(b)
      BY <1>1, <1>8
  <2> QED
      BY <1>5, <1>9, <2>1 DEF ItemsRead
<1>11. ReadSection(b, at[0], 1, n) = {[pos |-> at[n], values |-> values]}
    BY <1>1, <1>10, ItemsAreSection
<1> QED
    BY <1>7, <1>8, <1>11 DEF n, values

Joins(rs, x, y) ==
    /\ rs \in Seq(DnsRecord) /\ Len(rs) = Len(x) + Len(y)
    /\ \A k \in 1..Len(x) : rs[k] = x[k]
    /\ \A k \in 1..Len(y) : rs[Len(x) + k] = y[k]
InThree(rs, x, y, z) == rs = (x \o y) \o z

LEMMA RecordsJoined ==
    ASSUME NEW x \in Seq(DnsRecord), NEW y \in Seq(DnsRecord)
    PROVE  Joins(x \o y, x, y)
<1>1. x \o y \in Seq(DnsRecord)
    OBVIOUS
<1>2. Len(x \o y) = Len(x) + Len(y)
    OBVIOUS
<1>3. \A k \in 1..Len(x) : (x \o y)[k] = x[k]
    OBVIOUS
<1>4. \A k \in 1..Len(y) : (x \o y)[Len(x) + k] = y[k]
    OBVIOUS
<1> DEFINE z == x \o y
<1> HIDE DEF z
<1>5. Joins(z, x, y)
    BY <1>1, <1>2, <1>3, <1>4 DEF Joins, z
<1> QED
    BY <1>5 DEF z

LEMMA ThreeJoined ==
    ASSUME NEW x \in Seq(DnsRecord), NEW y \in Seq(DnsRecord), NEW z \in Seq(DnsRecord),
           NEW rs, InThree(rs, x, y, z)
    PROVE  /\ rs \in Seq(DnsRecord) /\ Len(rs) = (Len(x) + Len(y)) + Len(z)
           /\ PartOf(rs, 0, Len(x), x) /\ PartOf(rs, Len(x), Len(x) + Len(y), y)
           /\ PartOf(rs, Len(x) + Len(y), (Len(x) + Len(y)) + Len(z), z)
<1> DEFINE two == x \o y
           l == Len(x)
           m == Len(y)
           n == Len(z)
<1>1. Joins(two, x, y)
    BY RecordsJoined
<1>2. /\ two \in Seq(DnsRecord) /\ Len(two) = l + m
      /\ \A i \in 1..l : two[i] = x[i]
      /\ \A i \in 1..m : two[l + i] = y[i]
  <2> HIDE DEF two
  <2> QED
      BY <1>1 DEF Joins
<1>8. rs = two \o z
    BY DEF InThree
<1> HIDE DEF two
<1>9. Joins(rs, two, z)
    BY <1>2, <1>8, RecordsJoined
<1>3. /\ rs \in Seq(DnsRecord) /\ Len(rs) = Len(two) + n
      /\ \A i \in 1..Len(two) : rs[i] = two[i]
      /\ \A i \in 1..n : rs[Len(two) + i] = z[i]
    BY <1>9 DEF Joins
<1>4. l \in Nat /\ m \in Nat /\ n \in Nat
    OBVIOUS
<1> HIDE DEF l, m, n
<1>5. \A i \in 1..l : rs[0 + i] = x[i]
  <2> SUFFICES ASSUME NEW i \in 1..l
               PROVE  rs[0 + i] = x[i]
      OBVIOUS
  <2>1. i \in 1..(l + m) /\ 0 + i = i
      BY <1>4
  <2> QED
      BY <1>2, <1>3, <2>1
<1>6. \A i \in 1..m : rs[l + i] = y[i]
  <2> SUFFICES ASSUME NEW i \in 1..m
               PROVE  rs[l + i] = y[i]
      OBVIOUS
  <2>1. l + i \in 1..(l + m)
      BY <1>4
  <2> QED
      BY <1>2, <1>3, <2>1
<1>7. \A i \in 1..n : rs[(l + m) + i] = z[i]
    BY <1>2, <1>3
<1>10. 0 \in Nat /\ l + m \in Nat /\ l <= (l + m) + n /\ l + m <= (l + m) + n /\ l = 0 + l
    BY <1>4
<1>11. PartOf(rs, 0, l, x)
    BY <1>2, <1>3, <1>5, <1>10 DEF PartOf, l
<1>12. PartOf(rs, l, l + m, y)
    BY <1>2, <1>3, <1>4, <1>6, <1>10 DEF PartOf, m
<1>13. PartOf(rs, l + m, (l + m) + n, z)
    BY <1>2, <1>3, <1>4, <1>7, <1>10 DEF PartOf, n
<1> QED
    BY <1>2, <1>3, <1>11, <1>12, <1>13 DEF l, m, n

(* Three sections, one after the other. *)
LEMMA HeldThreeRead ==
    ASSUME NEW b \in Seq(Byte), Len(b) < 65536, NEW p \in Nat,
           NEW x \in Seq(DnsRecord), NEW y \in Seq(DnsRecord), NEW z \in Seq(DnsRecord),
           NEW rs, InThree(rs, x, y, z), AllSound(rs),
           Holds(b, p, WriteAll(rs))
    PROVE  /\ \E e2, e3, e4 : /\ SectionAs(b, p, e2, 2, x) /\ SectionAs(b, e2, e3, 3, y)
                              /\ SectionAs(b, e3, e4, 4, z)
           /\ Len(x) < 65536 /\ Len(y) < 65536 /\ Len(z) < 65536
<1> DEFINE l == Len(x)
           m == Len(y)
           n == Len(z)
<1>1. /\ l \in Nat /\ m \in Nat /\ n \in Nat /\ rs \in Seq(DnsRecord) /\ Len(rs) = (l + m) + n
      /\ PartOf(rs, 0, l, x) /\ PartOf(rs, l, l + m, y) /\ PartOf(rs, l + m, (l + m) + n, z)
    BY ThreeJoined
<1> HIDE DEF l, m, n
<1>2. PICK at : RecordsHeld(at, b, p, rs) /\ Len(rs) <= Len(b)
    BY <1>1, HeldRecords
<1>3. at[0] = p
    BY <1>2 DEF RecordsHeld, Parted
<1>4. OfRecords(2) /\ OfRecords(3) /\ OfRecords(4)
    BY DEF OfRecords
<1>5. SectionAs(b, at[0], at[l], 2, x)
    BY <1>1, <1>2, <1>4, HeldSectionRead
<1>6. SectionAs(b, at[l], at[l + m], 3, y)
    BY <1>1, <1>2, <1>4, HeldSectionRead
<1>7. SectionAs(b, at[l + m], at[(l + m) + n], 4, z)
    BY <1>1, <1>2, <1>4, HeldSectionRead
<1>8. Len(x) < 65536 /\ Len(y) < 65536 /\ Len(z) < 65536
  <2> DEFINE u == Len(rs)
             v == Len(b)
  <2>1. u = (l + m) + n /\ u <= v /\ v \in Nat /\ v < 65536
      BY <1>1, <1>2
  <2> HIDE DEF u, v
  <2>2. l < 65536 /\ m < 65536 /\ n < 65536
      BY <1>1, <2>1
  <2> QED
      BY <2>2 DEF l, m, n
<1> QED
    BY <1>3, <1>5, <1>6, <1>7, <1>8

(* A packet whose records and question are as such are read. *)
SoundRecords(rs) == rs \in Seq(DnsRecord) /\ \A i \in DOMAIN rs : Sound(rs[i])
SoundPacket(p) ==
    /\ p \in Packet /\ Len(p.question) <= 1
    /\ \A i \in DOMAIN p.question : SoundQuestion(p.question[i])
    /\ SoundRecords(p.answers) /\ SoundRecords(p.authorities) /\ SoundRecords(p.additionals)

LEMMA SoundJoined ==
    ASSUME NEW x, NEW y, SoundRecords(x), SoundRecords(y)
    PROVE  SoundRecords(x \o y)
<1> DEFINE z == x \o y
           n == Len(x)
           m == Len(y)
<1>1. /\ x \in Seq(DnsRecord) /\ y \in Seq(DnsRecord) /\ n \in Nat /\ m \in Nat
      /\ \A k \in 1..n : Sound(x[k])
      /\ \A k \in 1..m : Sound(y[k])
    BY DEF SoundRecords
<1>2. /\ z \in Seq(DnsRecord) /\ Len(z) = n + m /\ \A k \in 1..n : z[k] = x[k]
      /\ \A k \in 1..m : z[n + k] = y[k]
    BY <1>1, RecordsJoined DEF Joins
<1> HIDE DEF z, n, m
<1>3. ASSUME NEW k \in 1..(n + m)
      PROVE  Sound(z[k])
  <2>1. CASE k \in 1..n
      BY <1>1, <1>2, <2>1
  <2>2. CASE k \notin 1..n
    <3>1. k - n \in 1..m /\ n + (k - n) = k
        BY <1>1, <2>2
    <3> QED
        BY <1>1, <1>2, <3>1
  <2> QED
      BY <2>1, <2>2
<1>4. DOMAIN z = 1..(n + m)
    BY <1>2
<1> QED
    BY <1>2, <1>3, <1>4 DEF SoundRecords, z

PacketAsRead(p) ==
    [id |-> p.id, flags |-> p.flags, question |-> QuestionsAsRead(p.question),
     answers |-> RecordsAsRead(p.answers), authorities |-> RecordsAsRead(p.authorities),
     additionals |-> RecordsAsRead(p.additionals)]

(* The header of a packet. *)
HeaderOf(p) ==
    Six(p.id, U16Bytes(Number(p.flags)), U16Bytes(Len(p.question)), U16Bytes(Len(p.answers)),
        U16Bytes(Len(p.authorities)), U16Bytes(Len(p.additionals)))
HeaderValues(p) ==
    <<p.id, U16Bytes(Number(p.flags)), U16Bytes(Len(p.question)), U16Bytes(Len(p.answers)),
      U16Bytes(Len(p.authorities)), U16Bytes(Len(p.additionals))>>

(* A datagram holds what was written of a packet: the header, the question *)
(* and the records of all sections.                                        *)
LEMMA PacketHeld ==
    ASSUME NEW p \in Packet, \A name \in NamesIn(p) : Writable(name),
           NEW b, b = PacketBytes(p)
    PROVE  /\ b \in Seq(Byte)
           /\ ReadFields(b, 0, HeaderFields) = {[pos |-> 12, values |-> HeaderValues(p)]}
           /\ Holds(b, 12, WriteQuestions(p.question))
           /\ 12 + Len(WriteQuestions(p.question)) \in Nat
           /\ Holds(b, 12 + Len(WriteQuestions(p.question)), WriteAll(RecordsOf(p)))
<1> DEFINE six == HeaderOf(p)
           q == WriteQuestions(p.question)
           r == WriteAll(RecordsOf(p))
<1>1. /\ p.id \in Bytes(2) /\ p.question \in Seq(DnsQuestion) /\ RecordsOf(p) \in Seq(DnsRecord)
      /\ Len(p.question) \in Int /\ Len(p.answers) \in Int
      /\ Len(p.authorities) \in Int /\ Len(p.additionals) \in Int
    BY RecordsTypes DEF Packet
<1> DEFINE u == p.id
           v == U16Bytes(Number(p.flags))
           w == U16Bytes(Len(p.question))
           x == U16Bytes(Len(p.answers))
           y == U16Bytes(Len(p.authorities))
           z == U16Bytes(Len(p.additionals))
<1>2. /\ u \in Bytes(2) /\ v \in Bytes(2) /\ w \in Bytes(2)
      /\ x \in Bytes(2) /\ y \in Bytes(2) /\ z \in Bytes(2)
    BY <1>1, NumberTypes, U16BytesTypes
<1>3. b \in Seq(Byte)
    BY PacketBytesTypes
<1>4. q \in Seq(Byte)
  <2> DEFINE s == [i \in DOMAIN p.question |-> WriteQuestion(p.question[i])]
             n == Len(p.question)
  <2>1. \A i \in 1..n : WriteQuestion(p.question[i]) \in Seq(Byte)
      BY <1>1, WriteQuestionTypes, NamesAreWritable
  <2>2. DOMAIN p.question = 1..n /\ n \in Nat
      BY <1>1
  <2>3. s \in Seq(Seq(Byte))
    <3> HIDE DEF n
    <3> QED
        BY <2>1, <2>2
  <2> HIDE DEF s
  <2>4. FlattenSeq(s) \in Seq(Byte)
      BY <2>3, FlattenSeqType
  <2> QED
      BY <2>4 DEF WriteQuestions, s
<1>5. r \in Seq(Byte)
  <2> DEFINE s == [i \in DOMAIN RecordsOf(p) |-> WriteRecord(RecordsOf(p)[i])]
             n == Len(RecordsOf(p))
  <2>1. ASSUME NEW i \in 1..n
        PROVE  WriteRecord(RecordsOf(p)[i]) \in Seq(Byte)
    <3>1. i \in DOMAIN RecordsOf(p) /\ RecordsOf(p)[i] \in DnsRecord
        BY <1>1
    <3>2. Writeable(RecordsOf(p)[i])
        BY <3>1, NamesAreWritable
    <3> QED
        BY <3>1, <3>2, WriteRecordTypes
  <2>2. DOMAIN RecordsOf(p) = 1..n /\ n \in Nat
      BY <1>1
  <2>3. s \in Seq(Seq(Byte))
    <3> HIDE DEF n
    <3> QED
        BY <2>1, <2>2
  <2> HIDE DEF s
  <2>4. FlattenSeq(s) \in Seq(Byte)
      BY <2>3, FlattenSeqType
  <2> QED
      BY <2>4 DEF WriteAll, s
<1>6. b = (six \o q) \o r
    BY DEF PacketBytes, HeaderOf, Six, WriteQuestions
<1>7. six = Six(u, v, w, x, y, z) /\ HeaderValues(p) = <<u, v, w, x, y, z>>
    BY DEF HeaderOf, HeaderValues
<1> HIDE DEF six, q, r, u, v, w, x, y, z
<1>8. six \in Bytes(12)
  <2>1. Len(Six(u, v, w, x, y, z)) = 12 /\ Six(u, v, w, x, y, z) \in Seq(Byte)
      BY <1>2, SixTypes
  <2> QED
      BY <1>7, <2>1 DEF Bytes
<1>9. six \in Seq(Byte) /\ Len(six) = 12
    BY <1>8 DEF Bytes
<1>10. /\ Holds(b, 0, six) /\ Holds(b, 0 + Len(six), q) /\ Holds(b, 0 + Len(six \o q), r)
  <2> DEFINE o == 0
  <2>1. Holds(b, o, (six \o q) \o r) /\ o \in Nat
      BY <1>3, <1>6, HoldsItself
  <2> HIDE DEF o
  <2>2. Holds(b, o, six) /\ Holds(b, o + Len(six), q) /\ Holds(b, o + Len(six \o q), r)
    <3> DEFINE front == six \o q
    <3>1. front \in Seq(Byte)
        BY <1>4, <1>9, Joined
    <3> HIDE DEF front
    <3>2. Holds(b, o, front \o r)
        BY <2>1 DEF front
    <3>3. Holds(b, o, front) /\ Holds(b, o + Len(front), r)
        BY <1>3, <1>5, <2>1, <3>1, <3>2, Peeled
    <3>4. Holds(b, o, six \o q)
        BY <3>3 DEF front
    <3>5. Holds(b, o, six) /\ Holds(b, o + Len(six), q)
        BY <1>3, <1>4, <1>9, <2>1, <3>4, HoldsBoth
    <3> QED
        BY <3>3, <3>5 DEF front
  <2> QED
      BY <2>2 DEF o
<1>11. /\ Holds(b, 12, q) /\ Holds(b, 12 + Len(q), r) /\ 12 + Len(q) \in Nat
  <2> DEFINE n == Len(q)
             l == Len(six \o q)
  <2>1. n \in Nat /\ l = 12 + n
    <3>1. Len(six \o q) = Len(six) + Len(q)
        BY <1>4, <1>9, Joined
    <3> QED
        BY <1>4, <1>9, <3>1
  <2>2. Holds(b, 0 + 12, q) /\ Holds(b, 0 + l, r)
      BY <1>9, <1>10
  <2> HIDE DEF n, l
  <2>3. 0 + 12 = 12 /\ 0 + l = 12 + n /\ 12 + n \in Nat
      BY <2>1
  <2> QED
      BY <2>2, <2>3 DEF n
<1>12. ReadFields(b, 0, HeaderFields) = {[pos |-> 12, values |-> <<u, v, w, x, y, z>>]}
    BY <1>2, <1>3, <1>7, <1>10, HeldHeader
<1> QED
    BY <1>3, <1>7, <1>11, <1>12 DEF q, r

(* A number of two bytes, as the header holds it. *)
Small(n) == n \in Nat /\ n < 65536

LEMMA SmallReads ==
    ASSUME NEW n, Small(n)
    PROVE  U16(U16Bytes(n)) = n
BY U16RoundTrip DEF Small

(* A packet that is written is read as it was. *)
LEMMA WrittenPacketRead ==
    ASSUME NEW p, SoundPacket(p), NEW capacity \in Nat, NEW b \in WritePacket(p, capacity)
    PROVE  ReadPacket(b) = {PacketAsRead(p)}
<1> DEFINE q == p.question
           x == p.answers
           y == p.authorities
           z == p.additionals
           h == [pos |-> 12, values |-> HeaderValues(p)]
           o == 12
           e1 == 12 + Len(WriteQuestions(q))
           r1 == [pos |-> e1, values |-> QuestionsAsRead(q)]
           number == Number(p.flags)
<1>1. /\ p \in Packet /\ \A i \in DOMAIN q : SoundQuestion(q[i])
      /\ \A i \in DOMAIN RecordsOf(p) : Sound(RecordsOf(p)[i])
      /\ Len(q) <= 1
  <2>1. SoundRecords((x \o y) \o z)
      BY SoundJoined DEF SoundPacket
  <2>2. SoundRecords(RecordsOf(p))
      BY <2>1 DEF RecordsOf
  <2> QED
      BY <2>2 DEF SoundPacket, SoundRecords
<1>2. /\ q \in Seq(DnsQuestion) /\ x \in Seq(DnsRecord) /\ y \in Seq(DnsRecord)
      /\ z \in Seq(DnsRecord)
    BY <1>1 DEF Packet
<1>3. /\ b = PacketBytes(p) /\ \A name \in NamesIn(p) : Writable(name)
      /\ Len(b) <= MaxSize /\ b \in Seq(Byte)
    BY <1>1, WritePacketTypes DEF WritePacket
<1>4. /\ \A i \in DOMAIN q : Writable(q[i].name)
      /\ \A i \in DOMAIN RecordsOf(p) : Writeable(RecordsOf(p)[i])
    BY <1>1, <1>3, NamesAreWritable
<1>5. /\ ReadFields(b, 0, HeaderFields) = {h}
      /\ Holds(b, o, WriteQuestions(q)) /\ e1 \in Nat /\ Holds(b, e1, WriteAll(RecordsOf(p)))
    BY <1>1, <1>3, PacketHeld
<1>6. AllSound(RecordsOf(p))
    BY <1>1, <1>4 DEF AllSound
<1>7. InThree(RecordsOf(p), x, y, z)
    BY DEF InThree, RecordsOf
<1>8. Len(b) < 65536
    BY <1>3, SizeConstants
<1>9. Small(number) /\ Bits(number) = p.flags
  <2> DEFINE bits == p.flags
  <2>1. bits \in SUBSET (0..15)
      BY <1>1 DEF Packet
  <2> HIDE DEF bits
  <2>2. Number(bits) \in Nat /\ Number(bits) < 65536 /\ Bits(Number(bits)) = bits
      BY <2>1, FlagsRoundTrip
  <2> QED
      BY <2>2 DEF bits, Small
<1>10. o \in Nat /\ o = 12
    OBVIOUS
<1>11. e1 = o + Len(WriteQuestions(q))
    OBVIOUS
<1>12. /\ h.values[1] = p.id /\ h.values[2] = U16Bytes(number) /\ h.values[3] = U16Bytes(Len(q))
       /\ h.values[4] = U16Bytes(Len(x)) /\ h.values[5] = U16Bytes(Len(y))
       /\ h.values[6] = U16Bytes(Len(z))
    BY DEF HeaderValues
<1> HIDE DEF o, e1
<1>13. ReadSection(b, o, 1, Len(q)) = {r1}
    BY <1>1, <1>2, <1>3, <1>4, <1>5, <1>10, <1>11, HeldQuestionsRead
<1>14. PICK e2, e3, e4 : /\ SectionAs(b, e1, e2, 2, x) /\ SectionAs(b, e2, e3, 3, y)
                         /\ SectionAs(b, e3, e4, 4, z)
       /\ Len(x) < 65536 /\ Len(y) < 65536 /\ Len(z) < 65536
    BY <1>2, <1>3, <1>5, <1>6, <1>7, <1>8, HeldThreeRead
<1> DEFINE r2 == [pos |-> e2, values |-> RecordsAsRead(x)]
           r3 == [pos |-> e3, values |-> RecordsAsRead(y)]
           r4 == [pos |-> e4, values |-> RecordsAsRead(z)]
<1>15. Small(Len(q)) /\ Small(Len(x)) /\ Small(Len(y)) /\ Small(Len(z))
    BY <1>1, <1>2, <1>14 DEF Small
<1>16. /\ U16(h.values[2]) = number /\ U16(h.values[3]) = Len(q) /\ U16(h.values[4]) = Len(x)
       /\ U16(h.values[5]) = Len(y) /\ U16(h.values[6]) = Len(z)
    BY <1>9, <1>12, <1>15, SmallReads
<1>17. /\ ReadSection(b, e1, 2, Len(x)) = {r2} /\ ReadSection(b, e2, 3, Len(y)) = {r3}
       /\ ReadSection(b, e3, 4, Len(z)) = {r4}
    BY <1>14 DEF SectionAs
<1> HIDE DEF h, number
<1>18. /\ r1.pos = e1 /\ r2.pos = e2 /\ r3.pos = e3 /\ r4.pos = e4
       /\ r1.values = QuestionsAsRead(q) /\ r2.values = RecordsAsRead(x)
       /\ r3.values = RecordsAsRead(y) /\ r4.values = RecordsAsRead(z)
    OBVIOUS
<1> HIDE DEF r1, r2, r3, r4
<1>19. SectionsOf(b, h, r1, r2, r3, r4)
    BY <1>10, <1>13, <1>16, <1>17, <1>18 DEF SectionsOf
<1>20. ReadPacket(b) =
          {[id |-> h.values[1], flags |-> Bits(U16(h.values[2])), question |-> r1.values,
            answers |-> r2.values, authorities |-> r3.values, additionals |-> r4.values]}
  <2>1. U16(h.values[3]) <= 1
      BY <1>1, <1>16
  <2> QED
      BY <1>3, <1>5, <1>19, <2>1, ReadPacketOf
<1>21. /\ h.values[1] = p.id /\ Bits(U16(h.values[2])) = p.flags
    BY <1>9, <1>12, <1>16
<1> QED
    BY <1>18, <1>20, <1>21 DEF PacketAsRead

-----------------------------------------------------------------------------
(* What is read can be written *)

(* What is read of a datagram can be written: each name is of a length     *)
(* that read_qname lets through, and the data of a record has the parts of *)
(* its type.                                                               *)
LEMMA ReadQuestionSound ==
    ASSUME NEW b \in Seq(Byte), NEW p \in 0..Len(b), NEW q \in ReadQuestion(b, p)
    PROVE  SoundQuestion(q.value)
<1> DEFINE layout == QuestionFields
<1>1. PICK f \in ReadFields(b, p, layout) : q.value.name = f.values[1]
    BY DEF ReadQuestion, QuestionFields
<1>2. layout \in Seq(Field) /\ Len(layout) = 3 /\ layout[1] = AName /\ 1 \in 1..3
    BY DEF Field, QuestionFields
<1> HIDE DEF layout
<1>3. f \in Filled(b, layout, 3)
    BY <1>1, <1>2, ReadFieldsTypes
<1>4. Fits(f.values[1])
    BY <1>2, <1>3, FilledFields
<1>5. q.value \in DnsQuestion
    BY ReadQuestionTypes DEF Item
<1> QED
    BY <1>1, <1>4, <1>5 DEF SoundQuestion

LEMMA ReadRecordSound ==
    ASSUME NEW b \in Seq(Byte), NEW p \in 0..Len(b), NEW q \in ReadRecord(b, p)
    PROVE  Sound(q.value)
<1> DEFINE head == HeadFields
           r == q.value
<1>1. r \in DnsRecord
    BY ReadRecordTypes DEF Item
<1>2. PICK h \in ReadFields(b, p, head) :
         \E d \in ReadData(b, h.pos, h.values[2], U16(h.values[5])) :
            r.name = h.values[1] /\ r.type = h.values[2] /\ r.data = d.values
    BY DEF ReadRecord, HeadFields
<1> DEFINE n == U16(h.values[5])
           layout == DataLayout(r.type, n)
<1>3. PICK d \in ReadData(b, h.pos, h.values[2], n) :
         r.name = h.values[1] /\ r.type = h.values[2] /\ r.data = d.values
    BY <1>2
<1>4. Fits(r.name)
  <2>1. head \in Seq(Field) /\ Len(head) = 5 /\ head[1] = AName /\ 1 \in 1..5
      BY DEF Field, HeadFields
  <2> HIDE DEF head
  <2>2. h \in Filled(b, head, 5)
      BY <2>1, ReadFieldsTypes
  <2> QED
      BY <1>3, <2>1, <2>2, FilledFields
<1>5. h.pos \in 0..Len(b) /\ n \in Nat
  <2>1. h.pos \in 0..Len(b) /\ h.values[5] \in Bytes(2)
      BY HeadTypes
  <2> QED
      BY <2>1, U16Types
<1>6. layout \in Seq(Field) /\ Len(layout) \in Nat
    BY <1>5, LayoutTypes
<1>7. d \in Filled(b, layout, Len(layout))
  <2>1. d \in ReadFields(b, h.pos, layout)
      BY <1>3 DEF ReadData
  <2> HIDE DEF layout
  <2> QED
      BY <1>5, <1>6, <2>1, ReadFieldsTypes
<1>8. /\ Len(r.data) = Len(layout)
      /\ \A k \in 1..Len(layout) :
            IF layout[k] = AName THEN Fits(r.data[k]) ELSE Len(r.data[k]) = layout[k]
    BY <1>3, <1>7 DEF Filled
<1>9. LayoutOf(r) = layout
  <2>1. CASE r.type \in {A, AAAA, CNAME, NS, MX, SOA}
    <3>1. \A i, j : DataLayout(r.type, i) = DataLayout(r.type, j)
        BY <2>1 DEF DataLayout
    <3> HIDE DEF DataLayout
    <3> QED
        BY <3>1, Zenon DEF LayoutOf
  <2>2. CASE r.type \notin {A, AAAA, CNAME, NS, MX, SOA}
    <3>1. \A i : DataLayout(r.type, i) = <<i>>
        BY <2>2 DEF DataLayout
    <3>2. layout = <<n>>
        BY <3>1
    <3> HIDE DEF layout, n
    <3>3. Len(layout) = 1 /\ layout[1] = n /\ 1 \in 1..1 /\ n # AName
        BY <1>5, <3>2 DEF AName
    <3>4. Len(r.data[1]) = n
        BY <1>8, <3>3
    <3>5. LayoutOf(r) = <<Len(r.data[1])>>
        BY <3>1 DEF LayoutOf
    <3> QED
        BY <3>2, <3>4, <3>5
  <2> QED
      BY <2>1, <2>2
<1> HIDE DEF r, layout
<1>10. Len(r.data) = Len(LayoutOf(r)) /\ \A k \in 1..Len(r.data) :
          IF LayoutOf(r)[k] = AName THEN Fits(r.data[k]) ELSE Len(r.data[k]) = LayoutOf(r)[k]
    BY <1>8, <1>9
<1> QED
    BY <1>1, <1>4, <1>10 DEF Sound, r

LEMMA ReadSectionSound ==
    ASSUME NEW b \in Seq(Byte), NEW p \in 0..Len(b), NEW section, NEW count \in Nat,
           NEW s \in ReadSection(b, p, section, count)
    PROVE  /\ section = 1 => \A i \in DOMAIN s.values : SoundQuestion(s.values[i])
           /\ OfRecords(section) => SoundRecords(s.values)
<1>1. s \in SectionPlace(b, section)
    BY ReadSectionTraces
<1>2. PICK places : SectionTrace(places, b, p, section, s)
    BY ReadSectionTraces
<1>3. s.values \in Seq(ItemValue(section)) /\ DOMAIN s.values = 1..Len(s.values)
    BY <1>1 DEF SectionPlace
<1>4. ASSUME NEW i \in DOMAIN s.values
      PROVE  /\ section = 1 => SoundQuestion(s.values[i])
             /\ OfRecords(section) => Sound(s.values[i])
  <2> DEFINE at == places[i - 1]
             item == [pos |-> places[i], value |-> s.values[i]]
  <2>1. at \in 0..Len(b) /\ item \in ReadItem(b, at, section)
      BY <1>2, <1>3 DEF SectionTrace
  <2>2. item.value = s.values[i]
      OBVIOUS
  <2> HIDE DEF at, item
  <2>3. CASE section = 1
      BY <2>1, <2>2, <2>3, ReadQuestionSound DEF ReadItem, OfRecords
  <2>4. CASE OfRecords(section)
      BY <2>1, <2>2, <2>4, ReadRecordSound DEF ReadItem, OfRecords
  <2> QED
      BY <2>3, <2>4
<1>5. OfRecords(section) => s.values \in Seq(DnsRecord)
    BY <1>3 DEF ItemValue, OfRecords
<1> QED
    BY <1>4, <1>5 DEF SoundRecords

(* A packet that was read is one that can be read back, once it is         *)
(* written.                                                                *)
LEMMA ReadPacketSound ==
    ASSUME NEW b \in Seq(Byte), NEW p \in ReadPacket(b)
    PROVE  SoundPacket(p)
<1>1. p \in Packet
    BY ReadPacketTypes
<1>2. PICK h \in ReadFields(b, 0, HeaderFields) : \E s1, s2, s3, s4 :
         Parts(p, b, h, s1, s2, s3, s4)
    BY ReadPacketParts
<1>3. PICK s1, s2, s3, s4 : Parts(p, b, h, s1, s2, s3, s4)
    BY <1>2
<1> DEFINE o == 12
           n1 == U16(h.values[3])
           n2 == U16(h.values[4])
           n3 == U16(h.values[5])
           n4 == U16(h.values[6])
<1>4. /\ o \in 0..Len(b) /\ s1.pos \in 0..Len(b) /\ s2.pos \in 0..Len(b) /\ s3.pos \in 0..Len(b)
      /\ n1 \in Nat /\ n2 \in Nat /\ n3 \in Nat /\ n4 \in Nat
  <2>1. 3 \in 1..6 /\ 4 \in 1..6 /\ 5 \in 1..6 /\ 6 \in 1..6
      OBVIOUS
  <2> QED
      BY <1>3, <2>1, PartsTypes
<1>5. /\ n1 <= 1
      /\ s1 \in ReadSection(b, o, 1, n1) /\ s2 \in ReadSection(b, s1.pos, 2, n2)
      /\ s3 \in ReadSection(b, s2.pos, 3, n3) /\ s4 \in ReadSection(b, s3.pos, 4, n4)
    BY <1>3 DEF Parts
<1>6. /\ p.question = s1.values /\ p.answers = s2.values
      /\ p.authorities = s3.values /\ p.additionals = s4.values
    BY <1>3 DEF Parts
<1> HIDE DEF o, n1, n2, n3, n4
<1>7. OfRecords(2) /\ OfRecords(3) /\ OfRecords(4)
    BY DEF OfRecords
<1>8. \A i \in DOMAIN s1.values : SoundQuestion(s1.values[i])
    BY <1>4, <1>5, ReadSectionSound
<1>9. SoundRecords(s2.values)
    BY <1>4, <1>5, <1>7, ReadSectionSound
<1>10. SoundRecords(s3.values)
    BY <1>4, <1>5, <1>7, ReadSectionSound
<1>11. SoundRecords(s4.values)
    BY <1>4, <1>5, <1>7, ReadSectionSound
<1>12. Len(p.question) <= 1
  <2>1. Len(s1.values) = n1
      BY <1>4, <1>5, ReadSectionTraces
  <2> QED
      BY <1>5, <1>6, <2>1
<1> QED
    BY <1>1, <1>6, <1>8, <1>9, <1>10, <1>11, <1>12 DEF SoundPacket

-----------------------------------------------------------------------------
(* Taking out OPT records *)

(* The records of a section with the numbers in K, and those of OPT.       *)
Chosen(rs, K) == FlattenSeq([i \in DOMAIN rs |-> IF i \in K THEN <<rs[i]>> ELSE <<>>])
OptsIn(rs) == {i \in DOMAIN rs : IsOpt(rs[i])}

(* The OPT records, and the others, are those with such numbers. *)
LEMMA SelectedIsChosen ==
    ASSUME NEW rs
    PROVE  /\ Selected(rs, IsOpt) = Chosen(rs, OptsIn(rs))
           /\ Selected(rs, LAMBDA r : ~IsOpt(r)) = Chosen(rs, DOMAIN rs \ OptsIn(rs))
<1> DEFINE opts == [i \in DOMAIN rs |-> IF IsOpt(rs[i]) THEN <<rs[i]>> ELSE <<>>]
           others == [i \in DOMAIN rs |-> IF ~IsOpt(rs[i]) THEN <<rs[i]>> ELSE <<>>]
           inK == [i \in DOMAIN rs |-> IF i \in OptsIn(rs) THEN <<rs[i]>> ELSE <<>>]
           notInK == [i \in DOMAIN rs |->
                         IF i \in DOMAIN rs \ OptsIn(rs) THEN <<rs[i]>> ELSE <<>>]
<1>1. opts = inK /\ others = notInK
    BY DEF OptsIn
<1>2. Selected(rs, IsOpt) = FlattenSeq(opts)
    BY DEF Selected
<1>3. Selected(rs, LAMBDA r : ~IsOpt(r)) = FlattenSeq(others)
    BY DEF Selected
<1>4. FlattenSeq(inK) = Chosen(rs, OptsIn(rs))
    BY DEF Chosen
<1>5. FlattenSeq(notInK) = Chosen(rs, DOMAIN rs \ OptsIn(rs))
    BY DEF Chosen
<1> HIDE DEF opts, others, inK, notInK
<1> QED
    BY <1>1, <1>2, <1>3, <1>4, <1>5

(* Each chosen record is one of those to choose from. *)
LEMMA ChosenFrom ==
    ASSUME NEW rs \in Seq(DnsRecord), NEW K, NEW S, \A i \in DOMAIN rs : i \in K => rs[i] \in S
    PROVE  Chosen(rs, K) \in Seq(S)
<1> DEFINE parts == [i \in DOMAIN rs |-> IF i \in K THEN <<rs[i]>> ELSE <<>>]
           n == Len(rs)
<1>1. DOMAIN rs = 1..n /\ n \in Nat
    OBVIOUS
<1>2. \A i \in 1..n : parts[i] \in Seq(S)
    BY <1>1
<1>3. parts = [i \in 1..n |-> parts[i]]
    BY <1>1
<1> HIDE DEF parts, n
<1>4. parts \in Seq(Seq(S))
    BY <1>1, <1>2, <1>3
<1>5. FlattenSeq(parts) \in Seq(S)
    BY <1>4, FlattenSeqType
<1> QED
    BY <1>5 DEF Chosen, parts

(* The m records of rs behind the first lo. *)
Row(rs, lo, m, x) ==
    x \in Seq(DnsRecord) /\ Len(x) = m /\ \A j \in 1..m : x[j] = rs[lo + j]

(* Records chosen in a row are a part of the section: by the sums of what  *)
(* is chosen, of the first k records k - lo, as long as k is in the row.   *)
LEMMA ChosenRow ==
    ASSUME NEW rs \in Seq(DnsRecord), NEW K, NEW lo \in Nat, NEW hi \in Nat,
           lo <= hi, hi <= Len(rs),
           \A i \in DOMAIN rs : i \in K <=> lo < i /\ i <= hi
    PROVE  Chosen(rs, K) \in Seq(DnsRecord) /\ PartOf(rs, lo, hi, Chosen(rs, K))
<1> DEFINE parts == [i \in DOMAIN rs |-> IF i \in K THEN <<rs[i]>> ELSE <<>>]
           n == Len(rs)
<1>1. DOMAIN rs = 1..n /\ n \in Nat /\ \A i \in 1..n : rs[i] \in DnsRecord
    OBVIOUS
<1>2. \A i \in 1..n : /\ parts[i] \in Seq(DnsRecord)
                      /\ (lo < i /\ i <= hi) => parts[i] = <<rs[i]>>
                      /\ ~(lo < i /\ i <= hi) => parts[i] = <<>>
    BY <1>1
<1>3. parts = [i \in 1..n |-> parts[i]]
    BY <1>1
<1>4. Chosen(rs, K) = FlattenSeq(parts)
    BY DEF Chosen
<1>5. hi <= n
    OBVIOUS
<1> HIDE DEF parts, n
<1>6. parts \in Seq(Seq(DnsRecord)) /\ Len(parts) = n
    BY <1>1, <1>2, <1>3
<1>7. PICK sums : Sums(sums, parts, DnsRecord)
    BY <1>6, FlattenSeqSums
<1> DEFINE sum(k) == IF k = 0 THEN <<>> ELSE sums[k]
           size(k) == IF k <= lo THEN 0 ELSE IF k <= hi THEN k - lo ELSE hi - lo
           good == {k \in 0..n : Row(rs, lo, size(k), sum(k))}
<1>8. /\ FlattenSeq(parts) = sum(n)
      /\ \A k \in 1..n : sum(k) \in Seq(DnsRecord) /\ sum(k) = sum(k - 1) \o parts[k]
  <2>1. \A k \in 1..n : /\ sums[k] \in Seq(DnsRecord)
                        /\ sums[k] = IF k = 1 THEN parts[k] ELSE sums[k - 1] \o parts[k]
      BY <1>6, <1>7 DEF Sums
  <2>2. FlattenSeq(parts) = sum(n)
      BY <1>6, <1>7 DEF Sums
  <2>3. ASSUME NEW k \in 1..n
        PROVE  sum(k) \in Seq(DnsRecord) /\ sum(k) = sum(k - 1) \o parts[k]
    <3>1. parts[k] \in Seq(DnsRecord) /\ k # 0
        BY <1>2
    <3>2. CASE k = 1
      <4>1. sum(k - 1) = <<>> /\ sum(k) = parts[k]
          BY <2>1, <3>2
      <4> HIDE DEF sum
      <4> DEFINE y == parts[k]
      <4>2. y \in Seq(DnsRecord)
          BY <3>1
      <4> HIDE DEF y
      <4>3. y = <<>> \o y
          BY <4>2
      <4> QED
          BY <4>1, <4>2, <4>3 DEF y
    <3>3. CASE k # 1
      <4>1. sum(k - 1) = sums[k - 1] /\ sum(k) = sums[k]
          BY <3>1, <3>3
      <4> HIDE DEF sum
      <4> QED
          BY <2>1, <3>3, <4>1
    <3> QED
        BY <3>2, <3>3
  <2> QED
      BY <2>2, <2>3
<1>9. sum(0) = <<>>
    OBVIOUS
<1> HIDE DEF sum
<1>10. 0 \in good
  <2>1. size(0) = 0 /\ 0 \in 0..n
      BY <1>1
  <2>2. Row(rs, lo, 0, <<>>)
      BY DEF Row
  <2> QED
      BY <1>9, <2>1, <2>2
<1>11. ASSUME NEW k \in 1..n, k - 1 \in good
       PROVE  k \in good
  <2> DEFINE m == size(k - 1)
             l == size(k)
             x == sum(k - 1)
             z == sum(k)
  <2>1. x \in Seq(DnsRecord) /\ Len(x) = m /\ \A j \in 1..m : x[j] = rs[lo + j]
      BY <1>11 DEF Row
  <2>2. z = x \o parts[k] /\ z \in Seq(DnsRecord) /\ parts[k] \in Seq(DnsRecord)
      BY <1>2, <1>8
  <2> HIDE DEF x, z
  <2>3. CASE lo < k /\ k <= hi
    <3>1. l = m + 1 /\ m \in Nat /\ lo + l = k
        BY <2>3
    <3>2. Len(parts[k]) = 1 /\ parts[k][1] = rs[k]
      <4>1. parts[k] = <<rs[k]>>
          BY <1>2, <2>3
      <4> QED
          BY <4>1
    <3> HIDE DEF m, l
    <3>3. Joins(z, x, parts[k])
        BY <2>1, <2>2, RecordsJoined
    <3>4. Len(z) = l /\ z[m + 1] = rs[k] /\ \A j \in 1..m : z[j] = x[j]
        BY <2>1, <3>1, <3>2, <3>3 DEF Joins
    <3>5. \A j \in 1..l : z[j] = rs[lo + j]
      <4>1. \A j \in 1..l : j = m + 1 \/ j \in 1..m
          BY <3>1
      <4> QED
          BY <2>1, <3>1, <3>4, <4>1
    <3>6. Row(rs, lo, l, z)
        BY <2>2, <3>4, <3>5 DEF Row
    <3> QED
        BY <3>6 DEF z, l
  <2>4. CASE ~(lo < k /\ k <= hi)
    <3>1. l = m
        BY <2>4
    <3>2. parts[k] = <<>>
        BY <1>2, <2>4
    <3> HIDE DEF m, l
    <3>3. z = x
        BY <2>1, <2>2, <3>2
    <3>4. Len(z) = l /\ \A j \in 1..l : z[j] = rs[lo + j]
        BY <2>1, <3>1, <3>3
    <3>5. Row(rs, lo, l, z)
        BY <2>2, <3>4 DEF Row
    <3> QED
        BY <3>5 DEF z, l
  <2> QED
      BY <2>3, <2>4
<1>12. n \in good
  <2> HIDE DEF good
  <2>1. 0..n \subseteq good
      BY <1>1, <1>10, <1>11, Upwards
  <2> QED
      BY <1>1, <2>1
<1>13. size(n) = hi - lo /\ hi - lo \in Nat
    BY <1>1, <1>5
<1> DEFINE ss == Chosen(rs, K)
<1>14. ss \in Seq(DnsRecord) /\ Len(ss) = hi - lo /\ \A j \in 1..(hi - lo) : ss[j] = rs[lo + j]
    BY <1>4, <1>8, <1>12, <1>13 DEF Row
<1> HIDE DEF ss
<1>15. hi = lo + Len(ss)
    BY <1>14
<1>16. PartOf(rs, lo, hi, ss)
    BY <1>14, <1>15 DEF PartOf
<1> QED
    BY <1>14, <1>16 DEF ss

(* A section without its OPT records. *)
Others(rs) == Selected(rs, LAMBDA r : ~IsOpt(r))

(* No OPT record is left among the others, and none of them is changed. *)
LEMMA OthersHaveNoOpt ==
    ASSUME NEW rs \in Seq(DnsRecord)
    PROVE  Others(rs) \in Seq(DnsRecord) /\ OptsIn(Others(rs)) = {}
<1> DEFINE K == DOMAIN rs \ OptsIn(rs)
           S == {r \in DnsRecord : ~IsOpt(r)}
           others == Others(rs)
<1>1. \A i \in DOMAIN rs : i \in K => rs[i] \in S
    BY DEF OptsIn
<1>2. others = Chosen(rs, K)
    BY SelectedIsChosen DEF Others
<1> HIDE DEF K, others
<1>3. others \in Seq(S)
    BY <1>1, <1>2, ChosenFrom
<1>4. \A i \in DOMAIN others : others[i] \in S
    BY <1>3
<1>5. others \in Seq(DnsRecord)
    BY <1>3
<1>6. OptsIn(others) = {}
    BY <1>4 DEF OptsIn
<1> QED
    BY <1>5, <1>6 DEF others

LEMMA OthersSound ==
    ASSUME NEW rs, SoundRecords(rs)
    PROVE  SoundRecords(Others(rs))
<1> DEFINE K == DOMAIN rs \ OptsIn(rs)
           S == {r \in DnsRecord : Sound(r)}
           others == Others(rs)
<1>1. rs \in Seq(DnsRecord) /\ \A i \in DOMAIN rs : rs[i] \in S
  <2>1. rs \in Seq(DnsRecord) /\ \A i \in DOMAIN rs : Sound(rs[i])
      BY DEF SoundRecords
  <2>2. \A i \in DOMAIN rs : rs[i] \in DnsRecord
      BY <2>1
  <2> QED
      BY <2>1, <2>2
<1>2. others = Chosen(rs, K)
    BY SelectedIsChosen DEF Others
<1> HIDE DEF K, others
<1>3. others \in Seq(S)
    BY <1>1, <1>2, ChosenFrom
<1>4. \A i \in DOMAIN others : others[i] \in S
    BY <1>3
<1>5. others \in Seq(DnsRecord)
    BY <1>3
<1> QED
    BY <1>4, <1>5 DEF SoundRecords, others

(* Without OPT records nothing is taken out. *)
LEMMA NoOpts ==
    ASSUME NEW rs \in Seq(DnsRecord), OptsIn(rs) = {}
    PROVE  Selected(rs, IsOpt) = <<>> /\ Others(rs) = rs
<1> DEFINE n == Len(rs)
           o == 0
           all == Others(rs)
           none == Selected(rs, IsOpt)
<1>1. n \in Nat /\ o \in Nat /\ o <= n /\ n <= Len(rs) /\ o <= Len(rs) /\ o = 0
      /\ DOMAIN rs = 1..n
    OBVIOUS
<1>2. all = Chosen(rs, DOMAIN rs \ {}) /\ none = Chosen(rs, {})
    BY SelectedIsChosen DEF Others
<1> HIDE DEF n, o, all, none
<1>3. \A i \in DOMAIN rs : i \in DOMAIN rs \ {} <=> o < i /\ i <= n
    BY <1>1
<1>4. all \in Seq(DnsRecord) /\ PartOf(rs, o, n, all)
    BY <1>1, <1>2, <1>3, ChosenRow
<1>5. \A i \in DOMAIN rs : i \in {} <=> o < i /\ i <= o
    BY <1>1
<1>6. none \in Seq(DnsRecord) /\ PartOf(rs, o, o, none)
    BY <1>1, <1>2, <1>5, ChosenRow
<1>7. Len(all) = n /\ \A i \in 1..n : all[i] = rs[i]
  <2>1. n = o + Len(all) /\ \A i \in 1..Len(all) : rs[o + i] = all[i]
      BY <1>4 DEF PartOf
  <2>2. Len(all) \in Nat
      BY <1>4
  <2> QED
      BY <1>1, <2>1, <2>2
<1>8. all = rs
    BY <1>1, <1>4, <1>7
<1>9. Len(none) = 0
  <2>1. o = o + Len(none)
      BY <1>6 DEF PartOf
  <2>2. Len(none) \in Nat
      BY <1>6
  <2> QED
      BY <1>1, <2>1, <2>2
<1>10. none = <<>>
    BY <1>6, <1>9
<1> QED
    BY <1>8, <1>10 DEF all, none

(* Of a section that ends with its only OPT record. *)
LEMMA OneOpt ==
    ASSUME NEW rs \in Seq(DnsRecord), OptsIn(rs) = {}, NEW r \in DnsRecord, IsOpt(r)
    PROVE  Selected(Append(rs, r), IsOpt) = <<r>> /\ Others(Append(rs, r)) = rs
<1> DEFINE n == Len(rs)
           m == n + 1
           o == 0
           ss == Append(rs, r)
           rest == Others(ss)
           opts == Selected(ss, IsOpt)
           K == OptsIn(ss)
<1>1. /\ n \in Nat /\ m = n + 1 /\ m \in Nat /\ o \in Nat /\ o = 0 /\ o <= n /\ n <= m
      /\ ss \in Seq(DnsRecord) /\ Len(ss) = m /\ DOMAIN rs = 1..n /\ DOMAIN ss = 1..m
    OBVIOUS
<1>2. ss[m] = r /\ \A i \in 1..n : ss[i] = rs[i]
    OBVIOUS
<1>3. rest = Chosen(ss, DOMAIN ss \ K) /\ opts = Chosen(ss, K)
    BY SelectedIsChosen DEF Others
<1> HIDE DEF n, m, o, ss, rest, opts
<1>4. \A i \in DOMAIN ss : i \in K <=> n < i /\ i <= m
  <2>1. \A i \in 1..m : i = m \/ i \in 1..n
      BY <1>1
  <2>2. \A i \in 1..n : ~IsOpt(ss[i])
      BY <1>1, <1>2 DEF OptsIn
  <2> QED
      BY <1>1, <1>2, <2>1, <2>2 DEF OptsIn
<1> HIDE DEF K
<1>5. \A i \in DOMAIN ss : i \in DOMAIN ss \ K <=> o < i /\ i <= n
    BY <1>1, <1>4
<1>6. n <= Len(ss) /\ m <= Len(ss)
    BY <1>1
<1>7. rest \in Seq(DnsRecord) /\ PartOf(ss, o, n, rest)
    BY <1>1, <1>3, <1>5, <1>6, ChosenRow
<1>8. opts \in Seq(DnsRecord) /\ PartOf(ss, n, m, opts)
    BY <1>1, <1>3, <1>4, <1>6, ChosenRow
<1>9. rest = rs
  <2>1. n = o + Len(rest) /\ (\A i \in 1..Len(rest) : ss[o + i] = rest[i]) /\ Len(rest) \in Nat
      BY <1>7 DEF PartOf
  <2>2. Len(rest) = n /\ \A i \in 1..n : rest[i] = rs[i]
      BY <1>1, <1>2, <2>1
  <2>3. Len(rs) = n
      BY DEF n
  <2> QED
      BY <1>7, <2>2, <2>3
<1>10. opts = <<r>>
  <2>1. m = n + Len(opts) /\ (\A i \in 1..Len(opts) : ss[n + i] = opts[i]) /\ Len(opts) \in Nat
      BY <1>8 DEF PartOf
  <2>2. Len(opts) = 1 /\ opts[1] = r
    <3>1. Len(opts) = 1
      <4> DEFINE l == Len(opts)
      <4>1. m = n + l /\ l \in Nat /\ m = n + 1 /\ n \in Nat
          BY <1>1, <2>1
      <4> HIDE DEF l
      <4>2. l = 1
          BY <4>1
      <4> QED
          BY <4>2 DEF l
    <3>2. ss[n + 1] = opts[1] /\ n + 1 = m
        BY <1>1, <2>1, <3>1
    <3> QED
        BY <1>2, <3>1, <3>2
  <2> QED
      BY <1>8, <2>2
<1> QED
    BY <1>9, <1>10 DEF ss, rest, opts

-----------------------------------------------------------------------------
(* What packets say *)

(* Reading back what was written changes no record's type, nor what it says. *)
LEMMA SectionAsRead ==
    ASSUME NEW rs \in Seq(DnsRecord), AllSound(rs)
    PROVE  /\ OptsIn(RecordsAsRead(rs)) = OptsIn(rs)
           /\ Contents(RecordsAsRead(rs)) = Contents(rs)
           /\ Len(RecordsAsRead(rs)) = Len(rs)
<1> DEFINE ss == RecordsAsRead(rs)
<1>1. DOMAIN ss = DOMAIN rs /\ \A i \in DOMAIN rs : ss[i] = RecordAsRead(rs[i])
    BY DEF RecordsAsRead
<1>2. \A i \in DOMAIN rs : Content(ss[i]) = Content(rs[i]) /\ ss[i].type = rs[i].type
    BY <1>1, SameContent DEF AllSound
<1>3. Len(ss) = Len(rs)
    BY DEF RecordsAsRead
<1> HIDE DEF ss
<1>4. Contents(ss) = Contents(rs)
    BY <1>1, <1>2 DEF Contents
<1>5. OptsIn(ss) = OptsIn(rs)
    BY <1>1, <1>2 DEF OptsIn, IsOpt
<1> QED
    BY <1>3, <1>4, <1>5 DEF ss

LEMMA AppendAsRead ==
    ASSUME NEW rs \in Seq(DnsRecord), NEW r \in DnsRecord
    PROVE  RecordsAsRead(Append(rs, r)) = Append(RecordsAsRead(rs), RecordAsRead(r))
<1> DEFINE n == Len(rs)
           ss == Append(rs, r)
           back == RecordsAsRead(rs)
           backs == RecordsAsRead(ss)
           last == RecordAsRead(r)
<1>1. n \in Nat /\ DOMAIN ss = 1..(n + 1) /\ ss[n + 1] = r /\ \A i \in 1..n : ss[i] = rs[i]
    OBVIOUS
<1>2. /\ backs = [i \in 1..(n + 1) |-> RecordAsRead(ss[i])]
      /\ back = [i \in 1..n |-> RecordAsRead(rs[i])]
    BY <1>1 DEF RecordsAsRead
<1> HIDE DEF ss, back, backs, last, n
<1>3. /\ Len(back) = n /\ Append(back, last) =
            [i \in 1..(n + 1) |-> IF i = n + 1 THEN last ELSE back[i]]
    BY <1>1, <1>2 
<1>4. \A i \in 1..(n + 1) : (IF i = n + 1 THEN last ELSE back[i]) = RecordAsRead(ss[i])
    BY <1>1, <1>2 DEF last
<1>5. backs = Append(back, last)
    BY <1>2, <1>3, <1>4
<1> QED
    BY <1>5 DEF backs, back, last, ss

(* Reading back what was written changes nothing that a question says. *)
LEMMA QuestionsStay ==
    ASSUME NEW qs \in Seq(DnsQuestion), \A i \in DOMAIN qs : Writable(qs[i].name)
    PROVE  Questions(QuestionsAsRead(qs)) = Questions(qs)
<1> DEFINE ss == QuestionsAsRead(qs)
<1>1. DOMAIN ss = DOMAIN qs /\ \A i \in DOMAIN qs : ss[i] = QuestionAsRead(qs[i])
    BY DEF QuestionsAsRead
<1> HIDE DEF ss
<1>2. ASSUME NEW i \in DOMAIN qs
      PROVE  [ss[i] EXCEPT !.name = Unrooted(@)] = [qs[i] EXCEPT !.name = Unrooted(@)]
  <2> DEFINE q == qs[i]
             name == q.name
             back == AsRead(name)
  <2>1. q \in DnsQuestion /\ name \in Seq(Byte) /\ Writable(name)
    <3>1. q \in DnsQuestion
        OBVIOUS
    <3>2. Writable(q.name)
        OBVIOUS
    <3> HIDE DEF q
    <3> QED
        BY <3>1, <3>2 DEF DnsQuestion
  <2>2. Unrooted(back) = Unrooted(name)
      BY <2>1, SameName
  <2>3. ss[i] = [name |-> back, type |-> q.type, class |-> q.class]
      BY <1>1 DEF QuestionAsRead
  <2>4. q = [name |-> name, type |-> q.type, class |-> q.class]
      BY <2>1 DEF DnsQuestion
  <2> HIDE DEF back, name, q
  <2>5. [ss[i] EXCEPT !.name = Unrooted(@)] =
           [name |-> Unrooted(back), type |-> q.type, class |-> q.class]
      BY <2>3
  <2>6. [q EXCEPT !.name = Unrooted(@)] =
           [name |-> Unrooted(name), type |-> q.type, class |-> q.class]
      BY <2>4
  <2> QED
      BY <2>2, <2>5, <2>6 DEF q
<1>3. Questions(ss) = Questions(qs)
    BY <1>1, <1>2 DEF Questions
<1> QED
    BY <1>3 DEF ss

LEMMA OneIsOne ==
    /\ Cardinality({}) = 0
    /\ \A x : Cardinality({x}) = 1
BY FS_EmptySet, FS_Singleton

LEMMA RecordAsReadTypes ==
    ASSUME NEW r, Sound(r), Writeable(r)
    PROVE  RecordAsRead(r) \in DnsRecord
<1> DEFINE n == Len(r.data)
           data == DataAsRead(r)
           layout == LayoutOf(r)
<1>1. /\ r \in DnsRecord /\ r.name \in Seq(Byte) /\ r.data \in Seq(Seq(Byte)) /\ n \in Nat
      /\ DOMAIN r.data = 1..n /\ \A k \in 1..n : r.data[k] \in Seq(Byte)
      /\ r.type \in Bytes(2) /\ r.class \in Bytes(2) /\ r.ttl \in Bytes(4)
    BY DEF Sound, DnsRecord
<1>2. Writable(r.name) /\ \A k \in 1..n : layout[k] = AName => Writable(r.data[k])
    BY <1>1 DEF Writeable
<1>3. data = [k \in 1..n |-> FieldAsRead(layout[k], r.data[k])]
    BY <1>1 DEF DataAsRead
<1> HIDE DEF n, data, layout
<1>4. \A k \in 1..n : FieldAsRead(layout[k], r.data[k]) \in Seq(Byte)
    BY <1>1, <1>2, SameName DEF FieldAsRead
<1>5. data \in Seq(Seq(Byte))
    BY <1>1, <1>3, <1>4
<1>6. AsRead(r.name) \in Seq(Byte)
    BY <1>1, <1>2, SameName
<1>7. U16Bytes(RdLength(r)) \in Bytes(2)
  <2>1. RdLength(r) \in Int
    <3>1. WriteData(r) \in Seq(Byte) /\ RdLength(r) = Len(WriteData(r))
        BY <1>1, RdLengthIsWritten
    <3> DEFINE w == WriteData(r)
    <3> HIDE DEF w
    <3>2. Len(w) \in Int
        BY <3>1 DEF w
    <3> QED
        BY <3>1, <3>2 DEF w
  <2> QED
      BY <2>1, U16BytesTypes
<1> QED
    BY <1>1, <1>5, <1>6, <1>7 DEF RecordAsRead, DnsRecord, data

LEMMA SectionAsReadTypes ==
    ASSUME NEW rs \in Seq(DnsRecord), AllSound(rs)
    PROVE  RecordsAsRead(rs) \in Seq(DnsRecord)
<1> DEFINE n == Len(rs)
<1>1. DOMAIN rs = 1..n /\ n \in Nat
    OBVIOUS
<1>2. \A i \in 1..n : RecordAsRead(rs[i]) \in DnsRecord
    BY <1>1, RecordAsReadTypes DEF AllSound
<1>3. RecordsAsRead(rs) = [i \in 1..n |-> RecordAsRead(rs[i])]
    BY <1>1 DEF RecordsAsRead
<1> HIDE DEF n
<1> QED
    BY <1>1, <1>2, <1>3

(* Additional records without an OPT record, and with one at the end, as   *)
(* they are read after they were written.                                  *)
LEMMA PlainAsRead ==
    ASSUME NEW rs \in Seq(DnsRecord), AllSound(rs), OptsIn(rs) = {}
    PROVE  /\ Selected(RecordsAsRead(rs), IsOpt) = <<>>
           /\ Contents(Others(RecordsAsRead(rs))) = Contents(rs)
BY SectionAsRead, SectionAsReadTypes, NoOpts

LEMMA OptAsRead ==
    ASSUME NEW rs \in Seq(DnsRecord), OptsIn(rs) = {}, NEW r \in DnsRecord, IsOpt(r),
           AllSound(Append(rs, r))
    PROVE  /\ Selected(RecordsAsRead(Append(rs, r)), IsOpt) = <<RecordAsRead(r)>>
           /\ Contents(Others(RecordsAsRead(Append(rs, r)))) = Contents(rs)
<1> DEFINE n == Len(rs)
           all == Append(rs, r)
           ss == RecordsAsRead(rs)
           s == RecordAsRead(r)
<1>1. /\ n \in Nat /\ DOMAIN rs = 1..n /\ DOMAIN all = 1..(n + 1) /\ all[n + 1] = r
      /\ \A i \in 1..n : all[i] = rs[i]
    OBVIOUS
<1>2. \A i \in 1..(n + 1) : Sound(all[i]) /\ Writeable(all[i])
    BY <1>1 DEF AllSound
<1> HIDE DEF all, n
<1>3. Sound(r) /\ Writeable(r)
  <2>1. n + 1 \in 1..(n + 1)
      BY <1>1
  <2> QED
      BY <1>1, <1>2, <2>1
<1>4. AllSound(rs)
  <2>1. \A i \in 1..n : i \in 1..(n + 1)
      BY <1>1
  <2> QED
      BY <1>1, <1>2, <2>1 DEF AllSound
<1>5. s \in DnsRecord /\ IsOpt(s)
    BY <1>3, RecordAsReadTypes, SameContent DEF IsOpt
<1>6. ss \in Seq(DnsRecord) /\ OptsIn(ss) = {} /\ Contents(ss) = Contents(rs)
    BY <1>4, SectionAsRead, SectionAsReadTypes
<1>7. RecordsAsRead(all) = Append(ss, s)
    BY AppendAsRead DEF all
<1> HIDE DEF ss, s
<1>8. Selected(Append(ss, s), IsOpt) = <<s>> /\ Others(Append(ss, s)) = ss
    BY <1>5, <1>6, OneOpt
<1> QED
    BY <1>6, <1>7, <1>8 DEF all, s

-----------------------------------------------------------------------------
(* The packets of the program *)

(* The packets of the program are such as it reads.                        *)
LEMMA OptRecordSound ==
    ASSUME NEW size \in Int, NEW dnssecOk
    PROVE  /\ OptRecord(size, dnssecOk) \in DnsRecord /\ Sound(OptRecord(size, dnssecOk))
           /\ IsOpt(OptRecord(size, dnssecOk))
<1> DEFINE r == OptRecord(size, dnssecOk)
<1>1. r \in DnsRecord
  <2>1. /\ OPT \in Bytes(2) /\ <<0, 0, IF dnssecOk THEN 128 ELSE 0, 0>> \in Bytes(4)
        /\ <<0, 0>> \in Bytes(2) /\ <<>> \in Seq(Byte) /\ << <<>> >> \in Seq(Seq(Byte))
    <3>1. 0 \in Byte /\ 41 \in Byte /\ (IF dnssecOk THEN 128 ELSE 0) \in Byte
        BY DEF Byte
    <3> QED
        BY <3>1 DEF OPT, Bytes
  <2>2. U16Bytes(size) \in Bytes(2)
      BY U16BytesTypes
  <2> QED
      BY <2>1, <2>2 DEF OptRecord, DnsRecord
<1>2. r.name = <<>> /\ r.type = OPT /\ r.data = << <<>> >>
    BY DEF OptRecord
<1> HIDE DEF r
<1>3. LayoutOf(r) = <<0>>
  <2>1. Len(r.data[1]) = 0
      BY <1>2
  <2>2. OPT \notin {A, AAAA, CNAME, NS, MX, SOA}
      BY DEF OPT, A, AAAA, CNAME, NS, MX, SOA
  <2> QED
      BY <1>2, <2>1, <2>2 DEF LayoutOf, DataLayout
<1>4. Fits(r.name)
    BY <1>2 DEF Fits
<1>5. Len(r.data) = 1 /\ Len(LayoutOf(r)) = 1 /\ LayoutOf(r)[1] = 0 /\ Len(r.data[1]) = 0
    BY <1>2, <1>3
<1>6. 0 # AName /\ \A k \in 1..1 : k = 1
    BY DEF AName
<1>7. Sound(r)
    BY <1>1, <1>4, <1>5, <1>6 DEF Sound
<1>8. IsOpt(r)
    BY <1>2 DEF IsOpt
<1> QED
    BY <1>1, <1>7, <1>8 DEF r

LEMMA NothingSound == SoundRecords(<<>>)
BY DEF SoundRecords

LEMMA AppendSound ==
    ASSUME NEW rs, SoundRecords(rs), NEW r \in DnsRecord, Sound(r)
    PROVE  SoundRecords(Append(rs, r))
<1>1. SoundRecords(<<r>>)
    BY DEF SoundRecords
<1>2. rs \in Seq(DnsRecord)
    BY DEF SoundRecords
<1>3. Append(rs, r) = rs \o <<r>>
    BY <1>2
<1> QED
    BY <1>1, <1>3, SoundJoined

(* An OPT record, put in or left out, leaves a packet that can be read     *)
(* back.                                                                   *)
LEMMA WithOptSound ==
    ASSUME NEW p, SoundPacket(p), NEW size \in Int, NEW dnssecOk
    PROVE  SoundPacket(WithOpt(p, size, dnssecOk))
<1> DEFINE r == OptRecord(size, dnssecOk)
           w == WithOpt(p, size, dnssecOk)
<1>1. p \in Packet /\ w \in Packet
    BY WithOptTypes DEF SoundPacket
<1>2. r \in DnsRecord /\ Sound(r)
    BY OptRecordSound
<1>3. SoundRecords(Append(p.additionals, r))
    BY <1>2, AppendSound DEF SoundPacket
<1> HIDE DEF r
<1>4. w = [p EXCEPT !.additionals = Append(@, r)]
    BY DEF WithOpt, r
<1> HIDE DEF w
<1>5. /\ w.question = p.question /\ w.answers = p.answers /\ w.authorities = p.authorities
      /\ w.additionals = Append(p.additionals, r)
    BY <1>1, <1>4 DEF Packet
<1>6. SoundPacket(w)
    BY <1>1, <1>3, <1>5 DEF SoundPacket
<1> QED
    BY <1>6 DEF w

LEMMA WithoutOptSound ==
    ASSUME NEW p, SoundPacket(p)
    PROVE  SoundPacket(WithoutOpt(p)) /\ WithoutOpt(p).additionals = Others(p.additionals)
<1> DEFINE w == WithoutOpt(p)
           rs == Others(p.additionals)
<1>1. p \in Packet /\ w \in Packet
    BY WithoutOptTypes DEF SoundPacket
<1>2. SoundRecords(rs)
    BY OthersSound DEF SoundPacket
<1>3. w = [p EXCEPT !.additionals = rs]
    BY DEF WithoutOpt, Others
<1> HIDE DEF w, rs
<1>4. /\ w.question = p.question /\ w.answers = p.answers /\ w.authorities = p.authorities
      /\ w.additionals = rs
    BY <1>1, <1>3 DEF Packet
<1>5. SoundPacket(w)
    BY <1>1, <1>2, <1>4 DEF SoundPacket
<1> QED
    BY <1>4, <1>5 DEF w, rs

LEMMA NoPacketSound == SoundPacket(NoPacket)
<1>1. NoPacket \in Packet
    BY NoPacketTypes
<1> QED
    BY <1>1, NothingSound DEF SoundPacket, NoPacket

LEMMA PartSound ==
    ASSUME NEW rs \in Seq(DnsRecord), AllSound(rs), NEW lo, NEW hi,
           NEW ss \in Seq(DnsRecord), PartOf(rs, lo, hi, ss)
    PROVE  AllSound(ss)
<1> DEFINE n == Len(ss)
           m == Len(rs)
<1>1. /\ lo \in Nat /\ hi = lo + n /\ hi <= m /\ n \in Nat /\ m \in Nat
      /\ DOMAIN ss = 1..n /\ DOMAIN rs = 1..m
      /\ \A i \in 1..n : rs[lo + i] = ss[i]
    BY DEF PartOf
<1> HIDE DEF n, m
<1>2. ASSUME NEW i \in 1..n
      PROVE  Sound(ss[i]) /\ Writeable(ss[i])
  <2>1. lo + i \in 1..m
      BY <1>1
  <2> QED
      BY <1>1, <2>1 DEF AllSound
<1> QED
    BY <1>1, <1>2 DEF AllSound

(* Whatever is written of a packet can be.                                 *)
LEMMA WrittenSections ==
    ASSUME NEW p, SoundPacket(p), NEW capacity, NEW b \in WritePacket(p, capacity)
    PROVE  /\ \A i \in DOMAIN p.question : Writable(p.question[i].name)
           /\ AllSound(p.answers) /\ AllSound(p.authorities) /\ AllSound(p.additionals)
<1> DEFINE x == p.answers
           y == p.authorities
           z == p.additionals
           rs == RecordsOf(p)
           l == Len(x)
           m == Len(y)
           n == Len(z)
<1>1. p \in Packet /\ SoundRecords(x) /\ SoundRecords(y) /\ SoundRecords(z)
    BY DEF SoundPacket
<1>2. \A name \in NamesIn(p) : Writable(name)
    BY DEF WritePacket
<1>3. /\ \A i \in DOMAIN p.question : Writable(p.question[i].name)
      /\ \A i \in DOMAIN rs : Writeable(rs[i])
    BY <1>1, <1>2, NamesAreWritable
<1>4. InThree(rs, x, y, z)
    BY DEF InThree, RecordsOf
<1>5. SoundRecords(rs)
  <2>1. SoundRecords((x \o y) \o z)
      BY <1>1, SoundJoined
  <2> QED
      BY <1>4, <2>1 DEF InThree
<1> HIDE DEF rs
<1>6. x \in Seq(DnsRecord) /\ y \in Seq(DnsRecord) /\ z \in Seq(DnsRecord)
    BY <1>1 DEF SoundRecords
<1>7. /\ rs \in Seq(DnsRecord)
      /\ PartOf(rs, 0, l, x) /\ PartOf(rs, l, l + m, y) /\ PartOf(rs, l + m, (l + m) + n, z)
    BY <1>4, <1>6, ThreeJoined
<1> HIDE DEF l, m, n, x, y, z
<1>8. AllSound(rs)
    BY <1>3, <1>5 DEF SoundRecords, AllSound
<1>9. AllSound(x)
    BY <1>6, <1>7, <1>8, PartSound
<1>10. AllSound(y)
    BY <1>6, <1>7, <1>8, PartSound
<1>11. AllSound(z)
    BY <1>6, <1>7, <1>8, PartSound
<1> QED
    BY <1>3, <1>9, <1>10, <1>11 DEF x, y, z

(* DnsPacket::write undoes what DnsPacket::read does: any packet that was  *)
(* read, once it is written, is read back as one that says the same, with  *)
(* the same header and all its records in their sections, whatever names   *)
(* were compressed and whatever bytes follow the sections in a datagram.   *)
THEOREM PacketsReadBack ==
    ASSUME NEW b \in Seq(Byte), NEW p \in ReadPacket(b),
           NEW capacity \in Nat, NEW c \in WritePacket(p, capacity)
    PROVE  \E w : /\ ReadPacket(c) = {w}
                  /\ w.id = p.id /\ w.flags = p.flags
                  /\ Questions(w.question) = Questions(p.question)
                  /\ Contents(w.answers) = Contents(p.answers)
                  /\ Contents(w.authorities) = Contents(p.authorities)
                  /\ Contents(w.additionals) = Contents(p.additionals)
<1> DEFINE w == PacketAsRead(p)
<1>1. SoundPacket(p)
    BY ReadPacketSound
<1>2. /\ p.question \in Seq(DnsQuestion) /\ p.answers \in Seq(DnsRecord)
      /\ p.authorities \in Seq(DnsRecord) /\ p.additionals \in Seq(DnsRecord)
    BY <1>1 DEF SoundPacket, SoundRecords, Packet
<1>3. /\ \A i \in DOMAIN p.question : Writable(p.question[i].name)
      /\ AllSound(p.answers) /\ AllSound(p.authorities) /\ AllSound(p.additionals)
    BY <1>1, WrittenSections
<1>4. ReadPacket(c) = {w}
    BY <1>1, WrittenPacketRead
<1>5. /\ w.id = p.id /\ w.flags = p.flags /\ w.question = QuestionsAsRead(p.question)
      /\ w.answers = RecordsAsRead(p.answers) /\ w.authorities = RecordsAsRead(p.authorities)
      /\ w.additionals = RecordsAsRead(p.additionals)
    BY DEF PacketAsRead
<1> HIDE DEF w
<1>6. Questions(w.question) = Questions(p.question)
    BY <1>2, <1>3, <1>5, QuestionsStay
<1>7. /\ Contents(w.answers) = Contents(p.answers)
      /\ Contents(w.authorities) = Contents(p.authorities)
      /\ Contents(w.additionals) = Contents(p.additionals)
    BY <1>2, <1>3, <1>5, SectionAsRead
<1> QED
    BY <1>4, <1>5, <1>6, <1>7

-----------------------------------------------------------------------------
(* The question for the name server *)

(* What the name server is sent: the client's question, and the program's  *)
(* OPT record.                                                             *)
LEMMA QuestionForSound ==
    ASSUME NEW p, SoundPacket(p)
    PROVE  /\ SoundPacket(QuestionFor(p))
           /\ QuestionFor(p) = [id |-> p.id, flags |-> {}, question |-> p.question,
                                answers |-> <<>>, authorities |-> <<>>,
                                additionals |-> Append(<<>>, OptRecord(MaxSize, FALSE))]
<1> DEFINE q == [NoPacket EXCEPT !.id = p.id, !.question = p.question]
           r == OptRecord(MaxSize, FALSE)
<1>1. q = [id |-> p.id, flags |-> {}, question |-> p.question, answers |-> <<>>,
           authorities |-> <<>>, additionals |-> <<>>]
  <2> DEFINE x == NoPacket
             k == p.id
             qs == p.question
             y == [x EXCEPT !.id = k, !.question = qs]
  <2>1. /\ x \in Packet /\ x.flags = {} /\ x.answers = <<>>
        /\ x.authorities = <<>> /\ x.additionals = <<>>
      BY NoPacketTypes DEF NoPacket
  <2>2. k \in Bytes(2) /\ qs \in Seq(DnsQuestion)
      BY DEF SoundPacket, Packet
  <2> HIDE DEF x, k, qs
  <2>3. y \in Packet
      BY <2>1, <2>2 DEF Packet
  <2>4. /\ y.id = k /\ y.question = qs /\ y.flags = x.flags /\ y.answers = x.answers
        /\ y.authorities = x.authorities /\ y.additionals = x.additionals
      BY <2>1 DEF Packet
  <2> HIDE DEF y
  <2>5. y = [id |-> y.id, flags |-> y.flags, question |-> y.question, answers |-> y.answers,
             authorities |-> y.authorities, additionals |-> y.additionals]
      BY <2>3 DEF Packet
  <2>6. y = [id |-> k, flags |-> {}, question |-> qs, answers |-> <<>>,
             authorities |-> <<>>, additionals |-> <<>>]
      BY <2>1, <2>4, <2>5
  <2> QED
      BY <2>6 DEF x, k, qs, y
<1>2. QuestionFor(p) = WithOpt(q, MaxSize, FALSE)
    BY DEF QuestionFor
<1>3. WithOpt(q, MaxSize, FALSE) = [q EXCEPT !.additionals = Append(@, r)]
    BY DEF WithOpt
<1>4. SoundPacket(q)
  <2>1. q \in Packet
      BY NoPacketTypes DEF SoundPacket, Packet
  <2> HIDE DEF q
  <2>2. /\ q.question = p.question /\ q.answers = <<>> /\ q.authorities = <<>>
        /\ q.additionals = <<>>
      BY <1>1
  <2> QED
      BY <2>1, <2>2, NothingSound DEF SoundPacket
<1> HIDE DEF q, r
<1>5. MaxSize \in Int
    BY SizeConstants
<1>6. SoundPacket(WithOpt(q, MaxSize, FALSE))
    BY <1>4, <1>5, WithOptSound
<1> QED
    BY <1>1, <1>2, <1>3, <1>6 DEF r

(* What Edns says of a packet with a single OPT record.                    *)
LEMMA EdnsOfOne ==
    ASSUME NEW p, NEW r, Selected(p.additionals, IsOpt) = <<r>>
    PROVE  Edns(p) = {[size |-> MinOf(MaxOf(DefaultSize, U16(r.class)), MaxSize),
                       dnssecOk |-> r.ttl[3] >= 128]}
<1> DEFINE opts == Selected(p.additionals, IsOpt)
           e(i) == [size |-> MinOf(MaxOf(DefaultSize, U16(opts[i].class)), MaxSize),
                    dnssecOk |-> opts[i].ttl[3] >= 128]
<1>1. Edns(p) = {e(i) : i \in DOMAIN opts \cap {1}}
    BY DEF Edns
<1>2. e(1) = [size |-> MinOf(MaxOf(DefaultSize, U16(r.class)), MaxSize),
              dnssecOk |-> r.ttl[3] >= 128]
    OBVIOUS
<1>3. DOMAIN opts \cap {1} = {1}
    OBVIOUS
<1> HIDE DEF opts, e
<1> QED
    BY <1>1, <1>2, <1>3

(* What the name server reads of it. *)
LEMMA QuestionReadBack ==
    ASSUME NEW p, SoundPacket(p), NEW b \in WritePacket(QuestionFor(p), MaxSize)
    PROVE  \E w \in ReadPacket(b) :
              /\ Questions(w.question) = Questions(p.question)
              /\ w.id = p.id
              /\ OwnFlags \cap w.flags = {}
              /\ Edns(w) = {[size |-> MaxSize, dnssecOk |-> FALSE]}
              /\ Len(RecordsOf(w)) = 1
<1> DEFINE q == QuestionFor(p)
           w == PacketAsRead(q)
           r == OptRecord(MaxSize, FALSE)
           s == RecordAsRead(r)
           none == <<>>
<1>1. SoundPacket(q) /\ MaxSize \in Nat
  <2>1. SoundPacket(q)
      BY QuestionForSound, Zenon
  <2> QED
      BY <2>1, SizeConstants
<1>2. q = [id |-> p.id, flags |-> {}, question |-> p.question, answers |-> none,
           authorities |-> none, additionals |-> Append(none, r)]
    BY QuestionForSound
<1> HIDE DEF q
<1>3. /\ q.id = p.id /\ q.flags = {} /\ q.question = p.question /\ q.answers = none
      /\ q.authorities = none /\ q.additionals = Append(none, r)
    BY <1>2
<1>4. ReadPacket(b) = {w}
    BY <1>1, WrittenPacketRead DEF q
<1>5. /\ \A i \in DOMAIN q.question : Writable(q.question[i].name)
      /\ AllSound(q.additionals)
    BY <1>1, WrittenSections DEF q
<1>6. p.question \in Seq(DnsQuestion)
    BY DEF SoundPacket, Packet
<1>7. /\ w.id = q.id /\ w.flags = q.flags /\ w.question = QuestionsAsRead(q.question)
      /\ w.answers = RecordsAsRead(none) /\ w.authorities = RecordsAsRead(none)
      /\ w.additionals = RecordsAsRead(Append(none, r))
    BY <1>3 DEF PacketAsRead
<1>8. Questions(w.question) = Questions(p.question)
    BY <1>3, <1>5, <1>6, <1>7, QuestionsStay
<1>9. r \in DnsRecord /\ IsOpt(r)
  <2>1. MaxSize \in Int
      BY <1>1
  <2> QED
      BY <2>1, OptRecordSound, Zenon DEF r
<1>10. RecordsAsRead(none) = none /\ none \in Seq(DnsRecord) /\ OptsIn(none) = {}
    BY DEF RecordsAsRead, OptsIn
<1>11. Selected(RecordsAsRead(Append(none, r)), IsOpt) = <<s>>
    BY <1>3, <1>5, <1>9, <1>10, OptAsRead
<1>12. RecordsAsRead(Append(none, r)) = Append(none, s)
    BY <1>9, <1>10, AppendAsRead
<1>13. s.class = U16Bytes(MaxSize) /\ s.ttl = <<0, 0, 0, 0>>
    BY DEF RecordAsRead, OptRecord
<1> HIDE DEF w, r, s
<1>14. Edns(w) = {[size |-> MinOf(MaxOf(DefaultSize, U16(s.class)), MaxSize),
                   dnssecOk |-> s.ttl[3] >= 128]}
    BY <1>7, <1>11, EdnsOfOne
<1>15. U16(s.class) = MaxSize
    BY <1>1, <1>13, U16RoundTrip, SizeConstants
<1>16. MinOf(MaxOf(DefaultSize, MaxSize), MaxSize) = MaxSize
    BY SizeConstants DEF MinOf, MaxOf
<1>17. (s.ttl[3] >= 128) = FALSE
  <2>1. s.ttl[3] = 0
      BY <1>13
  <2> QED
      BY <2>1
<1>18. Edns(w) = {[size |-> MaxSize, dnssecOk |-> FALSE]}
    BY <1>14, <1>15, <1>16, <1>17
<1>19. Len(RecordsOf(w)) = 1
  <2>1. RecordsOf(w) = none \o none \o Append(none, s)
      BY <1>7, <1>10, <1>12 DEF RecordsOf
  <2> QED
      BY <2>1
<1> QED
    BY <1>3, <1>4, <1>7, <1>8, <1>18, <1>19

-----------------------------------------------------------------------------
(* The reply to the client *)

(* What the header of a reply leaves as it was. *)
LEMMA EnforcedSound ==
    ASSUME SoundPacket(Request), NEW p, SoundPacket(p)
    PROVE  /\ SoundPacket(Enforced(p)) /\ Enforced(p).id = Request.id
           /\ Enforced(p).flags \ OwnFlags = p.flags \ OwnFlags
           /\ Enforced(p).question = p.question /\ Enforced(p).answers = p.answers
           /\ Enforced(p).authorities = p.authorities
           /\ Enforced(p).additionals = p.additionals
<1> DEFINE w == Enforced(p)
           flags == SetTo((p.flags \cup {QR, RA}) \ {AA}, RD, RD \in Request.flags)
           k == Request.id
<1>1. p \in Packet /\ k \in Bytes(2) /\ p.flags \in SUBSET (0..15)
    BY DEF SoundPacket, Packet
<1>2. flags \in SUBSET (0..15)
    BY <1>1 DEF SetTo, QR, RA, AA, RD
<1>3. flags \ OwnFlags = p.flags \ OwnFlags
    BY DEF SetTo, OwnFlags
<1>4. w = [p EXCEPT !.id = k, !.flags = flags]
    BY DEF Enforced
<1> HIDE DEF flags, k, w
<1>5. w \in Packet
    BY <1>1, <1>2, <1>4 DEF Packet
<1>6. /\ w.id = k /\ w.flags = flags /\ w.question = p.question /\ w.answers = p.answers
      /\ w.authorities = p.authorities /\ w.additionals = p.additionals
    BY <1>1, <1>4 DEF Packet
<1>7. SoundPacket(w)
    BY <1>5, <1>6 DEF SoundPacket
<1> QED
    BY <1>3, <1>6, <1>7 DEF w, k

LEMMA FinalizedSound ==
    ASSUME SoundPacket(Request), NEW p, SoundPacket(p)
    PROVE  /\ SoundPacket(Finalized(p)) /\ Finalized(p).flags = p.flags
           /\ Finalized(p).answers = p.answers
           /\ Finalized(p).authorities = p.authorities
           /\ Finalized(p).additionals = p.additionals
<1> DEFINE w == [p EXCEPT !.question = Request.question]
<1>1. p \in Packet /\ Request.question \in Seq(DnsQuestion)
    BY DEF SoundPacket, Packet
<1>2. w \in Packet
    BY <1>1 DEF Packet
<1>3. /\ w.flags = p.flags /\ w.question = Request.question /\ w.answers = p.answers
      /\ w.authorities = p.authorities /\ w.additionals = p.additionals
    BY <1>1 DEF Packet
<1> HIDE DEF w
<1>4. SoundPacket(w)
    BY <1>2, <1>3 DEF SoundPacket
<1>5. Finalized(p) = w \/ Finalized(p) = p
    BY DEF Finalized, w
<1> QED
    BY <1>3, <1>4, <1>5

(* The packet that says SERVFAIL. *)
LEMMA ServerFailureSound ==
    ASSUME NEW p, SoundPacket(p)
    PROVE  /\ SoundPacket(ServerFailure(p))
           /\ ServerFailure(p).question = p.question
           /\ ServerFailure(p).flags \ OwnFlags = ServFail
           /\ ServerFailure(p).answers = <<>> /\ ServerFailure(p).authorities = <<>>
           /\ ServerFailure(p).additionals = <<>>
<1> DEFINE x == NoPacket
           flags == {QR} \cup ServFail
           qs == p.question
           w == [x EXCEPT !.question = qs, !.flags = flags]
<1>1. x \in Packet /\ x.answers = <<>> /\ x.authorities = <<>> /\ x.additionals = <<>>
    BY NoPacketTypes DEF NoPacket
<1>2. flags \in SUBSET (0..15) /\ flags \ OwnFlags = ServFail
    BY DEF QR, AA, RD, RA, ServFail, OwnFlags
<1>3. qs \in Seq(DnsQuestion)
    BY DEF SoundPacket, Packet
<1>4. ServerFailure(p) = w
    BY DEF ServerFailure
<1> HIDE DEF x, flags, qs
<1>5. w \in Packet
    BY <1>1, <1>2, <1>3 DEF Packet
<1>6. /\ w.flags = flags /\ w.question = qs /\ w.answers = x.answers
      /\ w.authorities = x.authorities /\ w.additionals = x.additionals
    BY <1>1 DEF Packet
<1> HIDE DEF w
<1>7. SoundPacket(w)
    BY <1>1, <1>5, <1>6, NothingSound DEF SoundPacket, qs
<1> QED
    BY <1>1, <1>2, <1>4, <1>6, <1>7 DEF qs

(* The reply is made of what was resolved, if anything was.                *)
LEMMA ResponseSound ==
    ASSUME SoundPacket(Request), SoundPacket(resolved)
    PROVE  /\ SoundPacket(Response) /\ Response.id = Request.id
           /\ IsResponse(resolved) =>
                 /\ Response.flags \ OwnFlags = resolved.flags \ OwnFlags
                 /\ Response.answers = resolved.answers
                 /\ Response.authorities = resolved.authorities
                 /\ Response.additionals = resolved.additionals
           /\ ~IsResponse(resolved) =>
                 /\ Response.flags \ OwnFlags = ServFail
                 /\ Response.question = Request.question
                 /\ Response.answers = <<>> /\ Response.authorities = <<>>
                 /\ Response.additionals = <<>>
<1>1. CASE IsResponse(resolved)
  <2> DEFINE p == Finalized(resolved)
  <2>1. /\ SoundPacket(p) /\ p.flags = resolved.flags /\ p.answers = resolved.answers
        /\ p.authorities = resolved.authorities /\ p.additionals = resolved.additionals
      BY FinalizedSound
  <2>2. Response = Enforced(p)
      BY <1>1 DEF Response
  <2> HIDE DEF p
  <2> QED
      BY <1>1, <2>1, <2>2, EnforcedSound
<1>2. CASE ~IsResponse(resolved)
  <2> DEFINE p == ServerFailure(Request)
  <2>1. /\ SoundPacket(p) /\ p.question = Request.question /\ p.flags \ OwnFlags = ServFail
        /\ p.answers = <<>> /\ p.authorities = <<>> /\ p.additionals = <<>>
      BY ServerFailureSound
  <2>2. Response = Enforced(p)
      BY <1>2 DEF Response
  <2> HIDE DEF p
  <2> QED
      BY <1>2, <2>1, <2>2, EnforcedSound
<1> QED
    BY <1>1, <1>2

(* The OPT record of a reply is the program's answer to the client's.      *)
Echoed(opts, es) ==
    /\ Len(opts) = Cardinality(es)
    /\ \A e \in es, i \in DOMAIN opts : (opts[i].ttl[3] >= 128) = e.dnssecOk

(* The packet for the client: the response, and an OPT record at its end   *)
(* if the client sent one.                                                 *)
LEMMA ForClientIs ==
    ASSUME SoundPacket(Request), NEW p, SoundPacket(p)
    PROVE  LET w == ForClient(p)
               rest == Others(p.additionals)
           IN  /\ SoundPacket(w) /\ w.id = p.id /\ w.flags = p.flags
               /\ w.question = p.question /\ w.answers = p.answers
               /\ w.authorities = p.authorities
               /\ \/ Edns(Request) = {} /\ w.additionals = rest
                  \/ \E e : /\ Edns(Request) = {e} /\ e.size \in Int
                            /\ w.additionals = Append(rest, OptRecord(e.size, e.dnssecOk))
<1> DEFINE bare == WithoutOpt(p)
           rest == Others(p.additionals)
<1>1. SoundPacket(bare) /\ bare.additionals = rest
    BY WithoutOptSound
<1>2. /\ bare.id = p.id /\ bare.flags = p.flags /\ bare.question = p.question
      /\ bare.answers = p.answers /\ bare.authorities = p.authorities
  <2>1. p \in Packet
      BY DEF SoundPacket
  <2>2. bare = [p EXCEPT !.additionals = rest]
      BY DEF WithoutOpt, Others
  <2> HIDE DEF bare, rest
  <2> QED
      BY <2>1, <2>2 DEF Packet
<1> HIDE DEF bare, rest
<1>3. CASE Edns(Request) = {}
  <2>1. ForClient(p) = bare
      BY <1>3 DEF ForClient, bare
  <2> QED
      BY <1>1, <1>2, <1>3, <2>1 DEF rest
<1>4. CASE Edns(Request) # {}
  <2> DEFINE e == CHOOSE x \in Edns(Request) : TRUE
             w == WithOpt(bare, e.size, e.dnssecOk)
             o == OptRecord(e.size, e.dnssecOk)
  <2>1. e \in Edns(Request)
      BY <1>4
  <2>2. Edns(Request) = {e}
    <3>1. \A x, y \in Edns(Request) : x = y
        BY DEF Edns
    <3> HIDE DEF e
    <3> QED
        BY <2>1, <3>1
  <2>3. ForClient(p) = w
      BY <1>4 DEF ForClient, bare
  <2> HIDE DEF e
  <2>4. e.size \in Int
    <3>1. Request \in Packet
        BY DEF SoundPacket
    <3> QED
        BY <2>1, <3>1, EdnsTypes
  <2>5. SoundPacket(w)
      BY <1>1, <2>4, WithOptSound
  <2>6. w = [bare EXCEPT !.additionals = Append(@, o)]
      BY DEF WithOpt
  <2> HIDE DEF w, o
  <2>7. /\ w.id = bare.id /\ w.flags = bare.flags /\ w.question = bare.question
        /\ w.answers = bare.answers /\ w.authorities = bare.authorities
        /\ w.additionals = Append(bare.additionals, o)
      BY <1>1, <2>6 DEF SoundPacket, Packet
  <2> QED
      BY <1>1, <1>2, <2>2, <2>3, <2>4, <2>5, <2>7 DEF o, rest
<1> QED
    BY <1>3, <1>4

(* What the client finds in its reply.                                     *)
LEMMA ReplyReadBack ==
    ASSUME SoundPacket(Request), NEW p, SoundPacket(p), NEW capacity \in Nat,
           NEW b \in WritePacket(ForClient(p), capacity)
    PROVE  \E w : /\ ReadPacket(b) = {w} /\ w \in Packet
                  /\ w.id = p.id /\ w.flags = p.flags
                  /\ Questions(w.question) = Questions(p.question)
                  /\ Contents(w.answers) = Contents(p.answers)
                  /\ Contents(w.authorities) = Contents(p.authorities)
                  /\ Contents(Others(w.additionals)) = Contents(Others(p.additionals))
                  /\ Echoed(Selected(w.additionals, IsOpt), Edns(Request))
<1> DEFINE q == ForClient(p)
           w == PacketAsRead(q)
           rest == Others(p.additionals)
<1>1. /\ SoundPacket(q) /\ q.id = p.id /\ q.flags = p.flags
      /\ q.question = p.question /\ q.answers = p.answers
      /\ q.authorities = p.authorities
      /\ \/ Edns(Request) = {} /\ q.additionals = rest
         \/ \E e : /\ Edns(Request) = {e} /\ e.size \in Int
                   /\ q.additionals = Append(rest, OptRecord(e.size, e.dnssecOk))
    BY ForClientIs
<1>2. ReadPacket(b) = {w}
    BY <1>1, WrittenPacketRead
<1>3. w \in Packet
  <2>1. b \in Seq(Byte)
    <3>1. q \in Packet
        BY <1>1 DEF SoundPacket
    <3> QED
        BY <3>1, WritePacketTypes
  <2> HIDE DEF w
  <2> QED
      BY <1>2, <2>1, ReadPacketTypes
<1>4. /\ \A i \in DOMAIN q.question : Writable(q.question[i].name)
      /\ AllSound(q.answers) /\ AllSound(q.authorities) /\ AllSound(q.additionals)
    BY <1>1, WrittenSections
<1>5. /\ p.question \in Seq(DnsQuestion) /\ p.answers \in Seq(DnsRecord)
      /\ p.authorities \in Seq(DnsRecord) /\ p.additionals \in Seq(DnsRecord)
    BY DEF SoundPacket, Packet
<1> HIDE DEF q
<1>6. /\ w.id = q.id /\ w.flags = q.flags /\ w.question = QuestionsAsRead(q.question)
      /\ w.answers = RecordsAsRead(q.answers) /\ w.authorities = RecordsAsRead(q.authorities)
      /\ w.additionals = RecordsAsRead(q.additionals)
    BY DEF PacketAsRead
<1> HIDE DEF w
<1>7. Questions(w.question) = Questions(p.question)
    BY <1>1, <1>4, <1>5, <1>6, QuestionsStay
<1>8. Contents(w.answers) = Contents(p.answers)
    BY <1>1, <1>4, <1>5, <1>6, SectionAsRead
<1>9. Contents(w.authorities) = Contents(p.authorities)
    BY <1>1, <1>4, <1>5, <1>6, SectionAsRead
<1>10. rest \in Seq(DnsRecord) /\ OptsIn(rest) = {}
    BY <1>5, OthersHaveNoOpt
<1> HIDE DEF rest
<1>11. /\ Contents(Others(w.additionals)) = Contents(rest)
       /\ Echoed(Selected(w.additionals, IsOpt), Edns(Request))
  <2>1. CASE Edns(Request) = {} /\ q.additionals = rest
    <3>1. /\ Selected(w.additionals, IsOpt) = <<>>
          /\ Contents(Others(w.additionals)) = Contents(rest)
        BY <1>4, <1>6, <1>10, <2>1, PlainAsRead
    <3>2. Len(<<>>) = 0 /\ Cardinality({}) = 0
        BY OneIsOne
    <3> QED
        BY <2>1, <3>1, <3>2 DEF Echoed
  <2>2. ASSUME NEW e, Edns(Request) = {e}, e.size \in Int,
               q.additionals = Append(rest, OptRecord(e.size, e.dnssecOk))
        PROVE  /\ Contents(Others(w.additionals)) = Contents(rest)
               /\ Echoed(Selected(w.additionals, IsOpt), Edns(Request))
    <3> DEFINE r == OptRecord(e.size, e.dnssecOk)
               s == RecordAsRead(r)
    <3>1. r \in DnsRecord /\ IsOpt(r)
        BY <2>2, OptRecordSound
    <3>2. s.ttl = <<0, 0, IF e.dnssecOk THEN 128 ELSE 0, 0>>
        BY DEF RecordAsRead, OptRecord
    <3>3. q.additionals = Append(rest, r)
        BY <2>2
    <3> HIDE DEF r, s
    <3>4. /\ Selected(w.additionals, IsOpt) = <<s>>
          /\ Contents(Others(w.additionals)) = Contents(rest)
        BY <1>4, <1>6, <1>10, <3>1, <3>3, OptAsRead DEF s
    <3>5. e.dnssecOk \in BOOLEAN
      <4>1. \A x \in Edns(Request) : x.dnssecOk \in BOOLEAN
        <5> DEFINE opts == Selected(Request.additionals, IsOpt)
        <5> DEFINE size(i) == MinOf(MaxOf(DefaultSize, U16(opts[i].class)), MaxSize)
                   bit(i) == opts[i].ttl[3] >= 128
        <5>1. ASSUME NEW i
              PROVE  bit(i) \in BOOLEAN
          <6> DEFINE n == opts[i].ttl[3]
          <6> HIDE DEF n
          <6>1. (n >= 128) \in BOOLEAN
              OBVIOUS
          <6> QED
              BY <6>1 DEF n
        <5>2. Edns(Request) = {[size |-> size(i), dnssecOk |-> bit(i)] : i \in DOMAIN opts \cap {1}}
            BY DEF Edns
        <5> HIDE DEF size, bit, opts
        <5> QED
            BY <5>1, <5>2
      <4>2. e \in Edns(Request)
          BY <2>2
      <4> QED
          BY <4>1, <4>2
    <3>6. (s.ttl[3] >= 128) = e.dnssecOk
      <4>1. s.ttl[3] = IF e.dnssecOk THEN 128 ELSE 0
          BY <3>2
      <4>2. CASE e.dnssecOk = TRUE
        <5>1. s.ttl[3] = 128
            BY <4>1, <4>2
        <5>2. (s.ttl[3] >= 128) = TRUE
            BY <5>1
        <5> QED
            BY <4>2, <5>2
      <4>3. CASE e.dnssecOk = FALSE
        <5>1. s.ttl[3] = 0
            BY <4>1, <4>3
        <5>2. (s.ttl[3] >= 128) = FALSE
            BY <5>1
        <5> QED
            BY <4>3, <5>2
      <4> QED
          BY <3>5, <4>2, <4>3
    <3>7. Len(<<s>>) = 1 /\ <<s>>[1] = s /\ DOMAIN <<s>> = {1}
        OBVIOUS
    <3>8. Cardinality(Edns(Request)) = 1
        BY <2>2, OneIsOne
    <3>9. Echoed(<<s>>, Edns(Request))
      <4>1. \A x \in Edns(Request), i \in DOMAIN <<s>> : x = e /\ i = 1
          BY <2>2, <3>7
      <4>2. \A x \in Edns(Request), i \in DOMAIN <<s>> :
               (<<s>>[i].ttl[3] >= 128) = x.dnssecOk
          BY <3>6, <3>7, <4>1
      <4> QED
          BY <3>7, <3>8, <4>2 DEF Echoed
    <3> QED
        BY <3>4, <3>9
  <2> QED
      BY <1>1, <2>1, <2>2
<1> QED
    BY <1>1, <1>2, <1>3, <1>6, <1>7, <1>8, <1>9, <1>11 DEF rest

(* What the client learns of its EDNS.                                     *)
LEMMA EchoedIsSaid ==
    ASSUME NEW w, NEW es, Echoed(Selected(w.additionals, IsOpt), es)
    PROVE  /\ Len(Selected(w.additionals, IsOpt)) = Cardinality(es)
           /\ \A e \in es, f \in Edns(w) : f.dnssecOk = e.dnssecOk
<1> DEFINE opts == Selected(w.additionals, IsOpt)
<1>1. Len(opts) = Cardinality(es)
    BY DEF Echoed
<1>2. \A f \in Edns(w) : \E i \in DOMAIN opts : f.dnssecOk = (opts[i].ttl[3] >= 128)
    BY DEF Edns
<1>3. \A e \in es, i \in DOMAIN opts : (opts[i].ttl[3] >= 128) = e.dnssecOk
    BY DEF Echoed
<1> HIDE DEF opts
<1>4. \A e \in es, f \in Edns(w) : f.dnssecOk = e.dnssecOk
    BY <1>2, <1>3, Zenon
<1> QED
    BY <1>1, <1>4 DEF opts

-----------------------------------------------------------------------------
(* What is passed on *)

(* The question was written for the name server and the reply for the      *)
(* client; an answer was the name server's, and without one nothing was    *)
(* resolved.                                                               *)
Asked ==
    question # <<>> => Requests # {} /\ question \in WritePacket(QuestionFor(Request), MaxSize)
Unanswered == answer = <<>> => resolved = NoPacket
Answered == answer # <<>> => IsAnswer(resolved)
Replied == stage = "sent" => reply \in WritePacket(ForClient(Response), Capacity)

Relayed == Asked /\ Unanswered /\ Answered /\ Replied

(* Nothing is read of an empty datagram. *)
LEMMA NothingReadOfNothing ==
    ASSUME NEW b \in Seq(Byte), NEW p \in ReadPacket(b)
    PROVE  b # <<>>
<1>1. PICK h \in ReadFields(b, 0, HeaderFields) : \E s1, s2, s3, s4 :
         Parts(p, b, h, s1, s2, s3, s4)
    BY ReadPacketParts
<1>2. 12 <= Len(b)
    BY HeaderTypes
<1>3. Len(<<>>) = 0
    OBVIOUS
<1> QED
    BY <1>2, <1>3

(* All that follows from the query and what was resolved stays with them. *)
LEMMA AllStays ==
    ASSUME query' = query, resolved' = resolved
    PROVE  /\ Requests' = Requests /\ QuestionFor(Request)' = QuestionFor(Request)
           /\ IsAnswer(resolved)' = IsAnswer(resolved)
           /\ Capacity' = Capacity /\ ForClient(Response)' = ForClient(Response)
<1>1. Requests' = Requests /\ Request' = Request /\ Capacity' = Capacity
    BY QueryStays
<1>2. QuestionFor(Request)' = QuestionFor(Request)
    BY <1>1 DEF QuestionFor
<1>3. IsAnswer(resolved)' = IsAnswer(resolved)
    BY <1>1 DEF IsAnswer
<1>4. Response' = Response
    BY <1>1 DEF Response, Finalized, Enforced, ServerFailure
<1>5. ForClient(Response)' = ForClient(Response)
    BY <1>1, <1>4 DEF ForClient
<1> QED
    BY <1>1, <1>2, <1>3, <1>5

(* Every step keeps the question, the answer and the reply what they were. *)
LEMMA RelayedStep ==
    ASSUME Inv, Relayed, [Next]_vars
    PROVE  Relayed'
<1>1. CASE Take \/ Ignore \/ CannotAsk \/ TimeOut \/ CannotReply \/ (\E b \in Answer : HearNothing(b))
            \/ UNCHANGED vars
  <2>1. /\ UNCHANGED <<query, question, answer, resolved, reply>>
        /\ stage' = "sent" => stage = "sent"
      BY <1>1 DEF Take, Ignore, CannotAsk, TimeOut, CannotReply, HearNothing, vars
  <2> QED
      BY <2>1, AllStays DEF Relayed, Asked, Unanswered, Answered, Replied
<1>2. CASE Ask
  <2>1. /\ UNCHANGED <<query, answer, resolved, reply>>
        /\ stage = "asking" /\ stage' # "sent"
        /\ question' \in WritePacket(QuestionFor(Request), MaxSize)
      BY <1>2 DEF Ask
  <2>2. Requests # {}
      BY <2>1 DEF Inv, Understood
  <2> QED
      BY <2>1, <2>2, AllStays DEF Relayed, Asked, Unanswered, Answered, Replied
<1>3. ASSUME NEW b \in Answer, Hear(b)
      PROVE  Relayed'
  <2>1. /\ UNCHANGED <<query, question, reply>> /\ stage' # "sent"
        /\ answer' = Received(b) /\ resolved' \in ReadPacket(Received(b))
        /\ IsResponse(resolved') /\ resolved'.id = Request.id
      BY <1>3 DEF Hear, IsAnswer
  <2>2. Requests' = Requests /\ Request' = Request
      BY <2>1, QueryStays
  <2>3. answer' # <<>>
    <3>1. Received(b) \in Seq(Byte)
        BY ReceivedTypes, RelayConstants
    <3> QED
        BY <2>1, <3>1, NothingReadOfNothing
  <2>4. Answered'
      BY <2>1, <2>2 DEF Answered, IsAnswer, IsResponse
  <2>5. QuestionFor(Request)' = QuestionFor(Request)
      BY <2>2 DEF QuestionFor
  <2>6. Asked'
      BY <2>1, <2>2, <2>5 DEF Relayed, Asked
  <2> QED
      BY <2>1, <2>3, <2>4, <2>6 DEF Relayed, Unanswered, Replied
<1>4. CASE Reply
  <2>1. /\ UNCHANGED <<query, question, answer, resolved>>
        /\ reply' \in WritePacket(ForClient(Response), Capacity)
      BY <1>4 DEF Reply
  <2> QED
      BY <2>1, AllStays DEF Relayed, Asked, Unanswered, Answered, Replied
<1> QED
    BY <1>1, <1>2, <1>3, <1>4 DEF Next

LEMMA RelayedInvariance == Spec => [](Inv /\ Relayed)
<1>1. Init => Relayed
    BY DEF Init, Relayed, Asked, Unanswered, Answered, Replied
<1>2. Inv /\ Relayed /\ [Next]_vars => Relayed'
    BY RelayedStep
<1> QED
    BY <1>1, <1>2, Invariance, PTL DEF Spec

LEMMA RequestSound ==
    ASSUME query \in Query, Requests # {}
    PROVE  SoundPacket(Request)
<1>1. Received(query) \in Seq(Byte)
    BY ReceivedTypes, RelayConstants
<1>2. Request \in Requests
    BY DEF Request
<1> QED
    BY <1>1, <1>2, ReadPacketSound DEF Requests

LEMMA ResolvedSound ==
    ASSUME Inv, Relayed
    PROVE  SoundPacket(resolved)
<1>1. CASE answer = <<>>
    BY <1>1, NoPacketSound DEF Relayed, Unanswered
<1>2. CASE answer # <<>>
    BY <1>2, ReadPacketSound DEF Inv, TypeOK, Heard
<1> QED
    BY <1>1, <1>2

(* Whatever query a client sent, the name server reads its question in what *)
(* the program asks, and nothing else of it: no flags of the client and no *)
(* record but the program's own OPT record.                                *)
THEOREM QuestionsPassOn == Spec => []QuestionPassedOn
<1>1. Inv /\ Relayed => QuestionPassedOn
  <2> SUFFICES ASSUME Inv, Relayed, question # <<>>
               PROVE  \E p \in ReadPacket(question) :
                         /\ Questions(p.question) = Questions(Request.question)
                         /\ p.id = Request.id
                         /\ OwnFlags \cap p.flags = {}
                         /\ Edns(p) = {[size |-> MaxSize, dnssecOk |-> FALSE]}
                         /\ Len(RecordsOf(p)) = 1
      BY DEF QuestionPassedOn
  <2>1. Requests # {} /\ question \in WritePacket(QuestionFor(Request), MaxSize)
      BY DEF Relayed, Asked
  <2>2. SoundPacket(Request)
      BY <2>1, RequestSound DEF Inv, TypeOK
  <2> QED
      BY <2>1, <2>2, QuestionReadBack
<1> QED
    BY <1>1, RelayedInvariance, PTL

(* What there is in a reply that was sent. *)
LEMMA SentIsRead ==
    ASSUME Inv, Relayed, stage = "sent"
    PROVE  /\ SoundPacket(Request) /\ SoundPacket(resolved)
           /\ \E w : /\ ReadPacket(reply) = {w} /\ w \in Packet
                     /\ w.id = Response.id /\ w.flags = Response.flags
                     /\ Questions(w.question) = Questions(Response.question)
                     /\ Contents(w.answers) = Contents(Response.answers)
                     /\ Contents(w.authorities) = Contents(Response.authorities)
                     /\ Contents(Others(w.additionals)) = Contents(Others(Response.additionals))
                     /\ Echoed(Selected(w.additionals, IsOpt), Edns(Request))
<1>1. Requests # {} /\ query \in Query
    BY DEF Inv, TypeOK, Understood
<1>2. SoundPacket(Request) /\ SoundPacket(resolved)
    BY <1>1, RequestSound, ResolvedSound
<1>3. SoundPacket(Response)
    BY <1>2, ResponseSound
<1>4. Capacity \in Nat
    BY <1>1, RequestTypes
<1>5. reply \in WritePacket(ForClient(Response), Capacity)
    BY DEF Relayed, Replied
<1> QED
    BY <1>2, <1>3, <1>4, <1>5, ReplyReadBack

(* The client reads an OPT record in its reply, and only one, just if its  *)
(* query had one, with its own DO bit: WithoutOpt leaves none of the name  *)
(* server's, wherever they stood, and none is lost on the wire.            *)
THEOREM OptsAreAsAsked == Spec => []OptAsAsked
<1>1. Inv /\ Relayed => OptAsAsked
  <2> SUFFICES ASSUME Inv, Relayed, stage = "sent", NEW p \in ReadPacket(reply)
               PROVE  /\ Len(Selected(p.additionals, IsOpt)) = Cardinality(Edns(Request))
                      /\ \A e \in Edns(Request), f \in Edns(p) : f.dnssecOk = e.dnssecOk
      BY DEF OptAsAsked
  <2>1. Echoed(Selected(p.additionals, IsOpt), Edns(Request))
      BY SentIsRead
  <2> QED
      BY <2>1, EchoedIsSaid
<1> QED
    BY <1>1, RelayedInvariance, PTL

(* The client reads in its reply the records and the result code that the  *)
(* name server sent, section by section, and SERVFAIL without an answer: no *)
(* header, name, data or length that the program writes anew says anything *)
(* else than what was read.                                                *)
THEOREM AnswersPassOn == Spec => []AnswerPassedOn
<1>1. Inv /\ Relayed => AnswerPassedOn
  <2> SUFFICES ASSUME Inv, Relayed, stage = "sent"
               PROVE  AnswerPassedOn
      BY DEF AnswerPassedOn
  <2>1. SoundPacket(Request) /\ SoundPacket(resolved)
      BY SentIsRead
  <2>2. PICK w : /\ ReadPacket(reply) = {w} /\ w \in Packet
                 /\ w.id = Response.id /\ w.flags = Response.flags
                 /\ Questions(w.question) = Questions(Response.question)
                 /\ Contents(w.answers) = Contents(Response.answers)
                 /\ Contents(w.authorities) = Contents(Response.authorities)
                 /\ Contents(Others(w.additionals)) = Contents(Others(Response.additionals))
      BY SentIsRead
  <2>3. Response.id = Request.id
      BY <2>1, ResponseSound
  <2>4. WithoutOpt(w).additionals = Others(w.additionals)
      BY <2>2 DEF WithoutOpt, Others, Packet
  <2>5. CASE answer = <<>>
    <3>1. resolved = NoPacket
        BY <2>5 DEF Relayed, Unanswered
    <3>2. ~IsResponse(resolved)
        BY <3>1 DEF IsResponse, NoPacket
    <3>3. /\ Response.flags \ OwnFlags = ServFail
          /\ Response.question = Request.question
          /\ Response.answers = <<>> /\ Response.authorities = <<>>
          /\ Response.additionals = <<>>
        BY <2>1, <3>2, ResponseSound
    <3>4. Others(<<>>) = <<>>
      <4>1. <<>> \in Seq(DnsRecord) /\ OptsIn(<<>>) = {}
          BY DEF OptsIn
      <4> QED
          BY <4>1, NoOpts
    <3>5. ASSUME NEW rs, rs \in Seq(DnsRecord), Contents(rs) = Contents(<<>>)
          PROVE  rs = <<>>
      <4>1. DOMAIN Contents(rs) = DOMAIN rs /\ DOMAIN Contents(<<>>) = {}
          BY DEF Contents
      <4>2. DOMAIN rs = {}
          BY <3>5, <4>1
      <4> QED
          BY <3>5, <4>2
    <3>6. /\ w.answers \in Seq(DnsRecord) /\ w.authorities \in Seq(DnsRecord)
          /\ Others(w.additionals) \in Seq(DnsRecord)
        BY <2>2, OthersHaveNoOpt DEF Packet
    <3>7. /\ w.answers = <<>> /\ w.authorities = <<>> /\ Others(w.additionals) = <<>>
        BY <2>2, <3>3, <3>4, <3>5, <3>6
    <3>8. WithoutOpt(w).additionals \o w.answers \o w.authorities = <<>>
      <4>1. <<>> \o <<>> \o <<>> = <<>>
          OBVIOUS
      <4> QED
          BY <2>4, <3>7, <4>1
    <3> QED
        BY <2>2, <2>3, <2>5, <3>3, <3>8 DEF AnswerPassedOn
  <2>6. CASE answer # <<>>
    <3>1. IsResponse(resolved)
        BY <2>6 DEF Relayed, Answered, IsAnswer
    <3>2. /\ Response.flags \ OwnFlags = resolved.flags \ OwnFlags
          /\ Response.answers = resolved.answers
          /\ Response.authorities = resolved.authorities
          /\ Response.additionals = resolved.additionals
        BY <2>1, <3>1, ResponseSound
    <3>3. WithoutOpt(resolved).additionals = Others(resolved.additionals)
        BY <2>1, WithoutOptSound
    <3> QED
        BY <2>2, <2>3, <2>4, <2>6, <3>2, <3>3 DEF AnswerPassedOn
  <2> QED
      BY <2>5, <2>6
<1> QED
    BY <1>1, RelayedInvariance, PTL

=============================================================================
