----------------------- MODULE BytePacketBufferProofs -----------------------
(***************************************************************************)
(* Theorems about read_qname and write_qname, for all buffers and names.   *)
(***************************************************************************)
EXTENDS BytePacketBuffer, FoldFacts

(* The bytes of a buffer, and the dot. *)
LEMMA ByteAt ==
    ASSUME NEW b \in Seq(Byte), NEW i \in 1..Len(b)
    PROVE  b[i] \in 0..255
<1>1. b[i] \in Byte
    OBVIOUS
<1> QED
    BY <1>1 DEF Byte

LEMMA DotIsAName == <<Dot>> \in Seq(Byte)
<1>1. Dot \in Byte
    BY DEF Dot, Byte
<1> QED
    BY <1>1

(* Where a pointer leads. *)
LEMMA TargetTypes ==
    ASSUME NEW high \in 0..255, NEW low \in 0..255, high >= 192
    PROVE  (high - 192) * 256 + low \in Nat
<1>1. high - 192 \in Nat
    OBVIOUS
<1> QED
    BY <1>1

(* Where a label ends. *)
LEMMA LabelEnds ==
    ASSUME NEW n \in Nat, NEW cursor \in Nat, NEW length \in 0..255,
           length <= n - (cursor + 1)
    PROVE  /\ cursor + 1 + length \in Nat /\ cursor + 1 + length <= n
           /\ cursor < cursor + 1 + length
OBVIOUS

(* The four ways a round of read_qname changes its variables keep their    *)
(* types, and pos in the buffer.                                           *)
LEMMA ThrownTypes ==
    ASSUME NEW s \in Reader
    PROVE  Thrown(s) \in Reader /\ Thrown(s).pos = s.pos /\ Thrown(s).from = s.from
BY DEF Thrown, Reader

LEMMA FollowedTypes ==
    ASSUME NEW b \in Seq(Byte), NEW s \in Reader,
           Available(b, s.cursor, 1), b[s.cursor + 1] >= 192
    PROVE  /\ Followed(b, s) \in Reader /\ Followed(b, s).from = s.from
           /\ s.pos <= Len(b) => Followed(b, s).pos <= Len(b)
<1>1. CASE ~Available(b, s.cursor, 2)
    BY <1>1, ThrownTypes DEF Followed
<1>2. CASE Available(b, s.cursor, 2)
  <2>1. Len(b) \in Nat /\ s.cursor \in Nat /\ s.jumps \in Nat /\ s.pos \in Nat
      BY DEF Reader
  <2>2. s.cursor + 1 \in 1..Len(b) /\ s.cursor + 2 \in 1..Len(b)
      BY <1>2, <2>1 DEF Available
  <2>3. b[s.cursor + 1] \in 0..255 /\ b[s.cursor + 2] \in 0..255
      BY <2>2, ByteAt
  <2>4. Target(b, s.cursor) \in Nat
      BY <2>3, TargetTypes DEF Target
  <2> DEFINE p == IF s.jumped THEN s.pos ELSE s.cursor + 2
             c  == Target(b, s.cursor)
             st == IF s.jumps + 1 > Len(b) THEN "thrown" ELSE s.status
  <2>5. p \in Nat /\ (s.pos <= Len(b) => p <= Len(b)) /\ c \in Nat
      BY <2>1, <2>2, <2>4
  <2>6. st \in {"reading", "done", "thrown"}
      BY DEF Reader
  <2> DEFINE t1 == [s EXCEPT !.pos = p, !.cursor = c]
             t2 == [t1 EXCEPT !.jumped = TRUE, !.jumps = s.jumps + 1]
             t3 == [t2 EXCEPT !.status = st]
  <2>7. Followed(b, s) = t3
      BY <1>2 DEF Followed
  <2> HIDE DEF p, c, st
  <2>8. t1 \in Reader /\ t1.pos = p /\ t1.from = s.from
      BY <2>5 DEF Reader
  <2>9. t2 \in Reader /\ t2.pos = p /\ t2.from = s.from
    <3> HIDE DEF t1
    <3>1. s.jumps + 1 \in Nat
        BY <2>1
    <3> QED
        BY <2>8, <3>1 DEF Reader
  <2>10. t3 \in Reader /\ t3.pos = p /\ t3.from = s.from
    <3> HIDE DEF t2
    <3> QED
        BY <2>6, <2>9 DEF Reader
  <2> HIDE DEF t3
  <2> QED
      BY <2>5, <2>7, <2>10
<1> QED
    BY <1>1, <1>2

LEMMA EndedTypes ==
    ASSUME NEW b \in Seq(Byte), NEW s \in Reader, Available(b, s.cursor, 1)
    PROVE  /\ Ended(s) \in Reader /\ Ended(s).from = s.from
           /\ s.pos <= Len(b) => Ended(s).pos <= Len(b)
<1> DEFINE p == IF s.jumped THEN s.pos ELSE s.cursor + 1
           n == IF s.name = <<>> THEN <<Dot>> ELSE s.name
<1>1. Len(b) \in Nat /\ s.cursor \in Nat /\ s.pos \in Nat
    BY DEF Reader
<1>2. p \in Nat /\ (s.pos <= Len(b) => p <= Len(b))
    BY <1>1 DEF Available
<1>3. n \in Seq(Byte)
    BY DotIsAName DEF Reader
<1>4. Ended(s) = [s EXCEPT !.pos = p, !.name = n, !.status = "done"]
    BY DEF Ended
<1> HIDE DEF p, n
<1> QED
    BY <1>2, <1>3, <1>4 DEF Reader

LEMMA LabelledTypes ==
    ASSUME NEW b \in Seq(Byte), NEW s \in Reader,
           Available(b, s.cursor, 1), b[s.cursor + 1] > 0
    PROVE  /\ Labelled(b, s) \in Reader /\ Labelled(b, s).from = s.from
           /\ s.pos <= Len(b) => Labelled(b, s).pos <= Len(b)
<1> DEFINE length == b[s.cursor + 1]
           after  == s.cursor + 1 + length
           name   == Extended(s.name, SubSeq(b, s.cursor + 2, after))
           p      == IF s.jumped THEN s.pos ELSE after
<1>1. CASE ~(Available(b, s.cursor + 1, length) /\ Len(name) + 1 <= MaxName)
  <2>1. Labelled(b, s) = Thrown(s)
      BY <1>1 DEF Labelled
  <2> QED
      BY <2>1, ThrownTypes
<1>2. CASE Available(b, s.cursor + 1, length) /\ Len(name) + 1 <= MaxName
  <2>1. Len(b) \in Nat /\ s.cursor \in Nat /\ s.pos \in Nat
      BY DEF Reader
  <2>2. s.cursor + 1 \in 1..Len(b)
      BY <2>1 DEF Available
  <2>3. length \in 0..255
      BY <2>2, ByteAt
  <2>4. after \in Nat /\ after <= Len(b)
    <3>1. length <= Len(b) - (s.cursor + 1)
        BY <1>2 DEF Available
    <3> QED
        BY <3>1, <2>1, <2>3, LabelEnds
  <2>5. name \in Seq(Byte)
    <3>1. SubSeq(b, s.cursor + 2, after) \in Seq(Byte)
      <4>1. \A i \in s.cursor + 2..after : i \in 1..Len(b)
          BY <2>1, <2>4
      <4> HIDE DEF after
      <4> QED
          BY <2>1, <2>4, <4>1
    <3>2. s.name \in Seq(Byte) /\ <<Dot>> \in Seq(Byte)
        BY DotIsAName DEF Reader
    <3> QED
        BY <3>1, <3>2 DEF Extended
  <2>6. p \in Nat /\ (s.pos <= Len(b) => p <= Len(b))
      BY <2>1, <2>4
  <2>7. Labelled(b, s) = [s EXCEPT !.name = name, !.cursor = after, !.pos = p]
      BY <1>2 DEF Labelled
  <2> HIDE DEF after, name, p
  <2> QED
      BY <2>4, <2>5, <2>6, <2>7 DEF Reader
<1> QED
    BY <1>1, <1>2

LEMMA StepTypes ==
    ASSUME NEW b \in Seq(Byte), NEW s \in Reader
    PROVE  /\ Step(b, s) \in Reader /\ Step(b, s).from = s.from
           /\ s.pos <= Len(b) => Step(b, s).pos <= Len(b)
<1>1. CASE ~Available(b, s.cursor, 1)
    BY <1>1, ThrownTypes DEF Step
<1>2. CASE Available(b, s.cursor, 1)
  <2>1. s.cursor + 1 \in 1..Len(b)
      BY <1>2 DEF Available, Reader
  <2>2. b[s.cursor + 1] \in 0..255
      BY <2>1, ByteAt
  <2>3. PICK length \in 0..255 : length = b[s.cursor + 1]
      BY <2>2
  <2>4. CASE length >= 192
    <3>1. Step(b, s) = Followed(b, s) /\ b[s.cursor + 1] >= 192
        BY <1>2, <2>3, <2>4 DEF Step
    <3> QED
        BY <1>2, <3>1, FollowedTypes
  <2>5. CASE length = 0
    <3>1. Step(b, s) = Ended(s)
        BY <1>2, <2>3, <2>5 DEF Step
    <3> QED
        BY <1>2, <3>1, EndedTypes
  <2>6. CASE 64 <= length /\ length < 192
    <3>1. ~(length >= 192) /\ length # 0 /\ length >= 64
        BY <2>6
    <3>2. Step(b, s) = Thrown(s)
        BY <1>2, <2>3, <3>1, Zenon DEF Step
    <3> QED
        BY <3>2, ThrownTypes
  <2>7. CASE 0 < length /\ length < 64
    <3>1. ~(length >= 192) /\ length # 0 /\ ~(length >= 64) /\ length > 0
        BY <2>7
    <3>2. Step(b, s) = Labelled(b, s)
        BY <1>2, <2>3, <3>1, Zenon DEF Step
    <3>3. b[s.cursor + 1] > 0
        BY <2>3, <3>1, Zenon
    <3> QED
        BY <1>2, <3>2, <3>3, LabelledTypes
  <2> QED
      BY <2>4, <2>5, <2>6, <2>7
<1> QED
    BY <1>1, <1>2

(* What is written of a name are bytes. *)
LEMMA DottedTypes ==
    ASSUME NEW name \in Seq(Byte)
    PROVE  /\ Unrooted(name) \in Seq(Byte)
           /\ Dotted(name) \in Seq(Byte)
           /\ Len(Dotted(name)) = Len(Unrooted(name)) + 2
<1>1. Unrooted(name) \in Seq(Byte)
  <2>1. CASE name # <<>> /\ Last(name) = Dot
    <3>1. Unrooted(name) = SubSeq(name, 1, Len(name) - 1)
        BY <2>1 DEF Unrooted, Front
    <3>2. Len(name) \in Nat \ {0}
        BY <2>1
    <3> QED
        BY <3>1, <3>2
  <2>2. CASE ~(name # <<>> /\ Last(name) = Dot)
      BY <2>2 DEF Unrooted
  <2> QED
      BY <2>1, <2>2
<1> DEFINE u == Unrooted(name)
<1> HIDE DEF u
<1>2. u \in Seq(Byte)
    BY <1>1 DEF u
<1>3. <<Dot>> \o u \in Seq(Byte) /\ Len(<<Dot>> \o u) = Len(u) + 1
    BY <1>2, DotIsAName
<1>4. Dotted(name) = (<<Dot>> \o u) \o <<Dot>>
    BY DEF Dotted, u
<1>5. Dotted(name) \in Seq(Byte) /\ Len(Dotted(name)) = Len(u) + 2
    BY <1>2, <1>3, <1>4, DotIsAName
<1> QED
    BY <1>1, <1>5 DEF u

LEMMA WrittenTypes ==
    ASSUME NEW name \in Seq(Byte), Writable(name)
    PROVE  WriteQname(name) \in Seq(Byte)
<1>1. CASE IsRoot(name)
  <2>1. 0 \in Byte
      BY DEF Byte
  <2>2. WriteQname(name) = <<0>>
      BY <1>1 DEF WriteQname
  <2> QED
      BY <2>1, <2>2
<1>2. CASE ~IsRoot(name)
  <2> DEFINE dotted == Dotted(name)
             byte(i) == CASE i = Len(dotted)         -> 0
                          [] IsLabelStart(dotted, i) -> LabelLength(dotted, i)
                          [] OTHER                   -> dotted[i]
  <2>1. WriteQname(name) = [i \in DOMAIN dotted |-> byte(i)]
      BY <1>2 DEF WriteQname
  <2>2. dotted \in Seq(Byte) /\ Len(dotted) \in Nat /\ DOMAIN dotted = 1..Len(dotted)
      BY DottedTypes
  <2>3. ASSUME NEW i \in 1..Len(dotted) PROVE byte(i) \in Byte
    <3>1. CASE i = Len(dotted)
      <4>1. byte(i) = 0
          BY <3>1 DEF IsLabelStart
      <4> QED
          BY <4>1 DEF Byte
    <3>2. CASE i # Len(dotted) /\ IsLabelStart(dotted, i)
      <4>1. LabelLength(dotted, i) \in 1..63
          BY <1>2, <2>2, <3>2 DEF Writable
      <4>2. byte(i) = LabelLength(dotted, i)
          BY <3>2
      <4> QED
          BY <4>1, <4>2 DEF Byte
    <3>3. CASE i # Len(dotted) /\ ~IsLabelStart(dotted, i)
      <4>1. byte(i) = dotted[i]
          BY <3>3
      <4> HIDE DEF dotted
      <4> QED
          BY <2>2, <4>1
    <3> QED
        BY <3>1, <3>2, <3>3
  <2> HIDE DEF byte, dotted
  <2> QED
      BY <2>1, <2>2, <2>3
<1> QED
    BY <1>1, <1>2

-----------------------------------------------------------------------------
(* The limit on names, in every round and not only in the last.            *)
Fits(name) == name \in {<<>>, <<Dot>>} \/ Len(name) + 1 <= MaxName

LEMMA StepFits ==
    ASSUME NEW b, NEW s \in Reader, Fits(s.name)
    PROVE  Fits(Step(b, s).name)
<1>1. Fits(Thrown(s).name)
    BY DEF Thrown, Reader
<1>2. Fits(Followed(b, s).name)
  <2>1. Followed(b, s).name = s.name
      BY DEF Followed, Thrown, Reader
  <2> QED
      BY <2>1
<1>3. Fits(Ended(s).name)
  <2>1. Ended(s).name = IF s.name = <<>> THEN <<Dot>> ELSE s.name
      BY DEF Ended, Reader
  <2> QED
      BY <2>1 DEF Fits
<1>4. Fits(Labelled(b, s).name)
  <2> DEFINE length == b[s.cursor + 1]
             after  == s.cursor + 1 + length
             name   == Extended(s.name, SubSeq(b, s.cursor + 2, after))
  <2>1. CASE Available(b, s.cursor + 1, length) /\ Len(name) + 1 <= MaxName
    <3>1. Labelled(b, s).name = name
        BY <2>1 DEF Labelled, Reader
    <3> QED
        BY <2>1, <3>1 DEF Fits
  <2>2. CASE ~(Available(b, s.cursor + 1, length) /\ Len(name) + 1 <= MaxName)
    <3>1. Labelled(b, s) = Thrown(s)
        BY <2>2 DEF Labelled
    <3> QED
        BY <1>1, <3>1
  <2> QED
      BY <2>1, <2>2
<1> QED
    BY <1>1, <1>2, <1>3, <1>4 DEF Step

-----------------------------------------------------------------------------
(* A name that is written and read again *)

(* The label that starts behind a dot ends before the next one.            *)
LEMMA LabelsEnd ==
    ASSUME NEW d \in Seq(Byte), d # <<>>, Last(d) = Dot, NEW i \in 1..(Len(d) - 1)
    PROVE  /\ LabelLength(d, i) \in Nat /\ i + LabelLength(d, i) + 1 <= Len(d)
           /\ d[i + LabelLength(d, i) + 1] = Dot
           /\ \A j \in (i + 1)..(i + LabelLength(d, i)) : d[j] # Dot
<1> DEFINE N == Len(d)
           Dots == {m \in Nat : i + m + 1 <= N /\ d[i + m + 1] = Dot}
<1>1. N \in Nat /\ d[N] = Dot
    BY DEF Last
<1>2. N - i - 1 \in Dots
  <2>1. N - i - 1 \in Nat /\ i + (N - i - 1) + 1 = N
      BY <1>1
  <2> HIDE DEF N
  <2> QED
      BY <1>1, <2>1
<1>3. PICK m \in Dots : \A k \in Dots : m <= k
  <2> HIDE DEF Dots
  <2>1. Dots \subseteq Nat
      BY DEF Dots
  <2> QED
      BY <1>2, <2>1, LeastExists
<1>4. m \in 0..N /\ d[i + m + 1] = Dot /\ \A j \in (i + 1)..(i + m) : d[j] # Dot
  <2>1. m \in 0..N /\ d[i + m + 1] = Dot
      BY <1>1, <1>3
  <2>2. ASSUME NEW j \in (i + 1)..(i + m), d[j] = Dot
        PROVE  FALSE
    <3> DEFINE k == j - i - 1
    <3>1. k \in Nat /\ k < m /\ i + k + 1 = j /\ i + k + 1 <= N
        BY <1>1, <1>3, <2>1
    <3> HIDE DEF k
    <3>2. k \in Dots
        BY <2>2, <3>1
    <3>3. m \in Nat /\ m <= k
      <4> HIDE DEF Dots
      <4> QED
          BY <1>3, <2>1, <3>2
    <3> HIDE DEF Dots
    <3> QED
        BY <3>1, <3>3
  <2> QED
      BY <2>1, <2>2
<1> DEFINE n == LabelLength(d, i)
<1>5. n \in 0..N /\ d[i + n + 1] = Dot /\ \A j \in (i + 1)..(i + n) : d[j] # Dot
    BY <1>4 DEF LabelLength
<1> HIDE DEF n
<1>6. i + n + 1 <= N
  <2> SUFFICES ASSUME i + n >= N
               PROVE  FALSE
      BY <1>1, <1>5
  <2>1. N \in (i + 1)..(i + n)
      BY <1>1, <1>5
  <2> QED
      BY <1>1, <1>5, <2>1
<1> QED
    BY <1>5, <1>6 DEF n

(* A name is no longer without the dot at its end.                         *)
LEMMA UnrootedLength ==
    ASSUME NEW name \in Seq(Byte)
    PROVE  /\ Len(Unrooted(name)) \in Nat
           /\ Len(Unrooted(name)) = IF name # <<>> /\ Last(name) = Dot THEN Len(name) - 1
                                                                     ELSE Len(name)
<1>1. CASE name # <<>> /\ Last(name) = Dot
  <2> DEFINE k == Len(name) - 1
  <2>1. Len(name) \in Nat \ {0}
      BY <1>1
  <2>2. k \in Nat /\ \A i \in 1..k : i \in 1..Len(name)
      BY <2>1
  <2>3. Unrooted(name) = SubSeq(name, 1, k)
      BY <1>1 DEF Unrooted, Front
  <2> HIDE DEF k
  <2>4. Len(SubSeq(name, 1, k)) = k
      BY <2>2
  <2> QED
      BY <1>1, <2>2, <2>3, <2>4 DEF k
<1>2. CASE ~(name # <<>> /\ Last(name) = Dot)
    BY <1>2 DEF Unrooted
<1> QED
    BY <1>1, <1>2

(* What write_qname writes of a name other than the root's: where the      *)
(* dotted name has a dot, the length of a label, and a zero at its end.    *)
LEMMA WrittenName ==
    ASSUME NEW name \in Seq(Byte), Writable(name), ~IsRoot(name),
           NEW d, d = Dotted(name), NEW w, w = WriteQname(name)
    PROVE  /\ d \in Seq(Byte) /\ w \in Seq(Byte)
           /\ Len(w) = Len(d) /\ Len(d) = Len(Unrooted(name)) + 2 /\ Len(d) \in Nat
           /\ Unrooted(name) # <<>> /\ SubSeq(d, 2, Len(d) - 1) = Unrooted(name)
           /\ d[1] = Dot /\ d[Len(d)] = Dot /\ d[Len(d) - 1] # Dot /\ w[Len(d)] = 0
           /\ \A i \in 1..(Len(d) - 1) : d[i] = Dot =>
                 /\ w[i] \in 1..63 /\ i + w[i] + 1 <= Len(d) /\ d[i + w[i] + 1] = Dot
                 /\ \A j \in (i + 1)..(i + w[i]) : d[j] # Dot /\ w[j] = d[j]
<1> DEFINE u == Unrooted(name)
           N == Len(d)
<1>1. u \in Seq(Byte) /\ d \in Seq(Byte) /\ w \in Seq(Byte) /\ N = Len(u) + 2
    BY DottedTypes, WrittenTypes
<1>2. u # <<>>
  <2>1. name # <<>> /\ name # <<Dot>>
      BY DEF IsRoot
  <2>2. CASE Last(name) = Dot
    <3>2. Len(name) # 1
      <4> SUFFICES ASSUME Len(name) = 1
                   PROVE  name = <<Dot>>
          BY <2>1
      <4>1. name[1] = Dot
          BY <2>2 DEF Last
      <4> QED
          BY <4>1
    <3>3. Len(name) \in Nat \ {0, 1}
        BY <2>1, <3>2
    <3>4. Len(u) = Len(name) - 1
        BY <2>1, <2>2, UnrootedLength
    <3> HIDE DEF u
    <3> QED
        BY <3>3, <3>4
  <2>3. CASE Last(name) # Dot
      BY <2>1, <2>3 DEF Unrooted
  <2> QED
      BY <2>2, <2>3
<1> HIDE DEF u
<1>3. d = <<Dot>> \o u \o <<Dot>>
    BY DEF Dotted, u
<1>4. Len(u) \in Nat \ {0} /\ N \in Nat /\ N >= 3 /\ DOMAIN d = 1..N
    BY <1>1, <1>2
<1>5. d[1] = Dot /\ d[N] = Dot /\ \A i \in 1..Len(u) : d[i + 1] = u[i]
  <2> DEFINE v == <<Dot>> \o u
  <2>1. /\ v \in Seq(Byte) /\ Len(v) = Len(u) + 1 /\ v[1] = Dot
        /\ \A i \in 1..Len(u) : v[i + 1] = u[i]
      BY <1>1, DotIsAName
  <2>2. d = v \o <<Dot>>
      BY <1>3
  <2> HIDE DEF v
  <2>3. d[N] = Dot /\ \A i \in 1..Len(v) : d[i] = v[i]
    <3>1. Len(v) \in Nat /\ N = Len(v) + 1
        BY <1>1, <1>4, <2>1
    <3>2. <<Dot>> \in Seq(Byte) /\ Len(<<Dot>>) = 1 /\ <<Dot>>[1] = Dot
        BY DotIsAName
    <3> DEFINE l == <<Dot>>
    <3> HIDE DEF l, N
    <3>3. d[Len(v) + 1] = l[1] /\ \A i \in 1..Len(v) : d[i] = v[i]
        BY <2>1, <2>2, <3>1, <3>2 DEF l
    <3> QED
        BY <3>1, <3>2, <3>3 DEF l
  <2> QED
      BY <1>1, <1>4, <2>1, <2>3
<1>6. SubSeq(d, 2, N - 1) = u
  <2> DEFINE s == SubSeq(d, 2, N - 1)
  <2>1. s \in Seq(Byte) /\ Len(s) = Len(u) /\ \A i \in 1..Len(u) : s[i] = d[i + 1]
      BY <1>1, <1>4
  <2> HIDE DEF s
  <2> QED
      BY <1>1, <1>5, <2>1 DEF s
<1>7. /\ DOMAIN w = 1..N /\ w[N] = 0
      /\ \A i \in 1..(N - 1) : w[i] = IF d[i] = Dot THEN LabelLength(d, i) ELSE d[i]
  <2>1. w = [i \in 1..N |-> CASE i = N -> 0
                              [] IsLabelStart(d, i) -> LabelLength(d, i)
                              [] OTHER -> d[i]]
      BY <1>4 DEF WriteQname
  <2>2. ~IsLabelStart(d, N) /\ N \in 1..N
      BY <1>4 DEF IsLabelStart
  <2>3. w[N] = 0
    <3> HIDE DEF N
    <3> QED
        BY <2>1, <2>2
  <2>4. ASSUME NEW i \in 1..(N - 1)
        PROVE  w[i] = IF d[i] = Dot THEN LabelLength(d, i) ELSE d[i]
    <3> HIDE DEF N
    <3>1. i \in 1..N /\ i # N /\ i < N
        BY <1>4
    <3>2. IsLabelStart(d, i) <=> d[i] = Dot
        BY <3>1 DEF IsLabelStart, N
    <3> QED
        BY <2>1, <3>1, <3>2
  <2> QED
      BY <2>1, <2>3, <2>4
<1>8. Len(w) = N
    BY <1>1, <1>4, <1>7
<1>9. ASSUME NEW i \in 1..(N - 1), d[i] = Dot
      PROVE  /\ w[i] \in 1..63 /\ i + w[i] + 1 <= N /\ d[i + w[i] + 1] = Dot
             /\ \A j \in (i + 1)..(i + w[i]) : d[j] # Dot /\ w[j] = d[j]
  <2>1. w[i] = LabelLength(d, i)
      BY <1>7, <1>9
  <2>2. w[i] \in 1..63
    <3>1. i \in DOMAIN d /\ IsLabelStart(d, i)
        BY <1>4, <1>9 DEF IsLabelStart
    <3> QED
        BY <2>1, <3>1 DEF Writable
  <2>3. /\ i + w[i] + 1 <= N /\ d[i + w[i] + 1] = Dot
        /\ \A j \in (i + 1)..(i + w[i]) : d[j] # Dot
    <3>1. d # <<>> /\ Last(d) = Dot
        BY <1>1, <1>4, <1>5 DEF Last
    <3> QED
        BY <1>1, <2>1, <3>1, LabelsEnd
  <2>4. ASSUME NEW j \in (i + 1)..(i + w[i])
        PROVE  w[j] = d[j]
    <3>1. d[j] # Dot
        BY <2>3
    <3> HIDE DEF N
    <3>2. PICK k \in 1..63 : k = w[i]
        BY <2>2
    <3>3. j \in i + 1..i + k /\ i + k + 1 <= N
        BY <2>3, <3>2
    <3>4. j \in 1..(N - 1)
        BY <1>4, <3>3
    <3> QED
        BY <1>7, <3>1, <3>4
  <2> QED
      BY <2>2, <2>3, <2>4
<1>10. d[N - 1] # Dot
  <2> SUFFICES ASSUME d[N - 1] = Dot
               PROVE  FALSE
      OBVIOUS
  <2>1. N - 1 \in 1..(N - 1)
      BY <1>4
  <2> HIDE DEF N
  <2>2. w[N - 1] \in 1..63 /\ (N - 1) + w[N - 1] + 1 <= N
      BY <1>9, <2>1
  <2>3. PICK k \in 1..63 : k = w[N - 1]
      BY <2>2
  <2>4. (N - 1) + k + 1 <= N
      BY <2>2, <2>3
  <2> QED
      BY <1>4, <2>4
<1> QED
    BY <1>1, <1>2, <1>4, <1>5, <1>6, <1>7, <1>8, <1>9, <1>10 DEF u


(* The slice of a sequence from its second element: its length, what is in *)
(* it, and how it grows past the dot behind it.                            *)
LEMMA Slice ==
    ASSUME NEW d \in Seq(Byte), NEW a \in Nat \ {0}, NEW c \in Nat, a <= c + 1, c <= Len(d)
    PROVE  /\ SubSeq(d, a, c) \in Seq(Byte) /\ Len(SubSeq(d, a, c)) = c + 1 - a
           /\ \A k \in 1..(c + 1 - a) : SubSeq(d, a, c)[k] = d[a + k - 1]
<1>1. \A k \in a..c : k \in 1..Len(d)
    OBVIOUS
<1>2. SubSeq(d, a, c) \in Seq(Byte)
    BY <1>1
<1>3. c + 1 - a \in Nat
    OBVIOUS
<1>4. Len(SubSeq(d, a, c)) = c + 1 - a
    BY <1>1, <1>3
<1>5. \A k \in 1..(c + 1 - a) : SubSeq(d, a, c)[k] = d[a + k - 1]
    BY <1>1, <1>3
<1> QED
    BY <1>2, <1>4, <1>5

LEMMA Joined ==
    ASSUME NEW x \in Seq(Byte), NEW y \in Seq(Byte)
    PROVE  /\ x \o y \in Seq(Byte) /\ Len(x \o y) = Len(x) + Len(y)
           /\ \A k \in 1..Len(x) : (x \o y)[k] = x[k]
           /\ \A k \in 1..Len(y) : (x \o y)[Len(x) + k] = y[k]
<1>1. x \o y \in Seq(Byte)
    OBVIOUS
<1>2. Len(x \o y) = Len(x) + Len(y)
    OBVIOUS
<1>3. \A k \in 1..Len(x) : (x \o y)[k] = x[k]
    OBVIOUS
<1>4. \A k \in 1..Len(y) : (x \o y)[Len(x) + k] = y[k]
    OBVIOUS
<1> QED
    BY <1>1, <1>2, <1>3, <1>4

LEMMA SliceGrows ==
    ASSUME NEW d \in Seq(Byte), NEW c \in Nat \ {0, 1}, NEW e \in Nat, c < e, e <= Len(d),
           d[c + 1] = Dot
    PROVE  SubSeq(d, 2, c) \o <<Dot>> \o SubSeq(d, c + 2, e) = SubSeq(d, 2, e)
<1> DEFINE x == SubSeq(d, 2, c)
           l == <<Dot>>
           y == SubSeq(d, c + 2, e)
           z == SubSeq(d, 2, e)
<1>1. /\ x \in Seq(Byte) /\ Len(x) = c - 1
      /\ \A k \in 1..(c - 1) : x[k] = d[k + 1]
    BY Slice
<1>2. /\ y \in Seq(Byte) /\ Len(y) = e - c - 1
      /\ \A k \in 1..(e - c - 1) : y[k] = d[c + k + 1]
    BY Slice
<1>3. /\ z \in Seq(Byte) /\ Len(z) = e - 1
      /\ \A k \in 1..(e - 1) : z[k] = d[k + 1]
    BY Slice
<1>4. l \in Seq(Byte) /\ Len(l) = 1 /\ l[1] = Dot
    BY DotIsAName
<1> HIDE DEF x, l, y, z
<1> DEFINE v == x \o l
<1>5. /\ v \in Seq(Byte) /\ Len(v) = c
      /\ \A k \in 1..(c - 1) : v[k] = d[k + 1]
      /\ v[c] = d[c + 1]
  <2>1. /\ v \in Seq(Byte) /\ Len(v) = Len(x) + Len(l)
        /\ \A k \in 1..Len(x) : v[k] = x[k]
        /\ \A k \in 1..Len(l) : v[Len(x) + k] = l[k]
      BY <1>1, <1>4, Joined, Zenon
  <2> HIDE DEF v
  <2> QED
      BY <1>1, <1>4, <2>1
<1> HIDE DEF v
<1> DEFINE vy == v \o y
<1>6. /\ vy \in Seq(Byte) /\ Len(vy) = Len(v) + Len(y)
      /\ \A k \in 1..Len(v) : vy[k] = v[k]
      /\ \A k \in 1..Len(y) : vy[Len(v) + k] = y[k]
    BY <1>2, <1>5, Joined
<1> HIDE DEF vy
<1>7. ASSUME NEW k \in 1..(e - 1)
      PROVE  vy[k] = z[k]
  <2>1. CASE k < c
      BY <1>3, <1>5, <1>6, <2>1
  <2>2. CASE k = c
    <3>1. vy[c] = v[c] /\ z[c] = d[c + 1]
        BY <1>3, <1>5, <1>6
    <3> QED
        BY <1>5, <2>2, <3>1
  <2>3. CASE k > c
    <3>1. PICK m \in 1..(e - c - 1) : k = c + m
      <4>1. k - c \in 1..(e - c - 1) /\ k = c + (k - c)
          BY <2>3
      <4> QED
          BY <4>1
    <3>2. vy[k] = y[m] /\ y[m] = d[c + m + 1]
        BY <1>2, <1>5, <1>6, <3>1
    <3> QED
        BY <1>3, <3>1, <3>2
  <2> QED
      BY <2>1, <2>2, <2>3
<1>8. vy = z
  <2>1. Len(vy) = e - 1
      BY <1>2, <1>5, <1>6
  <2> QED
      BY <1>3, <1>6, <1>7, <2>1
<1> QED
    BY <1>8 DEF vy, v, x, l, y, z

(* The reader of a name that was passed on, in the middle of it: it stands *)
(* where a label begins, or at the end, and has all labels before; and it  *)
(* stands at no position from which the next label would be an empty one.  *)
Underway(name, s) ==
    /\ s.status = "reading" /\ ~s.jumped /\ s.pos = s.cursor
    /\ IF IsRoot(name)
           THEN s.cursor = 0 /\ s.name = <<>>
           ELSE LET d == Dotted(name)
                IN  /\ s.cursor < Len(d) /\ s.cursor # 1 /\ d[s.cursor + 1] = Dot
                    /\ s.name = IF s.cursor = 0 THEN <<>> ELSE SubSeq(d, 2, s.cursor)

(* The reader of a name that was passed on, at its end. *)
Arrived(name, s) ==
    /\ s.status = "done"
    /\ s.pos = Len(WriteQname(name))
    /\ s.name = IF IsRoot(name) THEN <<Dot>> ELSE Unrooted(name)

LEMMA RootArrives ==
    ASSUME NEW name, IsRoot(name), NEW s \in Reader, Underway(name, s)
    PROVE  Arrived(name, Step(WriteQname(name), s))
<1> DEFINE b == WriteQname(name)
<1>1. b = <<0>>
    BY DEF WriteQname
<1>2. Len(b) = 1 /\ b[1] = 0
    BY <1>1
<1>3. s.cursor = 0 /\ s.name = <<>> /\ ~s.jumped
    BY DEF Underway
<1> HIDE DEF b
<1>4. Available(b, s.cursor, 1) /\ b[s.cursor + 1] = 0
    BY <1>2, <1>3 DEF Available
<1>5. Step(b, s) = Ended(s)
    BY <1>4 DEF Step
<1>6. Ended(s).status = "done" /\ Ended(s).pos = 1 /\ Ended(s).name = <<Dot>>
    BY <1>3 DEF Ended, Reader
<1> QED
    BY <1>2, <1>5, <1>6 DEF Arrived, b

(* A label of a name that was passed on is read, and the reader stands     *)
(* behind it.                                                              *)
LEMMA LabelArrives ==
    ASSUME NEW name \in Seq(Byte), Writable(name), Fits(name), ~IsRoot(name),
           NEW s \in Reader, Underway(name, s), s.cursor + 1 < Len(Dotted(name))
    PROVE  Underway(name, Step(WriteQname(name), s))
<1> DEFINE d == Dotted(name)
           b == WriteQname(name)
           c == s.cursor
           N == Len(d)
           i == c + 1
<1>1. /\ d \in Seq(Byte) /\ b \in Seq(Byte) /\ Len(b) = N /\ N \in Nat
      /\ N = Len(Unrooted(name)) + 2
      /\ \A k \in 1..(N - 1) : d[k] = Dot =>
                 /\ b[k] \in 1..63 /\ k + b[k] + 1 <= N /\ d[k + b[k] + 1] = Dot
                 /\ \A j \in (k + 1)..(k + b[k]) : d[j] # Dot /\ b[j] = d[j]
    BY WrittenName
<1>2. /\ c \in Nat /\ c # 1 /\ i < N /\ d[i] = Dot /\ ~s.jumped /\ s.pos = c
      /\ s.status = "reading"
      /\ s.name = IF c = 0 THEN <<>> ELSE SubSeq(d, 2, c)
    BY DEF Underway, Reader
<1> HIDE DEF d, b, c, N
<1>3. i \in 1..(N - 1)
    BY <1>1, <1>2
<1>4. /\ b[i] \in 1..63 /\ i + b[i] + 1 <= N /\ d[i + b[i] + 1] = Dot
      /\ \A j \in (i + 1)..(i + b[i]) : b[j] = d[j]
    BY <1>1, <1>2, <1>3
<1>5. PICK n \in 1..63 : n = b[i]
    BY <1>4
<1> DEFINE e == c + 1 + n
<1> HIDE DEF i
<1>6. /\ e \in Nat /\ e > c + 1 /\ e < N /\ c + 2 <= e + 1
      /\ d[e + 1] = Dot /\ \A j \in (c + 2)..e : b[j] = d[j]
  <2>1. e = i + n /\ i = c + 1 /\ i + 1 = c + 2
      BY <1>2, <1>5 DEF i
  <2>2. i + n + 1 <= N /\ d[i + n + 1] = Dot /\ \A j \in (i + 1)..(i + n) : b[j] = d[j]
      BY <1>4, <1>5
  <2>3. d[e + 1] = Dot /\ \A j \in (c + 2)..e : b[j] = d[j]
      BY <2>1, <2>2
  <2>4. c \in Nat /\ n \in 1..63 /\ N \in Nat /\ e = c + 1 + n /\ e + 1 <= N
    <3>1. i + n + 1 <= N
        BY <2>2
    <3> QED
        BY <1>1, <1>2, <2>1, <3>1
  <2> HIDE DEF e
  <2>5. e \in Nat /\ e > c + 1 /\ e < N /\ c + 2 <= e + 1
      BY <2>4
  <2> QED
      BY <2>3, <2>5
<1>7. SubSeq(b, c + 2, e) = SubSeq(d, c + 2, e)
  <2>1. /\ SubSeq(b, c + 2, e) \in Seq(Byte) /\ Len(SubSeq(b, c + 2, e)) = e - c - 1
        /\ \A k \in 1..(e - c - 1) : SubSeq(b, c + 2, e)[k] = b[c + k + 1]
      BY <1>1, <1>2, <1>6, Slice
  <2>2. /\ SubSeq(d, c + 2, e) \in Seq(Byte) /\ Len(SubSeq(d, c + 2, e)) = e - c - 1
        /\ \A k \in 1..(e - c - 1) : SubSeq(d, c + 2, e)[k] = d[c + k + 1]
      BY <1>1, <1>2, <1>6, Slice
  <2>3. \A k \in 1..(e - c - 1) : b[c + k + 1] = d[c + k + 1]
      BY <1>2, <1>6
  <2> DEFINE x == SubSeq(b, c + 2, e)
             y == SubSeq(d, c + 2, e)
  <2> HIDE DEF x, y, e
  <2>4. x \in Seq(Byte) /\ y \in Seq(Byte) /\ Len(x) = Len(y) /\ \A k \in 1..Len(x) : x[k] = y[k]
      BY <2>1, <2>2, <2>3 DEF x, y
  <2>5. x = y
      BY <2>4
  <2> QED
      BY <2>5 DEF x, y
<1>8. Extended(s.name, SubSeq(b, c + 2, e)) = SubSeq(d, 2, e)
  <2>1. CASE c = 0
    <3>1. s.name = <<>> /\ c + 2 = 2
        BY <1>2, <2>1
    <3> QED
        BY <1>7, <3>1 DEF Extended
  <2>2. CASE c # 0
    <3>1. s.name = SubSeq(d, 2, c) /\ c \in Nat \ {0, 1} /\ c < e /\ e <= N
        BY <1>1, <1>2, <1>6, <2>2
    <3>2. Len(SubSeq(d, 2, c)) = c - 1
        BY <1>1, <1>6, <3>1, Slice DEF N
    <3>3. s.name # <<>>
      <4>1. Len(s.name) # 0
        <5> HIDE DEF e
        <5> QED
            BY <3>1, <3>2
      <4> QED
          BY <4>1
    <3>4. d[c + 1] = Dot
        BY <1>2 DEF i
    <3>5. SubSeq(d, 2, c) \o <<Dot>> \o SubSeq(d, c + 2, e) = SubSeq(d, 2, e)
        BY <1>1, <1>6, <3>1, <3>4, SliceGrows DEF N
    <3> QED
        BY <1>7, <3>1, <3>3, <3>5 DEF Extended
  <2> QED
      BY <2>1, <2>2
<1>9. Len(SubSeq(d, 2, e)) + 1 <= MaxName
  <2>1. Len(SubSeq(d, 2, e)) = e - 1
    <3> HIDE DEF e
    <3>1. e \in Nat /\ 2 <= e + 1 /\ e <= Len(d)
        BY <1>1, <1>2, <1>6 DEF N
    <3>2. Len(SubSeq(d, 2, e)) = e + 1 - 2
        BY <1>1, <3>1, Slice
    <3> QED
        BY <3>1, <3>2
  <2>2. Len(Unrooted(name)) \in {Len(name), Len(name) - 1}
      BY UnrootedLength
  <2>3. Len(name) + 1 <= MaxName /\ Len(name) \in Nat /\ MaxName \in Nat
      BY BufferConstants DEF Fits, IsRoot
  <2>4. Len(Unrooted(name)) \in Nat
      BY DottedTypes
  <2> HIDE DEF e
  <2> QED
      BY <1>1, <1>6, <2>1, <2>2, <2>3, <2>4
<1>10. Available(b, c, 1) /\ Available(b, c + 1, n) /\ b[c + 1] = n
  <2>1. c \in Nat /\ N \in Nat /\ Len(b) = N /\ c + 1 + n < N
      BY <1>1, <1>2, <1>6
  <2>2. b[c + 1] = n
      BY <1>5 DEF i
  <2> HIDE DEF e
  <2> QED
      BY <2>1, <2>2 DEF Available
<1>11. Step(b, s) = [s EXCEPT !.name = SubSeq(d, 2, e), !.cursor = e, !.pos = e]
  <2>1. Step(b, s) = Labelled(b, s)
    <3>1. ~(n >= 192) /\ n # 0 /\ ~(n >= 64)
        OBVIOUS
    <3> QED
        BY <1>10, <3>1, Zenon DEF Step, c
  <2>2. /\ b[s.cursor + 1] = n /\ s.cursor + 1 + n = e
        /\ Extended(s.name, SubSeq(b, s.cursor + 2, e)) = SubSeq(d, 2, e)
        /\ Available(b, s.cursor + 1, n)
      BY <1>8, <1>10 DEF c
  <2> HIDE DEF e
  <2> QED
      BY <1>2, <1>9, <2>1, <2>2 DEF Labelled
<1> DEFINE t == [s EXCEPT !.name = SubSeq(d, 2, e), !.cursor = e, !.pos = e]
<1> HIDE DEF e
<1>12. t.status = "reading" /\ ~t.jumped /\ t.pos = e /\ t.cursor = e /\ t.name = SubSeq(d, 2, e)
    BY <1>2 DEF Reader
<1>13. e < Len(d) /\ e # 1 /\ e # 0 /\ d[e + 1] = Dot
    BY <1>2, <1>6 DEF N
<1> HIDE DEF t
<1>14. Underway(name, t)
    BY <1>12, <1>13 DEF Underway, d
<1> QED
    BY <1>11, <1>14 DEF b, t

(* Behind its last label the reader has all of the name.                   *)
LEMMA EndArrives ==
    ASSUME NEW name \in Seq(Byte), Writable(name), ~IsRoot(name),
           NEW s \in Reader, Underway(name, s), s.cursor + 1 = Len(Dotted(name))
    PROVE  Arrived(name, Step(WriteQname(name), s))
<1> DEFINE d == Dotted(name)
           b == WriteQname(name)
<1>1. /\ Len(b) = Len(d) /\ Len(d) \in Nat /\ b[Len(d)] = 0
      /\ Unrooted(name) # <<>> /\ SubSeq(d, 2, Len(d) - 1) = Unrooted(name)
      /\ Len(Unrooted(name)) \in Nat /\ Len(d) = Len(Unrooted(name)) + 2
    BY WrittenName, DottedTypes
<1>2. /\ s.cursor \in Nat /\ ~s.jumped
      /\ s.name = IF s.cursor = 0 THEN <<>> ELSE SubSeq(d, 2, s.cursor)
    BY DEF Underway, Reader
<1> HIDE DEF b
<1>3. s.name = Unrooted(name)
    BY <1>1, <1>2
<1> HIDE DEF d
<1>4. Available(b, s.cursor, 1) /\ b[s.cursor + 1] = 0
    BY <1>1, <1>2 DEF Available, d
<1>5. Step(b, s) = Ended(s)
    BY <1>4 DEF Step
<1>6. Ended(s).status = "done" /\ Ended(s).pos = s.cursor + 1 /\ Ended(s).name = s.name
    BY <1>1, <1>2, <1>3 DEF Ended, Reader
<1> QED
    BY <1>1, <1>3, <1>5, <1>6 DEF Arrived, b, d


(* What arrives is the name, and its bytes are as many as were announced.  *)
LEMMA ArrivedIsTheName ==
    ASSUME NEW name \in Seq(Byte), name # <<>>, Writable(name), NEW s, Arrived(name, s)
    PROVE  /\ Unrooted(s.name) = Unrooted(name)
           /\ s.pos = Len(WriteQname(name)) /\ Len(WriteQname(name)) = WireLength(name)
<1>1. CASE IsRoot(name)
  <2>1. name = <<Dot>> /\ s.name = <<Dot>>
      BY <1>1 DEF IsRoot, Arrived
  <2>2. Len(WriteQname(name)) = 1 /\ WireLength(name) = 1
      BY <1>1 DEF WriteQname, WireLength
  <2> QED
      BY <2>1, <2>2 DEF Arrived
<1>2. CASE ~IsRoot(name)
  <2> DEFINE u == Unrooted(name)
             d == Dotted(name)
  <2>1. s.name = u /\ s.pos = Len(WriteQname(name))
      BY <1>2 DEF Arrived
  <2>2. /\ d \in Seq(Byte) /\ Len(d) \in Nat /\ Len(d) = Len(u) + 2 /\ d[Len(d) - 1] # Dot
        /\ SubSeq(d, 2, Len(d) - 1) = u /\ Len(WriteQname(name)) = Len(d)
        /\ u # <<>>
      BY <1>2, WrittenName
  <2>3. u \in Seq(Byte) /\ Len(u) \in Nat \ {0}
      BY <2>2, DottedTypes
  <2> HIDE DEF u, d
  <2>4. Last(u) # Dot
    <3>1. Len(u) + 1 = Len(d) - 1
        BY <2>2, <2>3
    <3> DEFINE c == Len(u) + 1
    <3>2. c \in Nat /\ 2 <= c + 1 /\ c <= Len(d) /\ Len(u) \in 1..(c + 1 - 2)
        BY <2>2, <2>3
    <3>3. u = SubSeq(d, 2, c) /\ d[c] # Dot /\ 2 + Len(u) - 1 = c
        BY <2>2, <2>3, <3>1
    <3> HIDE DEF c
    <3>4. \A k \in 1..(c + 1 - 2) : SubSeq(d, 2, c)[k] = d[2 + k - 1]
        BY <2>2, <3>2, Slice
    <3>5. u[Len(u)] = d[c]
        BY <3>2, <3>3, <3>4
    <3> QED
        BY <3>3, <3>5 DEF Last
  <2>5. Unrooted(s.name) = u
      BY <2>1, <2>4 DEF Unrooted
  <2>6. WireLength(name) = Len(u) + 2
    <3>1. Len(u) = IF Last(name) = Dot THEN Len(name) - 1 ELSE Len(name)
        BY UnrootedLength DEF u
    <3>2. Len(name) \in Nat
        OBVIOUS
    <3> QED
        BY <1>2, <3>1, <3>2 DEF WireLength
  <2> QED
      BY <2>1, <2>2, <2>5, <2>6 DEF u
<1> QED
    BY <1>1, <1>2

-----------------------------------------------------------------------------
(* Reading comes to an end *)

(* A round after which there is another one: a label moved the reader on   *)
(* in the buffer, or one more pointer was followed than before.            *)
LEMMA Rounds ==
    ASSUME NEW b \in Seq(Byte), NEW s \in Reader,
           s.status = "reading", Step(b, s).status = "reading"
    PROVE  /\ s.cursor < Len(b)
           /\ \/ /\ Step(b, s).jumps = s.jumps
                 /\ s.cursor < Step(b, s).cursor /\ Step(b, s).cursor <= Len(b)
              \/ Step(b, s).jumps = s.jumps + 1 /\ s.jumps + 1 <= Len(b)
<1>1. Thrown(s).status = "thrown" /\ Ended(s).status = "done"
    BY DEF Thrown, Ended, Reader
<1>2. Len(b) \in Nat /\ s.cursor \in Nat /\ s.jumps \in Nat
    BY DEF Reader
<1>3. Available(b, s.cursor, 1) /\ s.cursor < Len(b)
  <2>1. Available(b, s.cursor, 1)
      BY <1>1 DEF Step
  <2> QED
      BY <1>2, <2>1 DEF Available
<1>4. PICK length \in 0..255 : length = b[s.cursor + 1]
  <2>1. s.cursor + 1 \in 1..Len(b)
      BY <1>2, <1>3
  <2> QED
      BY <2>1, ByteAt
<1>5. CASE length >= 192
  <2>1. Step(b, s) = Followed(b, s)
      BY <1>3, <1>4, <1>5 DEF Step
  <2>2. Available(b, s.cursor, 2)
      BY <1>1, <2>1 DEF Followed
  <2> DEFINE c  == Target(b, s.cursor)
             p  == IF s.jumped THEN s.pos ELSE s.cursor + 2
             st == IF s.jumps + 1 > Len(b) THEN "thrown" ELSE s.status
  <2>3. Followed(b, s) = [s EXCEPT !.pos = p, !.cursor = c, !.jumped = TRUE,
                                   !.jumps = s.jumps + 1, !.status = st]
      BY <2>2 DEF Followed
  <2> HIDE DEF c, p, st
  <2>4. Followed(b, s).jumps = s.jumps + 1 /\ Followed(b, s).status = st
      BY <2>3 DEF Reader
  <2>5. ~(s.jumps + 1 > Len(b))
      BY <2>1, <2>4 DEF st
  <2> QED
      BY <1>2, <1>3, <2>1, <2>4, <2>5
<1>6. CASE length < 192
  <2>1. Step(b, s) \in {Ended(s), Thrown(s)} \/ Step(b, s) = Labelled(b, s)
    <3>1. ~(length >= 192)
        BY <1>6
    <3> QED
        BY <1>3, <1>4, <3>1, Zenon DEF Step
  <2>2. Step(b, s) = Labelled(b, s)
      BY <1>1, <2>1
  <2> DEFINE e == s.cursor + 1 + length
             name == Extended(s.name, SubSeq(b, s.cursor + 2, e))
             p == IF s.jumped THEN s.pos ELSE e
  <2>3. /\ Available(b, s.cursor + 1, length)
        /\ Labelled(b, s) = [s EXCEPT !.name = name, !.cursor = e, !.pos = p]
      BY <1>1, <1>4, <2>2 DEF Labelled
  <2>4. s.cursor < e /\ e <= Len(b)
    <3>1. length \in 0..255 /\ length <= Len(b) - (s.cursor + 1)
        BY <1>4, <2>2, <2>3 DEF Available
    <3> QED
        BY <1>2, <3>1, LabelEnds
  <2> HIDE DEF e, name, p
  <2>5. Labelled(b, s).cursor = e /\ Labelled(b, s).jumps = s.jumps
      BY <2>3 DEF Reader
  <2> QED
      BY <1>3, <2>2, <2>4, <2>5
<1> QED
    BY <1>5, <1>6

(* There is no set of readers in which each has another round to go: the   *)
(* pointers run out, and between two pointers the buffer does.             *)
LEMMA NoEndlessReading ==
    ASSUME NEW b \in Seq(Byte), NEW S, S \subseteq Reader,
           \A s \in S : s.status = "reading" /\ Step(b, s) \in S
    PROVE  S = {}
<1> SUFFICES ASSUME S # {} PROVE FALSE
    OBVIOUS
<1> DEFINE spare(s) == IF s.jumps > Len(b) THEN 0 ELSE Len(b) + 1 - s.jumps
           left(s)  == Len(b) - s.cursor
           J == {spare(s) : s \in S}
<1>1. ASSUME NEW s \in S
      PROVE  /\ Len(b) \in Nat /\ s.cursor \in Nat /\ s.jumps \in Nat
             /\ spare(s) \in Nat /\ left(s) \in Nat
             /\ \/ spare(Step(b, s)) = spare(s) /\ left(Step(b, s)) < left(s)
                \/ spare(Step(b, s)) < spare(s)
  <2>1. Len(b) \in Nat /\ s.cursor \in Nat /\ s.jumps \in Nat
    <3>1. s \in Reader
        OBVIOUS
    <3> HIDE DEF spare, left, J
    <3> QED
        BY <3>1 DEF Reader
  <2>2. Step(b, s) \in S /\ s \in Reader /\ s.status = "reading" /\ Step(b, s).status = "reading"
      OBVIOUS
  <2> DEFINE t == Step(b, s)
  <2>3. t.cursor \in Nat /\ t.jumps \in Nat
      BY <2>2 DEF Reader
  <2>4. /\ s.cursor < Len(b)
        /\ \/ t.jumps = s.jumps /\ s.cursor < t.cursor /\ t.cursor <= Len(b)
           \/ t.jumps = s.jumps + 1 /\ s.jumps + 1 <= Len(b)
      BY <2>2, Rounds
  <2> HIDE DEF t
  <2>5. spare(s) \in Nat /\ left(s) \in Nat
      BY <2>1, <2>4
  <2>6. \/ spare(t) = spare(s) /\ left(t) < left(s)
        \/ spare(t) < spare(s)
      BY <2>1, <2>3, <2>4
  <2> QED
      BY <2>1, <2>5, <2>6 DEF t
<1> HIDE DEF spare, left
<1>2. PICK j \in J : \A k \in J : j <= k
  <2>1. J \subseteq Nat /\ J # {}
      BY <1>1
  <2> HIDE DEF J
  <2> QED
      BY <2>1, LeastExists
<1> DEFINE C == {left(s) : s \in {r \in S : spare(r) = j}}
<1>3. PICK c \in C : \A k \in C : c <= k
  <2>1. C \subseteq Nat /\ C # {}
      BY <1>1, <1>2
  <2> HIDE DEF C
  <2> QED
      BY <2>1, LeastExists
<1>4. PICK s \in S : spare(s) = j /\ left(s) = c
    BY <1>3
<1> DEFINE t == Step(b, s)
<1>5. t \in S /\ spare(s) \in Nat /\ spare(t) \in Nat /\ left(s) \in Nat /\ left(t) \in Nat
    BY <1>1
<1>6. j <= spare(t)
    BY <1>2, <1>5
<1>7. spare(t) = j /\ left(t) < c
  <2>1. (spare(t) = spare(s) /\ left(t) < left(s)) \/ spare(t) < spare(s)
      BY <1>1
  <2> HIDE DEF t
  <2> QED
      BY <1>4, <1>5, <1>6, <2>1
<1>8. left(t) \in C
    BY <1>5, <1>7
<1> HIDE DEF t
<1> QED
    BY <1>3, <1>4, <1>5, <1>7, <1>8


(* The pairs of a reader and what becomes of it: the least relation with   *)
(* what has come to an end, and with what one round more leads to.         *)
ClosedUnderRounds(b, Q) ==
    /\ \A s \in Reader : s.status # "reading" => <<s, s>> \in Q
    /\ \A s, t \in Reader : s.status = "reading" /\ <<Step(b, s), t>> \in Q => <<s, t>> \in Q

Outcomes(b) ==
    {o \in Reader \X Reader :
        \A Q \in SUBSET (Reader \X Reader) : ClosedUnderRounds(b, Q) => o \in Q}

LEMMA OutcomesClosed ==
    ASSUME NEW b \in Seq(Byte)
    PROVE  ClosedUnderRounds(b, Outcomes(b))
<1>1. ASSUME NEW s \in Reader, s.status # "reading"
      PROVE  <<s, s>> \in Outcomes(b)
    BY <1>1 DEF Outcomes, ClosedUnderRounds
<1>2. ASSUME NEW s \in Reader, NEW t \in Reader, s.status = "reading",
             <<Step(b, s), t>> \in Outcomes(b)
      PROVE  <<s, t>> \in Outcomes(b)
  <2>1. <<s, t>> \in Reader \X Reader
      OBVIOUS
  <2>2. ASSUME NEW Q \in SUBSET (Reader \X Reader), ClosedUnderRounds(b, Q)
        PROVE  <<s, t>> \in Q
    <3>1. <<Step(b, s), t>> \in Q
        BY <1>2, <2>2 DEF Outcomes
    <3> QED
        BY <1>2, <2>2, <3>1 DEF ClosedUnderRounds
  <2> QED
      BY <2>1, <2>2 DEF Outcomes
<1> QED
    BY <1>1, <1>2 DEF ClosedUnderRounds

(* Nothing else comes of a reader that has ended, or else comes of it in   *)
(* the next round.                                                         *)
LEMMA OutcomesLeast ==
    ASSUME NEW b \in Seq(Byte), NEW s \in Reader, NEW t \in Reader, <<s, t>> \in Outcomes(b)
    PROVE  IF s.status = "reading" THEN <<Step(b, s), t>> \in Outcomes(b) ELSE t = s
<1> SUFFICES ASSUME IF s.status = "reading" THEN <<Step(b, s), t>> \notin Outcomes(b)
                                            ELSE t # s
             PROVE  FALSE
    OBVIOUS
<1> DEFINE Q == Outcomes(b) \ {<<s, t>>}
<1>1. Q \in SUBSET (Reader \X Reader)
    BY DEF Outcomes
<1>2. ASSUME NEW r \in Reader, r.status # "reading"
      PROVE  <<r, r>> \in Q
  <2>1. <<r, r>> \in Outcomes(b)
      BY <1>2, OutcomesClosed DEF ClosedUnderRounds
  <2>2. <<r, r>> # <<s, t>>
      BY <1>2
  <2> QED
      BY <2>1, <2>2
<1>3. ASSUME NEW r \in Reader, NEW u \in Reader, r.status = "reading", <<Step(b, r), u>> \in Q
      PROVE  <<r, u>> \in Q
  <2>1. <<r, u>> \in Outcomes(b)
      BY <1>3, OutcomesClosed DEF ClosedUnderRounds
  <2>2. <<r, u>> # <<s, t>>
      BY <1>3
  <2> QED
      BY <2>1, <2>2
<1>4. ClosedUnderRounds(b, Q)
    BY <1>2, <1>3 DEF ClosedUnderRounds
<1> HIDE DEF Q
<1>5. <<s, t>> \in Q
    BY <1>1, <1>4 DEF Outcomes
<1> QED
    BY <1>5 DEF Q

LEMMA OneOutcome ==
    ASSUME NEW b \in Seq(Byte), NEW s \in Reader
    PROVE  \E t \in Reader : /\ <<s, t>> \in Outcomes(b)
                             /\ \A u \in Reader : <<s, u>> \in Outcomes(b) => u = t
<1> DEFINE One(r) == \E t \in Reader : /\ <<r, t>> \in Outcomes(b)
                                       /\ \A u \in Reader : <<r, u>> \in Outcomes(b) => u = t
           S == {r \in Reader : ~One(r)}
<1>1. ASSUME NEW r \in Reader, r.status # "reading"
      PROVE  One(r)
  <2>1. <<r, r>> \in Outcomes(b)
      BY <1>1, OutcomesClosed DEF ClosedUnderRounds
  <2>2. \A u \in Reader : <<r, u>> \in Outcomes(b) => u = r
      BY <1>1, OutcomesLeast
  <2> QED
      BY <2>1, <2>2
<1>2. ASSUME NEW r \in Reader, r.status = "reading", One(Step(b, r))
      PROVE  One(r)
  <2>1. PICK t \in Reader : /\ <<Step(b, r), t>> \in Outcomes(b)
                            /\ \A u \in Reader : <<Step(b, r), u>> \in Outcomes(b) => u = t
      BY <1>2
  <2>2. <<r, t>> \in Outcomes(b)
      BY <1>2, <2>1, OutcomesClosed DEF ClosedUnderRounds
  <2>3. \A u \in Reader : <<r, u>> \in Outcomes(b) => u = t
      BY <1>2, <2>1, OutcomesLeast
  <2> QED
      BY <2>2, <2>3
<1> HIDE DEF One
<1>3. \A r \in S : r.status = "reading" /\ Step(b, r) \in S
    BY <1>1, <1>2, StepTypes
<1>4. S = {}
  <2>1. S \subseteq Reader
      OBVIOUS
  <2> HIDE DEF S
  <2> QED
      BY <1>3, <2>1, NoEndlessReading
<1>5. One(s)
    BY <1>4
<1> QED
    BY <1>5 DEF One

(* The recursion that ReadQname is defined by has a solution, and each of  *)
(* its solutions is final.                                                 *)
Finishes(b, f) ==
    f = [s \in Reader |-> IF s.status = "reading" THEN f[Step(b, s)] ELSE s]

LEMMA FinishExists ==
    ASSUME NEW b \in Seq(Byte)
    PROVE  \E f : Finishes(b, f)
<1> DEFINE end(s) == CHOOSE t \in Reader : <<s, t>> \in Outcomes(b)
           f == [s \in Reader |-> end(s)]
<1>1. ASSUME NEW s \in Reader
      PROVE  /\ end(s) \in Reader /\ <<s, end(s)>> \in Outcomes(b)
             /\ \A u \in Reader : <<s, u>> \in Outcomes(b) => u = end(s)
    BY OneOutcome
<1> HIDE DEF end
<1>2. ASSUME NEW s \in Reader
      PROVE  f[s] = IF s.status = "reading" THEN f[Step(b, s)] ELSE s
  <2>1. CASE s.status = "reading"
    <3>1. Step(b, s) \in Reader
        BY StepTypes
    <3>2. <<s, end(Step(b, s))>> \in Outcomes(b) /\ end(Step(b, s)) \in Reader
        BY <1>1, <2>1, <3>1, OutcomesClosed DEF ClosedUnderRounds
    <3> QED
        BY <1>1, <2>1, <3>1, <3>2
  <2>2. CASE s.status # "reading"
    <3>1. <<s, s>> \in Outcomes(b)
        BY <2>2, OutcomesClosed DEF ClosedUnderRounds
    <3> QED
        BY <1>1, <2>2, <3>1
  <2> QED
      BY <2>1, <2>2
<1>3. f = [s \in Reader |-> f[s]]
    OBVIOUS
<1>4. f = [s \in Reader |-> IF s.status = "reading" THEN f[Step(b, s)] ELSE s]
  <2> HIDE DEF f
  <2> QED
      BY <1>2, <1>3
<1> QED
    BY <1>4 DEF Finishes

LEMMA FinishIsFinal ==
    ASSUME NEW b \in Seq(Byte), NEW f, Finishes(b, f), NEW s \in Reader,
           NEW V, s \in V, \A r \in V \cap Reader : r.status = "reading" => Step(b, r) \in V
    PROVE  f[s] \in V \cap Reader /\ f[s].status # "reading"
<1> DEFINE Good(r) == f[r] \in V \cap Reader /\ f[r].status # "reading"
           S == {r \in V \cap Reader : ~Good(r)}
<1>1. ASSUME NEW r \in V \cap Reader, r.status # "reading"
      PROVE  Good(r)
  <2>1. f[r] = r
      BY <1>1 DEF Finishes
  <2> QED
      BY <1>1, <2>1
<1>2. ASSUME NEW r \in V \cap Reader, r.status = "reading", Good(Step(b, r))
      PROVE  Good(r)
  <2>1. f[r] = f[Step(b, r)]
      BY <1>2 DEF Finishes
  <2> QED
      BY <1>2, <2>1
<1> HIDE DEF Good
<1>3. \A r \in S : r.status = "reading" /\ Step(b, r) \in S
    BY <1>1, <1>2, StepTypes
<1>4. S = {}
  <2>1. S \subseteq Reader
      OBVIOUS
  <2> HIDE DEF S
  <2> QED
      BY <1>3, <2>1, NoEndlessReading
<1>5. Good(s)
    BY <1>4
<1> QED
    BY <1>5 DEF Good

(* read_qname comes to an end on every buffer, whatever its pointers: it   *)
(* throws or has a name, within the limit, and pos stays in the buffer.    *)
THEOREM EveryNameEnds ==
    ASSUME NEW b \in Seq(Byte), NEW p \in 0..Len(b)
    PROVE  /\ ReadQname(b, p) \in Reader
           /\ ReadQname(b, p).status \in {"done", "thrown"}
           /\ ReadQname(b, p).pos <= Len(b)
           /\ Fits(ReadQname(b, p).name)
<1> DEFINE f == CHOOSE g : Finishes(b, g)
           V == {s \in Reader : s.pos <= Len(b) /\ Fits(s.name)}
<1>1. Finishes(b, f)
    BY FinishExists
<1>2. ReadQname(b, p) = f[StartAt(p)]
    BY DEF ReadQname, Finishes
<1>3. StartAt(p) \in V
  <2>1. Len(b) \in Nat /\ p \in Nat /\ p <= Len(b)
      OBVIOUS
  <2>2. StartAt(p) \in Reader /\ StartAt(p).pos = p /\ StartAt(p).name = <<>>
      BY <2>1 DEF StartAt, Reader
  <2> QED
      BY <2>1, <2>2 DEF Fits
<1>4. \A s \in V \cap Reader : s.status = "reading" => Step(b, s) \in V
    BY StepTypes, StepFits
<1> HIDE DEF f
<1>5. f[StartAt(p)] \in V \cap Reader /\ f[StartAt(p)].status # "reading"
  <2>1. StartAt(p) \in Reader
      BY <1>3
  <2> HIDE DEF V
  <2> QED
      BY <1>1, <1>3, <1>4, <2>1, FinishIsFinal
<1>6. ReadQname(b, p) \in V /\ ReadQname(b, p).status # "reading"
    BY <1>2, <1>5
<1> QED
    BY <1>6 DEF Reader

-----------------------------------------------------------------------------
(* A name within a packet *)

(* b has the bytes w behind position p. *)
Holds(b, p, w) == p + Len(w) <= Len(b) /\ \A k \in 1..Len(w) : b[p + k] = w[k]

(* The reader of w, where it reads the same bytes p positions further on.  *)
Shifted(s, p) == [s EXCEPT !.from = @ + p, !.pos = @ + p, !.cursor = @ + p]

LEMMA ShiftedTypes ==
    ASSUME NEW s \in Reader, NEW p \in Nat
    PROVE  /\ Shifted(s, p) \in Reader
           /\ Shifted(s, p).status = s.status /\ Shifted(s, p).name = s.name
           /\ Shifted(s, p).jumped = s.jumped /\ Shifted(s, p).jumps = s.jumps
           /\ Shifted(s, p).from = s.from + p /\ Shifted(s, p).pos = s.pos + p
           /\ Shifted(s, p).cursor = s.cursor + p
<1>1. s.from + p \in Nat /\ s.pos + p \in Nat /\ s.cursor + p \in Nat
    BY DEF Reader
<1>2. Shifted(s, p) \in Reader
    BY <1>1 DEF Shifted, Reader
<1>3. /\ Shifted(s, p).status = s.status /\ Shifted(s, p).name = s.name
      /\ Shifted(s, p).jumped = s.jumped /\ Shifted(s, p).jumps = s.jumps
    BY DEF Shifted, Reader
<1>4. /\ Shifted(s, p).from = s.from + p /\ Shifted(s, p).pos = s.pos + p
      /\ Shifted(s, p).cursor = s.cursor + p
    BY DEF Shifted, Reader
<1> QED
    BY <1>2, <1>3, <1>4

LEMMA SameReader ==
    ASSUME NEW s \in Reader, NEW t \in Reader,
           s.status = t.status, s.from = t.from, s.pos = t.pos, s.cursor = t.cursor,
           s.jumped = t.jumped, s.jumps = t.jumps, s.name = t.name
    PROVE  s = t
BY DEF Reader

LEMMA HeldSlice ==
    ASSUME NEW b \in Seq(Byte), NEW w \in Seq(Byte), NEW p \in Nat, Holds(b, p, w)
    PROVE  \A i, j \in Nat : i > 0 /\ i <= j + 1 /\ j <= Len(w) =>
              SubSeq(b, p + i, p + j) = SubSeq(w, i, j)
<1> SUFFICES ASSUME NEW i \in Nat, NEW j \in Nat, i > 0, i <= j + 1, j <= Len(w)
             PROVE  SubSeq(b, p + i, p + j) = SubSeq(w, i, j)
    OBVIOUS
<1> DEFINE x == SubSeq(b, p + i, p + j)
           y == SubSeq(w, i, j)
<1>1. /\ p + i \in Nat \ {0} /\ p + j \in Nat /\ p + i <= (p + j) + 1 /\ p + j <= Len(b)
      /\ (p + j) + 1 - (p + i) = j + 1 - i /\ j + 1 - i \in Nat
    BY DEF Holds
<1>2. /\ x \in Seq(Byte) /\ Len(x) = j + 1 - i
      /\ \A k \in 1..(j + 1 - i) : x[k] = b[(p + i) + k - 1]
    BY <1>1, Slice
<1>3. /\ y \in Seq(Byte) /\ Len(y) = j + 1 - i
      /\ \A k \in 1..(j + 1 - i) : y[k] = w[i + k - 1]
    BY i \in Nat \ {0}, Slice
<1>4. \A k \in 1..(j + 1 - i) : b[(p + i) + k - 1] = w[i + k - 1]
  <2> SUFFICES ASSUME NEW k \in 1..(j + 1 - i)
               PROVE  b[(p + i) + k - 1] = w[i + k - 1]
      OBVIOUS
  <2>1. i + k - 1 \in 1..Len(w) /\ (p + i) + k - 1 = p + (i + k - 1)
      OBVIOUS
  <2> QED
      BY <2>1 DEF Holds
<1> DEFINE l == j + 1 - i
<1>5. /\ x \in Seq(Byte) /\ y \in Seq(Byte) /\ l \in Nat /\ Len(x) = l /\ Len(y) = l
      /\ \A k \in 1..l : x[k] = y[k]
    BY <1>1, <1>2, <1>3, <1>4
<1> HIDE DEF x, y, l
<1>6. x = y
    BY <1>5
<1> QED
    BY <1>6 DEF x, y

LEMMA ShiftedStep ==
    ASSUME NEW b \in Seq(Byte), NEW w \in Seq(Byte), NEW p \in Nat, Holds(b, p, w),
           NEW s \in Reader, ~s.jumped, s.status = "reading",
           s.cursor < Len(w), w[s.cursor + 1] < 192, Step(w, s).status # "thrown"
    PROVE  Step(b, Shifted(s, p)) = Shifted(Step(w, s), p)
<1> DEFINE c == s.cursor
           t == Shifted(s, p)
           length == w[c + 1]
<1>1. /\ c \in Nat /\ Len(w) \in Nat /\ Len(b) \in Nat /\ p + Len(w) <= Len(b) /\ c < Len(w)
      /\ s.name \in Seq(Byte) /\ s.pos \in Nat /\ s.from \in Nat
    BY DEF Reader, Holds
<1>2. /\ t \in Reader /\ t.status = s.status /\ t.name = s.name /\ ~t.jumped
      /\ t.jumps = s.jumps /\ t.from = s.from + p /\ t.pos = s.pos + p /\ t.cursor = c + p
    BY ShiftedTypes
<1>3. length \in Byte /\ b[t.cursor + 1] = length
  <2> DEFINE N == Len(w)
             x == t.cursor
  <2>1. c \in Nat /\ N \in Nat /\ c < N /\ x = c + p /\ \A k \in 1..N : b[p + k] = w[k]
      BY <1>1, <1>2 DEF Holds
  <2>2. \A k \in 1..N : w[k] \in Byte
      OBVIOUS
  <2> HIDE DEF c, N, x
  <2>3. c + 1 \in 1..N /\ x + 1 = p + (c + 1)
      BY <2>1
  <2> QED
      BY <2>1, <2>2, <2>3 DEF x
<1> HIDE DEF t, c, length
<1>4. Available(w, c, 1) /\ Available(b, t.cursor, 1)
    BY <1>1, <1>2 DEF Available
<1>5. ~(length >= 192)
  <2>1. length \in 0..255 /\ length < 192
      BY <1>3 DEF Byte, length, c
  <2> QED
      BY <2>1
<1>6. CASE length = 0
  <2>1. Step(w, s) = Ended(s) /\ Step(b, t) = Ended(t)
      BY <1>3, <1>4, <1>6 DEF Step, length, c
  <2> DEFINE last == [s EXCEPT !.pos = c + 1, !.name = IF @ = <<>> THEN <<Dot>> ELSE @,
                               !.status = "done"]
  <2>2. Ended(s) = last /\ last \in Reader
    <3>1. Ended(s) = last
        BY <1>1 DEF Ended, Reader, c
    <3>2. Ended(s) \in Reader
        BY <2>1, StepTypes
    <3> QED
        BY <3>1, <3>2
  <2>3. Ended(t) = Shifted(last, p)
    <3>1. /\ last.status = "done" /\ last.from = s.from /\ last.pos = c + 1
          /\ last.cursor = c /\ last.jumped = s.jumped /\ last.jumps = s.jumps
          /\ last.name = IF s.name = <<>> THEN <<Dot>> ELSE s.name
        BY DEF Reader, c
    <3>2. /\ Ended(t).status = "done" /\ Ended(t).from = s.from + p
          /\ Ended(t).pos = (c + 1) + p /\ Ended(t).cursor = c + p
          /\ Ended(t).jumped = s.jumped /\ Ended(t).jumps = s.jumps
          /\ Ended(t).name = IF s.name = <<>> THEN <<Dot>> ELSE s.name
      <4>1. (c + p) + 1 = (c + 1) + p
          BY <1>1
      <4> QED
          BY <1>2, <4>1 DEF Ended, Reader
    <3>3. Ended(t) \in Reader
        BY <1>2, <2>1, StepTypes
    <3> DEFINE u == Shifted(last, p)
               v == Ended(t)
    <3> HIDE DEF last
    <3>4. /\ u \in Reader /\ u.status = "done" /\ u.from = s.from + p
          /\ u.pos = (c + 1) + p /\ u.cursor = c + p
          /\ u.jumped = s.jumped /\ u.jumps = s.jumps
          /\ u.name = IF s.name = <<>> THEN <<Dot>> ELSE s.name
      <4>1. last \in Reader /\ p \in Nat
          BY <2>2
      <4>2. /\ u \in Reader /\ u.status = last.status /\ u.name = last.name
            /\ u.jumped = last.jumped /\ u.jumps = last.jumps
            /\ u.from = last.from + p /\ u.pos = last.pos + p /\ u.cursor = last.cursor + p
          BY <4>1, ShiftedTypes, Zenon
      <4> QED
          BY <4>2, <3>1
    <3> HIDE DEF u, v
    <3>5. u = v
        BY <3>2, <3>3, <3>4, SameReader DEF v
    <3> QED
        BY <3>5 DEF u, v
  <2> QED
      BY <2>1, <2>2, <2>3 DEF t
<1>7. CASE length # 0
  <2>1. Thrown(s).status = "thrown"
      BY DEF Thrown, Reader
  <2>2. length < 64
    <3> SUFFICES ASSUME length >= 64
                 PROVE  FALSE
        BY <1>3 DEF Byte
    <3>1. Step(w, s) = Thrown(s)
        BY <1>4, <1>5, <1>7 DEF Step, length, c
    <3> QED
        BY <2>1, <3>1
  <2>3. ~(length >= 64)
      BY <1>3, <2>2 DEF Byte
  <2>4. Step(w, s) = Labelled(w, s)
      BY <1>4, <1>5, <1>7, <2>3, Zenon DEF Step, length, c
  <2>5. Step(b, t) = Labelled(b, t)
      BY <1>3, <1>4, <1>5, <1>7, <2>3, Zenon DEF Step
  <2> DEFINE after == c + 1 + length
             name == Extended(s.name, SubSeq(w, c + 2, after))
  <2>6. Available(w, c + 1, length) /\ Len(name) + 1 <= MaxName
    <3> SUFFICES ASSUME ~(Available(w, c + 1, length) /\ Len(name) + 1 <= MaxName)
                 PROVE  FALSE
        OBVIOUS
    <3>1. Labelled(w, s) = Thrown(s)
        BY DEF Labelled, length, c
    <3> QED
        BY <2>1, <2>4, <3>1
  <2>7. Labelled(w, s) = [s EXCEPT !.name = name, !.cursor = after, !.pos = after]
      BY <2>6 DEF Labelled, length, c
  <2>8. after \in Nat /\ after <= Len(w) /\ c + 2 <= after + 1
      BY <1>1, <1>3, <2>6 DEF Available, Byte
  <2>9. t.cursor + 1 + length = p + after /\ t.cursor + 2 = p + (c + 2)
      BY <1>1, <1>2, <1>3 DEF Byte
  <2>10. SubSeq(b, t.cursor + 2, t.cursor + 1 + length) = SubSeq(w, c + 2, after)
    <3>1. c + 2 \in Nat \ {0}
        BY <1>1
    <3> HIDE DEF after
    <3>2. PICK i \in Nat, e \in Nat : i = c + 2 /\ e = after
        BY <2>8, <3>1
    <3>3. i > 0 /\ i <= e + 1 /\ e <= Len(w)
        BY <2>8, <3>1, <3>2
    <3>4. SubSeq(b, p + i, p + e) = SubSeq(w, i, e)
        BY <3>3, HeldSlice
    <3> QED
        BY <2>9, <3>2, <3>4
  <2>11. Available(b, t.cursor + 1, length)
      BY <1>1, <1>2, <1>3, <2>8 DEF Available, Byte
  <2>12. Extended(t.name, SubSeq(b, t.cursor + 2, t.cursor + 1 + length)) = name
      BY <1>2, <2>10
  <2> HIDE DEF name, after
  <2>13. Labelled(b, t) = [t EXCEPT !.name = name, !.cursor = p + after, !.pos = p + after]
      BY <1>2, <1>3, <2>6, <2>9, <2>11, <2>12 DEF Labelled
  <2> DEFINE next == [s EXCEPT !.name = name, !.cursor = after, !.pos = after]
  <2> DEFINE moved == [t EXCEPT !.name = name, !.cursor = p + after, !.pos = p + after]
  <2>14. moved = Shifted(next, p)
    <3>1. next \in Reader
      <4>1. Labelled(w, s) \in Reader
          BY <2>4, StepTypes
      <4> QED
          BY <2>7, <4>1
    <3>2. /\ next.status = s.status /\ next.from = s.from /\ next.pos = after
          /\ next.cursor = after /\ next.jumped = s.jumped /\ next.jumps = s.jumps
          /\ next.name = name
        BY DEF Reader
    <3>3. name \in Seq(Byte)
        BY <3>1, <3>2 DEF Reader
    <3>4. /\ moved.status = s.status /\ moved.from = s.from + p /\ moved.pos = p + after
          /\ moved.cursor = p + after /\ moved.jumped = s.jumped /\ moved.jumps = s.jumps
          /\ moved.name = name
        BY <1>2 DEF Reader
    <3>5. p + after \in Nat /\ p + after = after + p
        BY <2>8
    <3>6. moved \in Reader
        BY <1>2, <3>3, <3>5 DEF Reader
    <3> DEFINE u == Shifted(next, p)
    <3> HIDE DEF next, moved
    <3>7. /\ u \in Reader /\ u.status = s.status /\ u.from = s.from + p
          /\ u.pos = after + p /\ u.cursor = after + p
          /\ u.jumped = s.jumped /\ u.jumps = s.jumps /\ u.name = name
      <4>1. next \in Reader /\ p \in Nat
          BY <3>1
      <4>2. /\ u \in Reader /\ u.status = next.status /\ u.name = next.name
            /\ u.jumped = next.jumped /\ u.jumps = next.jumps
            /\ u.from = next.from + p /\ u.pos = next.pos + p /\ u.cursor = next.cursor + p
          BY <4>1, ShiftedTypes, Zenon
      <4> QED
          BY <4>2, <3>2
    <3> HIDE DEF u
    <3>8. u = moved
        BY <3>4, <3>5, <3>6, <3>7, SameReader
    <3> QED
        BY <3>8 DEF u
  <2> QED
      BY <2>4, <2>5, <2>7, <2>13, <2>14 DEF t
<1> QED
    BY <1>6, <1>7

(* A name that was written anywhere in a packet is read there, in exactly  *)
(* its bytes.                                                              *)
THEOREM WrittenIsRead ==
    ASSUME NEW name \in Seq(Byte), Writable(name), Fits(name),
           NEW b \in Seq(Byte), NEW p \in Nat, Holds(b, p, WriteQname(name))
    PROVE  /\ ReadQname(b, p).status = "done"
           /\ ReadQname(b, p).pos = p + Len(WriteQname(name))
           /\ ReadQname(b, p).name = IF IsRoot(name) THEN <<Dot>> ELSE Unrooted(name)
<1> DEFINE w == WriteQname(name)
           f == CHOOSE g : Finishes(b, g)
           On(s) == Underway(name, s) \/ Arrived(name, s)
           V == {Shifted(s, p) : s \in {x \in Reader : On(x)}}
<1>1. w \in Seq(Byte)
    BY WrittenTypes
<1>2. Finishes(b, f) /\ ReadQname(b, p) = f[StartAt(p)]
    BY FinishExists DEF ReadQname, Finishes
<1>3. StartAt(p) \in V /\ StartAt(p) \in Reader
  <2>1. StartAt(0) \in Reader /\ StartAt(p) \in Reader
      BY DEF StartAt, Reader
  <2>2. StartAt(p) = Shifted(StartAt(0), p)
    <3> DEFINE s == StartAt(0)
               u == Shifted(s, p)
               v == StartAt(p)
    <3>1. /\ s.status = "reading" /\ s.from = 0 /\ s.pos = 0 /\ s.cursor = 0
          /\ s.jumped = FALSE /\ s.jumps = 0 /\ s.name = <<>>
        BY DEF StartAt
    <3>2. /\ v.status = "reading" /\ v.from = p /\ v.pos = p /\ v.cursor = p
          /\ v.jumped = FALSE /\ v.jumps = 0 /\ v.name = <<>>
        BY DEF StartAt
    <3> HIDE DEF s
    <3>3. /\ u \in Reader /\ u.status = "reading" /\ u.from = p /\ u.pos = p /\ u.cursor = p
          /\ u.jumped = FALSE /\ u.jumps = 0 /\ u.name = <<>>
      <4>1. s \in Reader /\ p \in Nat
          BY <2>1 DEF s
      <4>2. /\ u \in Reader /\ u.status = s.status /\ u.name = s.name
            /\ u.jumped = s.jumped /\ u.jumps = s.jumps
            /\ u.from = s.from + p /\ u.pos = s.pos + p /\ u.cursor = s.cursor + p
          BY <4>1, ShiftedTypes, Zenon
      <4> QED
          BY <4>2, <3>1, 0 + p = p
    <3> HIDE DEF u, v
    <3>4. u = v
        BY <2>1, <3>2, <3>3, SameReader DEF v
    <3> QED
        BY <3>4 DEF u, v, s
  <2>3. Underway(name, StartAt(0))
    <3>1. CASE IsRoot(name)
        BY <3>1 DEF Underway, StartAt
    <3>2. CASE ~IsRoot(name)
      <4>1. /\ Dotted(name)[1] = Dot /\ Len(Dotted(name)) = Len(Unrooted(name)) + 2
            /\ Len(Unrooted(name)) \in Nat
          BY <3>2, WrittenName, DottedTypes
      <4> QED
          BY <3>2, <4>1 DEF Underway, StartAt
    <3> QED
        BY <3>1, <3>2
  <2> QED
      BY <2>1, <2>2, <2>3
<1>4. ASSUME NEW s \in Reader, Underway(name, s)
      PROVE  /\ s.status = "reading" /\ ~s.jumped /\ s.cursor < Len(w) /\ w[s.cursor + 1] < 192
             /\ Step(w, s) \in Reader /\ On(Step(w, s)) /\ Step(w, s).status # "thrown"
  <2>1. s.status = "reading" /\ ~s.jumped
      BY <1>4 DEF Underway
  <2>2. s.cursor < Len(w) /\ w[s.cursor + 1] < 192 /\ On(Step(w, s))
    <3>1. CASE IsRoot(name)
      <4>1. w = <<0>> /\ s.cursor = 0
          BY <1>4, <3>1 DEF Underway, WriteQname
      <4>2. On(Step(w, s))
          BY <1>4, <3>1, RootArrives
      <4> HIDE DEF w, On
      <4>3. s.cursor < Len(w) /\ w[s.cursor + 1] = 0
          BY <4>1
      <4> QED
          BY <4>2, <4>3
    <3>2. CASE ~IsRoot(name)
      <4> DEFINE d == Dotted(name)
                 N == Len(d)
      <4>1. /\ Len(w) = N /\ N \in Nat /\ w[N] = 0
            /\ \A i \in 1..(N - 1) : d[i] = Dot => w[i] \in 1..63
          BY <3>2, WrittenName
      <4>2. s.cursor \in Nat /\ s.cursor < N /\ d[s.cursor + 1] = Dot
          BY <1>4, <3>2 DEF Underway, Reader
      <4>3. On(Step(w, s))
        <5>1. CASE s.cursor + 1 < N
            BY <1>4, <3>2, <5>1, LabelArrives
        <5>2. CASE s.cursor + 1 = N
            BY <1>4, <3>2, <5>2, EndArrives
        <5> QED
            BY <4>1, <4>2, <5>1, <5>2
      <4> HIDE DEF N, d, w, On
      <4>4. w[s.cursor + 1] < 192
        <5>1. CASE s.cursor + 1 = N
            BY <4>1, <5>1
        <5>2. CASE s.cursor + 1 # N
          <6>1. s.cursor + 1 \in 1..(N - 1)
              BY <4>1, <4>2, <5>2
          <6>2. PICK n \in 1..63 : w[s.cursor + 1] = n
              BY <4>1, <4>2, <6>1
          <6>3. n < 192
              OBVIOUS
          <6> QED
              BY <6>2, <6>3
        <5> QED
            BY <5>1, <5>2
      <4> QED
          BY <4>1, <4>2, <4>3, <4>4
    <3> QED
        BY <3>1, <3>2
  <2>3. Step(w, s) \in Reader
      BY <1>1, StepTypes
  <2>4. Step(w, s).status # "thrown"
      BY <2>2 DEF Underway, Arrived
  <2> QED
      BY <2>1, <2>2, <2>3, <2>4
<1> HIDE DEF f, w
<1>5. \A r \in V \cap Reader : r.status = "reading" => Step(b, r) \in V
  <2> SUFFICES ASSUME NEW s \in Reader, On(s), Shifted(s, p).status = "reading"
               PROVE  Step(b, Shifted(s, p)) \in V
      OBVIOUS
  <2>1. s.status = "reading"
      BY ShiftedTypes
  <2>2. Underway(name, s)
      BY <2>1 DEF Arrived
  <2>3. Step(b, Shifted(s, p)) = Shifted(Step(w, s), p)
      BY <1>1, <1>4, <2>1, <2>2, ShiftedStep DEF w
  <2>4. Step(w, s) \in Reader /\ On(Step(w, s))
      BY <1>4, <2>2
  <2> QED
      BY <2>3, <2>4
<1>6. f[StartAt(p)] \in V \cap Reader /\ f[StartAt(p)].status # "reading"
  <2> HIDE DEF V
  <2> QED
      BY <1>2, <1>3, <1>5, FinishIsFinal
<1>7. PICK s \in Reader : On(s) /\ ReadQname(b, p) = Shifted(s, p)
    BY <1>2, <1>6
<1>8. /\ ReadQname(b, p).status = s.status /\ ReadQname(b, p).pos = s.pos + p
      /\ ReadQname(b, p).name = s.name
  <2> DEFINE t == Shifted(s, p)
  <2>1. t.status = s.status /\ t.name = s.name /\ t.pos = s.pos + p
      BY ShiftedTypes
  <2>2. ReadQname(b, p) = t
      BY <1>7
  <2> HIDE DEF t, On, V
  <2> QED
      BY <2>1, <2>2
<1>9. Arrived(name, s)
    BY <1>2, <1>6, <1>7, <1>8 DEF Underway
<1>10. Len(w) \in Nat
    BY <1>1
<1> QED
    BY <1>8, <1>9, <1>10 DEF Arrived, w

=============================================================================
