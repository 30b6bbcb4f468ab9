---------------------------- MODULE QnameProofs ----------------------------
(***************************************************************************)
(* Theorems about names on the wire, for all datagrams and limits.         *)
(***************************************************************************)
EXTENDS Qname, BytePacketBufferProofs, FiniteSetTheorems

(* TypeOK: whatever bytes arrive, read_qname leaves its caller somewhere   *)
(* in the buffer, also when it throws.                                     *)
THEOREM TypeCorrect == Spec => []TypeOK
<1>1. Init => TypeOK
  <2> SUFFICES ASSUME Init PROVE TypeOK
      OBVIOUS
  <2>1. buff \in Seq(Byte)
      BY DatagramConstant DEF Init
  <2>2. PICK p \in 0..Len(buff) : reader = StartAt(p)
      BY DEF Init
  <2>3. p \in Nat /\ p <= Len(buff)
      BY <2>1
  <2>4. StartAt(p) \in Reader /\ StartAt(p).pos = p
      BY <2>3 DEF StartAt, Reader
  <2> QED
      BY <2>1, <2>2, <2>3, <2>4 DEF Init, TypeOK
<1>2. TypeOK /\ [Next]_vars => TypeOK'
  <2> SUFFICES ASSUME TypeOK, [Next]_vars PROVE TypeOK'
      OBVIOUS
  <2>1. CASE Read
      BY <2>1, StepTypes DEF Read, TypeOK
  <2>2. CASE PassOn
    <3>1. reader.name \in Seq(Byte)
        BY DEF TypeOK, Reader
    <3>2. WriteQname(reader.name) \in Seq(Byte)
        BY <2>2, <3>1, WrittenTypes DEF PassOn
    <3>3. StartAt(0) \in Reader /\ StartAt(0).pos = 0
        BY DEF StartAt, Reader
    <3>4. 0 <= Len(WriteQname(reader.name))
        BY <3>2
    <3> QED
        BY <2>2, <3>1, <3>2, <3>3, <3>4 DEF PassOn, TypeOK
  <2>3. CASE UNCHANGED vars
      BY <2>3 DEF vars, TypeOK
  <2> QED
      BY <2>1, <2>2, <2>3 DEF Next
<1> QED
    BY <1>1, <1>2, PTL DEF Spec

-----------------------------------------------------------------------------
(* The limit on names, in every round and not only in the last.            *)
NameFits == Fits(reader.name)

(* Every name, complete or not, fits. *)
LEMMA NamesFit == Spec => []NameFits
<1>1. Init => NameFits
  <2> SUFFICES ASSUME Init PROVE NameFits
      OBVIOUS
  <2>1. reader.name = <<>>
      BY DEF Init, StartAt
  <2> QED
      BY <2>1 DEF NameFits, Fits
<1>2. TypeOK /\ NameFits /\ [Next]_vars => NameFits'
  <2> SUFFICES ASSUME TypeOK, NameFits, [Next]_vars PROVE NameFits'
      OBVIOUS
  <2>1. CASE Read
      BY <2>1, StepFits DEF Read, TypeOK, NameFits
  <2>2. CASE PassOn
    <3>1. reader'.name = <<>>
        BY <2>2 DEF PassOn, StartAt
    <3> QED
        BY <3>1 DEF NameFits, Fits
  <2>3. CASE UNCHANGED vars
      BY <2>3 DEF vars, NameFits
  <2> QED
      BY <2>1, <2>2, <2>3 DEF Next
<1> QED
    BY <1>1, <1>2, TypeCorrect, PTL DEF Spec

(* NamesBounded: a name that read_qname lets through takes at most one     *)
(* byte more on the wire than its limit allows.                            *)
THEOREM NamesAreBounded == Spec => []NamesBounded
<1>1. TypeOK /\ NameFits => NamesBounded
  <2> SUFFICES ASSUME TypeOK, NameFits PROVE WireLength(reader.name) <= MaxName + 1
      BY DEF NamesBounded
  <2>1. reader.name \in Seq(Byte) /\ Len(reader.name) \in Nat /\ MaxName \in Nat
      BY BufferConstants DEF TypeOK, Reader
  <2>2. CASE IsRoot(reader.name)
      BY <2>1, <2>2 DEF WireLength
  <2>3. CASE ~IsRoot(reader.name)
    <3>1. Len(reader.name) + 1 <= MaxName
        BY <2>3 DEF NameFits, Fits, IsRoot
    <3>2. WireLength(reader.name) \in {Len(reader.name) + 1, Len(reader.name) + 2}
        BY <2>3 DEF WireLength
    <3> QED
        BY <2>1, <3>1, <3>2
  <2> QED
      BY <2>2, <2>3
<1> QED
    BY <1>1, TypeCorrect, NamesFit, PTL

-----------------------------------------------------------------------------
(* A name that is written and read again *)

(* Once a name has been passed on, the buffer is what was written of it,   *)
(* and its reader is underway in it or has arrived.                        *)
Passing ==
    relayed # <<>> =>
        /\ Writable(relayed) /\ Fits(relayed) /\ buff = WriteQname(relayed)
        /\ Underway(relayed, reader) \/ Arrived(relayed, reader)

LEMMA PassingInductive ==
    ASSUME TypeOK, NameFits, Passing, Next
    PROVE  Passing'
<1>1. CASE Read
  <2> SUFFICES ASSUME relayed # <<>>
               PROVE  /\ Writable(relayed) /\ Fits(relayed) /\ buff = WriteQname(relayed)
                      /\ Underway(relayed, reader') \/ Arrived(relayed, reader')
      BY <1>1 DEF Passing, Read
  <2>1. /\ Writable(relayed) /\ Fits(relayed) /\ buff = WriteQname(relayed)
        /\ relayed \in Seq(Byte) /\ reader \in Reader
      BY DEF Passing, TypeOK
  <2>2. reader.status = "reading" /\ reader' = Step(WriteQname(relayed), reader)
      BY <1>1, <2>1 DEF Read
  <2>3. Underway(relayed, reader)
      BY <2>2 DEF Passing, Arrived
  <2>4. CASE IsRoot(relayed)
      BY <2>1, <2>2, <2>3, <2>4, RootArrives
  <2>5. CASE ~IsRoot(relayed)
    <3>1. reader.cursor < Len(Dotted(relayed)) /\ reader.cursor \in Nat
        BY <2>1, <2>3, <2>5 DEF Underway, Reader
    <3>2. Len(Dotted(relayed)) \in Nat
        BY <2>1, DottedTypes
    <3>3. CASE reader.cursor + 1 < Len(Dotted(relayed))
        BY <2>1, <2>2, <2>3, <2>5, <3>3, LabelArrives
    <3>4. CASE reader.cursor + 1 = Len(Dotted(relayed))
        BY <2>1, <2>2, <2>3, <2>5, <3>4, EndArrives
    <3> QED
        BY <3>1, <3>2, <3>3, <3>4
  <2> QED
      BY <2>1, <2>4, <2>5
<1>2. CASE PassOn
  <2> DEFINE name == reader.name
  <2>1. Writable(name) /\ Fits(name) /\ name \in Seq(Byte)
      BY <1>2 DEF PassOn, NameFits, TypeOK, Reader
  <2>2. relayed' = name /\ buff' = WriteQname(name) /\ reader' = StartAt(0)
      BY <1>2 DEF PassOn
  <2> HIDE DEF name
  <2>3. Underway(name, StartAt(0))
    <3>1. /\ StartAt(0).status = "reading" /\ ~StartAt(0).jumped /\ StartAt(0).pos = 0
          /\ StartAt(0).cursor = 0 /\ StartAt(0).name = <<>>
        BY DEF StartAt
    <3>2. CASE IsRoot(name)
        BY <3>1, <3>2 DEF Underway
    <3>3. CASE ~IsRoot(name)
      <4>1. Len(Dotted(name)) \in Nat /\ Dotted(name)[1] = Dot
          BY <2>1, <3>3, WrittenName
      <4>2. 0 < Len(Dotted(name))
        <5>1. Len(Dotted(name)) = Len(Unrooted(name)) + 2 /\ Len(Unrooted(name)) \in Nat
            BY <2>1, DottedTypes
        <5> QED
            BY <5>1
      <4> QED
          BY <3>1, <3>3, <4>1, <4>2 DEF Underway
    <3> QED
        BY <3>2, <3>3
  <2> QED
      BY <2>1, <2>2, <2>3 DEF Passing
<1> QED
    BY <1>1, <1>2 DEF Next

(* RoundTrip: whatever name was read, if write_qname can write it then     *)
(* read_qname reads it back, without a dot at its end, and it takes the    *)
(* bytes that qname_wire_length announced.                                 *)
THEOREM NamesRoundTrip == Spec => []RoundTrip
<1>1. Init => Passing
    BY DEF Init, Passing
<1>2. TypeOK /\ NameFits /\ Passing /\ [Next]_vars => Passing'
  <2> SUFFICES ASSUME TypeOK, NameFits, Passing, [Next]_vars
               PROVE  Passing'
      OBVIOUS
  <2>1. CASE Next
      BY <2>1, PassingInductive
  <2>2. CASE UNCHANGED vars
      BY <2>2 DEF vars, Passing
  <2> QED
      BY <2>1, <2>2
<1>3. TypeOK /\ Passing => RoundTrip
  <2> SUFFICES ASSUME TypeOK, Passing, relayed # <<>>
               PROVE  /\ reader.status # "thrown"
                      /\ reader.status = "done" =>
                            /\ Unrooted(reader.name) = Unrooted(relayed)
                            /\ reader.pos = Len(buff)
                            /\ Len(buff) = WireLength(relayed)
      BY DEF RoundTrip
  <2>1. /\ Writable(relayed) /\ buff = WriteQname(relayed) /\ relayed \in Seq(Byte)
        /\ Underway(relayed, reader) \/ Arrived(relayed, reader)
      BY DEF Passing, TypeOK
  <2>2. CASE Underway(relayed, reader)
      BY <2>2 DEF Underway
  <2>3. CASE Arrived(relayed, reader)
      BY <2>1, <2>3, ArrivedIsTheName DEF Arrived
  <2> QED
      BY <2>1, <2>2, <2>3
<1> QED
    BY <1>1, <1>2, <1>3, TypeCorrect, NamesFit, PTL DEF Spec

-----------------------------------------------------------------------------
(* read_qname against the names of a buffer.  NamesOf has them by levels,  *)
(* the names of at most n parts for each n; a reader that has been at as   *)
(* many positions as there are bytes is in a loop, where there is no name. *)

(* Texts in a row, put together from either end. *)
Associated(x, y, z) == (x \o y) \o z = x \o (y \o z)

(* Three texts in a row are one text, whichever two are put together first. *)
LEMMA Associates ==
    ASSUME NEW S, NEW x \in Seq(S), NEW y \in Seq(S), NEW z \in Seq(S)
    PROVE  Associated(x, y, z)
<1> DEFINE u == x \o y
           v == y \o z
           s == u \o z
           t == x \o v
<1>1. /\ u \in Seq(S) /\ Len(u) = Len(x) + Len(y)
      /\ \A k \in 1..Len(x) : u[k] = x[k]
      /\ \A k \in 1..Len(y) : u[Len(x) + k] = y[k]
    OBVIOUS
<1>2. /\ v \in Seq(S) /\ Len(v) = Len(y) + Len(z)
      /\ \A k \in 1..Len(y) : v[k] = y[k]
      /\ \A k \in 1..Len(z) : v[Len(y) + k] = z[k]
    OBVIOUS
<1> HIDE DEF u, v
<1>3. /\ s \in Seq(S) /\ Len(s) = Len(u) + Len(z)
      /\ \A k \in 1..Len(u) : s[k] = u[k]
      /\ \A k \in 1..Len(z) : s[Len(u) + k] = z[k]
  <2>1. u \in Seq(S)
      BY <1>1
  <2> QED
      BY <2>1
<1>4. /\ t \in Seq(S) /\ Len(t) = Len(x) + Len(v)
      /\ \A k \in 1..Len(x) : t[k] = x[k]
      /\ \A k \in 1..Len(v) : t[Len(x) + k] = v[k]
    BY <1>2
<1> HIDE DEF s, t
<1> DEFINE i == Len(x)
           j == Len(y)
           m == Len(z)
<1>5. i \in Nat /\ j \in Nat /\ m \in Nat
    OBVIOUS
<1> HIDE DEF i, j, m
<1>6. Len(s) = i + j + m /\ Len(t) = i + j + m
    BY <1>1, <1>2, <1>3, <1>4, <1>5 DEF i, j, m
<1>7. ASSUME NEW k \in 1..(i + j + m)
      PROVE  s[k] = t[k]
  <2>1. CASE k <= i
    <3>1. k \in 1..i /\ k \in 1..Len(u)
        BY <1>1, <1>5, <2>1 DEF i, j
    <3> QED
        BY <1>1, <1>3, <1>4, <3>1 DEF i
  <2>2. CASE i < k /\ k <= i + j
    <3>1. /\ k - i \in 1..j /\ i + (k - i) = k /\ k \in 1..Len(u) /\ k - i \in 1..Len(v)
        BY <1>1, <1>2, <1>5, <2>2 DEF i, j, m
    <3>2. s[k] = u[k] /\ u[k] = y[k - i]
        BY <1>1, <1>3, <3>1 DEF i, j
    <3>3. t[k] = v[k - i] /\ v[k - i] = y[k - i]
        BY <1>2, <1>4, <3>1 DEF i, j
    <3> QED
        BY <3>2, <3>3
  <2>3. CASE i + j < k
    <3>1. /\ k - (i + j) \in 1..m /\ (i + j) + (k - (i + j)) = k
          /\ k - i \in 1..Len(v) /\ i + (k - i) = k /\ j + (k - (i + j)) = k - i
        BY <1>2, <1>5, <2>3 DEF i, j, m
    <3>2. s[k] = z[k - (i + j)]
      <4> DEFINE h == k - (i + j)
      <4>1. h \in 1..Len(z) /\ Len(u) + h = k
          BY <1>1, <3>1 DEF i, j, m
      <4> HIDE DEF h
      <4>2. s[Len(u) + h] = z[h]
          BY <1>3, <4>1
      <4> QED
          BY <4>1, <4>2 DEF h
    <3>3. t[k] = v[k - i] /\ v[k - i] = z[k - (i + j)]
        BY <1>2, <1>4, <3>1 DEF i, j, m
    <3> QED
        BY <3>2, <3>3
  <2> QED
      BY <1>5, <2>1, <2>2, <2>3
<1>8. s = t
    BY <1>3, <1>4, <1>6, <1>7
<1> QED
    BY <1>8 DEF s, t, u, v, Associated

(* The sums of a sequence go on where one more is appended to it. *)
LEMMA FlattenAppend ==
    ASSUME NEW S, NEW s \in Seq(Seq(S)), NEW x \in Seq(S)
    PROVE  FlattenSeq(Append(s, x)) = FlattenSeq(s) \o x
<1> DEFINE n == Len(s)
           t == Append(s, x)
<1>1. /\ t \in Seq(Seq(S)) /\ n \in Nat /\ Len(t) = n + 1 /\ t[n + 1] = x
      /\ \A k \in 1..n : t[k] = s[k]
    OBVIOUS
<1>2. PICK f : Sums(f, s, S)
    BY FlattenSeqSums
<1> HIDE DEF t
<1>3. PICK g : Sums(g, t, S)
    BY <1>1, FlattenSeqSums
<1> HIDE DEF n
<1>4. /\ \A i \in 1..n : f[i] = IF i = 1 THEN s[i] ELSE f[i - 1] \o s[i]
      /\ FlattenSeq(s) = IF n = 0 THEN <<>> ELSE f[n]
    BY <1>2 DEF Sums, n
<1>5. /\ \A i \in 1..(n + 1) : g[i] = IF i = 1 THEN t[i] ELSE g[i - 1] \o t[i]
      /\ FlattenSeq(t) = g[n + 1]
  <2>1. n + 1 # 0
      BY <1>1
  <2> QED
      BY <1>1, <1>3, <2>1 DEF Sums
<1> DEFINE same == {k \in 0..n : k # 0 => f[k] = g[k]}
<1>6. 0 \in same
    BY <1>1
<1>7. ASSUME NEW k \in 1..n, k - 1 \in same
      PROVE  k \in same
  <2>1. k \in 1..(n + 1) /\ k \in 0..n /\ t[k] = s[k]
      BY <1>1
  <2>2. CASE k = 1
      BY <1>4, <1>5, <2>1, <2>2
  <2>3. CASE k # 1
    <3>1. k - 1 # 0
        BY <2>3
    <3>2. f[k - 1] = g[k - 1]
        BY <1>7, <3>1
    <3>3. f[k] = f[k - 1] \o s[k] /\ g[k] = g[k - 1] \o t[k]
        BY <1>4, <1>5, <2>1, <2>3
    <3> QED
        BY <2>1, <3>2, <3>3
  <2> QED
      BY <2>2, <2>3
<1>8. 0..n \subseteq same
  <2> HIDE DEF same
  <2> QED
      BY <1>1, <1>6, <1>7, Upwards
<1>9. CASE n = 0
  <2>1. g[1] = t[1] /\ t[1] = x /\ FlattenSeq(t) = g[1]
      BY <1>1, <1>5, <1>9
  <2>2. <<>> \o x = x
      OBVIOUS
  <2> QED
      BY <1>4, <1>9, <2>1, <2>2 DEF t
<1>10. CASE n # 0
  <2>1. n \in 0..n /\ n + 1 \in 1..(n + 1) /\ n + 1 # 1 /\ (n + 1) - 1 = n
      BY <1>1, <1>10
  <2>2. f[n] = g[n]
      BY <1>8, <1>10, <2>1
  <2>3. g[n + 1] = g[n] \o x
      BY <1>1, <1>5, <2>1
  <2> QED
      BY <1>4, <1>5, <1>10, <2>2, <2>3 DEF t
<1> QED
    BY <1>9, <1>10

-----------------------------------------------------------------------------
(* The text of a name *)

(* The labels of a name, and its text as read_qname builds it up.          *)
Label == Seq(Byte) \ {<<>>}
TextSoFar(labels) == IF labels = <<>> THEN <<>> ELSE Text(labels)

(* What follows the first label. *)
Behind(labels) == [i \in 1..Len(labels) - 1 |-> <<Dot>> \o labels[i + 1]]

(* The text of a name is its first label and what is behind that. *)
LEMMA BehindTypes ==
    ASSUME NEW labels \in Seq(Label), labels # <<>>
    PROVE  /\ Behind(labels) \in Seq(Seq(Byte)) /\ labels[1] \in Seq(Byte)
           /\ Text(labels) = labels[1] \o FlattenSeq(Behind(labels))
<1>1. Len(labels) \in Nat \ {0} /\ \A i \in 1..Len(labels) : labels[i] \in Seq(Byte)
    BY DEF Label
<1>2. \A i \in 1..Len(labels) - 1 : <<Dot>> \o labels[i + 1] \in Seq(Byte)
  <2> SUFFICES ASSUME NEW i \in 1..Len(labels) - 1
               PROVE  <<Dot>> \o labels[i + 1] \in Seq(Byte)
      OBVIOUS
  <2>1. labels[i + 1] \in Seq(Byte)
      BY <1>1
  <2> QED
      BY <2>1, DotIsAName
<1>3. Len(labels) - 1 \in Nat
    BY <1>1
<1>4. Behind(labels) \in Seq(Seq(Byte))
    BY <1>2, <1>3 DEF Behind
<1> QED
    BY <1>1, <1>4 DEF Text, Behind

(* A label more is appended to the text, behind a dot. *)
LEMMA TextGrows ==
    ASSUME NEW labels \in Seq(Label), NEW l \in Label
    PROVE  TextSoFar(Append(labels, l)) = Extended(TextSoFar(labels), l)
<1> DEFINE all == Append(labels, l)
           n == Len(labels)
<1>1. /\ all \in Seq(Label) /\ all # <<>> /\ n \in Nat /\ Len(all) = n + 1 /\ all[n + 1] = l
      /\ l \in Seq(Byte) /\ \A k \in 1..n : all[k] = labels[k]
  <2>1. l \in Seq(Byte)
      BY DEF Label
  <2> QED
      BY <2>1
<1> HIDE DEF all
<1>2. /\ Behind(all) \in Seq(Seq(Byte)) /\ all[1] \in Seq(Byte)
      /\ TextSoFar(all) = all[1] \o FlattenSeq(Behind(all))
    BY <1>1, BehindTypes DEF TextSoFar
<1>3. CASE labels = <<>>
  <2>1. n = 0
      BY <1>3
  <2>2. all[1] = l
      BY <1>1, <2>1
  <2>3. Behind(all) = <<>>
      BY <1>1, <2>1 DEF Behind
  <2>4. FlattenSeq(Behind(all)) = <<>>
    <3>1. <<>> \in Seq(Seq(Byte)) /\ Len(<<>>) = 0
        OBVIOUS
    <3>2. PICK f : Sums(f, <<>>, Byte)
        BY <3>1, FlattenSeqSums
    <3> QED
        BY <2>3, <3>1, <3>2 DEF Sums
  <2>5. l \o <<>> = l
      BY <1>1
  <2> QED
      BY <1>2, <1>3, <2>2, <2>4, <2>5 DEF Extended, TextSoFar, all
<1>4. CASE labels # <<>>
  <2> DEFINE s == Behind(labels)
             x == <<Dot>> \o l
             a == labels[1]
  <2>1. /\ s \in Seq(Seq(Byte)) /\ a \in Seq(Byte)
        /\ TextSoFar(labels) = a \o FlattenSeq(s)
      BY <1>4, BehindTypes DEF TextSoFar
  <2>2. n \in Nat \ {0} /\ all[1] = a
      BY <1>1, <1>4
  <2>3. x \in Seq(Byte)
      BY <1>1, DotIsAName
  <2>4. Behind(all) = Append(s, x)
    <3>1. Len(s) = n - 1 /\ \A i \in 1..(n - 1) : s[i] = <<Dot>> \o labels[i + 1]
        BY <2>2 DEF Behind
    <3>2. /\ Behind(all) \in Seq(Seq(Byte)) /\ Len(Behind(all)) = n
          /\ \A i \in 1..n : Behind(all)[i] = <<Dot>> \o all[i + 1]
      <4>1. (n + 1) - 1 = n
          BY <1>1
      <4>2. Behind(all) = [i \in 1..n |-> <<Dot>> \o all[i + 1]]
          BY <1>1, <4>1 DEF Behind
      <4> QED
          BY <1>1, <1>2, <4>2
    <3> HIDE DEF s, x
    <3>3. Append(s, x) \in Seq(Seq(Byte)) /\ Len(Append(s, x)) = n
        BY <2>1, <2>2, <2>3, <3>1
    <3>4. \A i \in 1..n : Behind(all)[i] = Append(s, x)[i]
      <4> SUFFICES ASSUME NEW i \in 1..n
                   PROVE  Behind(all)[i] = Append(s, x)[i]
          OBVIOUS
      <4>1. CASE i = n
        <5>1. Append(s, x)[i] = x
            BY <2>1, <2>2, <3>1, <4>1
        <5>2. Behind(all)[i] = <<Dot>> \o all[i + 1] /\ all[i + 1] = l
            BY <1>1, <3>2, <4>1
        <5> QED
            BY <5>1, <5>2 DEF x
      <4>2. CASE i # n
        <5>1. i \in 1..(n - 1) /\ i + 1 \in 1..n
            BY <2>2, <4>2
        <5>2. Append(s, x)[i] = s[i]
            BY <2>1, <3>1, <5>1
        <5>3. all[i + 1] = labels[i + 1]
            BY <1>1, <5>1
        <5> QED
            BY <3>1, <3>2, <5>1, <5>2, <5>3
      <4> QED
          BY <4>1, <4>2
    <3> HIDE DEF n
    <3> QED
        BY <3>2, <3>3, <3>4
  <2>5. FlattenSeq(Behind(all)) = FlattenSeq(s) \o x
    <3> HIDE DEF s, x
    <3> QED
        BY <2>1, <2>3, <2>4, FlattenAppend
  <2>6. FlattenSeq(s) \in Seq(Byte)
    <3> HIDE DEF s
    <3> QED
        BY <2>1, FlattenSeqType
  <2> DEFINE m == FlattenSeq(s)
             d == <<Dot>>
  <2>7. d \in Seq(Byte) /\ d # <<>>
      BY DotIsAName
  <2>8. TextSoFar(labels) # <<>>
    <3>1. a # <<>>
        BY <2>2 DEF Label
    <3> HIDE DEF a, m
    <3> QED
        BY <2>1, <2>6, <3>1 DEF m
  <2>9. TextSoFar(all) = a \o (m \o (d \o l))
      BY <1>2, <2>2, <2>5
  <2>10. Extended(TextSoFar(labels), l) = (a \o m) \o d \o l
      BY <2>1, <2>8 DEF Extended
  <2> HIDE DEF a, m, d
  <2>11. a \o (m \o (d \o l)) = ((a \o m) \o d) \o l
    <3>1. m \in Seq(Byte) /\ a \in Seq(Byte) /\ d \in Seq(Byte) /\ l \in Seq(Byte)
        BY <1>1, <2>1, <2>6, <2>7 DEF m
    <3>2. a \o m \in Seq(Byte)
        BY <3>1
    <3>3. ((a \o m) \o d) \o l = (a \o m) \o (d \o l)
      <4> DEFINE e == a \o m
      <4> HIDE DEF e
      <4>1. Associated(e, d, l)
          BY <3>1, <3>2, Associates DEF e
      <4> QED
          BY <4>1 DEF e, Associated
    <3>4. (a \o m) \o (d \o l) = a \o (m \o (d \o l))
      <4> DEFINE e == d \o l
      <4>1. e \in Seq(Byte)
          BY <3>1
      <4> HIDE DEF e
      <4>2. Associated(a, m, e)
          BY <3>1, <4>1, Associates
      <4> QED
          BY <4>2 DEF e, Associated
    <3> QED
        BY <3>3, <3>4, Zenon
  <2> QED
      BY <2>9, <2>10, <2>11 DEF all
<1> QED
    BY <1>3, <1>4

(* A name is no shorter than what was read of it. *)
LEMMA TextNoShorter ==
    ASSUME NEW labels \in Seq(Label), TextSoFar(labels) \in Seq(Byte), NEW rest \in Seq(Label)
    PROVE  /\ TextSoFar(labels \o rest) \in Seq(Byte)
           /\ Len(TextSoFar(labels)) <= Len(TextSoFar(labels \o rest))
<1> DEFINE n == Len(rest)
           part(k) == labels \o SubSeq(rest, 1, k)
           m == Len(TextSoFar(labels))
           good == {k \in 0..n : /\ TextSoFar(part(k)) \in Seq(Byte)
                                 /\ m <= Len(TextSoFar(part(k)))}
<1>1. n \in Nat /\ m \in Nat /\ part(n) = labels \o rest
  <2>1. SubSeq(rest, 1, n) = rest
      OBVIOUS
  <2> QED
      BY <2>1
<1>2. 0 \in good
  <2>1. part(0) = labels
    <3>1. SubSeq(rest, 1, 0) = <<>>
        OBVIOUS
    <3>2. labels \o <<>> = labels
        OBVIOUS
    <3> QED
        BY <3>1, <3>2
  <2> HIDE DEF part, m, n
  <2> QED
      BY <1>1, <2>1 DEF m
<1>3. ASSUME NEW k \in 1..n, k - 1 \in good
      PROVE  k \in good
  <2> DEFINE x == part(k - 1)
             l == rest[k]
  <2>1. x \in Seq(Label) /\ l \in Label
    <3>1. k - 1 \in 0..n
        BY <1>1
    <3>2. SubSeq(rest, 1, k - 1) \in Seq(Label)
        BY <3>1
    <3> QED
        BY <1>1, <3>2
  <2>2. part(k) = Append(x, l)
    <3> DEFINE s == SubSeq(rest, 1, k - 1)
               t == SubSeq(rest, 1, k)
    <3>1. /\ s \in Seq(Label) /\ Len(s) = k - 1
          /\ t \in Seq(Label) /\ Len(t) = k /\ t[k] = l
          /\ \A i \in 1..(k - 1) : t[i] = s[i]
        BY <1>1
    <3> HIDE DEF s, t, l
    <3>2. t = Append(s, l)
        BY <1>1, <2>1, <3>1
    <3>3. labels \o Append(s, l) = Append(labels \o s, l)
        BY <2>1, <3>1
    <3> QED
        BY <3>2, <3>3 DEF s, t
  <2>3. TextSoFar(x) \in Seq(Byte) /\ m <= Len(TextSoFar(x))
    <3> HIDE DEF part, m, n
    <3> QED
        BY <1>3
  <2>4. k \in 0..n
      BY <1>1
  <2> HIDE DEF part, x, m, n
  <2> DEFINE a == TextSoFar(x)
  <2>5. TextSoFar(part(k)) = Extended(a, l)
      BY <2>1, <2>2, TextGrows
  <2>6. l \in Seq(Byte) /\ a \in Seq(Byte)
      BY <2>1, <2>3 DEF Label
  <2> HIDE DEF a
  <2>7. Extended(a, l) \in Seq(Byte) /\ Len(a) <= Len(Extended(a, l))
    <3>1. CASE a = <<>>
        BY <2>6, <3>1 DEF Extended
    <3>2. CASE a # <<>>
      <4>1. a \o <<Dot>> \in Seq(Byte) /\ Len(a \o <<Dot>>) = Len(a) + 1
          BY <2>6, DotIsAName
      <4>2. Extended(a, l) = (a \o <<Dot>>) \o l
          BY <3>2 DEF Extended
      <4> DEFINE e == a \o <<Dot>>
      <4> HIDE DEF e
      <4>3. e \o l \in Seq(Byte) /\ Len(e) <= Len(e \o l)
        <5>1. e \in Seq(Byte) /\ l \in Seq(Byte)
            BY <2>6, <4>1 DEF e
        <5> QED
            BY <5>1
      <4>4. Len(a) \in Nat
          BY <2>6
      <4>5. Extended(a, l) = e \o l /\ Len(e) = Len(a) + 1
          BY <4>1, <4>2 DEF e
      <4>6. Len(e \o l) \in Nat
          BY <4>3
      <4> QED
          BY <4>3, <4>4, <4>5, <4>6
    <3> QED
        BY <3>1, <3>2
  <2>8. m <= Len(Extended(a, l))
    <3>1. Len(a) \in Nat /\ Len(Extended(a, l)) \in Nat
        BY <2>6, <2>7
    <3> QED
        BY <1>1, <2>3, <2>7, <3>1 DEF a
  <2> QED
      BY <2>4, <2>5, <2>7, <2>8
<1>4. 0..n \subseteq good
  <2> HIDE DEF good
  <2> QED
      BY <1>1, <1>2, <1>3, Upwards
<1>5. n \in good
    BY <1>1, <1>4
<1> QED
    BY <1>1, <1>5

-----------------------------------------------------------------------------
(* The names of a buffer *)

(* The names at p, where level has those at other positions.               *)
NamesFrom(b, level, p) ==
    LET part == b[p + 1]
        rest(q) == IF q <= Len(b) THEN level[q] ELSE {}
    IN  CASE part = 0 -> {[labels |-> <<>>, end |-> p + 1]}
          [] part \in 1..63 ->
               {[labels |-> <<SubSeq(b, p + 2, p + 1 + part)>> \o r.labels,
                 end    |-> r.end] : r \in rest(p + 1 + part)}
          [] part >= 192 /\ p + 1 < Len(b) ->
               {[labels |-> r.labels, end |-> p + 2] : r \in rest(Target(b, p))}
          [] OTHER -> {}

Level(b, n, at) ==
    [p \in 0..Len(b) |-> IF n = 0 \/ p = Len(b) THEN {} ELSE NamesFrom(b, at[n - 1], p)]

(* The names of at most n parts, for each n up to m. *)
AreLevels(b, m, at) == at = [n \in 0..m |-> Level(b, n, at)]

(* NamesOf takes the last of these levels. *)
LEMMA NamesAreLevels ==
    ASSUME NEW b
    PROVE  NamesOf(b) = (CHOOSE at : AreLevels(b, Len(b), at))[Len(b)]
BY DEF NamesOf, AreLevels, Level, NamesFrom

(* They can be built, one from the other. *)
LEMMA LevelsExist ==
    ASSUME NEW b \in Seq(Byte)
    PROVE  \E at : AreLevels(b, Len(b), at)
<1> DEFINE N == Len(b)
           built == {m \in 0..N : \E at : AreLevels(b, m, at)}
<1>1. N \in Nat
    OBVIOUS
<1>2. ASSUME NEW n, NEW f, NEW g, n # 0 => f[n - 1] = g[n - 1]
      PROVE  Level(b, n, f) = Level(b, n, g)
  <2>1. CASE n = 0
      BY <2>1 DEF Level
  <2>2. CASE n # 0
    <3>1. f[n - 1] = g[n - 1]
        BY <1>2, <2>2
    <3> QED
        BY <3>1 DEF Level
  <2> QED
      BY <2>1, <2>2
<1> HIDE DEF N
<1>3. 0 \in built
  <2> DEFINE f == [n \in 0..0 |-> Level(b, 0, <<>>)]
  <2>1. ASSUME NEW n \in 0..0
        PROVE  f[n] = Level(b, n, f)
    <3>1. n = 0
        OBVIOUS
    <3>2. Level(b, 0, f) = Level(b, 0, <<>>)
        BY <1>2
    <3> QED
        BY <3>1, <3>2
  <2>2. f = [n \in 0..0 |-> f[n]]
      OBVIOUS
  <2> HIDE DEF f
  <2>3. AreLevels(b, 0, f)
      BY <2>1, <2>2 DEF AreLevels
  <2> QED
      BY <1>1, <2>3
<1>4. ASSUME NEW k \in 1..N, k - 1 \in built
      PROVE  k \in built
  <2>1. PICK f : AreLevels(b, k - 1, f)
      BY <1>4
  <2> DEFINE g == [n \in 0..k |-> IF n = k THEN Level(b, k, f) ELSE f[n]]
  <2>2. ASSUME NEW n \in 0..k
        PROVE  g[n] = Level(b, n, g)
    <3>1. n # 0 => f[n - 1] = g[n - 1]
      <4> SUFFICES ASSUME n # 0
                   PROVE  f[n - 1] = g[n - 1]
          OBVIOUS
      <4>1. n - 1 \in 0..k /\ n - 1 # k
          BY <1>1
      <4> QED
          BY <4>1
    <3> HIDE DEF g
    <3>2. Level(b, n, f) = Level(b, n, g)
        BY <1>2, <3>1
    <3>3. g[n] = Level(b, n, f)
      <4>1. CASE n = k
          BY <4>1 DEF g
      <4>2. CASE n # k
        <5>1. n \in 0..(k - 1)
            BY <1>1, <4>2
        <5>2. f[n] = Level(b, n, f)
            BY <2>1, <5>1 DEF AreLevels
        <5> QED
            BY <4>2, <5>2 DEF g
      <4> QED
          BY <4>1, <4>2
    <3> QED
        BY <3>2, <3>3
  <2>3. g = [n \in 0..k |-> g[n]]
      OBVIOUS
  <2> HIDE DEF g
  <2>4. AreLevels(b, k, g)
      BY <2>2, <2>3 DEF AreLevels
  <2>5. k \in 0..N
      BY <1>1
  <2> QED
      BY <2>4, <2>5
<1>5. 0..N \subseteq built
  <2> HIDE DEF built
  <2> QED
      BY <1>1, <1>3, <1>4, Upwards
<1>6. N \in built
    BY <1>1, <1>5
<1> QED
    BY <1>6 DEF N

(* Where a part of a name is followed by another: a label or a pointer.    *)
GoesOn(b, p) == p < Len(b) /\ (b[p + 1] \in 1..63 \/ (b[p + 1] >= 192 /\ p + 1 < Len(b)))
IsLabel(b, p) == b[p + 1] < 192
NextAt(b, p) == IF IsLabel(b, p) THEN p + 1 + b[p + 1] ELSE Target(b, p)
LabelAt(b, p) == SubSeq(b, p + 2, p + 1 + b[p + 1])

(* The name at p, where r is the one the part at p is followed by. *)
PartAnd(b, p, r) ==
    IF IsLabel(b, p) THEN [labels |-> <<LabelAt(b, p)>> \o r.labels, end |-> r.end]
    ELSE [labels |-> r.labels, end |-> p + 2]

Rest(b, level, q) == IF q <= Len(b) THEN level[q] ELSE {}

(* The names at a part that another follows, *)
LEMMA NamesGoOn ==
    ASSUME NEW b \in Seq(Byte), NEW level, NEW p \in Nat, GoesOn(b, p)
    PROVE  NamesFrom(b, level, p) = {PartAnd(b, p, r) : r \in Rest(b, level, NextAt(b, p))}
<1>1. p + 1 \in 1..Len(b)
    BY DEF GoesOn
<1>2. b[p + 1] \in 0..255
    BY <1>1, ByteAt
<1>3. PICK n \in 0..255 : n = b[p + 1]
    BY <1>2
<1>4. CASE n \in 1..63
  <2>1. n # 0 /\ n < 192 /\ ~(n >= 192)
      BY <1>4
  <2>2. IsLabel(b, p) /\ NextAt(b, p) = p + 1 + n
      BY <1>3, <2>1 DEF IsLabel, NextAt
  <2>3. NamesFrom(b, level, p) =
           {[labels |-> <<SubSeq(b, p + 2, p + 1 + n)>> \o r.labels, end |-> r.end] :
               r \in Rest(b, level, p + 1 + n)}
      BY <1>3, <1>4, <2>1, ZenonT(30) DEF NamesFrom, Rest
  <2>4. \A r : PartAnd(b, p, r) =
                  [labels |-> <<SubSeq(b, p + 2, p + 1 + n)>> \o r.labels, end |-> r.end]
      BY <1>3, <2>2, ZenonT(30) DEF PartAnd, LabelAt
  <2> QED
      BY <2>2, <2>3, <2>4, Zenon
<1>5. CASE n >= 192 /\ p + 1 < Len(b)
  <2>1. n # 0 /\ ~(n \in 1..63) /\ ~(n < 192)
      BY <1>5
  <2>2. ~IsLabel(b, p) /\ NextAt(b, p) = Target(b, p)
      BY <1>3, <2>1 DEF IsLabel, NextAt
  <2>3. NamesFrom(b, level, p) =
           {[labels |-> r.labels, end |-> p + 2] : r \in Rest(b, level, Target(b, p))}
      BY <1>3, <1>5, <2>1, ZenonT(30) DEF NamesFrom, Rest
  <2>4. \A r : PartAnd(b, p, r) = [labels |-> r.labels, end |-> p + 2]
      BY <2>2, ZenonT(30) DEF PartAnd
  <2> QED
      BY <2>2, <2>3, <2>4, Zenon
<1> QED
    BY <1>3, <1>4, <1>5 DEF GoesOn

(* at the end of a name, *)
LEMMA NamesEnd ==
    ASSUME NEW b, NEW level, NEW p, b[p + 1] = 0
    PROVE  NamesFrom(b, level, p) = {[labels |-> <<>>, end |-> p + 1]}
<1>1. ~(0 \in 1..63) /\ ~(0 >= 192)
    OBVIOUS
<1> QED
    BY <1>1, ZenonT(30) DEF NamesFrom

(* and where no name can be. *)
LEMMA NamesStop ==
    ASSUME NEW b \in Seq(Byte), NEW level, NEW p \in Nat, p < Len(b),
           b[p + 1] # 0, ~GoesOn(b, p)
    PROVE  NamesFrom(b, level, p) = {}
<1>1. ~(b[p + 1] \in 1..63) /\ ~(b[p + 1] >= 192 /\ p + 1 < Len(b))
    BY DEF GoesOn
<1> QED
    BY <1>1, ZenonT(30) DEF NamesFrom

-----------------------------------------------------------------------------

(* The levels are found one from the other. *)
Climbs(b, at) ==
    /\ \A p \in 0..Len(b) : at[0][p] = {}
    /\ \A n \in 0..Len(b) : at[n][Len(b)] = {}
    /\ \A n \in 1..Len(b), p \in Nat : p < Len(b) => at[n][p] = NamesFrom(b, at[n - 1], p)

(* The names of a buffer are the last of levels found so. *)
LEMMA LevelsClimb ==
    ASSUME NEW b \in Seq(Byte)
    PROVE  \E at : Climbs(b, at) /\ NamesOf(b) = at[Len(b)]
<1> DEFINE N == Len(b)
<1>1. PICK at : AreLevels(b, N, at) /\ NamesOf(b) = at[N]
  <2> DEFINE at == CHOOSE f : AreLevels(b, N, f)
  <2>1. AreLevels(b, N, at)
      BY LevelsExist
  <2>2. NamesOf(b) = at[N]
      BY NamesAreLevels
  <2> QED
      BY <2>1, <2>2
<1>2. N \in Nat
    OBVIOUS
<1>3. \A n \in 0..N : at[n] = Level(b, n, at)
    BY <1>1 DEF AreLevels
<1>4. ASSUME NEW p \in 0..N
      PROVE  at[0][p] = {}
  <2>1. 0 \in 0..N
      BY <1>2
  <2> QED
      BY <1>3, <2>1 DEF Level
<1>5. ASSUME NEW n \in 0..N
      PROVE  at[n][N] = {}
  <2>1. N \in 0..N
      BY <1>2
  <2> QED
      BY <1>3, <2>1 DEF Level
<1>6. ASSUME NEW n \in 1..N, NEW p \in Nat, p < N
      PROVE  at[n][p] = NamesFrom(b, at[n - 1], p)
  <2>1. n \in 0..N /\ n # 0 /\ p \in 0..N /\ p # N
      BY <1>2, <1>6
  <2>2. at[n] = Level(b, n, at)
      BY <1>3, <2>1
  <2>3. Level(b, n, at)[p] = NamesFrom(b, at[n - 1], p)
      BY <2>1, ZenonT(30) DEF Level
  <2> QED
      BY <2>2, <2>3
<1> QED
    BY <1>1, <1>4, <1>5, <1>6 DEF Climbs

(* Names have labels that are not empty. *)
Name == [labels : Seq(Label), end : Nat]

(* A label in the buffer is not empty and ends in it. *)
LEMMA LabelIsOne ==
    ASSUME NEW b \in Seq(Byte), NEW p \in Nat, GoesOn(b, p), IsLabel(b, p), NextAt(b, p) <= Len(b)
    PROVE  /\ LabelAt(b, p) \in Label /\ NextAt(b, p) \in Nat
<1> DEFINE n == b[p + 1]
<1>1. p + 1 \in 1..Len(b) /\ Len(b) \in Nat
    BY DEF GoesOn
<1>2. n \in 0..255
    BY <1>1, ByteAt
<1> HIDE DEF n
<1>3. n \in Nat \ {0}
  <2>1. n < 192
      BY DEF IsLabel, n
  <2>2. n \in 1..63 \/ n >= 192
      BY DEF GoesOn, n
  <2> QED
      BY <1>2, <2>1, <2>2
<1>4. p + 1 + n <= Len(b) /\ NextAt(b, p) = p + 1 + n
    BY DEF NextAt, n
<1> DEFINE i == p + 2
           j == p + 1 + n
<1>5. i \in Nat \ {0} /\ j \in Nat /\ i <= j + 1 /\ j <= Len(b) /\ j + 1 - i = n
    BY <1>1, <1>3, <1>4
<1> HIDE DEF i, j
<1>6. SubSeq(b, i, j) \in Seq(Byte) /\ Len(SubSeq(b, i, j)) = n
    BY <1>5, Slice
<1>7. LabelAt(b, p) = SubSeq(b, i, j)
    BY DEF LabelAt, i, j, n
<1>8. LabelAt(b, p) # <<>>
  <2>1. Len(<<>>) = 0
      OBVIOUS
  <2> QED
      BY <1>3, <1>6, <1>7, <2>1
<1>9. p + 1 + n \in Nat
    BY <1>3
<1> QED
    BY <1>4, <1>6, <1>7, <1>8, <1>9 DEF Label

(* Parts are at numbered positions. *)
LEMMA NextTypes ==
    ASSUME NEW b \in Seq(Byte), NEW p \in Nat, GoesOn(b, p)
    PROVE  NextAt(b, p) \in Nat
<1>1. p + 1 \in 1..Len(b) /\ Len(b) \in Nat
    BY DEF GoesOn
<1>2. PICK n \in 0..255 : n = b[p + 1]
    BY <1>1, ByteAt
<1>3. CASE n < 192
  <2>1. NextAt(b, p) = p + 1 + n
      BY <1>2, <1>3 DEF NextAt, IsLabel
  <2> QED
      BY <2>1
<1>4. CASE ~(n < 192)
  <2>1. n >= 192 /\ ~(n \in 1..63)
      BY <1>4
  <2>2. p + 1 < Len(b)
      BY <1>2, <2>1, ZenonT(30) DEF GoesOn
  <2>3. p + 2 \in 1..Len(b)
      BY <1>1, <2>2
  <2>4. PICK m \in 0..255 : m = b[p + 2]
      BY <2>3, ByteAt
  <2>5. (n - 192) * 256 + m \in Nat
      BY <2>1, TargetTypes
  <2>6. NextAt(b, p) = (n - 192) * 256 + m
      BY <1>2, <1>4, <2>4, ZenonT(30) DEF NextAt, IsLabel, Target
  <2> QED
      BY <2>5, <2>6
<1> QED
    BY <1>3, <1>4

(* A part before a name makes a name, *)
LEMMA PartTypes ==
    ASSUME NEW b \in Seq(Byte), NEW p \in Nat, GoesOn(b, p), NextAt(b, p) <= Len(b),
           NEW r \in Name
    PROVE  PartAnd(b, p, r) \in Name
<1>1. r.labels \in Seq(Label) /\ r.end \in Nat /\ p + 2 \in Nat
    BY DEF Name
<1>2. CASE IsLabel(b, p)
  <2>1. LabelAt(b, p) \in Label
      BY <1>2, LabelIsOne
  <2> DEFINE l == LabelAt(b, p)
             s == r.labels
  <2> HIDE DEF l, s
  <2>2. <<l>> \o s \in Seq(Label)
    <3>1. l \in Label /\ s \in Seq(Label)
        BY <1>1, <2>1 DEF l, s
    <3>2. <<l>> \in Seq(Label)
        BY <3>1
    <3> QED
        BY <3>1, <3>2
  <2> QED
      BY <1>1, <1>2, <2>2 DEF PartAnd, Name, l, s
<1>3. CASE ~IsLabel(b, p)
    BY <1>1, <1>3 DEF PartAnd, Name
<1> QED
    BY <1>2, <1>3

(* so every level holds names. *)
LEMMA LevelTypes ==
    ASSUME NEW b \in Seq(Byte), NEW at, Climbs(b, at)
    PROVE  \A n \in 0..Len(b), p \in 0..Len(b) : at[n][p] \subseteq Name
<1> DEFINE N == Len(b)
           typed == {n \in 0..N : \A p \in 0..N : at[n][p] \subseteq Name}
<1>1. N \in Nat
    OBVIOUS
<1>2. 0 \in typed
    BY <1>1 DEF Climbs
<1>3. ASSUME NEW k \in 1..N, k - 1 \in typed
      PROVE  k \in typed
  <2>1. k \in 0..N /\ k - 1 \in 0..N
      BY <1>1
  <2>2. \A q \in 0..N : at[k - 1][q] \subseteq Name
      BY <1>3
  <2>3. ASSUME NEW p \in 0..N, NEW r \in at[k][p]
        PROVE  r \in Name
    <3>1. p # N
        BY <2>1, <2>3 DEF Climbs
    <3>2. p \in Nat /\ p < N
        BY <1>1, <3>1
    <3>3. r \in NamesFrom(b, at[k - 1], p)
        BY <2>3, <3>2 DEF Climbs
    <3>4. CASE GoesOn(b, p)
      <4> DEFINE q == NextAt(b, p)
                 level == at[k - 1]
      <4>1. q \in Nat
          BY <3>2, <3>4, NextTypes
      <4>2. PICK t \in Rest(b, level, q) : r = PartAnd(b, p, t)
          BY <3>2, <3>3, <3>4, NamesGoOn
      <4> HIDE DEF q, level
      <4>3. q <= N /\ t \in level[q]
          BY <4>2 DEF Rest
      <4>4. q \in 0..N
          BY <1>1, <4>1, <4>3
      <4>5. t \in Name
          BY <2>2, <4>3, <4>4 DEF level
      <4> QED
          BY <3>2, <3>4, <4>2, <4>3, <4>5, PartTypes DEF q
    <3>5. CASE b[p + 1] = 0
      <4>1. r = [labels |-> <<>>, end |-> p + 1]
          BY <3>3, <3>5, NamesEnd
      <4>2. p + 1 \in Nat /\ <<>> \in Seq(Label)
          BY <3>2
      <4> QED
          BY <4>1, <4>2 DEF Name
    <3>6. CASE b[p + 1] # 0 /\ ~GoesOn(b, p)
        BY <3>2, <3>3, <3>6, NamesStop
    <3> QED
        BY <3>4, <3>5, <3>6
  <2> QED
      BY <2>1, <2>3
<1>4. 0..N \subseteq typed
  <2> HIDE DEF typed
  <2> QED
      BY <1>1, <1>2, <1>3, Upwards
<1> QED
    BY <1>4

(* Where the parts of a name lead to each other in a loop, there is none.  *)
Loop(b, X) ==
    /\ X \subseteq Nat
    /\ \A p \in X : GoesOn(b, p) /\ NextAt(b, p) \in X

(* No level has a name at a position of the loop. *)
LEMMA LoopsAreNoNames ==
    ASSUME NEW b \in Seq(Byte), NEW at, Climbs(b, at), NEW X, Loop(b, X)
    PROVE  \A n \in 0..Len(b), p \in X : at[n][p] = {}
<1> DEFINE N == Len(b)
           none == {n \in 0..N : \A p \in X : at[n][p] = {}}
<1>1. N \in Nat /\ \A p \in X : p \in Nat /\ p < N /\ p \in 0..N
    BY DEF Loop, GoesOn
<1>2. 0 \in none
    BY <1>1 DEF Climbs
<1>3. ASSUME NEW k \in 1..N, k - 1 \in none
      PROVE  k \in none
  <2>1. k \in 0..N
      BY <1>1
  <2>2. ASSUME NEW p \in X
        PROVE  at[k][p] = {}
    <3> DEFINE q == NextAt(b, p)
               level == at[k - 1]
    <3>1. at[k][p] = NamesFrom(b, level, p)
        BY <1>1 DEF Climbs
    <3>2. NamesFrom(b, level, p) = {PartAnd(b, p, r) : r \in Rest(b, level, q)}
        BY <1>1, NamesGoOn DEF Loop
    <3>3. q \in X /\ level[q] = {}
        BY <1>3 DEF Loop
    <3> HIDE DEF q, level
    <3>4. Rest(b, level, q) = {}
        BY <3>3 DEF Rest
    <3> QED
        BY <3>1, <3>2, <3>4
  <2> QED
      BY <2>1, <2>2
<1>4. 0..N \subseteq none
  <2> HIDE DEF none
  <2> QED
      BY <1>1, <1>2, <1>3, Upwards
<1> QED
    BY <1>4

(* What a round of read_qname does, by what it finds at the cursor.        *)
Stuck(b, p) == p >= Len(b) \/ (b[p + 1] # 0 /\ ~GoesOn(b, p))

(* A reader that is stuck throws. *)
LEMMA StuckThrows ==
    ASSUME NEW b \in Seq(Byte), NEW s \in Reader, Stuck(b, s.cursor)
    PROVE  Step(b, s) = Thrown(s)
<1> DEFINE p == s.cursor
<1>1. p \in Nat /\ Len(b) \in Nat
    BY DEF Reader
<1>2. CASE p >= Len(b)
  <2>1. ~Available(b, p, 1)
    <3> HIDE DEF p
    <3> QED
        BY <1>1, <1>2 DEF Available
  <2> QED
      BY <2>1 DEF Step
<1>3. CASE p < Len(b) /\ b[p + 1] # 0 /\ ~GoesOn(b, p)
  <2>1. p + 1 \in 1..Len(b)
    <3> HIDE DEF p
    <3> QED
        BY <1>1, <1>3
  <2>2. PICK n \in 0..255 : n = b[p + 1]
      BY <2>1, ByteAt
  <2>3. n # 0 /\ ~(n \in 1..63) /\ ~(n >= 192 /\ p + 1 < Len(b))
      BY <1>3, <2>2, ZenonT(30) DEF GoesOn
  <2>4. n >= 64
      BY <2>3
  <2>5. CASE n >= 192
    <3>1. ~Available(b, p, 2)
      <4>1. ~(p + 1 < Len(b))
          BY <2>3, <2>5
      <4> HIDE DEF p
      <4> QED
          BY <1>1, <4>1 DEF Available
    <3>2. Followed(b, s) = Thrown(s)
        BY <3>1 DEF Followed
    <3>3. b[s.cursor + 1] >= 192
        BY <2>2, <2>5
    <3> QED
        BY <3>2, <3>3, ZenonT(30) DEF Step
  <2>6. CASE ~(n >= 192)
    <3>1. /\ ~(b[s.cursor + 1] >= 192) /\ b[s.cursor + 1] # 0
          /\ b[s.cursor + 1] >= 64
        BY <2>2, <2>3, <2>4, <2>6
    <3> QED
        BY <3>1, ZenonT(30) DEF Step
  <2> QED
      BY <2>5, <2>6
<1> QED
    BY <1>1, <1>2, <1>3 DEF Stuck

(* At the end of a name, it is done. *)
LEMMA EndEnds ==
    ASSUME NEW b \in Seq(Byte), NEW s \in Reader, s.cursor < Len(b), b[s.cursor + 1] = 0
    PROVE  Step(b, s) = Ended(s)
<1>1. Available(b, s.cursor, 1)
    BY DEF Available, Reader
<1>2. ~(0 >= 192)
    OBVIOUS
<1> QED
    BY <1>1, <1>2, ZenonT(30) DEF Step

(* The reader t that follows the pointer the reader s is at.               *)
PointerFollowed(b, s, t) ==
    /\ t.status = IF s.jumps + 1 > Len(b) THEN "thrown" ELSE s.status
    /\ t.cursor = NextAt(b, s.cursor) /\ t.jumped /\ t.jumps = s.jumps + 1
    /\ t.pos = IF s.jumped THEN s.pos ELSE s.cursor + 2
    /\ t.name = s.name /\ t.from = s.from

(* At a pointer the reader follows it, unless it has followed too many. *)
LEMMA PointerStep ==
    ASSUME NEW b \in Seq(Byte), NEW s \in Reader, GoesOn(b, s.cursor), ~IsLabel(b, s.cursor)
    PROVE  PointerFollowed(b, s, Step(b, s))
<1> DEFINE p == s.cursor
<1>1. p \in Nat /\ Len(b) \in Nat /\ p + 1 \in 1..Len(b)
    BY DEF Reader, GoesOn
<1>2. PICK n \in 0..255 : n = b[p + 1]
    BY <1>1, ByteAt
<1>3. n >= 192 /\ p + 1 < Len(b)
  <2>1. ~(n < 192)
      BY <1>2 DEF IsLabel
  <2>2. n >= 192 /\ ~(n \in 1..63)
      BY <2>1
  <2> QED
      BY <1>2, <2>2, ZenonT(30) DEF GoesOn
<1>4. Available(b, p, 1) /\ Available(b, p, 2)
  <2>1. p + 1 < Len(b)
      BY <1>3
  <2> HIDE DEF p
  <2> QED
      BY <1>1, <2>1 DEF Available
<1>5. Step(b, s) = Followed(b, s)
    BY <1>2, <1>3, <1>4, ZenonT(30) DEF Step
<1>6. NextAt(b, p) = Target(b, p)
    BY DEF NextAt
<1> DEFINE st == IF s.jumps + 1 > Len(b) THEN "thrown" ELSE s.status
           ps == IF s.jumped THEN s.pos ELSE p + 2
           js == s.jumps + 1
           c  == Target(b, p)
<1>7. Followed(b, s) = [s EXCEPT !.pos = ps, !.cursor = c, !.jumped = TRUE, !.jumps = js,
                                 !.status = st]
    BY <1>4 DEF Followed
<1> HIDE DEF st, ps, js, c
<1> DEFINE t == Followed(b, s)
<1>8. /\ t.pos = ps /\ t.cursor = c /\ t.jumped = TRUE /\ t.jumps = js /\ t.status = st
      /\ t.name = s.name /\ t.from = s.from
    BY <1>7 DEF Reader
<1> HIDE DEF t
<1> QED
    BY <1>5, <1>6, <1>8 DEF PointerFollowed, st, ps, js, c, t

(* The reader t that reads the label the reader s is at.                   *)
LabelRead(b, s, t) ==
    /\ t.status = s.status /\ t.cursor = NextAt(b, s.cursor)
    /\ t.jumped = s.jumped /\ t.jumps = s.jumps
    /\ t.pos = IF s.jumped THEN s.pos ELSE NextAt(b, s.cursor)
    /\ t.name = Extended(s.name, LabelAt(b, s.cursor)) /\ t.from = s.from

Short(b, s) == Len(Extended(s.name, LabelAt(b, s.cursor))) + 1 <= MaxName

(* At a label the reader takes it, or throws if it does not fit. *)
LEMMA LabelStep ==
    ASSUME NEW b \in Seq(Byte), NEW s \in Reader, GoesOn(b, s.cursor), IsLabel(b, s.cursor)
    PROVE  IF NextAt(b, s.cursor) <= Len(b) /\ Short(b, s)
               THEN LabelRead(b, s, Step(b, s))
               ELSE Step(b, s) = Thrown(s)
<1> DEFINE p == s.cursor
<1>1. p \in Nat /\ Len(b) \in Nat /\ p + 1 \in 1..Len(b)
    BY DEF Reader, GoesOn
<1>2. PICK n \in 0..255 : n = b[p + 1]
    BY <1>1, ByteAt
<1>3. n < 192 /\ n \in 1..63
  <2>1. n < 192
      BY <1>2 DEF IsLabel
  <2>2. ~(n >= 192)
      BY <2>1
  <2> QED
      BY <1>2, <2>1, <2>2, ZenonT(30) DEF GoesOn
<1>4. ~(n >= 192) /\ n # 0 /\ ~(n >= 64) /\ n \in Nat
    BY <1>3
<1>5. Available(b, p, 1)
  <2> HIDE DEF p
  <2> QED
      BY <1>1 DEF Available
<1>6. Step(b, s) = Labelled(b, s)
    BY <1>2, <1>4, <1>5, ZenonT(30) DEF Step
<1>7. NextAt(b, p) = p + 1 + n /\ LabelAt(b, p) = SubSeq(b, p + 2, p + 1 + n)
    BY <1>2 DEF NextAt, LabelAt
<1>8. Available(b, p + 1, n) <=> p + 1 + n <= Len(b)
  <2> HIDE DEF p
  <2> QED
      BY <1>1, <1>4 DEF Available
<1> DEFINE name == Extended(s.name, SubSeq(b, p + 2, p + 1 + n))
           q == p + 1 + n
           ps == IF s.jumped THEN s.pos ELSE q
           t == [s EXCEPT !.name = name, !.cursor = q, !.pos = ps]
<1>9. Labelled(b, s) = IF Available(b, p + 1, n) /\ Len(name) + 1 <= MaxName
                           THEN t ELSE Thrown(s)
    BY <1>2, ZenonT(30) DEF Labelled
<1>10. Short(b, s) <=> Len(name) + 1 <= MaxName
    BY <1>7 DEF Short
<1>11. /\ t.name = name /\ t.cursor = q /\ t.pos = ps /\ t.jumped = s.jumped
       /\ t.jumps = s.jumps /\ t.status = s.status /\ t.from = s.from
  <2> HIDE DEF name, q, ps
  <2> QED
      BY DEF Reader
<1>12. LabelRead(b, s, t)
  <2> HIDE DEF t, name
  <2> QED
      BY <1>7, <1>11 DEF LabelRead, name
<1> HIDE DEF t, name
<1> QED
    BY <1>6, <1>7, <1>8, <1>9, <1>10, <1>12

(* The name where the reader started, if r is the one where it is.         *)
With(s, labels, r) ==
    [labels |-> labels \o r.labels, end |-> IF s.jumped THEN s.pos ELSE r.end]

NamesAre(s, labels, names, rest) == names = {With(s, labels, r) : r \in rest}

(* r is the rest of that name for s, and for t a part further on.          *)
SameName(b, s, labels, t, more, r) ==
    With(s, labels, PartAnd(b, s.cursor, r)) = With(t, more, r)

(* The reader has been at the positions in V, one part of the name at      *)
(* each, and has read the labels.  So many parts less are to come.         *)
OnTheWay(b, s, at, V, labels) ==
    /\ V \subseteq 0..(Len(b) - 1)
    /\ s.cursor \notin V
    /\ \A p \in V : GoesOn(b, p) /\ NextAt(b, p) \in V \cup {s.cursor}
    /\ s.from \in V \cup {s.cursor}
    /\ s.jumps <= Cardinality(V)
    /\ labels \in Seq(Label) /\ s.name = TextSoFar(labels)
    /\ at[Len(b)][s.from] =
          {With(s, labels, r) : r \in Rest(b, at[Len(b) - Cardinality(V)], s.cursor)}

Trapped(b, s, X) == Loop(b, X) /\ s.from \in X /\ s.cursor \in X

(* What is known of a reader, and of the names where it started.           *)
Reads(b, s, at) ==
    \/ \E V, labels : OnTheWay(b, s, at, V, labels)
    \/ \E X : Trapped(b, s, X)
Found(b, s, at) ==
    LET names == at[Len(b)][s.from]
    IN  /\ s.status = "reading" => Reads(b, s, at)
        /\ s.status = "done" => \E n \in names : s.name = Text(n.labels) /\ s.pos = n.end
        /\ s.status = "thrown" => \A n \in names : Len(Text(n.labels)) + 1 > MaxName

(* There are as many positions as bytes, so there are parts left for each  *)
(* position the reader has not been at.                                    *)
LEMMA PartsLeft ==
    ASSUME NEW b \in Seq(Byte), NEW s \in Reader, NEW at, NEW V, NEW labels,
           OnTheWay(b, s, at, V, labels)
    PROVE  /\ IsFiniteSet(V) /\ Cardinality(V) \in Nat /\ Cardinality(V) <= Len(b)
           /\ Len(b) - Cardinality(V) \in 0..Len(b)
           /\ s.cursor < Len(b) => Cardinality(V) + 1 <= Len(b)
<1> DEFINE N == Len(b)
           I == 0..(N - 1)
           c == s.cursor
<1>1. N \in Nat /\ c \in Nat
    BY DEF Reader
<1>2. IsFiniteSet(I) /\ Cardinality(I) = N
  <2>1. N - 1 \in Int
      BY <1>1
  <2>2. IsFiniteSet(I) /\ Cardinality(I) = IF 0 > N - 1 THEN 0 ELSE (N - 1) - 0 + 1
      BY <2>1, FS_Interval
  <2> QED
      BY <1>1, <2>2
<1>3. V \in SUBSET I /\ c \notin V
    BY DEF OnTheWay
<1> HIDE DEF I, N, c
<1>4. IsFiniteSet(V) /\ Cardinality(V) <= N
    BY <1>2, <1>3, FS_Subset
<1>5. Cardinality(V) \in Nat
    BY <1>4, FS_CardinalityType
<1>6. ASSUME c < N
      PROVE  Cardinality(V) + 1 <= N
  <2>1. c \in I
      BY <1>1, <1>6 DEF I
  <2>2. V \cup {c} \in SUBSET I
      BY <1>3, <2>1
  <2>3. Cardinality(V \cup {c}) <= N
      BY <1>2, <2>2, FS_Subset
  <2>4. Cardinality(V \cup {c}) = Cardinality(V) + 1
      BY <1>3, <1>4, FS_AddElement
  <2> QED
      BY <2>3, <2>4
<1>7. N - Cardinality(V) \in 0..N
    BY <1>1, <1>4, <1>5
<1> QED
    BY <1>4, <1>5, <1>6, <1>7 DEF N, c

(* The names at the cursor, one part at least from the end of the levels.  *)
LEMMA NamesHere ==
    ASSUME NEW b \in Seq(Byte), NEW s \in Reader, NEW at, Climbs(b, at), NEW V, NEW labels,
           OnTheWay(b, s, at, V, labels), s.cursor < Len(b)
    PROVE  NamesAre(s, labels, at[Len(b)][s.from],
                    NamesFrom(b, at[Len(b) - Cardinality(V) - 1], s.cursor))
<1> DEFINE N == Len(b)
           n == N - Cardinality(V)
           c == s.cursor
<1>1. N \in Nat /\ c \in Nat /\ c <= N
    BY DEF Reader
<1>2. n \in 1..N /\ N - Cardinality(V) - 1 = n - 1
    BY <1>1, PartsLeft
<1> HIDE DEF n
<1>3. Rest(b, at[n], c) = at[n][c]
    BY <1>1 DEF Rest
<1>4. at[n][c] = NamesFrom(b, at[n - 1], c)
    BY <1>1, <1>2 DEF Climbs
<1>5. at[N][s.from] = {With(s, labels, r) : r \in Rest(b, at[n], c)}
    BY DEF OnTheWay, n
<1> HIDE DEF N, c
<1> QED
    BY <1>2, <1>3, <1>4, <1>5 DEF N, c, NamesAre

(* A reader that is stuck is where there is no name. *)
LEMMA NothingThere ==
    ASSUME NEW b \in Seq(Byte), NEW s \in Reader, NEW at, Climbs(b, at), NEW V, NEW labels,
           OnTheWay(b, s, at, V, labels), Stuck(b, s.cursor)
    PROVE  at[Len(b)][s.from] = {}
<1> DEFINE N == Len(b)
           n == N - Cardinality(V)
           c == s.cursor
<1>1. N \in Nat /\ c \in Nat /\ n \in 0..N
    BY PartsLeft DEF Reader
<1>2. CASE c < N
  <2>1. b[c + 1] # 0 /\ ~GoesOn(b, c)
      BY <1>1, <1>2 DEF Stuck
  <2>2. NamesFrom(b, at[N - Cardinality(V) - 1], c) = {}
      BY <1>1, <1>2, <2>1, NamesStop
  <2> QED
      BY <1>2, <2>2, NamesHere DEF NamesAre
<1>3. CASE ~(c < N)
  <2>1. Rest(b, at[n], c) = {}
    <3>1. CASE c <= N
      <4>1. c = N
          BY <1>1, <1>3, <3>1
      <4>2. at[n][N] = {}
          BY <1>1 DEF Climbs
      <4> HIDE DEF n
      <4> QED
          BY <4>1, <4>2 DEF Rest
    <3>2. CASE ~(c <= N)
        BY <3>2 DEF Rest
    <3> QED
        BY <3>1, <3>2
  <2>2. at[N][s.from] = {With(s, labels, r) : r \in Rest(b, at[n], c)}
      BY DEF OnTheWay
  <2> HIDE DEF N, n, c
  <2>3. at[N][s.from] = {}
      BY <2>1, <2>2
  <2> QED
      BY <2>3 DEF N
<1> QED
    BY <1>2, <1>3

(* Where a reader in a loop started, there is no name. *)
LEMMA TrappedHasNoName ==
    ASSUME NEW b \in Seq(Byte), NEW s, NEW at, Climbs(b, at), NEW X, Trapped(b, s, X)
    PROVE  at[Len(b)][s.from] = {}
<1>1. Len(b) \in 0..Len(b)
    OBVIOUS
<1> QED
    BY <1>1, LoopsAreNoNames DEF Trapped

(* A label between others can be counted to either side. *)
JoinsLabel(labels, l, rest) == labels \o (<<l>> \o rest) = Append(labels, l) \o rest

LEMMA LabelsJoined ==
    ASSUME NEW labels \in Seq(Label), NEW l \in Label, NEW rest \in Seq(Label)
    PROVE  JoinsLabel(labels, l, rest)
<1> DEFINE m == <<l>>
<1>1. m \in Seq(Label)
    OBVIOUS
<1>2. Append(labels, l) = labels \o m
    OBVIOUS
<1> HIDE DEF m
<1>3. Associated(labels, m, rest)
    BY <1>1, Associates
<1> QED
    BY <1>2, <1>3 DEF Associated, JoinsLabel, m

(* One part read: the name where the reader started is the same one.       *)
LEMMA PartJoined ==
    ASSUME NEW b \in Seq(Byte), NEW s \in Reader, NEW t, NEW labels \in Seq(Label), NEW r \in Name,
           GoesOn(b, s.cursor)
    PROVE  /\ PointerFollowed(b, s, t) /\ ~IsLabel(b, s.cursor) =>
                 SameName(b, s, labels, t, labels, r)
           /\ LabelRead(b, s, t) /\ IsLabel(b, s.cursor) /\ LabelAt(b, s.cursor) \in Label =>
                 SameName(b, s, labels, t, Append(labels, LabelAt(b, s.cursor)), r)
<1> DEFINE part == PartAnd(b, s.cursor, r)
           l == LabelAt(b, s.cursor)
           rest == r.labels
<1>1. ASSUME PointerFollowed(b, s, t), ~IsLabel(b, s.cursor)
      PROVE  With(s, labels, part) = With(t, labels, r)
  <2>1. part.labels = r.labels /\ part.end = s.cursor + 2
      BY <1>1 DEF PartAnd
  <2> HIDE DEF part
  <2>2. /\ t.jumped /\ t.pos = IF s.jumped THEN s.pos ELSE s.cursor + 2
      BY <1>1 DEF PointerFollowed
  <2> QED
      BY <2>1, <2>2 DEF With
<1>2. ASSUME LabelRead(b, s, t), IsLabel(b, s.cursor), l \in Label
      PROVE  With(s, labels, part) = With(t, Append(labels, l), r)
  <2>1. part.labels = <<l>> \o rest /\ part.end = r.end
      BY <1>2 DEF PartAnd
  <2>2. t.jumped = s.jumped /\ (s.jumped => t.pos = s.pos)
      BY <1>2 DEF LabelRead
  <2>3. rest \in Seq(Label)
      BY DEF Name
  <2> HIDE DEF part, l, rest
  <2> QED
      BY <1>2, <2>1, <2>2, <2>3, LabelsJoined DEF With, rest, JoinsLabel
<1> QED
    BY <1>1, <1>2 DEF SameName

(* The reader t is a part further on than s: it is still on its way, or    *)
(* back at a part it has been at.                                          *)
LEMMA MovesOn ==
    ASSUME NEW b \in Seq(Byte), NEW s \in Reader, NEW at, Climbs(b, at), NEW V, NEW labels,
           OnTheWay(b, s, at, V, labels), GoesOn(b, s.cursor),
           NEW t, t.cursor = NextAt(b, s.cursor), t.from = s.from, t.jumps <= s.jumps + 1,
           t.jumps \in Nat, NEW more \in Seq(Label), t.name = TextSoFar(more),
           NextAt(b, s.cursor) <= Len(b) =>
              \A r \in Name : SameName(b, s, labels, t, more, r)
    PROVE  Reads(b, t, at)
<1> DEFINE N == Len(b)
           c == s.cursor
           q == NextAt(b, c)
           W == V \cup {c}
           k == Cardinality(V)
<1>1. N \in Nat /\ c \in Nat /\ c < N /\ s.jumps \in Nat
    BY DEF Reader, GoesOn
<1>2. q \in Nat
    BY <1>1, NextTypes
<1>3. /\ IsFiniteSet(V) /\ k \in Nat /\ k + 1 <= N
    BY <1>1, PartsLeft
<1>4. /\ V \subseteq 0..(N - 1) /\ c \notin V
      /\ \A p \in V : GoesOn(b, p) /\ NextAt(b, p) \in W
      /\ s.from \in W /\ s.jumps <= k
    BY DEF OnTheWay
<1> HIDE DEF k
<1>5. \A p \in V : p \in Nat
    BY <1>1, <1>4
<1>6. CASE q \in W
  <2>1. \A p \in W : p \in Nat /\ GoesOn(b, p) /\ NextAt(b, p) \in W
      BY <1>1, <1>4, <1>5, <1>6
  <2> HIDE DEF W, q, c
  <2>2. Trapped(b, t, W)
      BY <1>4, <1>6, <2>1 DEF Trapped, Loop, q, c
  <2> QED
      BY <2>2 DEF Reads
<1>7. CASE q \notin W
  <2>1. Cardinality(W) = k + 1
      BY <1>3, <1>4, FS_AddElement DEF k
  <2> DEFINE level == at[N - k - 1]
  <2>2. at[N][s.from] = {With(s, labels, r) : r \in NamesFrom(b, level, c)}
    <3>1. c < N
        BY <1>1
    <3> QED
        BY <3>1, NamesHere DEF NamesAre, k
  <2>3. NamesFrom(b, level, c) = {PartAnd(b, c, r) : r \in Rest(b, level, q)}
      BY <1>1, NamesGoOn
  <2>4. N - k - 1 \in 0..N
      BY <1>1, <1>3
  <2>5. ASSUME NEW r \in Rest(b, level, q)
        PROVE  With(s, labels, PartAnd(b, c, r)) = With(t, more, r)
    <3>1. q <= N /\ r \in level[q]
      <4> HIDE DEF q, level
      <4> QED
          BY <2>5 DEF Rest
    <3>2. q \in 0..N
        BY <1>1, <1>2, <3>1
    <3>3. r \in Name
        BY <2>4, <3>1, <3>2, LevelTypes
    <3> QED
        BY <3>1, <3>3 DEF SameName
  <2> HIDE DEF level
  <2>6. at[N][s.from] = {With(t, more, r) : r \in Rest(b, level, q)}
      BY <2>2, <2>3, <2>5
  <2>7. N - Cardinality(W) = N - k - 1
      BY <1>1, <1>3, <2>1
  <2>8. W \subseteq 0..(N - 1)
    <3>1. c \in 0..(N - 1)
        BY <1>1
    <3> HIDE DEF c
    <3> QED
        BY <1>4, <3>1
  <2>9. \A p \in W : GoesOn(b, p) /\ NextAt(b, p) \in W \cup {q}
      BY <1>4
  <2>10. t.jumps <= k + 1
      BY <1>1, <1>3, <1>4
  <2> HIDE DEF W, q, c, N
  <2>11. at[N][t.from] = {With(t, more, r) : r \in Rest(b, at[N - Cardinality(W)], t.cursor)}
      BY <2>6, <2>7 DEF level, q, c
  <2>12. t.cursor = q /\ t.from \in W
      BY <1>4 DEF q, c
  <2>13. OnTheWay(b, t, at, W, more)
      BY <1>7, <2>1, <2>8, <2>9, <2>10, <2>11, <2>12 DEF OnTheWay, N
  <2> QED
      BY <2>13 DEF Reads
<1> QED
    BY <1>6, <1>7

(* What was read and what is at the cursor is too long, and so is what     *)
(* else the name has.                                                      *)
LEMMA TooLong ==
    ASSUME NEW b \in Seq(Byte), NEW s \in Reader, NEW at, Climbs(b, at), NEW V, NEW labels,
           OnTheWay(b, s, at, V, labels), GoesOn(b, s.cursor), IsLabel(b, s.cursor),
           NextAt(b, s.cursor) > Len(b) \/ ~Short(b, s),
           NEW n \in at[Len(b)][s.from]
    PROVE  Len(Text(n.labels)) + 1 > MaxName
<1> DEFINE N == Len(b)
           c == s.cursor
           q == NextAt(b, c)
           m == N - Cardinality(V) - 1
           level == at[m]
<1>1. N \in Nat /\ c \in Nat /\ c < N
    BY DEF Reader, GoesOn
<1>2. q \in Nat
    BY <1>1, NextTypes
<1>3. m \in 0..N
  <2>1. Cardinality(V) \in Nat /\ Cardinality(V) + 1 <= N
      BY <1>1, PartsLeft
  <2> QED
      BY <1>1, <2>1
<1>4. PICK u \in NamesFrom(b, level, c) : n = With(s, labels, u)
    BY <1>1, NamesHere DEF NamesAre
<1>5. PICK r \in Rest(b, level, q) : u = PartAnd(b, c, r)
    BY <1>1, NamesGoOn
<1>6. q <= N /\ r \in level[q]
  <2> HIDE DEF level, q
  <2> QED
      BY <1>5 DEF Rest
<1>7. r \in Name
  <2>1. q \in 0..N
      BY <1>1, <1>2, <1>6
  <2> QED
      BY <1>3, <1>6, <2>1, LevelTypes
<1> DEFINE l == LabelAt(b, c)
           more == Append(labels, l)
           rest == r.labels
<1>8. l \in Label /\ labels \in Seq(Label) /\ rest \in Seq(Label) /\ s.name = TextSoFar(labels)
    BY <1>1, <1>6, <1>7, LabelIsOne DEF OnTheWay, Name
<1>9. n.labels = more \o rest
  <2>1. u.labels = <<l>> \o rest
      BY <1>5 DEF PartAnd
  <2>2. n.labels = labels \o u.labels
      BY <1>4 DEF With
  <2> HIDE DEF l, rest
  <2>3. JoinsLabel(labels, l, rest)
      BY <1>8, LabelsJoined
  <2> QED
      BY <2>1, <2>2, <2>3 DEF JoinsLabel
<1>10. more \in Seq(Label) /\ more # <<>> /\ more \o rest # <<>>
  <2> HIDE DEF l, rest
  <2>1. more \in Seq(Label) /\ Len(more) = Len(labels) + 1 /\ Len(labels) \in Nat
      BY <1>8
  <2> HIDE DEF more
  <2>2. more \in Seq(Label) /\ rest \in Seq(Label)
      BY <1>8, <2>1
  <2>3. Len(more \o rest) = Len(more) + Len(rest) /\ Len(rest) \in Nat
      BY <2>2
  <2>4. Len(<<>>) = 0
      OBVIOUS
  <2> QED
      BY <2>1, <2>3, <2>4
<1> HIDE DEF l, rest
<1>11. TextSoFar(more) = Extended(s.name, l)
    BY <1>8, TextGrows
<1> HIDE DEF more
<1>12. Extended(s.name, l) \in Seq(Byte)
  <2>1. s.name \in Seq(Byte) /\ l \in Seq(Byte) /\ <<Dot>> \in Seq(Byte)
      BY <1>8, DotIsAName DEF Reader, Label
  <2> QED
      BY <2>1 DEF Extended
<1> DEFINE x == TextSoFar(more)
           y == TextSoFar(more \o rest)
<1>13. y \in Seq(Byte) /\ Len(x) <= Len(y)
    BY <1>8, <1>10, <1>11, <1>12, TextNoShorter
<1>14. y = Text(n.labels)
    BY <1>9, <1>10 DEF TextSoFar
<1>15. ~(Len(x) + 1 <= MaxName)
    BY <1>1, <1>2, <1>6, <1>11 DEF Short, l
<1>16. Len(x) \in Nat /\ Len(y) \in Nat
    BY <1>11, <1>12, <1>13
<1> HIDE DEF x, y
<1>17. Len(y) + 1 > MaxName
  <2>1. MaxName \in Nat
      BY BufferConstants
  <2> QED
      BY <1>13, <1>15, <1>16, <2>1
<1> QED
    BY <1>14, <1>17

(* A reader that starts is on its way. *)
LEMMA StartIsFound ==
    ASSUME NEW b \in Seq(Byte), NEW at, Climbs(b, at), NEW p \in 0..Len(b)
    PROVE  Found(b, StartAt(p), at)
<1> DEFINE s == StartAt(p)
           N == Len(b)
<1>1. /\ s.status = "reading" /\ s.from = p /\ s.cursor = p /\ ~s.jumped /\ s.jumps = 0
      /\ s.name = <<>>
    BY DEF StartAt
<1>2. N \in Nat /\ Cardinality({}) = 0 /\ N - 0 = N /\ N \in 0..N
    BY FS_EmptySet
<1> HIDE DEF s
<1>3. Rest(b, at[N], p) = at[N][p]
    BY DEF Rest
<1>4. \A r \in at[N][p] : With(s, <<>>, r) = r
  <2> SUFFICES ASSUME NEW r \in at[N][p]
               PROVE  With(s, <<>>, r) = r
      OBVIOUS
  <2>1. r \in Name
      BY <1>2, LevelTypes
  <2> DEFINE l == r.labels
  <2>2. l \in Seq(Label) /\ r = [labels |-> l, end |-> r.end]
      BY <2>1 DEF Name
  <2> HIDE DEF l
  <2>3. <<>> \o l = l
      BY <2>2
  <2> QED
      BY <1>1, <2>2, <2>3 DEF With, l
<1>5. at[N][p] = {With(s, <<>>, r) : r \in Rest(b, at[N], p)}
    BY <1>3, <1>4
<1>6. <<>> \in Seq(Label) /\ TextSoFar(<<>>) = <<>>
    BY DEF TextSoFar
<1>7. OnTheWay(b, s, at, {}, <<>>)
  <2>1. s.jumps <= Cardinality({})
      BY <1>1, <1>2
  <2> HIDE DEF N
  <2> QED
      BY <1>1, <1>2, <1>5, <1>6, <2>1 DEF OnTheWay, N
<1> QED
    BY <1>1, <1>7 DEF Found, Reads, s

(* A round of a reader on its way finds what is there. *)
LEMMA OnTheWayFinds ==
    ASSUME NEW b \in Seq(Byte), NEW s \in Reader, s.status = "reading",
           NEW at, Climbs(b, at), NEW V, NEW labels, OnTheWay(b, s, at, V, labels)
    PROVE  Found(b, Step(b, s), at)
<1> DEFINE N == Len(b)
           c == s.cursor
           t == Step(b, s)
<1>1. N \in Nat /\ c \in Nat /\ s.jumps \in Nat /\ t.from = s.from /\ t \in Reader
    BY StepTypes DEF Reader
<1>2. CASE Stuck(b, c)
  <2>1. t.status = "thrown"
      BY <1>2, StuckThrows DEF Thrown, Reader
  <2>2. at[N][t.from] = {}
      BY <1>1, <1>2, NothingThere
  <2> QED
      BY <2>1, <2>2 DEF Found
<1>3. CASE c < N /\ b[c + 1] = 0
  <2>1. t = Ended(s)
      BY <1>3, EndEnds
  <2>2. /\ t.status = "done" /\ t.pos = IF s.jumped THEN s.pos ELSE c + 1
        /\ t.name = IF s.name = <<>> THEN <<Dot>> ELSE s.name
      BY <2>1 DEF Ended, Reader
  <2> DEFINE r == [labels |-> <<>>, end |-> c + 1]
             n == With(s, labels, r)
  <2>3. n \in at[N][s.from]
    <3>1. r \in NamesFrom(b, at[N - Cardinality(V) - 1], c)
        BY <1>3, NamesEnd
    <3> QED
        BY <1>3, <3>1, NamesHere DEF NamesAre
  <2>4. labels \in Seq(Label) /\ s.name = TextSoFar(labels)
      BY DEF OnTheWay
  <2>5. n.labels = labels /\ n.end = IF s.jumped THEN s.pos ELSE c + 1
    <3>1. labels \o <<>> = labels
        BY <2>4
    <3> QED
        BY <3>1 DEF With
  <2> HIDE DEF n
  <2>6. t.name = Text(n.labels)
    <3>1. CASE labels = <<>>
        BY <2>2, <2>4, <2>5, <3>1 DEF TextSoFar, Text
    <3>2. CASE labels # <<>>
      <4>1. s.name = Text(labels)
          BY <2>4, <3>2 DEF TextSoFar
      <4>2. Text(labels) # <<>>
        <5>1. /\ labels[1] \in Seq(Byte) /\ Behind(labels) \in Seq(Seq(Byte))
              /\ Text(labels) = labels[1] \o FlattenSeq(Behind(labels))
            BY <2>4, <3>2, BehindTypes
        <5>2. labels[1] # <<>>
          <6>1. labels[1] \in Label
              BY <2>4, <3>2
          <6> QED
              BY <6>1 DEF Label
        <5> DEFINE x == labels[1]
                   y == FlattenSeq(Behind(labels))
        <5>3. y \in Seq(Byte)
            BY <5>1, FlattenSeqType
        <5> HIDE DEF x, y
        <5>4. x \o y # <<>>
            BY <5>1, <5>2, <5>3 DEF x
        <5> QED
            BY <5>1, <5>4 DEF x, y
      <4> QED
          BY <2>2, <2>5, <4>1, <4>2
    <3> QED
        BY <3>1, <3>2
  <2>7. t.pos = n.end
      BY <2>2, <2>5
  <2> HIDE DEF t, N
  <2>8. n \in at[N][t.from]
      BY <1>1, <2>3
  <2>9. \E x \in at[N][t.from] : t.name = Text(x.labels) /\ t.pos = x.end
      BY <2>6, <2>7, <2>8
  <2>10. t.status # "reading" /\ t.status # "thrown"
      BY <2>2
  <2>11. Found(b, t, at)
      BY <2>9, <2>10 DEF Found, N
  <2> QED
      BY <2>11 DEF t
<1>4. CASE GoesOn(b, c) /\ ~IsLabel(b, c)
  <2>1. PointerFollowed(b, s, t)
      BY <1>4, PointerStep
  <2>2. c < N
      BY <1>4 DEF GoesOn
  <2>3. t.status = "reading"
    <3> DEFINE k == Cardinality(V)
               j == s.jumps
    <3>1. k \in Nat /\ k + 1 <= N /\ j <= k /\ j \in Nat
        BY <1>1, <2>2, PartsLeft DEF OnTheWay
    <3> HIDE DEF k, j
    <3>2. ~(j + 1 > N)
        BY <1>1, <3>1
    <3> HIDE DEF t
    <3> QED
        BY <2>1, <3>2 DEF PointerFollowed, j
  <2>4. labels \in Seq(Label) /\ s.name = TextSoFar(labels)
      BY DEF OnTheWay
  <2>5. \A r \in Name : SameName(b, s, labels, t, labels, r)
      BY <1>4, <2>1, <2>4, PartJoined
  <2> HIDE DEF t
  <2>6. /\ t.cursor = NextAt(b, c) /\ t.jumps <= s.jumps + 1 /\ t.jumps \in Nat
        /\ t.name = TextSoFar(labels)
      BY <1>1, <2>1, <2>4 DEF PointerFollowed
  <2>7. Reads(b, t, at)
      BY <1>1, <1>4, <2>4, <2>5, <2>6, MovesOn
  <2> QED
      BY <2>3, <2>7 DEF Found, t
<1>5. CASE GoesOn(b, c) /\ IsLabel(b, c)
  <2>1. CASE NextAt(b, c) <= N /\ Short(b, s)
    <3>1. LabelRead(b, s, t)
        BY <1>5, <2>1, LabelStep
    <3> DEFINE l == LabelAt(b, c)
               more == Append(labels, l)
    <3>2. l \in Label
        BY <1>1, <1>5, <2>1, LabelIsOne
    <3>3. labels \in Seq(Label) /\ s.name = TextSoFar(labels)
        BY DEF OnTheWay
    <3>4. \A r \in Name : SameName(b, s, labels, t, more, r)
        BY <1>5, <3>1, <3>2, <3>3, PartJoined
    <3> HIDE DEF t
    <3>5. /\ t.cursor = NextAt(b, c) /\ t.jumps <= s.jumps + 1 /\ t.jumps \in Nat
          /\ t.status = "reading"
        BY <1>1, <3>1 DEF LabelRead
    <3>6. t.name = TextSoFar(more) /\ more \in Seq(Label)
      <4>1. t.name = Extended(s.name, l)
          BY <3>1 DEF LabelRead
      <4> HIDE DEF l
      <4> QED
          BY <3>2, <3>3, <4>1, TextGrows
    <3> HIDE DEF more
    <3>7. Reads(b, t, at)
        BY <1>1, <1>5, <3>4, <3>5, <3>6, MovesOn
    <3> QED
        BY <3>5, <3>7 DEF Found, t
  <2>2. CASE ~(NextAt(b, c) <= N /\ Short(b, s))
    <3>1. t = Thrown(s)
        BY <1>5, <2>2, LabelStep
    <3>2. t.status = "thrown"
        BY <3>1 DEF Thrown, Reader
    <3>3. NextAt(b, c) \in Nat
        BY <1>1, <1>5, NextTypes
    <3>4. NextAt(b, c) > N \/ ~Short(b, s)
        BY <1>1, <2>2, <3>3
    <3>5. \A n \in at[N][t.from] : Len(Text(n.labels)) + 1 > MaxName
        BY <1>1, <1>5, <3>4, TooLong
    <3> HIDE DEF t
    <3> QED
        BY <3>2, <3>5 DEF Found, t
  <2> QED
      BY <2>1, <2>2
<1>6. b[c + 1] = 0 \/ GoesOn(b, c) \/ Stuck(b, c)
    BY DEF Stuck
<1>7. c < N \/ Stuck(b, c)
    BY <1>1 DEF Stuck
<1> QED
    BY <1>2, <1>3, <1>4, <1>5, <1>6, <1>7

(* A reader in a loop stays in it, or throws, and there is no name. *)
LEMMA TrappedFinds ==
    ASSUME NEW b \in Seq(Byte), NEW s \in Reader, s.status = "reading",
           NEW at, Climbs(b, at), NEW X, Trapped(b, s, X)
    PROVE  Found(b, Step(b, s), at)
<1> DEFINE N == Len(b)
           c == s.cursor
           t == Step(b, s)
<1>1. t.from = s.from /\ c \in Nat
    BY StepTypes DEF Reader
<1>2. at[N][t.from] = {}
    BY <1>1, TrappedHasNoName
<1>3. GoesOn(b, c) /\ NextAt(b, c) \in X
    BY DEF Trapped, Loop
<1>4. t.status = "thrown" \/ (t.status = "reading" /\ t.cursor = NextAt(b, c))
  <2>1. CASE ~IsLabel(b, c)
    <3>1. PointerFollowed(b, s, t)
        BY <1>3, <2>1, PointerStep
    <3> HIDE DEF t
    <3> QED
        BY <3>1 DEF PointerFollowed
  <2>2. CASE IsLabel(b, c)
    <3>1. LabelRead(b, s, t) \/ t = Thrown(s)
        BY <1>3, <2>2, LabelStep
    <3>2. Thrown(s).status = "thrown"
        BY DEF Thrown, Reader
    <3> HIDE DEF t
    <3> QED
        BY <3>1, <3>2 DEF LabelRead
  <2> QED
      BY <2>1, <2>2
<1>5. t.status = "reading" => Trapped(b, t, X)
    BY <1>1, <1>3, <1>4 DEF Trapped
<1> HIDE DEF t, N
<1> QED
    BY <1>2, <1>4, <1>5 DEF Found, Reads, t, N

(* A round of any reader finds what is there. *)
LEMMA StepFinds ==
    ASSUME NEW b \in Seq(Byte), NEW s \in Reader, s.status = "reading",
           NEW at, Climbs(b, at), Found(b, s, at)
    PROVE  Found(b, Step(b, s), at)
<1>1. Reads(b, s, at)
    BY DEF Found
<1> QED
    BY <1>1, OnTheWayFinds, TrappedFinds DEF Reads

-----------------------------------------------------------------------------
(* The reader has found the names of its buffer, or is on its way. *)
Finding ==
    /\ reader.from <= Len(buff)
    /\ \A at : Climbs(buff, at) => Found(buff, reader, at)

(* No step loses it. *)
LEMMA FindingInductive ==
    ASSUME TypeOK, Finding, [Next]_vars
    PROVE  Finding'
<1>1. CASE Read
  <2>1. buff' = buff /\ reader' = Step(buff, reader) /\ reader.status = "reading"
      BY <1>1 DEF Read
  <2>2. buff \in Seq(Byte) /\ reader \in Reader
      BY DEF TypeOK
  <2>3. reader'.from = reader.from
      BY <2>1, <2>2, StepTypes
  <2>4. \A at : Climbs(buff, at) => Found(buff, reader', at)
      BY <2>1, <2>2, StepFinds DEF Finding
  <2> QED
      BY <2>1, <2>3, <2>4 DEF Finding
<1>2. CASE PassOn
  <2> DEFINE w == WriteQname(reader.name)
  <2>1. buff' = w /\ reader' = StartAt(0)
      BY <1>2 DEF PassOn
  <2>2. w \in Seq(Byte)
    <3>1. reader.name \in Seq(Byte)
        BY DEF TypeOK, Reader
    <3> QED
        BY <1>2, <3>1, WrittenTypes DEF PassOn
  <2> HIDE DEF w
  <2>3. 0 \in 0..Len(w) /\ StartAt(0).from = 0
      BY <2>2 DEF StartAt
  <2>4. \A at : Climbs(w, at) => Found(w, StartAt(0), at)
      BY <2>2, <2>3, StartIsFound
  <2>5. StartAt(0).from <= Len(w)
      BY <2>2, <2>3
  <2> QED
      BY <2>1, <2>4, <2>5 DEF Finding
<1>3. CASE UNCHANGED vars
    BY <1>3 DEF vars, Finding
<1> QED
    BY <1>1, <1>2, <1>3 DEF Next

(* ReadsNames: in every datagram and from every position, read_qname       *)
(* accepts the names there are, with their text and the end of their own   *)
(* bytes, and rejects only what is no name or too long.  The limit on      *)
(* pointers, one per byte of the datagram, never rejects a name.           *)
THEOREM NamesAreRead == Spec => []ReadsNames
<1>1. Init => Finding
  <2> SUFFICES ASSUME Init PROVE Finding
      OBVIOUS
  <2>1. buff \in Seq(Byte)
      BY DatagramConstant DEF Init
  <2>2. PICK p \in 0..Len(buff) : reader = StartAt(p)
      BY DEF Init
  <2>3. StartAt(p).from <= Len(buff)
      BY <2>1, <2>2 DEF StartAt
  <2>4. \A at : Climbs(buff, at) => Found(buff, StartAt(p), at)
      BY <2>1, StartIsFound
  <2> QED
      BY <2>2, <2>3, <2>4 DEF Finding
<1>2. TypeOK /\ Finding /\ [Next]_vars => Finding'
    BY FindingInductive
<1>3. TypeOK /\ Finding => ReadsNames
  <2> SUFFICES ASSUME TypeOK, Finding
               PROVE  ReadsNames
      OBVIOUS
  <2>1. PICK at : Climbs(buff, at) /\ NamesOf(buff) = at[Len(buff)]
      BY LevelsClimb DEF TypeOK
  <2>2. Found(buff, reader, at)
      BY <2>1 DEF Finding
  <2> QED
      BY <2>1, <2>2 DEF Found, ReadsNames
<1> QED
    BY <1>1, <1>2, <1>3, TypeCorrect, PTL DEF Spec

=============================================================================
