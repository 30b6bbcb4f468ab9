----------------------------- MODULE FoldFacts -----------------------------
(***************************************************************************)
(* What proofs of several components need to know of numbers, and of the   *)
(* folds of the community modules: the recursion FoldLeft is defined by    *)
(* has a solution, and a set that its steps do not leave has its result.   *)
(***************************************************************************)
EXTENDS SequencesExt, WellFoundedInduction, TLAPS

(* A set of naturals that is not empty has a least member: what makes the  *)
(* least TTL of an RRset and the least round-trip time of the root servers *)
(* well defined.                                                           *)
LEMMA LeastExists ==
    ASSUME NEW S, S \subseteq Nat, S # {}
    PROVE  \E m \in S : \A c \in S : m <= c
<1> DEFINE R == {p \in Nat \X Nat : p[1] < p[2]}
<1>1. \A x, y \in Nat : <<x, y>> \in R <=> x < y
  OBVIOUS
<1>2. IsWellFoundedOn(R, Nat)
  <2>1. IsWellFoundedOn(OpToRel(<, Nat), Nat)
    BY NatLessThanWellFounded
  <2> QED BY <2>1 DEF OpToRel
<1>3. PICK m \in S : \A c \in S : ~(<<c, m>> \in R)
  BY <1>2, WFMin
<1>4. \A c \in S : m <= c
  <2> TAKE c \in S
  <2>1. c \in Nat /\ m \in Nat
    OBVIOUS
  <2>2. ~(c < m)
    BY <1>1, <1>3, <2>1
  <2> HIDE DEF R
  <2> QED BY <2>1, <2>2
<1> QED BY <1>4

(* Induction up to n, for a set of numbers.                                *)
LEMMA Upwards ==
    ASSUME NEW n \in Nat, NEW S, 0 \in S, \A k \in 1..n : k - 1 \in S => k \in S
    PROVE  0..n \subseteq S
<1> SUFFICES ASSUME (0..n) \ S # {}
             PROVE  FALSE
    OBVIOUS
<1>1. (0..n) \ S \subseteq Nat
    OBVIOUS
<1>2. PICK m \in (0..n) \ S : \A c \in (0..n) \ S : m <= c
    BY <1>1, LeastExists
<1>3. m \in 1..n /\ m - 1 \in 0..n
    BY <1>2
<1>4. ~(m <= m - 1)
    BY <1>3
<1>5. m - 1 \in S
    BY <1>2, <1>3, <1>4
<1> QED
    BY <1>2, <1>3, <1>5

LEMMA MaxOfInterval ==
    ASSUME NEW n \in Nat, NEW t \in SUBSET (1..n), t # {}
    PROVE  Max(t) \in t /\ \A y \in t : Max(t) >= y
<1> DEFINE bounds == {m \in Nat : \A y \in t : m >= y}
<1>1. n \in bounds /\ bounds \subseteq Nat
    OBVIOUS
<1>2. PICK m \in bounds : \A c \in bounds : m <= c
    BY <1>1, LeastExists
<1>3. m \in t
  <2> SUFFICES ASSUME m \notin t
               PROVE  FALSE
      OBVIOUS
  <2>1. \A y \in t : m >= y /\ m # y /\ y \in Nat
      BY <1>2
  <2>2. m \in Nat /\ m - 1 \in Nat
    <3>1. PICK y \in t : y \in 1..n
        OBVIOUS
    <3>2. m \in Nat /\ m >= y
        BY <2>1
    <3> QED
        BY <3>1, <3>2
  <2>3. m - 1 \in bounds
      BY <2>1, <2>2
  <2> QED
      BY <1>2, <2>2, <2>3
<1>4. \E x \in t : \A y \in t : x >= y
    BY <1>2, <1>3
<1> QED
    BY <1>4 DEF Max

LEMMA MaxIsLast ==
    ASSUME NEW k \in Nat, NEW t \in SUBSET (1..(k + 1)), k + 1 \in t
    PROVE  Max(t) = k + 1
<1>1. Max(t) \in t /\ Max(t) >= k + 1
    BY MaxOfInterval, k + 1 \in Nat
<1>2. Max(t) \in 1..(k + 1)
    BY <1>1
<1> QED
    BY <1>1, <1>2

(* The recursion of MapThenFoldSet, over the subsets of 1..k and by their  *)
(* greatest members, solved by a function with values in V.                *)
Solves(f, k, V, base, step) ==
    /\ f \in [SUBSET (1..k) -> V]
    /\ \A t \in SUBSET (1..k) :
          f[t] = IF t = {} THEN base ELSE step[<<f[t \ {Max(t)}], Max(t)>>]

(* There is a solution in any set that the base is in and the steps do not *)
(* leave.                                                                  *)
LEMMA FoldExists ==
    ASSUME NEW V, NEW base \in V, NEW n \in Nat, NEW step \in [V \X (1..n) -> V]
    PROVE  \E f : Solves(f, n, V, base, step)
<1> DEFINE solved == {k \in 0..n : \E f : Solves(f, k, V, base, step)}
<1>1. 0 \in solved
  <2>1. SUBSET (1..0) = {{}}
      OBVIOUS
  <2>2. Solves([t \in {{}} |-> base], 0, V, base, step)
      BY <2>1 DEF Solves
  <2> QED
      BY <2>2
<1>2. ASSUME NEW k \in 1..n, k - 1 \in solved
      PROVE  k \in solved
  <2>1. PICK f : Solves(f, k - 1, V, base, step)
      BY <1>2
  <2> DEFINE g == [t \in SUBSET (1..k) |->
                     IF k \in t THEN step[<<f[t \ {k}], k>>] ELSE f[t]]
  <2>2. ASSUME NEW t \in SUBSET (1..k), k \in t
        PROVE  g[t] \in V /\ t # {} /\ g[t] = step[<<g[t \ {Max(t)}], Max(t)>>]
    <3>1. t \ {k} \in SUBSET (1..(k - 1)) /\ t \ {k} \in SUBSET (1..k)
        OBVIOUS
    <3>2. Max(t) = k
      <4>1. k - 1 \in Nat /\ (k - 1) + 1 = k
          OBVIOUS
      <4> QED
          BY <2>2, <4>1, MaxIsLast
    <3>3. g[t \ {k}] = f[t \ {k}] /\ f[t \ {k}] \in V
        BY <2>1, <3>1 DEF Solves
    <3>4. g[t] = step[<<f[t \ {k}], k>>]
        BY <2>2
    <3>5. <<f[t \ {k}], k>> \in V \X (1..n)
        BY <3>3
    <3>6. g[t] \in V
        BY <3>4, <3>5
    <3> QED
        BY <2>2, <3>2, <3>3, <3>4, <3>6
  <2>3. ASSUME NEW t \in SUBSET (1..k), k \notin t
        PROVE  g[t] \in V
                 /\ g[t] = IF t = {} THEN base ELSE step[<<g[t \ {Max(t)}], Max(t)>>]
    <3> HIDE DEF g
    <3>1. \A y \in 1..k : y # k => y \in 1..(k - 1)
        OBVIOUS
    <3>2. t \subseteq 1..(k - 1)
        BY <2>3, <3>1
    <3>3. t \in SUBSET (1..(k - 1)) /\ t \ {Max(t)} \in SUBSET (1..(k - 1))
        BY <3>2
    <3>4. t \in SUBSET (1..k) /\ t \ {Max(t)} \in SUBSET (1..k) /\ k \notin t \ {Max(t)}
        BY <2>3
    <3>5. g[t] = f[t] /\ g[t \ {Max(t)}] = f[t \ {Max(t)}]
        BY <2>3, <3>4 DEF g
    <3> QED
        BY <2>1, <3>3, <3>5 DEF Solves
  <2>4. Solves(g, k, V, base, step)
    <3> HIDE DEF g
    <3>1. \A t \in SUBSET (1..k) : g[t] \in V
        BY <2>2, <2>3
    <3>2. g = [t \in SUBSET (1..k) |-> g[t]]
        BY DEF g
    <3>3. g \in [SUBSET (1..k) -> V]
        BY <3>1, <3>2
    <3> QED
        BY <2>2, <2>3, <3>3 DEF Solves
  <2> HIDE DEF g
  <2> QED
      BY <2>4
<1> HIDE DEF solved
<1>3. n \in solved
    BY <1>1, <1>2, Upwards
<1> QED
    BY <1>3 DEF solved

(* A solution, as one function by its equation; and each step of it is one *)
(* that step has a value for.                                              *)
LEMMA SolvesSteps ==
    ASSUME NEW V, NEW base, NEW n \in Nat, NEW step, NEW f, Solves(f, n, V, base, step)
    PROVE  /\ f = [t \in SUBSET (1..n) |->
                      IF t = {} THEN base ELSE step[<<f[t \ {Max(t)}], Max(t)>>]]
           /\ \A t \in SUBSET (1..n) :
                 t # {} => Max(t) \in 1..n /\ f[t \ {Max(t)}] \in V
<1>1. ASSUME NEW t \in SUBSET (1..n), t # {}
      PROVE  Max(t) \in 1..n /\ f[t \ {Max(t)}] \in V
  <2>1. Max(t) \in t
      BY <1>1, MaxOfInterval
  <2>2. t \ {Max(t)} \in SUBSET (1..n)
      OBVIOUS
  <2> QED
      BY <2>1, <2>2 DEF Solves
<1>2. f = [t \in SUBSET (1..n) |->
             IF t = {} THEN base ELSE step[<<f[t \ {Max(t)}], Max(t)>>]]
    BY DEF Solves
<1> QED
    BY <1>1, <1>2

(* What holds of the base and is kept by each step holds of the result.    *)
LEMMA FoldInvariant ==
    ASSUME NEW V, NEW n \in Nat, NEW f, f[{}] \in V,
           \A k \in 1..n : f[1..(k - 1)] \in V => f[1..k] \in V
    PROVE  f[1..n] \in V
<1> DEFINE kept == {k \in 0..n : f[1..k] \in V}
<1>1. 0 \in kept
  <2>1. 1..0 = {}
      OBVIOUS
  <2> QED
      BY <2>1
<1>2. \A k \in 1..n : k - 1 \in kept => k \in kept
    OBVIOUS
<1> HIDE DEF kept
<1>3. n \in kept
    BY <1>1, <1>2, Upwards
<1> QED
    BY <1>3 DEF kept

(* The greatest member of 1..k, and the rest.                              *)
LEMMA MaxOfPrefix ==
    ASSUME NEW n \in Nat, NEW k \in 1..n
    PROVE  Max(1..k) = k /\ (1..k) \ {Max(1..k)} = 1..(k - 1) /\ 1..k # {}
<1>1. k - 1 \in Nat /\ (k - 1) + 1 = k /\ k \in 1..k
    OBVIOUS
<1>2. Max(1..k) = k
    BY <1>1, MaxIsLast
<1> QED
    BY <1>2

-----------------------------------------------------------------------------

(* FlattenSeq(s) by way of the sums of s's prefixes.                       *)
Sums(sums, s, S) ==
    /\ \A i \in 1..Len(s) :
          sums[i] \in Seq(S) /\ sums[i] = IF i = 1 THEN s[i] ELSE sums[i - 1] \o s[i]
    /\ FlattenSeq(s) = IF Len(s) = 0 THEN <<>> ELSE sums[Len(s)]

LEMMA FlattenSeqSums ==
    ASSUME NEW S, NEW s \in Seq(Seq(S))
    PROVE  \E sums : Sums(sums, s, S)
<1> DEFINE n == Len(s)
           V == Seq(S)
           step == [x \in V \X (1..n) |-> x[1] \o s[x[2]]]
           flatten == CHOOSE f : f = [i \in 1..Len(s) |->
                         IF i = 1 THEN s[i] ELSE f[i - 1] \o s[i]]
<1>1. n \in Nat /\ <<>> \in V /\ \A i \in 1..n : s[i] \in V
    OBVIOUS
<1>2. step \in [V \X (1..n) -> V]
    BY <1>1
<1>3. PICK f : Solves(f, n, V, <<>>, step)
  <2> HIDE DEF n, V, step
  <2> QED
      BY <1>1, <1>2, FoldExists
<1> DEFINE g == [i \in 1..n |-> f[1..i]]
<1>4. ASSUME NEW i \in 1..n
      PROVE  g[i] \in V /\ g[i] = IF i = 1 THEN s[i] ELSE g[i - 1] \o s[i]
  <2>1. 1..i \in SUBSET (1..n) /\ 1..(i - 1) \in SUBSET (1..n)
      OBVIOUS
  <2>2. f[1..i] \in V /\ f[1..(i - 1)] \in V
      BY <1>3, <2>1 DEF Solves
  <2>3. f[1..i] = step[<<f[1..(i - 1)], i>>]
      BY <1>1, <1>3, <2>1, MaxOfPrefix DEF Solves
  <2>4. f[1..i] = f[1..(i - 1)] \o s[i]
      BY <2>2, <2>3
  <2>5. CASE i = 1
    <3>1. 1..(i - 1) = {} /\ {} \in SUBSET (1..n)
        BY <2>5
    <3>2. f[1..(i - 1)] = <<>>
        BY <1>3, <3>1 DEF Solves
    <3>3. <<>> \o s[i] = s[i]
        BY <1>1
    <3> QED
        BY <2>2, <2>4, <2>5, <3>2, <3>3
  <2>6. CASE i # 1
    <3>1. i - 1 \in 1..n
        BY <2>6
    <3> QED
        BY <2>2, <2>4, <2>6, <3>1
  <2> QED
      BY <2>5, <2>6
<1>5. g = [i \in 1..Len(s) |-> IF i = 1 THEN s[i] ELSE g[i - 1] \o s[i]]
    BY <1>4
<1>6. flatten = [i \in 1..Len(s) |-> IF i = 1 THEN s[i] ELSE flatten[i - 1] \o s[i]]
  <2> HIDE DEF g
  <2> QED
      BY <1>5
<1> HIDE DEF flatten
<1> DEFINE typed == {i \in 0..n : i # 0 => flatten[i] \in V}
<1>7. 0 \in typed
    BY <1>1
<1>8. \A i \in 1..n : i - 1 \in typed => i \in typed
  <2> SUFFICES ASSUME NEW i \in 1..n, i - 1 \in typed
               PROVE  flatten[i] \in V
      OBVIOUS
  <2>1. CASE i = 1
      BY <1>1, <1>6, <2>1
  <2>2. CASE i # 1
    <3>1. flatten[i - 1] \in V
        BY <2>2
    <3>2. flatten[i] = flatten[i - 1] \o s[i]
        BY <1>6, <2>2
    <3>3. s[i] \in V
        BY <1>1
    <3> HIDE DEF n
    <3> QED
        BY <3>1, <3>2, <3>3
  <2> QED
      BY <2>1, <2>2
<1>9. 0..n \subseteq typed
  <2> HIDE DEF typed, n
  <2> QED
      BY <1>1, <1>7, <1>8, Upwards
<1>10. \A i \in 1..n : flatten[i] \in V
  <2> SUFFICES ASSUME NEW i \in 1..n
               PROVE  flatten[i] \in V
      OBVIOUS
  <2>1. i \in 0..n /\ i # 0
      BY <1>1
  <2> HIDE DEF n, V
  <2> QED
      BY <1>9, <2>1
<1>11. FlattenSeq(s) = IF Len(s) = 0 THEN <<>> ELSE flatten[Len(s)]
    BY <1>1 DEF FlattenSeq, flatten
<1>12. Sums(flatten, s, S)
  <2>1. \A i \in 1..Len(s) : flatten[i] = IF i = 1 THEN s[i] ELSE flatten[i - 1] \o s[i]
      BY <1>6
  <2> QED
      BY <1>10, <1>11, <2>1 DEF Sums
<1> QED
    BY <1>12

(* Flattening: a concatenation of sequences over S is one.                 *)
LEMMA FlattenSeqType ==
    ASSUME NEW S, NEW s \in Seq(Seq(S))
    PROVE  FlattenSeq(s) \in Seq(S)
<1>1. PICK sums : Sums(sums, s, S)
    BY FlattenSeqSums
<1>2. Len(s) \in Nat /\ <<>> \in Seq(S)
    OBVIOUS
<1> QED
    BY <1>1, <1>2 DEF Sums

(* What is put together from parts that each hold one element or none      *)
(* starts with what the first part that is not empty holds.                *)
LEMMA FlattenSeqFirst ==
    ASSUME NEW S, NEW s \in Seq(Seq(S)), \A i \in 1..Len(s) : Len(s[i]) <= 1
    PROVE  /\ FlattenSeq(s) = <<>> => \A i \in 1..Len(s) : s[i] = <<>>
           /\ FlattenSeq(s) # <<>> =>
                 \E i \in 1..Len(s) : /\ s[i] # <<>> /\ FlattenSeq(s)[1] = s[i][1]
                                      /\ \A j \in 1..(i - 1) : s[j] = <<>>
<1> DEFINE n == Len(s)
<1>1. PICK sums : Sums(sums, s, S)
    BY FlattenSeqSums
<1>2. n \in Nat /\ \A i \in 1..n : s[i] \in Seq(S)
    OBVIOUS
<1> DEFINE First(k) == \E i \in 1..k : /\ s[i] # <<>> /\ sums[k][1] = s[i][1]
                                      /\ \A j \in 1..(i - 1) : s[j] = <<>>
           started == {k \in 0..n : k # 0 =>
                         /\ sums[k] = <<>> => \A i \in 1..k : s[i] = <<>>
                         /\ sums[k] # <<>> => First(k)}
<1>3. 0 \in started
    BY <1>2
<1>4. ASSUME NEW k \in 1..n, k - 1 \in started
      PROVE  k \in started
  <2>1. sums[k] \in Seq(S) /\ s[k] \in Seq(S)
      BY <1>1, <1>2 DEF Sums
  <2>2. CASE k = 1
    <3>1. sums[k] = s[k]
        BY <1>1, <2>2 DEF Sums
    <3> QED
        BY <1>2, <2>2, <3>1
  <2>3. CASE k # 1
    <3> DEFINE a == sums[k - 1]
    <3>1. k - 1 \in 1..n /\ a \in Seq(S) /\ sums[k] = a \o s[k]
      <4>1. k - 1 \in 1..n
          BY <1>2, <2>3
      <4> QED
          BY <1>1, <2>3, <4>1 DEF Sums
    <3> HIDE DEF a
    <3>2. sums[k] = <<>> => a = <<>> /\ s[k] = <<>>
      <4> DEFINE b == s[k]
      <4>1. b \in Seq(S)
          BY <2>1
      <4> HIDE DEF b
      <4>2. Len(a \o b) = Len(a) + Len(b) /\ Len(a) \in Nat /\ Len(b) \in Nat
          BY <3>1, <4>1
      <4>3. a \o b = <<>> => Len(a) = 0 /\ Len(b) = 0
          BY <4>2
      <4> QED
          BY <3>1, <4>1, <4>3 DEF b
    <3>3. a # <<>> => sums[k][1] = a[1] /\ sums[k] # <<>>
        BY <2>1, <3>1
    <3>4. a = <<>> => sums[k] = s[k]
        BY <2>1, <3>1
    <3>5. sums[k] = <<>> => \A i \in 1..k : s[i] = <<>>
        BY <1>4, <3>1, <3>2 DEF a
    <3>6. ASSUME a # <<>>
          PROVE  First(k)
      <4>1. a[1] = sums[k - 1][1] /\ First(k - 1)
          BY <1>4, <3>1, <3>6 DEF a
      <4>2. PICK i \in 1..(k - 1) : /\ s[i] # <<>> /\ a[1] = s[i][1]
                                    /\ \A j \in 1..(i - 1) : s[j] = <<>>
          BY <4>1
      <4>3. i \in 1..k /\ sums[k][1] = s[i][1]
          BY <1>2, <3>3, <3>6, <4>2
      <4> QED
          BY <4>2, <4>3
    <3>7. ASSUME a = <<>>, sums[k] # <<>>
          PROVE  First(k)
      <4>1. \A i \in 1..(k - 1) : s[i] = <<>>
          BY <1>4, <3>1, <3>7 DEF a
      <4>2. k \in 1..k /\ s[k] # <<>> /\ sums[k][1] = s[k][1]
          BY <1>2, <3>4, <3>7
      <4> QED
          BY <4>1, <4>2
    <3> HIDE DEF First
    <3> QED
        BY <3>5, <3>6, <3>7
  <2> QED
      BY <2>2, <2>3
<1>5. 0..n \subseteq started
  <2> HIDE DEF started, n
  <2> QED
      BY <1>2, <1>3, <1>4, Upwards
<1>6. n \in started
  <2> HIDE DEF started, n
  <2>1. n \in 0..n
      BY <1>2
  <2> QED
      BY <1>5, <2>1
<1>7. FlattenSeq(s) = IF n = 0 THEN <<>> ELSE sums[n]
    BY <1>1 DEF Sums
<1> QED
    BY <1>2, <1>6, <1>7

=============================================================================
