-------------------------- MODULE BytePacketBuffer --------------------------
(***************************************************************************)
(* class BytePacketBuffer: reading and writing the bytes of a packet.      *)
(*                                                                         *)
(* Bytes are numbers, a buffer is the sequence of its len bytes, a name in *)
(* the program is the sequence of its characters, and positions start at 0 *)
(* as in the code.  Reading throws, and the packet is lost, or goes on at  *)
(* a later position.  The loop of read_qname is the operator Step on its   *)
(* local variables; ReadQname is all of it.                                *)
(***************************************************************************)
EXTENDS Integers, SequencesExt

CONSTANT
    MaxName       \* the limit on names, 255 in the code

ASSUME BufferConstants == MaxName \in Nat \ {0}

Byte == 0..255
Dot == 46

(* require_available: need bytes are left at position p of b.              *)
Available(b, p, need) == p <= Len(b) /\ need <= Len(b) - p

U16(bytes) == bytes[1] * 256 + bytes[2]
U16Bytes(n) == <<(n \div 256) % 256, n % 256>>

-----------------------------------------------------------------------------
(* Names, read: read_qname follows compression pointers. *)

(* The local variables of read_qname, and pos; from is where it started.   *)
Reader ==
    [status : {"reading", "done", "thrown"}, from : Nat, pos : Nat, cursor : Nat,
     jumped : BOOLEAN, jumps : Nat, name : Seq(Byte)]

StartAt(p) ==
    [status |-> "reading", from |-> p, pos |-> p, cursor |-> p,
     jumped |-> FALSE, jumps |-> 0, name |-> <<>>]

Thrown(s) == [s EXCEPT !.status = "thrown"]

Target(b, p) == (b[p + 1] - 192) * 256 + b[p + 2]

(* Faulty variant: the number of pointers followed is not limited. *)
FollowedUnlimited(b, s) ==
    IF Available(b, s.cursor, 2)
        THEN [s EXCEPT !.pos = IF s.jumped THEN @ ELSE s.cursor + 2,
                       !.cursor = Target(b, s.cursor),
                       !.jumped = TRUE]
        ELSE Thrown(s)

(* Faulty variant: the caller is moved on before the pointer is checked. *)
FollowedUnchecked(b, s) ==
    LET moved == [s EXCEPT !.pos = IF s.jumped THEN @ ELSE s.cursor + 2]
    IN  IF Available(b, s.cursor, 2)
            THEN [moved EXCEPT !.cursor = Target(b, s.cursor),
                               !.jumped = TRUE,
                               !.jumps = @ + 1,
                               !.status = IF s.jumps + 1 > Len(b) THEN "thrown" ELSE @]
            ELSE Thrown(moved)

(* A pointer: go on where it points to; pos stays behind the first one.    *)
Followed(b, s) ==
    IF Available(b, s.cursor, 2)
        THEN [s EXCEPT !.pos = IF s.jumped THEN @ ELSE s.cursor + 2,
                       !.cursor = Target(b, s.cursor),
                       !.jumped = TRUE,
                       !.jumps = @ + 1,
                       !.status = IF s.jumps + 1 > Len(b) THEN "thrown" ELSE @]
        ELSE Thrown(s)

(* The zero byte: the name ends; without any label it is the root's, ".".  *)
Ended(s) ==
    [s EXCEPT !.pos = IF s.jumped THEN @ ELSE s.cursor + 1,
              !.name = IF @ = <<>> THEN <<Dot>> ELSE @,
              !.status = "done"]

Extended(name, label) == IF name = <<>> THEN label ELSE name \o <<Dot>> \o label

(* Faulty variant: the position of the caller follows the pointers. *)
LabelledAlways(b, s) ==
    LET length == b[s.cursor + 1]
        after  == s.cursor + 1 + length
        name   == Extended(s.name, SubSeq(b, s.cursor + 2, after))
    IN  IF Available(b, s.cursor + 1, length) /\ Len(name) + 1 <= MaxName
            THEN [s EXCEPT !.name = name, !.cursor = after, !.pos = after]
            ELSE Thrown(s)

(* Faulty variant: the limit is tested before the label is appended. *)
LabelledTooLate(b, s) ==
    LET length == b[s.cursor + 1]
        after  == s.cursor + 1 + length
        name   == Extended(s.name, SubSeq(b, s.cursor + 2, after))
    IN  IF Available(b, s.cursor + 1, length) /\ Len(s.name) + 1 <= MaxName
            THEN [s EXCEPT !.name = name, !.cursor = after,
                           !.pos = IF s.jumped THEN @ ELSE after]
            ELSE Thrown(s)

(* A label: its characters are appended, after a dot if it is not the first. *)
Labelled(b, s) ==
    LET length == b[s.cursor + 1]
        after  == s.cursor + 1 + length
        name   == Extended(s.name, SubSeq(b, s.cursor + 2, after))
    IN  IF Available(b, s.cursor + 1, length) /\ Len(name) + 1 <= MaxName
            THEN [s EXCEPT !.name = name, !.cursor = after,
                           !.pos = IF s.jumped THEN @ ELSE after]
            ELSE Thrown(s)

(* One round of the loop.  The two high bits of a length byte are its tag. *)
Step(b, s) ==
    LET length == b[s.cursor + 1]
    IN  IF ~Available(b, s.cursor, 1) THEN Thrown(s)
        ELSE IF length >= 192 THEN Followed(b, s)
        ELSE IF length = 0 THEN Ended(s)
        ELSE IF length >= 64 THEN Thrown(s)
        ELSE Labelled(b, s)

(* All rounds: there is a last one, says property Terminates of Qname.     *)
ReadQname(b, p) ==
    LET finish[s \in Reader] == IF s.status = "reading" THEN finish[Step(b, s)] ELSE s
    IN  finish[StartAt(p)]

-----------------------------------------------------------------------------
(* Names, written: write_qname compresses nothing. *)

IsRoot(name) == name \in {<<>>, <<Dot>>}

(* A name without the dot it may end with, and that with a dot on either   *)
(* side: then each label stands between two dots.                          *)
Unrooted(name) == IF name # <<>> /\ Last(name) = Dot THEN Front(name) ELSE name
Dotted(name) == <<Dot>> \o Unrooted(name) \o <<Dot>>

IsLabelStart(dotted, i) == i < Len(dotted) /\ dotted[i] = Dot

(* The length of the label that starts behind the dot at i.                *)
LabelLength(dotted, i) ==
    CHOOSE n \in 0..Len(dotted) :
        /\ dotted[i + n + 1] = Dot
        /\ \A j \in i + 1..i + n : dotted[j] # Dot

(* Otherwise write_qname throws.                                           *)
Writable(name) ==
    \/ IsRoot(name)
    \/ \A i \in DOMAIN Dotted(name) :
          IsLabelStart(Dotted(name), i) => LabelLength(Dotted(name), i) \in 1..63

(* In effect each dot gives way to the length of the label behind it.      *)
WriteQname(name) ==
    IF IsRoot(name) THEN <<0>>
    ELSE LET dotted == Dotted(name)
         IN  [i \in DOMAIN dotted |->
                 CASE i = Len(dotted)         -> 0
                   [] IsLabelStart(dotted, i) -> LabelLength(dotted, i)
                   [] OTHER                   -> dotted[i]]

(* Faulty variant: a dot at the end counts for a label. *)
WireLengthOfDots(name) == IF IsRoot(name) THEN 1 ELSE Len(name) + 2

(* qname_wire_length: what writeData announces as the length of a name.    *)
WireLength(name) ==
    IF IsRoot(name) THEN 1
    ELSE Len(name) + (IF Last(name) = Dot THEN 1 ELSE 2)

=============================================================================
