------------------------------ MODULE MCQname ------------------------------
(* All buffers of up to four bytes that are the end of a name, lengths of  *)
(* labels, a reserved tag, a dot, a letter or the start of a pointer, and  *)
(* those of five bytes without the reserved tag and the dot.               *)
EXTENDS Qname

MCDatagram ==
    UNION {[1..n -> {0, 1, 2, 3, 46, 64, 97, 192}] : n \in 0..4}
        \cup [1..5 -> {0, 1, 2, 3, 97, 192}]

=============================================================================
