------------------------------ MODULE MCRelay ------------------------------
(* Queries and answers about one name, "a", put together from a header,    *)
(* whose counts may be wrong, the question and up to two records: one of   *)
(* each type, compressed where a server would, some with a wrong length,   *)
(* and two names with dots in a label.                                     *)
EXTENDS Relay

Id == <<0, 7>>
IN_ == <<0, 1>>
Ttl == <<128, 0, 1, 0>>
Pointer == <<192, 12>>            \* to the name in the question

Header(id, flags, qd, an, ns, ar) ==
    id \o flags \o <<0, qd>> \o <<0, an>> \o <<0, ns>> \o <<0, ar>>
QuestionA == <<1, 97, 0>> \o A \o IN_

Rec(name, type, rdlength, data) == name \o type \o IN_ \o Ttl \o <<0, rdlength>> \o data
Opt(size, do, options) ==
    <<0>> \o OPT \o <<0, size>> \o <<0, 0, do, 0>> \o <<0, Len(options)>> \o options

Address == Rec(Pointer, A, 4, <<1, 2, 3, 4>>)

MCRecords ==
    { Address,
      Rec(Pointer, A, 3, <<1, 2, 3>>),                                \* too short
      Rec(Pointer, AAAA, 16, [i \in 1..16 |-> i]),
      Rec(Pointer, CNAME, 2, Pointer),
      Rec(Pointer, CNAME, 2, Pointer \o <<0>>),                       \* a byte between
      Rec(Pointer, CNAME, 3, Pointer \o <<0>>),                       \* the same, counted
      Rec(Pointer, CNAME, 4, <<2, 97, 46, 0>>),                       \* "a." in one label
      Rec(Pointer, CNAME, 4, <<2, 46, 97, 0>>),                       \* ".a" in one label
      Rec(Pointer, NS, 4, <<1, 98>> \o Pointer),
      Rec(Pointer, MX, 4, <<0, 5>> \o Pointer),
      Rec(<<0>>, SOA, 23, Pointer \o <<0>> \o [i \in 1..20 |-> i]),
      Rec(<<0>>, SOA, 24, <<0>> \o <<0>> \o [i \in 1..20 |-> i]),     \* one too many
      Rec(Pointer, <<0, 16>>, 3, <<9, 9, 9>>),
      Opt(60, 128, <<8, 8>>) }

Bodies == {<<>>} \cup MCRecords \cup {r \o s : r \in MCRecords, s \in MCRecords}

MCAnswer ==
    {Header(Id, <<132, 0>>, 1, an, ns, ar) \o QuestionA \o body :
        an \in 0..2, ns \in 0..1, ar \in 0..1, body \in Bodies}
    \cup {Header(Id, <<129, 131>>, 0, 1, 0, 0) \o Rec(<<1, 97, 0>>, A, 4, <<1, 2, 3, 4>>),
          Header(Id, <<1, 0>>, 1, 1, 0, 0) \o QuestionA \o Address,
          Header(<<0, 9>>, <<128, 0>>, 1, 1, 0, 0) \o QuestionA \o Address}

(* Without and with EDNS (a small, a fitting and a large size), with two   *)
(* OPT records, garbage, a response, no question, two questions, a name    *)
(* that cannot be written.                                                 *)
MCQuery ==
    { Header(Id, <<1, 0>>, 1, 0, 0, 0) \o QuestionA,
      Header(Id, <<0, 0>>, 1, 0, 0, 1) \o QuestionA \o Opt(20, 0, <<>>),
      Header(Id, <<0, 0>>, 1, 0, 0, 1) \o QuestionA \o Opt(60, 128, <<5>>),
      Header(Id, <<1, 0>>, 1, 0, 0, 2) \o QuestionA \o Opt(200, 128, <<>>) \o Opt(60, 0, <<>>),
      Header(Id, <<1, 0>>, 1, 0, 0, 1) \o QuestionA,
      Header(Id, <<128, 0>>, 1, 0, 0, 0) \o QuestionA,
      Header(Id, <<1, 0>>, 0, 0, 0, 0),
      Header(Id, <<1, 0>>, 2, 0, 0, 0) \o QuestionA \o QuestionA,
      Header(Id, <<1, 0>>, 1, 0, 0, 0) \o <<2, 46, 97, 0>> \o A \o IN_,
      <<0, 7, 1>> }

(* For the answers that do not reach the client: all is compressed as      *)
(* servers do it, and nothing is wrong.                                    *)
PlainQuery == {Header(Id, <<1, 0>>, 1, 0, 0, 0) \o QuestionA}
PlainAnswer ==
    { Header(Id, <<132, 0>>, 1, 1, 0, 0) \o QuestionA \o Address,
      Header(Id, <<132, 0>>, 1, 2, 0, 0) \o QuestionA \o Address \o Address,
      Header(Id, <<132, 0>>, 1, 2, 0, 0) \o QuestionA
          \o Rec(Pointer, NS, 4, <<1, 98>> \o Pointer) \o Rec(Pointer, NS, 4, <<1, 99>> \o Pointer) }

=============================================================================
