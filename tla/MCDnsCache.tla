----------------------------- MODULE MCDnsCache -----------------------------
(* DnsCache with two spellings of one name and two types, so that both     *)
(* halves of the key matter, and three TTLs: none, short and long.         *)
EXTENDS DnsCache

MCLower == [d \in Domain |-> "a"]

untimed == [id |-> 1, ttl |-> 0]
short == [id |-> 2, ttl |-> 1]

MCRecord == {untimed, short}
MCRRset == {<<>>, <<untimed>>, <<untimed, short>>}

(* A live entry, one that expires at the start, an empty positive one, and *)
(* a negative one that carries records.                                    *)
MCOffered ==
    { [records |-> <<short>>, result |-> "POSITIVE", expires |-> 2],
      [records |-> <<short>>, result |-> "POSITIVE", expires |-> 0],
      [records |-> <<>>, result |-> "POSITIVE", expires |-> 3],
      [records |-> <<untimed>>, result |-> "NXDOMAIN", expires |-> 1] }

=============================================================================
