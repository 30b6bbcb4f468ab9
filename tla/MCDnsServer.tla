---------------------------- MODULE MCDnsServer ----------------------------
(* Both sockets, and three datagrams: two queries that differ in all that  *)
(* a reply echoes, and something that is no query.                         *)
EXTENDS DnsServer

MCFamilies == <<"AF_INET", "AF_INET6">>

MCDatagram ==
    { [from |-> "c", id |-> 1, rd |-> TRUE,  query |-> TRUE],
      [from |-> "d", id |-> 2, rd |-> FALSE, query |-> TRUE],
      [from |-> "c", id |-> 1, rd |-> FALSE, query |-> FALSE] }

=============================================================================
