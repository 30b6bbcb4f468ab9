--------------------------- MODULE MCDnsResolver ---------------------------
(* A small world of names and servers for DnsResolver.                     *)
(*                                                                         *)
(*   zone 1  www CNAME host, old CNAME mid CNAME gone, host A, nsx A       *)
(*           served by ns1 (a1) and by ns2 (a2), which is lame: it refers  *)
(*           back to both or refuses; the root gives glue for both, whose  *)
(*           case differs from that of the NS records; with the alias mid  *)
(*           comes that gone does not exist                                *)
(*   zone 2  svc A, served by nsx (a3), for which there is no glue         *)
(*   top     a name the root itself knows, without any record              *)
(*   loop    x CNAME y CNAME x, served by a1                               *)
EXTENDS DnsResolver

MCName == {"www", "host", "old", "mid", "gone", "ns1", "NS1", "ns2", "NS2", "nsx", "svc", "top", "x", "y"}
MCLower == [n \in MCName |-> CASE n = "NS1" -> "ns1" [] n = "NS2" -> "ns2" [] OTHER -> n]
MCType == {"A", "AAAA"}
MCAddress == {"a1", "a2", "a3", "ip"}

RR(owner, type, data, ttl) == [owner |-> owner, type |-> type, data |-> data, ttl |-> ttl]

cnameWww == RR("www", "CNAME", "host", 2)
cnameOld == RR("old", "CNAME", "mid", 0)
cnameMid == RR("mid", "CNAME", "gone", 0)
cnameX == RR("x", "CNAME", "y", 0)
cnameY == RR("y", "CNAME", "x", 0)
hostA == RR("host", "A", "ip", 2)
nsxA == RR("nsx", "A", "a3", 1)
svcA == RR("svc", "A", "ip", 0)
ns1Zone1 == RR("zone1", "NS", "NS1", 0)
ns2Zone1 == RR("zone1", "NS", "NS2", 0)
nsxZone2 == RR("zone2", "NS", "nsx", 0)
glueNs1 == RR("ns1", "A", "a1", 0)
glueNs2 == RR("ns2", "A", "a2", 0)
soaZone1 == [owner |-> "zone1", type |-> "SOA", ttl |-> 2, minimum |-> 1]

MCRecord == {cnameWww, cnameOld, cnameMid, cnameX, cnameY, hostA, nsxA, svcA,
             ns1Zone1, ns2Zone1, nsxZone2, glueNs1, glueNs2, soaZone1}

Response(rcode, aa, answers, authorities, additionals) ==
    [rcode |-> rcode, aa |-> aa, ra |-> FALSE,
     answers |-> answers, authorities |-> authorities, additionals |-> additionals]

Says(rs) == Response("NOERROR", TRUE, rs, <<>>, <<glueNs1>>)
NoSuchRecord == Response("NOERROR", TRUE, <<>>, <<soaZone1>>, <<>>)
NoSuchName == Response("NXDOMAIN", TRUE, <<>>, <<soaZone1>>, <<>>)
AliasOfNone == Response("NXDOMAIN", TRUE, <<cnameMid>>, <<soaZone1>>, <<>>)
Refused == Response("OTHER", FALSE, <<>>, <<>>, <<>>)
Empty == Response("NOERROR", TRUE, <<>>, <<>>, <<>>)
ToZone1 == Response("NOERROR", FALSE, <<>>, <<ns2Zone1, ns1Zone1>>, <<glueNs1, glueNs2>>)
ToZone2 == Response("NOERROR", FALSE, <<>>, <<nsxZone2>>, <<>>)

Alias(name) ==
    CASE name = "www" -> cnameWww
      [] name = "old" -> cnameOld
      [] name = "x"   -> cnameX
      [] name = "y"   -> cnameY

(* What each server answers when it can be reached. *)
RootServes(q) ==
    CASE q.name = "svc" -> ToZone2
      [] q.name = "top" -> Empty
      [] OTHER          -> ToZone1

Ns1Serves(q) ==
    CASE q.name \in {"www", "old", "x", "y"} -> Says(<<Alias(q.name)>>)
      [] q.name = "mid"                      -> AliasOfNone
      [] q.name = "gone"                     -> NoSuchName
      [] q.name = "host" /\ q.type = "A"     -> Says(<<hostA>>)
      [] q.name = "nsx" /\ q.type = "A"      -> Says(<<nsxA>>)
      [] q.name = "svc"                      -> Refused
      [] OTHER                               -> NoSuchRecord

Ns2Serves(q) == IF q.name = "host" THEN Refused ELSE ToZone1

NsxServes(q) ==
    CASE q.name # "svc" -> Refused
      [] q.type = "A"   -> Says(<<svcA>>)
      [] OTHER          -> Empty

Serves(s, q) ==
    CASE s = Root -> RootServes(q)
      [] s = "a1" -> Ns1Serves(q)
      [] s = "a2" -> Ns2Serves(q)
      [] s = "a3" -> NsxServes(q)
      [] s = "ip" -> NoPacket

(* Every server can be unreachable at any time. *)
Unreliable ==
    [s \in MCAddress \cup {Root} |-> [q \in [name : MCName, type : MCType] |->
        {Serves(s, q), NoPacket}]]

(* Only the second nameserver of zone 1 can. *)
Reliable ==
    [s \in MCAddress \cup {Root} |-> [q \in [name : MCName, type : MCType] |->
        IF s = "a2" THEN {Serves(s, q), NoPacket} ELSE {Serves(s, q)}]]

Ask(name) == [name |-> name, type |-> "A"]
AskAcyclic == {Ask("www"), Ask("old"), Ask("svc")}
AskAcyclicAndTop == AskAcyclic \cup {Ask("top")}
AskDirect == {Ask("host")}
AskChain == {Ask("www"), Ask("host")}
AskLoop == {Ask("x")}

=============================================================================
