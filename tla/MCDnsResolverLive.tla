------------------------- MODULE MCDnsResolverLive -------------------------
(* The world of MCDnsResolver meets the hypotheses of the theorems: its    *)
(* servers connect their answers, and its questions can be ranked by how   *)
(* many lookups nest below them, but for those in the CNAME loop.          *)
EXTENDS MCDnsResolver

MCRank ==
    [q \in Question |->
        CASE q.name \in {"x", "y"}            -> MaxDepth
          [] q.name = "old"                   -> 2
          [] q.name \in {"www", "mid", "svc"} -> 1
          [] OTHER                            -> 0]

ASSUME WorldConnects == ServersConnect
ASSUME WorldDescends == NamesDescend(MCRank)

=============================================================================
