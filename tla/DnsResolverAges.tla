-------------------------- MODULE DnsResolverAges --------------------------
(***************************************************************************)
(* DnsResolver with a history of when the records of answer sections last  *)
(* came from a server, to compare what the cache keeps with how old it is. *)
(* A record counts as brand new until the client's query that fetched it   *)
(* has been answered, so that the duration of a lookup is no argument.     *)
(* The history takes no part in the behaviour of lookup.                   *)
(***************************************************************************)
EXTENDS DnsResolver

VARIABLES
    fetched,           \* the records fetched for the query that is being answered
    received           \* the last time at which each record was brand new

agedVars == <<vars, fetched, received>>

(* A reply has arrived when an activation comes to the top of the referral *)
(* loop, from asking the root or a nameserver.                             *)
Arrived ==
    IF ~At("referral") /\ At("referral")' /\ Top'.response # NoPacket
        THEN ToSet(Top'.response.answers)
        ELSE {}

NoteAges ==
    /\ fetched' = IF stack' = <<>> THEN {} ELSE fetched \cup Arrived
    /\ received' = [r \in Record |-> IF r \in fetched \cup Arrived THEN now' ELSE received[r]]

AgedInit == Init /\ fetched = {} /\ received = [r \in Record |-> 0]
AgedNext == Next /\ NoteAges

AgedSpec == AgedInit /\ [][AgedNext]_agedVars

(* "Thread-safe cache with TTL": no entry is kept beyond the moment at     *)
(* which a record of it, counted from when it last came from a server,     *)
(* reaches its TTL.                                                        *)
TtlRespected ==
    \A k \in Cache!Key : cache[k] # NoEntry =>
       \A r \in ToSet(cache[k].records) :
          r.ttl > 0 => cache[k].expires <= received[r] + r.ttl

=============================================================================
