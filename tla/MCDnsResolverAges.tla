------------------------- MODULE MCDnsResolverAges -------------------------
(* DnsResolverAges in the world of MCDnsResolver. *)
EXTENDS MCDnsResolver, DnsResolverAges

=============================================================================
