------------------------ MODULE MCRootServerManager ------------------------
(* RootServerManager with callers as model values.  Callers run the same   *)
(* code, so permuting them changes nothing a safety property can see.      *)
EXTENDS RootServerManager, TLC

Callers == Permutations(Caller)

=============================================================================
