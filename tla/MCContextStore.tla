--------------------------- MODULE MCContextStore ---------------------------
(* ContextStore for TLC.  Ids are given out in order, so no symmetry.      *)
EXTENDS ContextStore

=============================================================================
