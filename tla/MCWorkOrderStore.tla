--------------------------- MODULE MCWorkOrderStore ---------------------------
(* Instance of WorkOrderStore: callers are interchangeable, and so are the *)
(* ids, identities and keys they choose from.                              *)
EXTENDS WorkOrderStore, TLC

Symmetry ==
  Permutations(Orders) \cup Permutations(Identities)
    \cup Permutations(Keys) \cup Permutations(Writers)

=============================================================================
