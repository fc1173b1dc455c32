------------------------ MODULE MCWorkOrderLifecycle ------------------------
(* WorkOrderLifecycle for TLC.  The ids are interchangeable: no operator   *)
(* of the aggregate tells two inputs, blockers, nonconformities or         *)
(* artifacts apart.                                                        *)
EXTENDS WorkOrderLifecycle, TLC

Symmetry ==
  Permutations(Inputs) \cup Permutations(Blockers) \cup
  Permutations(Nonconformities) \cup Permutations(Artifacts)

=============================================================================
