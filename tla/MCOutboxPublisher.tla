------------------------- MODULE MCOutboxPublisher -------------------------
(***************************************************************************)
(* Two instances on one row; a batch is run in MCTables.                   *)
(* Symmetry is used by the safety run only.                                *)
(***************************************************************************)
EXTENDS OutboxPublisher, TLC

Symmetry ==
  Permutations(Publishers)

=============================================================================
