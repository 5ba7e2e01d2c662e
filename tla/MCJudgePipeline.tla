--------------------------- MODULE MCJudgePipeline ---------------------------
(***************************************************************************)
(* Two deliveries of copies of one message, three copies alive at most.    *)
(* Symmetry is used by the safety runs only.                               *)
(***************************************************************************)
EXTENDS JudgePipeline, TLC

Symmetry == Permutations(Nodes) \cup Permutations(Copies) \cup Permutations(Results)
=============================================================================
