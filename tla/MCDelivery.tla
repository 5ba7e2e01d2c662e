----------------------------- MODULE MCDelivery -----------------------------
(***************************************************************************)
(* The deliveries of a judge task, seen twice: by the inbox, with three    *)
(* workers and two bodies for one message id, and by the whole path from   *)
(* the outbox row to the receipt, with two deliveries in progress and      *)
(* three copies alive at most.  The two models share no state: part,       *)
(* chosen at the start, names the one a behaviour is about and the other   *)
(* stays as it starts.                                                     *)
(***************************************************************************)
EXTENDS JudgeInbox, TLC

CONSTANTS Nodes, Copies, RetryLimit, MaxSends, MaxFaults

VARIABLES row, sends, copy, deadLettered, node, hash, receipt, faults, part

pipelineVars == <<row, sends, copy, deadLettered, node, hash, receipt, faults>>

Pipeline == INSTANCE JudgePipeline

DeliveryInit == part \in {"inbox", "pipeline"} /\ Init /\ Pipeline!Init

DeliveryNext ==
  /\ UNCHANGED part
  /\ \/ part = "inbox" /\ Next /\ UNCHANGED pipelineVars
     \/ part = "pipeline" /\ Pipeline!Next /\ UNCHANGED vars

DeliverySpec == DeliveryInit /\ [][DeliveryNext]_<<vars, pipelineVars, part>>

Symmetry ==
  Permutations(Workers) \cup Permutations(Results)
    \cup Permutations(Nodes) \cup Permutations(Copies)

\* JudgePipeline's promise: a task whose outbox row was sent is on its way, has
\* its receipt, or is in the dead-letter queue.
NothingSilentlyLost == Pipeline!NothingSilentlyLost

=============================================================================
