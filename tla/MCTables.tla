------------------------------ MODULE MCTables ------------------------------
(***************************************************************************)
(* Overlapping transactions on the tables of the judge and on those of the *)
(* discussions, which share no rows: part, chosen at the start, names the  *)
(* ones a behaviour is about and the others stay as they start.            *)
(* Two messages make a claim a batch with terminal and live rows; one      *)
(* publisher and two callers give every pair of overlapping transactions   *)
(* that touch a submission (MCOutboxPublisher has two publishers on one    *)
(* row).  Two users, so that an account is deleted while the comments and  *)
(* actions of another one stay (MCDatabaseLive has three comments).        *)
(***************************************************************************)
EXTENDS SubmissionStore, Discussion, TLC

VARIABLE part

TablesInit == part \in {"judge", "discussion"} /\ StoreInit /\ DiscussionInit

TablesNext ==
  /\ UNCHANGED part
  /\ \/ part = "judge" /\ StoreNext /\ UNCHANGED discussionVars
     \/ part = "discussion" /\ DiscussionNext /\ UNCHANGED storeVars

TablesSpec == TablesInit /\ [][TablesNext]_<<storeVars, discussionVars, part>>

Symmetry ==
  Permutations(Messages) \cup Permutations(Callers) \cup Permutations(Results)
    \cup Permutations(Sessions) \cup Permutations(Users)
=============================================================================
