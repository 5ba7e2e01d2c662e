--------------------------- MODULE MCDatabaseLive ---------------------------
(***************************************************************************)
(* What must eventually happen in MySQL: the outbox rows are settled, and  *)
(* the transactions on solutions and comments end.  The two share no rows: *)
(* part, chosen at the start, names the one a behaviour is about and the   *)
(* other stays as it starts.                                               *)
(***************************************************************************)
EXTENDS OutboxPublisher, Discussion

VARIABLE part

DatabaseInit == part \in {"outbox", "discussion"} /\ Init /\ DiscussionInit

DatabaseNext ==
  /\ UNCHANGED part
  /\ \/ part = "outbox" /\ Next /\ UNCHANGED discussionVars
     \/ part = "discussion" /\ DiscussionNext /\ UNCHANGED vars

\* The threads run and the clocks advance; the broker owes nothing.  A
\* connection runs on, InnoDB grants a lock that is free time and again, and
\* resolves every cycle.
DatabaseFairness ==
  /\ \A p \in Publishers : WF_vars(part = "outbox" /\ Step(p))
  /\ \A m \in Messages : WF_vars(part = "outbox" /\ LeaseExpires(m) /\ UNCHANGED pubVars)
                        /\ WF_vars(part = "outbox" /\ RetryDue(m) /\ UNCHANGED pubVars)
                        /\ WF_vars(part = "outbox" /\ GrowOld(m) /\ UNCHANGED pubVars)
  /\ \A p \in Publishers, m \in Messages : WF_vars(part = "outbox" /\ ConfirmDeadline(p, m))
  /\ \A s \in Sessions : /\ SF_discussionVars(part = "discussion" /\ LockStep(s))
                         /\ WF_discussionVars(part = "discussion" /\ CommitStep(s))
                         /\ WF_discussionVars(part = "discussion" /\ DeadlockVictim(s))

DatabaseSpec == DatabaseInit /\ [][DatabaseNext]_<<vars, discussionVars, part>> /\ DatabaseFairness
=============================================================================
