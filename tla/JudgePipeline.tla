---------------------------- MODULE JudgePipeline ----------------------------
(***************************************************************************)
(* The way of one submission from its outbox row to its result receipt:    *)
(* copies of the message in RabbitMQ, judge nodes that consume them        *)
(* (mq_consumer.hpp on MQConsumer of mq_client.hpp), the inbox in Redis    *)
(* (InboxScripts) and the callback UpdateJudgeResult.  Messages do not     *)
(* interact: rows, inbox keys and receipts are keyed by message_id.        *)
(*                                                                         *)
(* The payload is the one stored in the row, so every copy has the same    *)
(* body.  The broker keeps durable copies; a copy delivered to a node goes *)
(* back to the queue when the node's channel dies.  A node keeps working   *)
(* on a delivery whose channel has died, but its acks are then ignored     *)
(* (IsCurrent compares channel generations).                               *)
(***************************************************************************)
EXTENDS InboxScripts, FiniteSets

CONSTANTS
  Nodes,        \* deliveries that can be in progress, each on its own channel
  Copies,       \* bound on the copies of the message alive at once
  RetryLimit,   \* 3 in ResolveDeliveryAction
  MaxSends,     \* bound on the publishes of the outbox row
  MaxFaults     \* bound on lost channels, crashes and failing services

ASSUME PipelineConstants ==
  /\ RetryLimit \in Nat /\ MaxSends \in Nat /\ MaxFaults \in Nat
  /\ Bodies # {} /\ IsFiniteSet(Nodes)

VARIABLES
  row,          \* the outbox row: "none", "open", "PUBLISHED" or "DEAD"
  sends,        \* publishes of the row so far
  copy,         \* copy[k]: where copy k is and its oj-retry-count
  deadLettered, \* some copy reached the dead-letter queue
  node,         \* node[n]: what node n does with its delivery
  hash,         \* the inbox hash of the message
  receipt,      \* the persisted result, or None
  faults

vars == <<row, sends, copy, deadLettered, node, hash, receipt, faults>>

TheBody == CHOOSE b \in Bodies : TRUE

At(where, retries) == [at |-> where, retries |-> retries]

Gone == At("gone", 0)

\* A delivery: the copy, whether its channel is still the current one, the
\* claim token, the result, and what to do next.
Delivery(pc, k, current, token, r) ==
  [pc |-> pc, copy |-> k, current |-> current, token |-> token, result |-> r]

Idle == Delivery("idle", None, FALSE, 0, None)

\* retry counts beyond the limit are not told apart
RetryCounts == 0 .. RetryLimit + 1

TypeOK ==
  /\ row \in {"none", "open", "PUBLISHED", "DEAD"}
  /\ sends \in 0 .. MaxSends
  /\ copy \in [Copies -> [at : {"gone", "ready", "delayed", "held"}, retries : RetryCounts]]
  /\ deadLettered \in BOOLEAN
  /\ node \in [Nodes ->
       [pc : {"idle", "claim", "judging", "judged", "report", "ack", "retry", "deadletter"},
        copy : Copies \cup {None}, current : BOOLEAN, token : Nat,
        result : Results \cup {None}]]
  /\ hash \in HashType
  /\ receipt \in Results \cup {None}
  /\ faults \in 0 .. MaxFaults

Init ==
  /\ row = "none" /\ sends = 0
  /\ copy = [k \in Copies |-> Gone]
  /\ deadLettered = FALSE
  /\ node = [n \in Nodes |-> Idle]
  /\ hash = NoHash
  /\ receipt = None
  /\ faults = 0

\* RandomToken: a token nobody holds.
FreshToken ==
  CHOOSE t \in 1 .. Cardinality(Nodes) + 2 :
    t # hash.owner /\ \A n \in Nodes : node[n].token # t

Fault == faults < MaxFaults /\ faults' = faults + 1

Goto(n, pc) ==
  node' = [node EXCEPT ![n] = Delivery(pc, @.copy, @.current, @.token, @.result)]

-----------------------------------------------------------------------------
\* CreateSubmissionWithOutbox.
Create ==
  /\ row = "none"
  /\ row' = "open"
  /\ UNCHANGED <<sends, copy, deadLettered, node, hash, receipt, faults>>

\* A publish of the row reaches the queue; its confirm may or may not be seen.
Send ==
  /\ row = "open" /\ sends < MaxSends
  /\ sends' = sends + 1
  /\ \E k \in Copies :
       /\ copy[k].at = "gone"
       /\ copy' = [copy EXCEPT ![k] = At("ready", 0)]
  /\ row' \in {"open", "PUBLISHED"}
  /\ UNCHANGED <<deadLettered, node, hash, receipt, faults>>

\* MarkOutboxTerminal gives up the row.
GiveUp ==
  /\ row = "open"
  /\ row' = "DEAD"
  /\ UNCHANGED <<sends, copy, deadLettered, node, hash, receipt, faults>>

\* The broker delivers a copy to HandleMessage of a node.
Deliver(n, k) ==
  /\ node[n].pc = "idle" /\ copy[k].at = "ready"
  /\ copy' = [copy EXCEPT ![k] = At("held", @.retries)]
  /\ node' = [node EXCEPT ![n] = Delivery("claim", k, TRUE, 0, None)]
  /\ UNCHANGED <<row, sends, deadLettered, hash, receipt, faults>>

\* The delay of a copy in the retry queue is over.
DelayOver(k) ==
  /\ copy[k].at = "delayed"
  /\ copy' = [copy EXCEPT ![k] = At("ready", @.retries)]
  /\ UNCHANGED <<row, sends, deadLettered, node, hash, receipt, faults>>

\* HandleMessage: where each reply of the claim leads.
Claim(n) ==
  LET reply == ClaimReply(hash, TheBody)
      d == node[n]
  IN  /\ d.pc = "claim"
      /\ hash' = ClaimEffect(hash, TheBody, FreshToken)
      /\ node' = [node EXCEPT ![n] =
           IF reply = "STARTED" THEN Delivery("judging", d.copy, d.current, FreshToken, None)
           ELSE IF reply = "COMPLETED" THEN Delivery("report", d.copy, d.current, 0, hash.result)
           ELSE Delivery(IF reply = "CONFLICT" THEN "deadletter" ELSE "retry",
                         d.copy, d.current, 0, None)]
      /\ UNCHANGED <<row, sends, copy, deadLettered, receipt, faults>>

\* ClaimResult::Error, with or without the script having run.
ClaimFails(n) ==
  /\ node[n].pc = "claim" /\ Fault
  /\ hash' \in {hash, ClaimEffect(hash, TheBody, FreshToken)}
  /\ Goto(n, "retry")
  /\ UNCHANGED <<row, sends, copy, deadLettered, receipt>>

\* The event loop calls the completion callback with a result.
Judge(n, r) ==
  /\ node[n].pc = "judging"
  /\ node' = [node EXCEPT ![n] = Delivery("judged", @.copy, @.current, @.token, r)]
  /\ UNCHANGED <<row, sends, copy, deadLettered, hash, receipt, faults>>

\* The completion callback stores the result before reporting it.
Complete(n) ==
  LET d == node[n]
      reply == CompleteReply(hash, TheBody, d.token, d.result)
  IN  /\ d.pc = "judged"
      /\ hash' = CompleteEffect(hash, TheBody, d.token, d.result)
      /\ Goto(n, IF reply = "COMPLETED" THEN "report"
                 ELSE IF reply = "CONFLICT" THEN "deadletter" ELSE "retry")
      /\ UNCHANGED <<row, sends, copy, deadLettered, receipt, faults>>

CompleteFails(n) ==
  LET d == node[n]
  IN  /\ d.pc = "judged" /\ Fault
      /\ hash' \in {hash, CompleteEffect(hash, TheBody, d.token, d.result)}
      /\ Goto(n, "retry")
      /\ UNCHANGED <<row, sends, copy, deadLettered, receipt>>

\* ResultReporter and UpdateJudgeResult: the first result is persisted, the
\* same result again is idempotent, another one is rejected.
Report(n) ==
  LET r == node[n].result
  IN  /\ node[n].pc = "report"
      /\ receipt' = IF receipt = None THEN r ELSE receipt
      /\ Goto(n, IF receipt \in {None, r} THEN "ack" ELSE "deadletter")
      /\ UNCHANGED <<row, sends, copy, deadLettered, hash, faults>>

\* RETRYABLE_FAILURE, or no answer in 5 s although the result was applied.
ReportFails(n) ==
  /\ node[n].pc = "report" /\ Fault
  /\ receipt' \in {receipt, IF receipt = None THEN node[n].result ELSE receipt}
  /\ Goto(n, "retry")
  /\ UNCHANGED <<row, sends, copy, deadLettered, hash>>

\* GetOutbox fails with an exception: UpdateJudgeResult answers REJECTED as if
\* there were no such task.
OutboxUnreadable(n) ==
  /\ node[n].pc = "report" /\ Fault
  /\ Goto(n, "deadletter")
  /\ UNCHANGED <<row, sends, copy, deadLettered, hash, receipt>>

\* A retry that gives the copy up once it has been retried often enough.
BugRetry(n) ==
  /\ node[n].pc = "retry" /\ node[n].current
  /\ IF copy[node[n].copy].retries >= RetryLimit THEN UNCHANGED copy
     ELSE \E k \in Copies : copy[k].at = "gone"
            /\ copy' = [copy EXCEPT ![k] = At("delayed", copy[node[n].copy].retries + 1)]
  /\ Goto(n, "ack")
  /\ UNCHANGED <<row, sends, deadLettered, hash, receipt, faults>>

\* The oj-retry-count of the forwarded copy.
NextRetry(retries) == IF retries > RetryLimit THEN retries ELSE retries + 1

\* Retry: RetryOrDeadLetter ends here whatever the retry count.  The copy in
\* the retry queue is confirmed before the delivery is acked.
Retry(n) ==
  /\ node[n].pc = "retry" /\ node[n].current
  /\ \E k \in Copies :
       /\ copy[k].at = "gone"
       /\ copy' = [copy EXCEPT ![k] =
            At("delayed", NextRetry(copy[node[n].copy].retries))]
  /\ Goto(n, "ack")
  /\ UNCHANGED <<row, sends, deadLettered, hash, receipt, faults>>

DeadLetter(n) ==
  /\ node[n].pc = "deadletter" /\ node[n].current
  /\ deadLettered' = TRUE
  /\ Goto(n, "ack")
  /\ UNCHANGED <<row, sends, copy, hash, receipt, faults>>

\* RecoverForwardFailure: the forward was nacked or unroutable.
ForwardFails(n) ==
  /\ node[n].pc \in {"retry", "deadletter"} /\ node[n].current /\ Fault
  /\ copy' = [copy EXCEPT ![node[n].copy] = At("ready", @.retries)]
  /\ node' = [node EXCEPT ![n] = Idle]
  /\ UNCHANGED <<row, sends, deadLettered, hash, receipt>>

Ack(n) ==
  /\ node[n].pc = "ack" /\ node[n].current
  /\ copy' = [copy EXCEPT ![node[n].copy] = Gone]
  /\ node' = [node EXCEPT ![n] = Idle]
  /\ UNCHANGED <<row, sends, deadLettered, hash, receipt, faults>>

\* Ack, Retry and DeadLetter for a delivery of an earlier channel do nothing.
StaleDelivery(n) ==
  /\ node[n].pc \in {"ack", "retry", "deadletter"} /\ ~node[n].current
  /\ node' = [node EXCEPT ![n] = Idle]
  /\ UNCHANGED <<row, sends, copy, deadLettered, hash, receipt, faults>>

\* The channel dies: the broker requeues the copy, the node works on.
ChannelLost(n) ==
  LET d == node[n]
  IN  /\ d.current /\ Fault
      /\ copy' = [copy EXCEPT ![d.copy] = At("ready", @.retries)]
      /\ node' = [node EXCEPT ![n] = Delivery(d.pc, None, FALSE, d.token, d.result)]
      /\ UNCHANGED <<row, sends, deadLettered, hash, receipt>>

\* The node dies, or stops with the delivery unfinished.
Crash(n) ==
  LET d == node[n]
  IN  /\ d.pc # "idle" /\ Fault
      /\ copy' = IF d.current THEN [copy EXCEPT ![d.copy] = At("ready", @.retries)] ELSE copy
      /\ node' = [node EXCEPT ![n] = Idle]
      /\ UNCHANGED <<row, sends, deadLettered, hash, receipt>>

\* A node that judges under the claim stored in the hash.
Holder(n) == node[n].pc \in {"judging", "judged"} /\ node[n].token = hash.owner

\* The lease runs out.  It is 30 s longer than the deadline of the judge task,
\* so running out under a live holder is a fault.
LeaseExpires ==
  /\ hash.leased
  /\ hash' = LeaseOver(hash)
  /\ IF \E n \in Nodes : Holder(n) THEN Fault ELSE UNCHANGED faults
  /\ UNCHANGED <<row, sends, copy, deadLettered, node, receipt>>

\* PEXPIRE: a claim some time after its lease, a result after days (a report
\* that has read it takes seconds).
KeyExpires ==
  /\ hash.state # "none" /\ ~hash.leased
  /\ \A n \in Nodes : node[n].pc # "report"
  /\ Fault
  /\ hash' = NoHash
  /\ UNCHANGED <<row, sends, copy, deadLettered, node, receipt>>

\* One step of a node, its broker and services doing their work.
Work(n) ==
  \/ Claim(n) \/ Complete(n) \/ Report(n) \/ Retry(n) \/ DeadLetter(n)
  \/ Ack(n) \/ StaleDelivery(n)
  \/ \E k \in Copies : Deliver(n, k)
  \/ \E r \in Results : Judge(n, r)

Fails(n) ==
  \/ ClaimFails(n) \/ CompleteFails(n) \/ ReportFails(n) \/ OutboxUnreadable(n)
  \/ ForwardFails(n) \/ ChannelLost(n) \/ Crash(n)

Next ==
  \/ Create \/ Send \/ GiveUp
  \/ \E n \in Nodes : Work(n) \/ Fails(n)
  \/ \E k \in Copies : DelayOver(k)
  \/ LeaseExpires \/ KeyExpires

Spec == Init /\ [][Next]_vars

-----------------------------------------------------------------------------
\* A submission without a result is never silently lost: its row is still
\* open, or the broker has a copy, or a copy was dead-lettered, or the row was
\* given up and the user told (README: errors are not lost silently).
NothingSilentlyLost ==
  row # "none" /\ receipt = None =>
    \/ row \in {"open", "DEAD"}
    \/ \E k \in Copies : copy[k].at # "gone"
    \/ deadLettered

\* A published submission is judged, or an operator finds it in the
\* dead-letter queue, once the failures stop.
PublishedIsJudged ==
  []<>(row = "PUBLISHED" => receipt # None \/ deadLettered)

\* Only a result that contradicts the persisted one is dead-lettered; a
\* transient failure goes to the retry queue (README: transient failures enter
\* the retry queue).
OnlyConflictsDeadLettered ==
  deadLettered => receipt # None

\* A copy that has been retried up to the limit goes to the dead-letter queue
\* (README: after the limit it enters the dead-letter queue).
RetriesEndAtLimit ==
  \A k \in Copies : copy[k].retries <= RetryLimit
=============================================================================
