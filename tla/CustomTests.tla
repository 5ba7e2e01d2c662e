---------------------------- MODULE CustomTests -----------------------------
(***************************************************************************)
(* The state a client polls for a custom test or a guest's submission: the *)
(* key judge:custom:<task id> in Redis.  Four parties write it: the        *)
(* request that creates the task, the publisher that recovers a missing    *)
(* state after a claim, the judge's callbacks and the expiry               *)
(* (oj_service_impl.cpp, model_submission.hpp).  A behaviour is about one  *)
(* task.                                                                   *)
(*                                                                         *)
(* A custom test has an outbox row and a receipt in MySQL; a guest's       *)
(* submission has neither, only the key.  ApplyJudgeResult is one step     *)
(* here; SubmissionStore has its transactions.                             *)
(***************************************************************************)
EXTENDS Naturals

CONSTANTS
  Reporters,       \* judge nodes with a result for the task
  TestResults,
  MaxClaims,       \* bound: claims of the outbox row
  MaxTaskErrors,   \* bound: failing calls of Redis, MySQL and the callback RPC
  NoState

ASSUME TaskConstants ==
  /\ NoState \notin TestResults /\ NoState # "QUEUED"
  /\ "QUEUED" \notin TestResults
  /\ MaxClaims \in Nat /\ MaxTaskErrors \in Nat

VARIABLES
  taskKind,     \* "custom" or "guest"
  creator,      \* where CreateCustomTest or CreateSubmission is
  outboxRow,    \* the row of a custom test is committed
  sender,       \* where the publisher is with the row
  claims,
  published,    \* the message has reached the queue
  receipt,      \* judge_result_receipts
  state,        \* judge:custom:<task id>
  reporter,     \* reporter[j]: where the callback of j is, and its result
  clock,        \* "live", the "last" second before expires_at, "expired"
  acked,        \* history: results answered PERSISTED or IDEMPOTENT
  hidden,       \* history: who replaced a final state
  misread,      \* history: a failed read was taken for a missing task
  taskErrors

taskVars == <<taskKind, creator, outboxRow, sender, claims, published, receipt, state,
              reporter, clock, acked, hidden, misread, taskErrors>>

Reporter(pc, r) == [pc |-> pc, result |-> r]

TasksInit ==
  /\ taskKind \in {"custom", "guest"}
  /\ creator = "start"
  /\ outboxRow = FALSE /\ sender = "idle" /\ claims = 0 /\ published = FALSE
  /\ receipt = NoState /\ state = NoState
  /\ reporter = [j \in Reporters |-> Reporter("idle", NoState)]
  /\ clock = "live"
  /\ acked = {} /\ hidden = {} /\ misread = FALSE /\ taskErrors = 0

TaskError ==
  /\ taskErrors < MaxTaskErrors
  /\ taskErrors' = taskErrors + 1

\* Party p replaces the state by s.
Write(p, s) ==
  /\ state' = s
  /\ hidden' = IF state \in TestResults THEN hidden \cup {p} ELSE hidden

-----------------------------------------------------------------------------
\* CreateCustomTest commits the row, then writes the state; an error of the
\* latter is logged.
CreateOutbox ==
  /\ taskKind = "custom" /\ creator = "start"
  /\ outboxRow' = TRUE
  /\ creator' = "write"
  /\ UNCHANGED <<taskKind, sender, claims, published, receipt, state, reporter, clock, acked, hidden, taskErrors, misread>>

CreateState ==
  /\ taskKind = "custom" /\ creator = "write"
  /\ \/ Write("create", "QUEUED") /\ UNCHANGED taskErrors
     \/ TaskError /\ UNCHANGED <<state, hidden>>
  /\ creator' = "done"
  /\ UNCHANGED <<taskKind, outboxRow, sender, claims, published, receipt, reporter, clock, acked, misread>>

\* A guest's submission that is published before its state is written.
BugGuestOrder == <<"publish", "write">>

\* CreateSubmission for a guest writes the state, then publishes.
GuestOrder == <<"write", "publish">>

GuestAt(step) ==
  /\ taskKind = "guest"
  /\ creator = (IF GuestOrder[1] = step THEN "start" ELSE "second")

AfterGuest(step) == IF GuestOrder[1] = step THEN "second" ELSE "wait"

GuestState ==
  /\ GuestAt("write")
  /\ \/ /\ Write("create", "QUEUED")
        /\ creator' = AfterGuest("write")
        /\ UNCHANGED taskErrors
     \/ /\ TaskError
        /\ creator' = "failed"
        /\ UNCHANGED <<state, hidden>>
  /\ UNCHANGED <<taskKind, outboxRow, sender, claims, published, receipt, reporter, clock, acked, misread>>

GuestPublish ==
  /\ GuestAt("publish")
  /\ published' = TRUE
  /\ creator' = AfterGuest("publish")
  /\ UNCHANGED <<taskKind, outboxRow, sender, claims, receipt, state, reporter, clock, acked, hidden, taskErrors, misread>>

\* PublishTransientTask is refused, nacked, or not confirmed within 5 seconds:
\* the state is deleted, whether or not the message is in the queue.
GuestWithdraw ==
  /\ GuestAt("publish") \/ (taskKind = "guest" /\ creator = "wait")
  /\ \/ Write("withdraw", NoState) /\ UNCHANGED taskErrors
     \/ TaskError /\ UNCHANGED <<state, hidden>>
  /\ creator' = "failed"
  /\ UNCHANGED <<taskKind, outboxRow, sender, claims, published, receipt, reporter, clock, acked, misread>>

GuestConfirmed ==
  /\ taskKind = "guest" /\ creator = "wait"
  /\ creator' = "done"
  /\ UNCHANGED <<taskKind, outboxRow, sender, claims, published, receipt, state, reporter, clock, acked, hidden, taskErrors, misread>>

-----------------------------------------------------------------------------
\* ClaimPendingOutbox, again after a lost confirm.
Claim ==
  /\ outboxRow /\ sender = "idle" /\ claims < MaxClaims
  /\ claims' = claims + 1
  /\ sender' = "look"
  /\ UNCHANGED <<taskKind, creator, outboxRow, published, receipt, state, reporter, clock, acked, hidden, taskErrors, misread>>

\* RecoverCustomTaskCache: GET (an error reads as a miss) ...
RecoverLook ==
  /\ sender = "look"
  /\ \/ /\ sender' = IF clock # "expired" /\ state = NoState THEN "recover" ELSE "send"
        /\ UNCHANGED taskErrors
     \/ /\ clock # "expired" /\ TaskError
        /\ sender' = "recover"
  /\ UNCHANGED <<taskKind, creator, outboxRow, claims, published, receipt, state, reporter, clock, acked, hidden, misread>>

\* ... and SETEX ...
RecoverState ==
  /\ sender = "recover"
  /\ \/ Write("recover", "QUEUED") /\ UNCHANGED taskErrors
     \/ TaskError /\ UNCHANGED <<state, hidden>>
  /\ sender' = "send"
  /\ UNCHANGED <<taskKind, creator, outboxRow, claims, published, receipt, reporter, clock, acked, misread>>

\* ... before the message is published.
Send ==
  /\ sender = "send"
  /\ sender' = "idle"
  /\ published' \in {published, TRUE}
  /\ UNCHANGED <<taskKind, creator, outboxRow, claims, receipt, state, reporter, clock, acked, hidden, taskErrors, misread>>

-----------------------------------------------------------------------------
Step(j, pc) == reporter' = [reporter EXCEPT ![j] = Reporter(pc, @.result)]

\* A judge node reports the result it has; a retry reports the same one.
Report(j, r) ==
  /\ published
  /\ reporter[j].pc = "idle" \/ (reporter[j].pc = "retry" /\ reporter[j].result = r)
  /\ reporter' = [reporter EXCEPT ![j] = Reporter("load", r)]
  /\ UNCHANGED <<taskKind, creator, outboxRow, sender, claims, published, receipt, state, clock, acked, hidden, taskErrors, misread>>

\* UpdateJudgeResult up to the check of expires_at.  A guest's task is known by
\* its state only; REJECTED ends the reports of this node.
LoadTask(j) ==
  /\ reporter[j].pc = "load"
  /\ Step(j, IF clock = "expired" \/ (taskKind = "guest" /\ state = NoState) THEN "rejected"
           ELSE IF taskKind = "guest" THEN "store" ELSE "apply")
  /\ UNCHANGED <<taskKind, creator, outboxRow, sender, claims, published, receipt, state, clock, acked, hidden, taskErrors, misread>>

\* A callback that writes the state for a new receipt only.
BugAfterIdempotent == "answered"

AfterIdempotent == "store"

\* ApplyJudgeResult.
ApplyReceipt(j) ==
  LET r == reporter[j].result
  IN  /\ reporter[j].pc = "apply"
      /\ Step(j, IF receipt = NoState THEN "store"
               ELSE IF receipt = r THEN AfterIdempotent ELSE "rejected")
      /\ receipt' = IF receipt = NoState THEN r ELSE receipt
      /\ UNCHANGED <<taskKind, creator, outboxRow, sender, claims, published, state, clock, acked, hidden, taskErrors, misread>>

\* A time to live of at least one second.
BugTtlPositive == TRUE

\* SETEX fails when the seconds left, rounded down, are not positive.
TtlPositive == clock = "live"

\* The final state, and the answer PERSISTED or IDEMPOTENT.
StoreFinal(j) ==
  LET r == reporter[j].result
  IN  /\ reporter[j].pc = "store" /\ TtlPositive
      /\ state' = r
      /\ acked' = acked \cup {r}
      /\ Step(j, "acked")
      /\ UNCHANGED <<taskKind, creator, outboxRow, sender, claims, published, receipt, clock, hidden, taskErrors, misread>>

\* A callback that only logs an error of the last write.
BugAckedAnyway(r) == acked \cup {r}

AckedAnyway(r) == acked

\* The state cannot be written: RETRYABLE_FAILURE.
StoreFails(j) ==
  /\ reporter[j].pc = "store"
  /\ \/ ~TtlPositive /\ UNCHANGED taskErrors
     \/ TaskError
  /\ acked' = AckedAnyway(reporter[j].result)
  /\ Step(j, "retry")
  /\ UNCHANGED <<taskKind, creator, outboxRow, sender, claims, published, receipt, state, clock, hidden, misread>>

\* The callback fails or its answer is lost, anywhere.
CallbackFails(j) ==
  /\ reporter[j].pc \in {"load", "apply", "store", "acked"} /\ TaskError
  /\ Step(j, "retry")
  /\ UNCHANGED <<taskKind, creator, outboxRow, sender, claims, published, receipt, state, clock, acked, hidden, misread>>

\* GetOutbox, or the read of a guest's state, fails: the answer is REJECTED, as
\* for a task that does not exist.
LoadFails(j) ==
  /\ reporter[j].pc = "load" /\ TaskError
  /\ Step(j, "rejected")
  /\ misread' = TRUE
  /\ UNCHANGED <<taskKind, creator, outboxRow, sender, claims, published, receipt, state, clock, acked, hidden>>

-----------------------------------------------------------------------------
Tick ==
  /\ clock # "expired"
  /\ clock' = IF clock = "live" THEN "last" ELSE "expired"
  /\ UNCHANGED <<taskKind, creator, outboxRow, sender, claims, published, receipt, state, reporter, acked, hidden, taskErrors, misread>>

StateExpires ==
  /\ clock # "live" /\ state # NoState
  /\ state' = NoState
  /\ UNCHANGED <<taskKind, creator, outboxRow, sender, claims, published, receipt, reporter, clock, acked, hidden, taskErrors, misread>>

\* CleanupExpiredResultReceipts.
CleanupReceipt ==
  /\ clock = "expired" /\ receipt # NoState
  /\ receipt' = NoState
  /\ UNCHANGED <<taskKind, creator, outboxRow, sender, claims, published, state, reporter, clock, acked, hidden, taskErrors, misread>>

CallbackStep(j) ==
  \/ \E r \in TestResults : reporter[j].result = r /\ Report(j, r)
  \/ LoadTask(j) \/ ApplyReceipt(j) \/ StoreFinal(j) \/ StoreFails(j)

TasksNext ==
  \/ CreateOutbox \/ CreateState
  \/ GuestState \/ GuestPublish \/ GuestWithdraw \/ GuestConfirmed
  \/ Claim \/ RecoverLook \/ RecoverState \/ Send
  \/ \E j \in Reporters : \/ CallbackStep(j) \/ CallbackFails(j) \/ LoadFails(j)
                          \/ \E r \in TestResults : Report(j, r)
  \/ Tick \/ StateExpires \/ CleanupReceipt

TasksSpec == TasksInit /\ [][TasksNext]_taskVars

-----------------------------------------------------------------------------
\* Two judge nodes with different results are never both told that theirs was
\* taken, even if the task expires and its receipt is cleaned up between the
\* check of expires_at and the receipt of the second one.
AcksAgree == taskKind = "custom" => \A r, s \in acked : r = s

\* Once a callback was answered PERSISTED or IDEMPOTENT, a poll finds the result
\* until expires_at, unless the creating request or the recovery wrote its
\* QUEUED over it, or a guest's submission was withdrawn.
FinalStaysVisible == acked # {} /\ clock = "live" /\ hidden = {} => state \in acked

\* A guest's submission has no row to fall back on, and a judge node drops a result
\* that is REJECTED.  Yet no result that comes in time is rejected as unknown: the
\* state is written before the message is published, and nothing but a withdrawal
\* or a failing read takes it away.
GuestIsKnown ==
  taskKind = "guest" /\ clock = "live" /\ creator # "failed" /\ ~misread =>
    \A j \in Reporters : reporter[j].pc # "rejected"

\* A receipt is followed by a visible result: a callback that dies after the
\* commit is repeated, found idempotent, and still writes the state.  (Unless the
\* repetition meets a failing read of the outbox, which is answered REJECTED.)
ReceiptBecomesVisible ==
  []<>(receipt # NoState => acked # {} \/ clock # "live" \/ misread)
=============================================================================
