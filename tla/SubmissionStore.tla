--------------------------- MODULE SubmissionStore ---------------------------
(***************************************************************************)
(* The submission tables of ModelSubmission (model_submission.hpp): the    *)
(* outbox row, the submission row, the result receipt and the history row  *)
(* of every message, and the transactions that change them.                *)
(*                                                                         *)
(* MySQL runs at REPEATABLE READ.  ODB's find is a snapshot read without a *)
(* lock, and its update writes every column of the row read before.  So a  *)
(* transaction that finds and then updates is two steps here, Begin (the   *)
(* snapshot) and Commit (the write, with the row locks it takes), and any  *)
(* other commit may fall between them.  ClaimPendingOutbox reads its rows  *)
(* FOR UPDATE SKIP LOCKED: they stay locked from Begin to Commit.          *)
(*                                                                         *)
(* Clock comparisons are flags of the row: leased (lease_expires_at > now) *)
(* and due (next_retry_at null or passed); aged[m] holds when the row is   *)
(* older than kOutboxMaxAgeMicros.  The clients are unconstrained: any     *)
(* publisher may mark any row, any caller may report any result.           *)
(***************************************************************************)
EXTENDS Naturals, FiniteSets

CONSTANTS
  Messages,
  Publishers,    \* outbox publishers, each with its own lease_owner
  Callers,       \* executions of UpdateJudgeResult
  Results,       \* result payloads
  None,
  MaxAttempts    \* kOutboxMaxAttempts

ASSUME StoreConstants ==
  /\ MaxAttempts \in Nat \ {0}
  /\ None \notin Publishers \cup Results
  /\ Publishers \cap Callers = {}

VARIABLES
  outbox,        \* outbox[m]: the judge_outbox row
  submission,    \* submission[m]: status, result and result_version
  receipt,       \* receipt[m]: payload of the judge_result_receipt, or None
  history,       \* history[m]: number of user_submits rows written for m
  aged,          \* aged[m]: created_at is too long ago
  txn            \* txn[x]: the open transaction of publisher or caller x

storeVars == <<outbox, submission, receipt, history, aged, txn>>

Row(status, owner, attempts, leased, due) ==
  [status |-> status, owner |-> owner, attempts |-> attempts,
   leased |-> leased, due |-> due]

NoRow == Row("none", None, 0, FALSE, FALSE)

Sub(status, result, version) ==
  [status |-> status, result |-> result, version |-> version]

RowType ==
  [status : {"none", "PENDING", "SENDING", "PUBLISHED", "DEAD"},
   owner : Publishers \cup {None}, attempts : 0 .. MaxAttempts,
   leased : BOOLEAN, due : BOOLEAN]

SubType ==
  [status : {"none", "QUEUED", "SYSTEM_ERROR", "JUDGED"},
   result : Results \cup {None}, version : Nat]

\* The open transaction: the rows it has locked, those it found terminal, and
\* the snapshots it will write back.
Txn(op, rows, dead, row, subs, result) ==
  [op |-> op, rows |-> rows, dead |-> dead, row |-> row,
   subs |-> subs, result |-> result]

NoSubs == [m \in Messages |-> Sub("none", None, 0)]

NoTxn == Txn("idle", {}, {}, NoRow, NoSubs, None)

TxnType ==
  [op : {"idle", "claim", "published", "failed", "apply"},
   rows : SUBSET Messages, dead : SUBSET Messages, row : RowType,
   subs : [Messages -> SubType], result : Results \cup {None}]

Clients == Publishers \cup Callers

StoreTypeOK ==
  /\ outbox \in [Messages -> RowType]
  /\ submission \in [Messages -> SubType]
  /\ receipt \in [Messages -> Results \cup {None}]
  /\ history \in [Messages -> Nat]
  /\ aged \in [Messages -> BOOLEAN]
  /\ txn \in [Clients -> TxnType]

StoreInit ==
  /\ outbox = [m \in Messages |-> NoRow]
  /\ submission = NoSubs
  /\ receipt = [m \in Messages |-> None]
  /\ history = [m \in Messages |-> 0]
  /\ aged = [m \in Messages |-> FALSE]
  /\ txn = [x \in Clients |-> NoTxn]

Locked == UNION {txn[p].rows : p \in {q \in Publishers : txn[q].op = "claim"}}

-----------------------------------------------------------------------------
\* CreateSubmissionWithOutbox: both rows in one transaction.
Create(m) ==
  /\ outbox[m].status = "none"
  /\ outbox' = [outbox EXCEPT ![m] = Row("PENDING", None, 0, FALSE, TRUE)]
  /\ submission' = [submission EXCEPT ![m] = Sub("QUEUED", None, 0)]
  /\ UNCHANGED <<receipt, history, aged, txn>>

\* A claim that forgets the rows of a publisher that died.
BugClaimable(m) == outbox[m].status = "PENDING" /\ outbox[m].due

\* The rows ClaimPendingOutbox selects.
Claimable(m) ==
  \/ outbox[m].status = "PENDING" /\ outbox[m].due
  \/ outbox[m].status = "SENDING" /\ ~outbox[m].leased

\* The rows it gives up: OUTBOX_EXPIRED or OUTBOX_RETRIES_EXHAUSTED.
Terminal(m) == aged[m] \/ outbox[m].attempts >= MaxAttempts

\* ClaimPendingOutbox up to the last find: the rows are locked, and the
\* submissions of terminal rows are read.
BeginClaim(p) ==
  LET rows == {m \in Messages \ Locked : Claimable(m)}
  IN  /\ txn[p].op = "idle"
      /\ rows # {}
      /\ txn' = [txn EXCEPT ![p] =
           Txn("claim", rows, {m \in rows : Terminal(m)}, NoRow, submission, None)]
      /\ UNCHANGED <<outbox, submission, receipt, history, aged>>

\* MarkOutboxTerminal on the submission read before: written back only if it
\* was still waiting for a result.
DeadSubmission(m, read) ==
  IF read.status = "QUEUED"
  THEN Sub("SYSTEM_ERROR", read.result, read.version + 1)
  ELSE submission[m]

\* ... and its writes: terminal rows become DEAD, the others are leased to p.
CommitClaim(p) ==
  LET t == txn[p]
  IN  /\ t.op = "claim"
      /\ outbox' = [m \in Messages |->
           IF m \in t.dead THEN Row("DEAD", None, outbox[m].attempts, FALSE, outbox[m].due)
           ELSE IF m \in t.rows THEN Row("SENDING", p, outbox[m].attempts + 1, TRUE, TRUE)
           ELSE outbox[m]]
      /\ submission' = [m \in Messages |->
           IF m \in t.dead THEN DeadSubmission(m, t.subs[m]) ELSE submission[m]]
      /\ txn' = [txn EXCEPT ![p] = NoTxn]
      /\ UNCHANGED <<receipt, history, aged>>

\* An update that does not check that the lease is still held.
BugAnyRow(p, row) == row.status # "none"

\* The check at the top of UpdateOutbox.
HoldsLease(p, row) == row.status = "SENDING" /\ row.owner = p

\* UpdateOutbox, MarkOutboxPublished and MarkOutboxFailed: the read.
BeginUpdate(p, m, op) ==
  /\ txn[p].op = "idle"
  /\ op \in {"published", "failed"}
  /\ HoldsLease(p, outbox[m])
  /\ txn' = [txn EXCEPT ![p] = Txn(op, {m}, {}, outbox[m], NoSubs, None)]
  /\ UNCHANGED <<outbox, submission, receipt, history, aged>>

\* ... and the write of the whole row that was read.
CommitUpdate(p) ==
  LET t == txn[p]
  IN  /\ t.op \in {"published", "failed"}
      /\ t.rows \cap Locked = {}
      /\ outbox' = [m \in Messages |->
           IF m \notin t.rows THEN outbox[m]
           ELSE IF t.op = "published"
           THEN Row("PUBLISHED", None, t.row.attempts, FALSE, TRUE)
           ELSE Row("PENDING", None, t.row.attempts, FALSE, FALSE)]
      /\ txn' = [txn EXCEPT ![p] = NoTxn]
      /\ UNCHANGED <<submission, receipt, history, aged>>

\* ApplyJudgeResult finds no receipt and reads the submission.  With a receipt,
\* or without a submission, it changes nothing.
BeginApply(c, m, r) ==
  /\ txn[c].op = "idle"
  /\ receipt[m] = None
  /\ submission[m].status # "none"
  /\ txn' = [txn EXCEPT ![c] = Txn("apply", {m}, {}, NoRow, submission, r)]
  /\ UNCHANGED <<outbox, submission, receipt, history, aged>>

\* An apply whose receipt has no primary key to collide on.
BugNoReceiptKey(m) == TRUE

\* The insert of the receipt succeeds: no other receipt has the primary key.
ReceiptInserts(m) == receipt[m] = None

\* An apply that writes the submission outside the receipt's transaction.
BugApplySplit(c) ==
  LET t == txn[c]
  IN  /\ t.op = "apply"
      /\ \E m \in t.rows :
           /\ submission' = [submission EXCEPT ![m] =
                Sub("JUDGED", t.result, t.subs[m].version + 1)]
           /\ history' = IF ReceiptInserts(m) THEN [history EXCEPT ![m] = @ + 1] ELSE history
           /\ receipt' = IF ReceiptInserts(m) THEN [receipt EXCEPT ![m] = t.result] ELSE receipt
      /\ txn' = [txn EXCEPT ![c] = NoTxn]
      /\ UNCHANGED <<outbox, aged>>

\* ... writes submission, history and receipt; a duplicate receipt rolls the
\* transaction back.
CommitApply(c) ==
  LET t == txn[c]
  IN  /\ t.op = "apply"
      /\ \E m \in t.rows :
           \/ /\ ReceiptInserts(m)
              /\ submission' = [submission EXCEPT ![m] =
                   Sub("JUDGED", t.result, t.subs[m].version + 1)]
              /\ history' = [history EXCEPT ![m] = @ + 1]
              /\ receipt' = [receipt EXCEPT ![m] = t.result]
           \/ ~ReceiptInserts(m) /\ UNCHANGED <<submission, history, receipt>>
      /\ txn' = [txn EXCEPT ![c] = NoTxn]
      /\ UNCHANGED <<outbox, aged>>

\* An exception, a lock timeout or a crash: the transaction is rolled back.
Abort(x) ==
  /\ txn[x].op # "idle"
  /\ txn' = [txn EXCEPT ![x] = NoTxn]
  /\ UNCHANGED <<outbox, submission, receipt, history, aged>>

\* The clock passes lease_expires_at, next_retry_at or the maximal age.
LeaseExpires(m) ==
  /\ outbox[m].leased
  /\ outbox' = [outbox EXCEPT ![m] = Row(@.status, @.owner, @.attempts, FALSE, @.due)]
  /\ UNCHANGED <<submission, receipt, history, aged, txn>>

RetryDue(m) ==
  /\ outbox[m].status = "PENDING" /\ ~outbox[m].due
  /\ outbox' = [outbox EXCEPT ![m] = Row(@.status, @.owner, @.attempts, @.leased, TRUE)]
  /\ UNCHANGED <<submission, receipt, history, aged, txn>>

GrowOld(m) ==
  /\ outbox[m].status # "none" /\ ~aged[m]
  /\ aged' = [aged EXCEPT ![m] = TRUE]
  /\ UNCHANGED <<outbox, submission, receipt, history, txn>>

Clock(m) == LeaseExpires(m) \/ RetryDue(m) \/ GrowOld(m)

StoreNext ==
  \/ \E m \in Messages : Create(m) \/ Clock(m)
  \/ \E p \in Publishers :
       \/ BeginClaim(p) \/ CommitClaim(p) \/ CommitUpdate(p)
       \/ \E m \in Messages, op \in {"published", "failed"} : BeginUpdate(p, m, op)
  \/ \E c \in Callers :
       \/ \E m \in Messages, r \in Results : BeginApply(c, m, r)
       \/ CommitApply(c)
  \/ \E x \in Clients : Abort(x)

StoreSpec == StoreInit /\ [][StoreNext]_storeVars

-----------------------------------------------------------------------------
\* ApplyJudgeResult is exactly once per message however many callers report
\* it at the same time: there is one history row per receipt, and none
\* without.
OneResultPerMessage ==
  \A m \in Messages : history[m] = IF receipt[m] = None THEN 0 ELSE 1

\* The verdict shown for a submission is the one its receipt acknowledges to
\* the judge.  The only other status a submission with a receipt can show is
\* SYSTEM_ERROR, written by a MarkOutboxTerminal that read the submission
\* before the result was committed.
VerdictIsReceipt ==
  \A m \in Messages :
    /\ submission[m].status = "JUDGED" => submission[m].result = receipt[m]
    /\ receipt[m] # None => submission[m].status \in {"JUDGED", "SYSTEM_ERROR"}

\* A row that MarkOutboxTerminal gives up never leaves its submission QUEUED:
\* the user is told.
DeadIsVisible ==
  \A m \in Messages : outbox[m].status = "DEAD" => submission[m].status # "QUEUED"

\* A submission never goes back to QUEUED, a receipt is never changed and
\* result_version never decreases, stale snapshots notwithstanding.
ResultsMoveForward ==
  [][\A m \in Messages :
       /\ receipt[m] # None => receipt'[m] = receipt[m]
       /\ submission[m].status \notin {"none", "QUEUED"} => submission'[m].status # "QUEUED"
       /\ submission'[m].version >= submission[m].version]_storeVars

=============================================================================
