---------------------------- MODULE OutboxProofs ----------------------------
(***************************************************************************)
(* The outbox: the tables of the judge and the threads that publish from   *)
(* them.  For any messages, publishers, callers and bounds, a message is   *)
(* applied once and its result never changes (model_submission.hpp).  Any  *)
(* number of publishers use the tables only through these transactions, lose *)
(* no QUEUED submission on the way to the broker, and reopen a settled row *)
(* only by an update that went stale (outbox_publisher.cpp).               *)
(***************************************************************************)
EXTENDS OutboxPublisher, TLAPS

\* A leaf that names no prover goes to SMT, to Zenon, and to SMT with more time.
USE SMTT(10), Zenon, SMTT(20)

\* The tables under any client (SubmissionStore).

\* The rows of one message agree with each other.  A submission has at most one
\* write before its result, so result_version is then at most 1.
MessageOK(m) ==
  /\ outbox[m].status = "none" <=> submission[m].status = "none"
  /\ submission[m].status \in {"none", "QUEUED"} =>
       submission[m].version = 0 /\ receipt[m] = None
  /\ receipt[m] = None => submission[m].version <= 1 /\ submission[m].status # "JUDGED"
  /\ submission[m].status = "JUDGED" => submission[m].result = receipt[m]
  /\ history[m] = IF receipt[m] = None THEN 0 ELSE 1
  /\ outbox[m].status = "DEAD" => submission[m].status # "QUEUED"

\* What the snapshot of an open claim still says of m when the claim writes: the
\* row is locked, so only a result can have been written since.
ClaimOK(t, m) ==
  /\ m \in t.dead => m \in t.rows
  /\ m \in t.rows => outbox[m].status # "none"
  /\ m \in t.rows /\ m \notin t.dead => outbox[m].attempts < MaxAttempts
  /\ m \in t.dead /\ t.subs[m].status = "QUEUED" =>
       /\ t.subs[m].version = 0 /\ submission[m].version <= 1
       /\ receipt[m] = None => submission[m].version = 0
  /\ m \in t.dead /\ t.subs[m].status # "QUEUED" =>
       submission[m].status \notin {"none", "QUEUED"}

\* The snapshot of an open apply is not newer than the submission.
ApplyOK(t, m) ==
  /\ t.result \in Results
  /\ m \in t.rows =>
       submission[m].status # "none" /\ t.subs[m].version <= submission[m].version

TxnOK(x, m) ==
  /\ txn[x].op = "claim" => x \in Publishers /\ ClaimOK(txn[x], m)
  /\ txn[x].op \in {"published", "failed"} /\ m \in txn[x].rows => outbox[m].status # "none"
  /\ txn[x].op = "apply" => ApplyOK(txn[x], m)

\* FOR UPDATE SKIP LOCKED: no row is in two open claims.
LockPart ==
  \A p, q \in Publishers : p # q /\ txn[p].op = "claim" /\ txn[q].op = "claim" =>
    txn[p].rows \cap txn[q].rows = {}

StoreInv ==
  /\ StoreTypeOK
  /\ \A m \in Messages : MessageOK(m)
  /\ \A x \in Clients, m \in Messages : TxnOK(x, m)
  /\ LockPart

-----------------------------------------------------------------------------
\* The fields of the records the actions build.
LEMMA RowFields ==
  \A s, o, a, l, d :
    /\ Row(s, o, a, l, d).status = s /\ Row(s, o, a, l, d).owner = o
    /\ Row(s, o, a, l, d).attempts = a
BY DEF Row

\* Row makes outbox rows.
LEMMA RowTypes ==
  ASSUME NEW s \in {"none", "PENDING", "SENDING", "PUBLISHED", "DEAD"},
         NEW o \in Publishers \cup {None}, NEW a \in 0 .. MaxAttempts,
         NEW l \in BOOLEAN, NEW d \in BOOLEAN
  PROVE  Row(s, o, a, l, d) \in RowType
BY DEF Row, RowType

\* The fields of an outbox row.
LEMMA RowParts ==
  ASSUME NEW row \in RowType
  PROVE  /\ row.status \in {"none", "PENDING", "SENDING", "PUBLISHED", "DEAD"}
         /\ row.owner \in Publishers \cup {None} /\ row.attempts \in 0 .. MaxAttempts
         /\ row.leased \in BOOLEAN /\ row.due \in BOOLEAN
BY DEF RowType

\* Sub has the fields it was made of.
LEMMA SubFields ==
  \A s, r, v : Sub(s, r, v).status = s /\ Sub(s, r, v).result = r /\ Sub(s, r, v).version = v
BY DEF Sub

\* Sub makes submission rows.
LEMMA SubTypes ==
  ASSUME NEW s \in {"none", "QUEUED", "SYSTEM_ERROR", "JUDGED"},
         NEW r \in Results \cup {None}, NEW v \in Nat
  PROVE  Sub(s, r, v) \in SubType
BY DEF Sub, SubType

\* The fields of a submission row.
LEMMA SubParts ==
  ASSUME NEW s \in SubType
  PROVE  /\ s.status \in {"none", "QUEUED", "SYSTEM_ERROR", "JUDGED"}
         /\ s.result \in Results \cup {None} /\ s.version \in Nat
BY DEF SubType

\* Txn has the fields it was made of.
LEMMA TxnFields ==
  \A op, rows, dead, row, subs, r :
    /\ Txn(op, rows, dead, row, subs, r).op = op
    /\ Txn(op, rows, dead, row, subs, r).rows = rows
    /\ Txn(op, rows, dead, row, subs, r).dead = dead
    /\ Txn(op, rows, dead, row, subs, r).row = row
    /\ Txn(op, rows, dead, row, subs, r).subs = subs
    /\ Txn(op, rows, dead, row, subs, r).result = r
BY DEF Txn

\* Txn makes transactions.
LEMMA TxnTypes ==
  ASSUME NEW op \in {"idle", "claim", "published", "failed", "apply"},
         NEW rows \in SUBSET Messages, NEW dead \in SUBSET Messages, NEW row \in RowType,
         NEW subs \in [Messages -> SubType], NEW r \in Results \cup {None}
  PROVE  Txn(op, rows, dead, row, subs, r) \in TxnType
BY DEF Txn, TxnType

\* The placeholders have the types of what they stand for.
LEMMA Blank == NoRow \in RowType /\ NoSubs \in [Messages -> SubType]
<1>1. 0 \in 0 .. MaxAttempts
  BY StoreConstants
<1>2. NoRow \in RowType
  BY <1>1, RowTypes, Zenon DEF NoRow
<1>3. Sub("none", None, 0) \in SubType
  BY SubTypes
<1> QED
  BY <1>2, <1>3 DEF NoSubs

\* No transaction is an idle one.
LEMMA NoTxnFields == NoTxn \in TxnType /\ NoTxn.op = "idle"
<1>1. NoTxn \in TxnType
  BY Blank, TxnTypes DEF NoTxn
<1> QED
  BY <1>1, TxnFields DEF NoTxn

\* The values of a state.
LEMMA StateTypes ==
  ASSUME StoreInv, NEW m \in Messages
  PROVE  /\ submission[m] \in SubType /\ submission[m].version \in Nat
         /\ outbox[m] \in RowType /\ outbox[m].attempts \in 0 .. MaxAttempts
         /\ receipt[m] \in Results \cup {None} /\ history[m] \in Nat
         /\ MessageOK(m)
BY SubParts, RowParts DEF StoreInv, StoreTypeOK

\* The invariant holds of empty tables.
LEMMA StoreInitInv == StoreInit => StoreInv
<1> SUFFICES ASSUME StoreInit PROVE StoreInv
  OBVIOUS
<1>1. StoreTypeOK
  BY Blank, NoTxnFields DEF StoreInit, StoreTypeOK
<1>2. NoRow.status = "none"
  BY DEF NoRow, Row
<1>3. Sub("none", None, 0).status = "none" /\ Sub("none", None, 0).version = 0
  BY SubFields
<1>4. ASSUME NEW m \in Messages PROVE MessageOK(m)
  BY <1>2, <1>3 DEF StoreInit, NoSubs, MessageOK
<1>5. ASSUME NEW x \in Clients, NEW m \in Messages PROVE TxnOK(x, m)
  BY NoTxnFields DEF StoreInit, TxnOK
<1>6. LockPart
  BY NoTxnFields DEF StoreInit, LockPart, Clients
<1> QED
  BY <1>1, <1>4, <1>5, <1>6 DEF StoreInv

-----------------------------------------------------------------------------
\* The transactions of the other clients are as before.
LEMMA OneTxn ==
  ASSUME StoreInv, NEW x \in Clients, NEW t \in TxnType, txn' = [txn EXCEPT ![x] = t]
  PROVE  /\ txn' \in [Clients -> TxnType] /\ txn'[x] = t
         /\ \A y \in Clients : y # x => txn'[y] = txn[y]
BY DEF StoreInv, StoreTypeOK

\* A step that only opens or drops a transaction.
LEMMA TxnOnly ==
  ASSUME StoreInv, NEW x \in Clients, NEW t \in TxnType, txn' = [txn EXCEPT ![x] = t],
         UNCHANGED <<outbox, submission, receipt, history, aged>>,
         t.op = "claim" => /\ x \in Publishers /\ t.rows \cap Locked = {}
                           /\ \A m \in Messages : ClaimOK(t, m),
         t.op \in {"published", "failed"} => \A m \in t.rows : outbox[m].status # "none",
         t.op = "apply" => \A m \in Messages : ApplyOK(t, m)
  PROVE  StoreInv'
<1>1. /\ txn' \in [Clients -> TxnType] /\ txn'[x] = t
      /\ \A y \in Clients : y # x => txn'[y] = txn[y]
  BY OneTxn, Zenon
<1>2. StoreTypeOK'
  BY <1>1 DEF StoreInv, StoreTypeOK
<1>3. \A m \in Messages : MessageOK(m)'
  BY DEF StoreInv, MessageOK
<1>4. ASSUME NEW y \in Clients, NEW m \in Messages PROVE TxnOK(y, m)'
  <2>1. /\ \A u : ClaimOK(u, m) => ClaimOK(u, m)'
        /\ \A u : ApplyOK(u, m) => ApplyOK(u, m)'
    BY DEF ClaimOK, ApplyOK
  <2>2. CASE y = x
    BY <1>1, <2>1, <2>2 DEF TxnOK
  <2>3. CASE y # x
    BY <1>1, <2>1, <2>3 DEF StoreInv, TxnOK
  <2> QED
    BY <2>2, <2>3
<1>5. LockPart'
  <2> SUFFICES ASSUME NEW p \in Publishers, NEW q \in Publishers, p # q,
                      txn'[p].op = "claim", txn'[q].op = "claim"
               PROVE  txn'[p].rows \cap txn'[q].rows = {}
    BY DEF LockPart
  <2>0. p \in Clients /\ q \in Clients
    BY DEF Clients
  <2>1. \A y \in Publishers : txn[y].op = "claim" => txn[y].rows \in SUBSET Locked
    BY DEF Locked
  <2>2. CASE p = x
    BY <1>1, <2>0, <2>1, <2>2
  <2>3. CASE q = x
    BY <1>1, <2>0, <2>1, <2>3
  <2>4. CASE p # x /\ q # x
    BY <1>1, <2>0, <2>4 DEF StoreInv, LockPart
  <2> QED
    BY <2>2, <2>3, <2>4
<1> QED
  BY <1>2, <1>3, <1>4, <1>5 DEF StoreInv

\* The first halves of the transactions, and their rollback.
LEMMA BeginClaimInv ==
  ASSUME StoreInv, NEW p \in Publishers, BeginClaim(p)
  PROVE  StoreInv'
<1> DEFINE rows == {m \in Messages \ Locked : Claimable(m)}
           dead == {m \in rows : Terminal(m)}
           t == Txn("claim", rows, dead, NoRow, submission, None)
<1>1. txn' = [txn EXCEPT ![p] = t] /\ UNCHANGED <<outbox, submission, receipt, history, aged>>
  BY DEF BeginClaim
<1>2. rows \in SUBSET Messages /\ dead \in SUBSET Messages /\ submission \in [Messages -> SubType]
  BY DEF StoreInv, StoreTypeOK
<1>3. t \in TxnType
  BY <1>2, Blank, TxnTypes
<1>4. t.op = "claim" /\ t.rows = rows /\ t.dead = dead /\ t.subs = submission
  BY TxnFields
<1>5. rows \cap Locked = {}
  OBVIOUS
<1>6. ASSUME NEW m \in Messages PROVE ClaimOK(t, m)
  <2>1. m \in rows => outbox[m].status # "none"
    BY DEF Claimable
  <2>2. m \in rows /\ m \notin dead => outbox[m].attempts < MaxAttempts
    <3>1. m \in rows /\ m \notin dead => ~(outbox[m].attempts >= MaxAttempts)
      BY DEF Terminal
    <3> QED
      BY <3>1, StateTypes, StoreConstants
  <2>3. MessageOK(m) /\ submission[m].version \in Nat
    BY StateTypes
  <2>4. m \in dead => m \in rows
    OBVIOUS
  <2> HIDE DEF t, rows, dead
  <2> QED
    BY <1>4, <2>1, <2>2, <2>3, <2>4 DEF ClaimOK, MessageOK
<1> HIDE DEF t, rows, dead
<1>7. p \in Clients
  BY DEF Clients
<1> QED
  BY <1>1, <1>3, <1>4, <1>5, <1>6, <1>7, TxnOnly, Zenon

\* The reads of MarkOutboxPublished and MarkOutboxFailed keep the invariant.
LEMMA BeginUpdateInv ==
  ASSUME StoreInv, NEW p \in Publishers, NEW m \in Messages,
         NEW op \in {"published", "failed"}, BeginUpdate(p, m, op)
  PROVE  StoreInv'
<1> DEFINE t == Txn(op, {m}, {}, outbox[m], NoSubs, None)
<1>1. txn' = [txn EXCEPT ![p] = t] /\ UNCHANGED <<outbox, submission, receipt, history, aged>>
  BY DEF BeginUpdate
<1>2. t \in TxnType
  BY Blank, StateTypes, TxnTypes
<1>3. t.op = op /\ t.rows = {m}
  BY TxnFields
<1>4. outbox[m].status # "none" /\ p \in Clients
  BY DEF BeginUpdate, HoldsLease, Clients
<1> HIDE DEF t
<1> QED
  BY <1>1, <1>2, <1>3, <1>4, TxnOnly, Zenon

\* The reads of ApplyJudgeResult keep the invariant.
LEMMA BeginApplyInv ==
  ASSUME StoreInv, NEW c \in Callers, NEW m \in Messages, NEW r \in Results, BeginApply(c, m, r)
  PROVE  StoreInv'
<1> DEFINE t == Txn("apply", {m}, {}, NoRow, submission, r)
<1>1. txn' = [txn EXCEPT ![c] = t] /\ UNCHANGED <<outbox, submission, receipt, history, aged>>
  BY DEF BeginApply
<1>2. submission \in [Messages -> SubType]
  BY DEF StoreInv, StoreTypeOK
<1>3. t \in TxnType
  BY <1>2, Blank, TxnTypes
<1>4. t.op = "apply" /\ t.rows = {m} /\ t.subs = submission /\ t.result = r
  BY TxnFields
<1> HIDE DEF t
<1>5. ASSUME NEW n \in Messages PROVE ApplyOK(t, n)
  BY <1>4, StateTypes DEF BeginApply, ApplyOK
<1>6. c \in Clients
  BY DEF Clients
<1> QED
  BY <1>1, <1>3, <1>4, <1>5, <1>6, TxnOnly, Zenon

\* A rollback keeps the invariant.
LEMMA AbortInv ==
  ASSUME StoreInv, NEW x \in Clients, Abort(x)
  PROVE  StoreInv'
BY NoTxnFields, TxnOnly, Zenon DEF Abort

-----------------------------------------------------------------------------
\* A transaction ends: the locks of the others stay apart.
LEMMA EndTxn ==
  ASSUME StoreInv, NEW x \in Clients, txn' = [txn EXCEPT ![x] = NoTxn]
  PROVE  /\ txn' \in [Clients -> TxnType] /\ txn'[x].op = "idle"
         /\ \A y \in Clients : y # x => txn'[y] = txn[y]
         /\ LockPart'
<1>1. /\ txn' \in [Clients -> TxnType] /\ txn'[x].op = "idle"
      /\ \A y \in Clients : y # x => txn'[y] = txn[y]
  BY NoTxnFields, OneTxn, Zenon
<1>2. Publishers \in SUBSET Clients
  BY DEF Clients
<1>3. LockPart'
  BY <1>1, <1>2 DEF StoreInv, LockPart
<1> QED
  BY <1>1, <1>3

\* CreateSubmission keeps the invariant.
LEMMA CreateInv ==
  ASSUME StoreInv, NEW m \in Messages, Create(m)
  PROVE  StoreInv'
<1> DEFINE row == Row("PENDING", None, 0, FALSE, TRUE)
           sub == Sub("QUEUED", None, 0)
<1>1. /\ outbox' = [outbox EXCEPT ![m] = row] /\ submission' = [submission EXCEPT ![m] = sub]
      /\ UNCHANGED <<receipt, history, aged, txn>> /\ outbox[m].status = "none"
  BY DEF Create
<1>2. row \in RowType /\ sub \in SubType
  <2>1. 0 \in 0 .. MaxAttempts
    BY StoreConstants
  <2> QED
    BY <2>1, RowTypes, SubTypes, Zenon
<1>3. row.status = "PENDING" /\ sub.status = "QUEUED" /\ sub.version = 0
  BY DEF Row, Sub
<1> HIDE DEF row, sub
<1>4. StoreTypeOK'
  BY <1>1, <1>2 DEF StoreInv, StoreTypeOK
<1>5. /\ outbox'[m] = row /\ submission'[m] = sub
      /\ \A n \in Messages : n # m => outbox'[n] = outbox[n] /\ submission'[n] = submission[n]
  BY <1>1 DEF StoreInv, StoreTypeOK
<1>6. submission[m].status = "none" /\ receipt[m] = None /\ history[m] = 0
  BY <1>1, StateTypes DEF MessageOK
<1>7. ASSUME NEW n \in Messages PROVE MessageOK(n)'
  <2>1. CASE n = m
    BY <1>1, <1>3, <1>5, <1>6, <2>1 DEF MessageOK
  <2>2. CASE n # m
    BY <1>1, <1>5, <2>2, StateTypes DEF MessageOK
  <2> QED
    BY <2>1, <2>2
<1>8. ASSUME NEW x \in Clients, NEW n \in Messages PROVE TxnOK(x, n)'
  <2>1. TxnOK(x, n)
    BY DEF StoreInv
  <2>2. CASE n = m
    BY <1>1, <1>3, <1>5, <1>6, <2>1, <2>2 DEF TxnOK, ClaimOK, ApplyOK
  <2>3. CASE n # m
    BY <1>1, <1>5, <2>1, <2>3 DEF TxnOK, ClaimOK, ApplyOK
  <2> QED
    BY <2>2, <2>3
<1>9. LockPart'
  BY <1>1 DEF StoreInv, LockPart
<1> QED
  BY <1>4, <1>7, <1>8, <1>9 DEF StoreInv

\* The clock changes no column that the invariant is about.
LEMMA ClockInv ==
  ASSUME StoreInv, NEW m \in Messages, Clock(m)
  PROVE  StoreInv'
<1>1. UNCHANGED <<submission, receipt, history, txn>>
  BY Zenon DEF Clock, LeaseExpires, RetryDue, GrowOld
<1>2. /\ outbox' \in [Messages -> RowType]
      /\ \A n \in Messages : /\ outbox'[n].status = outbox[n].status
                             /\ outbox'[n].attempts = outbox[n].attempts
  <2>0. outbox \in [Messages -> RowType] /\ outbox[m] \in RowType
    BY DEF StoreInv, StoreTypeOK
  <2>1. CASE LeaseExpires(m)
    <3> DEFINE row == Row(outbox[m].status, outbox[m].owner, outbox[m].attempts, FALSE, outbox[m].due)
    <3>1. row \in RowType
      BY <2>0, RowParts, RowTypes, ZenonT(30)
    <3>2. row.status = outbox[m].status /\ row.attempts = outbox[m].attempts
      BY DEF Row
    <3>3. outbox' = [outbox EXCEPT ![m] = row]
      BY <2>1 DEF LeaseExpires
    <3> HIDE DEF row
    <3> QED
      BY <2>0, <3>1, <3>2, <3>3
  <2>2. CASE RetryDue(m)
    <3> DEFINE row == Row(outbox[m].status, outbox[m].owner, outbox[m].attempts, outbox[m].leased, TRUE)
    <3>1. row \in RowType
      BY <2>0, RowParts, RowTypes, ZenonT(30)
    <3>2. row.status = outbox[m].status /\ row.attempts = outbox[m].attempts
      BY DEF Row
    <3>3. outbox' = [outbox EXCEPT ![m] = row]
      BY <2>2 DEF RetryDue
    <3> HIDE DEF row
    <3> QED
      BY <2>0, <3>1, <3>2, <3>3
  <2>3. CASE GrowOld(m)
    BY <2>0, <2>3 DEF GrowOld
  <2> QED
    BY <2>1, <2>2, <2>3 DEF Clock
<1>3. aged' \in [Messages -> BOOLEAN]
  BY Zenon DEF Clock, LeaseExpires, RetryDue, GrowOld, StoreInv, StoreTypeOK
<1>4. StoreTypeOK'
  BY <1>1, <1>2, <1>3 DEF StoreInv, StoreTypeOK
<1>5. \A n \in Messages : MessageOK(n)'
  BY <1>1, <1>2 DEF StoreInv, MessageOK
<1>6. \A x \in Clients, n \in Messages : TxnOK(x, n)'
  BY <1>1, <1>2 DEF StoreInv, TxnOK, ClaimOK, ApplyOK
<1>7. LockPart'
  BY <1>1 DEF StoreInv, LockPart
<1> QED
  BY <1>4, <1>5, <1>6, <1>7 DEF StoreInv

\* MarkOutboxPublished and MarkOutboxFailed write a row that is in no open claim.
LEMMA CommitUpdateInv ==
  ASSUME StoreInv, NEW p \in Publishers, CommitUpdate(p)
  PROVE  StoreInv'
<1> DEFINE t == txn[p]
<1>0. p \in Clients /\ t \in TxnType
  BY DEF Clients, StoreInv, StoreTypeOK
<1>1. PICK s \in {"PUBLISHED", "PENDING"}, d \in BOOLEAN :
        outbox' = [m \in Messages |-> IF m \notin t.rows THEN outbox[m]
                                      ELSE Row(s, None, t.row.attempts, FALSE, d)]
  <2>1. CASE t.op = "published"
    BY <2>1, Zenon DEF CommitUpdate
  <2>2. CASE t.op = "failed"
    BY <2>2, Zenon DEF CommitUpdate
  <2> QED
    BY <2>1, <2>2, Zenon DEF CommitUpdate
<1> DEFINE row == Row(s, None, t.row.attempts, FALSE, d)
<1>2. row \in RowType /\ row.status = s
  <2>1. t.row.attempts \in 0 .. MaxAttempts
    BY <1>0, RowParts DEF TxnType
  <2>2. row \in RowType
    BY <2>1, RowTypes, Zenon
  <2> QED
    BY <2>2 DEF Row
<1>3. /\ UNCHANGED <<submission, receipt, history, aged>> /\ txn' = [txn EXCEPT ![p] = NoTxn]
      /\ t.rows \cap Locked = {} /\ t.op \in {"published", "failed"}
  BY DEF CommitUpdate
<1>4. \A m \in Messages : outbox'[m] = IF m \notin t.rows THEN outbox[m] ELSE row
  BY <1>1
<1> HIDE DEF t, row
<1>5. /\ txn' \in [Clients -> TxnType] /\ txn'[p].op = "idle"
      /\ \A y \in Clients : y # p => txn'[y] = txn[y]
      /\ LockPart'
  BY <1>0, <1>3, EndTxn, Zenon
<1>6. StoreTypeOK'
  <2>1. outbox' \in [Messages -> RowType]
    BY <1>1, <1>2, Zenon DEF StoreInv, StoreTypeOK, row
  <2> QED
    BY <1>3, <1>5, <2>1 DEF StoreInv, StoreTypeOK
<1>7. ASSUME NEW m \in Messages PROVE MessageOK(m)'
  <2>1. MessageOK(m) /\ (m \in t.rows => outbox[m].status # "none")
    BY <1>0, <1>3 DEF StoreInv, TxnOK, t
  <2> QED
    BY <1>2, <1>3, <1>4, <2>1, ZenonT(30) DEF MessageOK
<1>8. ASSUME NEW x \in Clients, NEW m \in Messages PROVE TxnOK(x, m)'
  <2>1. CASE x = p
    BY <1>5, <2>1 DEF TxnOK
  <2>2. CASE x # p
    <3>1. TxnOK(x, m) /\ txn'[x] = txn[x]
      BY <1>5, <2>2 DEF StoreInv
    <3>2. txn[x].op = "claim" /\ m \in txn[x].rows => m \notin t.rows
      BY <1>3, <3>1 DEF Locked, TxnOK
    <3> QED
      BY <1>2, <1>3, <1>4, <3>1, <3>2 DEF TxnOK, ClaimOK, ApplyOK
  <2> QED
    BY <2>1, <2>2
<1> QED
  BY <1>5, <1>6, <1>7, <1>8 DEF StoreInv

\* What a successful ApplyJudgeResult writes.
Applied(c, m) ==
  /\ receipt[m] = None
  /\ submission' = [submission EXCEPT ![m] =
       Sub("JUDGED", txn[c].result, txn[c].subs[m].version + 1)]
  /\ history' = [history EXCEPT ![m] = @ + 1]
  /\ receipt' = [receipt EXCEPT ![m] = txn[c].result]

\* Its effect on one message, with the version it read.
LEMMA AppliedEffect ==
  ASSUME StoreInv, NEW c \in Callers, NEW m \in Messages, CommitApply(c),
         m \in txn[c].rows, Applied(c, m)
  PROVE  /\ submission' \in [Messages -> SubType] /\ receipt' \in [Messages -> Results \cup {None}]
         /\ history' \in [Messages -> Nat]
         /\ \A n \in Messages : n # m =>
              submission'[n] = submission[n] /\ receipt'[n] = receipt[n] /\ history'[n] = history[n]
         /\ submission'[m].status = "JUDGED" /\ submission'[m].result = receipt'[m]
         /\ receipt'[m] # None /\ history'[m] = 1
         /\ submission[m].status # "none"
         /\ submission'[m].version \in Nat /\ submission'[m].version >= submission[m].version
         /\ submission[m].version = 0 => submission'[m].version = 1
<1> DEFINE v == txn[c].subs[m].version
           r == txn[c].result
           sub == Sub("JUDGED", r, v + 1)
<1>0. c \in Clients /\ txn[c] \in TxnType /\ txn[c].op = "apply"
  BY DEF Clients, StoreInv, StoreTypeOK, CommitApply
<1>1. r \in Results /\ submission[m].status # "none" /\ v <= submission[m].version
  BY <1>0 DEF StoreInv, TxnOK, ApplyOK
<1>2. txn[c].subs[m] \in SubType
  BY <1>0 DEF TxnType
<1>3. v \in Nat
  BY <1>2, SubParts
<1>4. v + 1 \in Nat
  BY <1>3
<1>5. sub \in SubType
  BY <1>1, <1>4, SubTypes
<1>6. sub.status = "JUDGED" /\ sub.result = r /\ sub.version = v + 1
  BY SubFields
<1>7. /\ submission' = [submission EXCEPT ![m] = sub] /\ receipt' = [receipt EXCEPT ![m] = r]
      /\ history' = [history EXCEPT ![m] = history[m] + 1] /\ receipt[m] = None
  BY DEF Applied
<1> HIDE DEF v, r, sub
<1>8. submission[m].version \in Nat /\ submission[m].version <= 1 /\ history[m] = 0
  BY <1>7, StateTypes DEF MessageOK
<1>9. history[m] + 1 = 1
  BY <1>8
<1>10. /\ submission' \in [Messages -> SubType] /\ receipt' \in [Messages -> Results \cup {None}]
       /\ history' \in [Messages -> Nat]
  BY <1>1, <1>5, <1>7, <1>9 DEF StoreInv, StoreTypeOK
<1>11. /\ \A n \in Messages : n # m =>
            submission'[n] = submission[n] /\ receipt'[n] = receipt[n] /\ history'[n] = history[n]
       /\ submission'[m] = sub /\ receipt'[m] = r /\ history'[m] = 1
  BY <1>7, <1>9 DEF StoreInv, StoreTypeOK
<1>12. r # None
  BY <1>1, StoreConstants
<1>13. /\ v + 1 >= submission[m].version
       /\ submission[m].version = 0 => v + 1 = 1
  BY <1>1, <1>3, <1>8
<1> QED
  BY <1>1, <1>4, <1>6, <1>10, <1>11, <1>12, <1>13

\* The commit of ApplyJudgeResult keeps the invariant.
LEMMA CommitApplyInv ==
  ASSUME StoreInv, NEW c \in Callers, CommitApply(c)
  PROVE  StoreInv'
<1>0. /\ c \in Clients /\ txn[c] \in TxnType
      /\ txn' = [txn EXCEPT ![c] = NoTxn] /\ UNCHANGED <<outbox, aged>>
  BY DEF Clients, StoreInv, StoreTypeOK, CommitApply
<1>1. /\ txn' \in [Clients -> TxnType] /\ txn'[c].op = "idle"
      /\ \A y \in Clients : y # c => txn'[y] = txn[y]
      /\ LockPart'
  BY <1>0, EndTxn, Zenon
<1>2. CASE UNCHANGED <<submission, history, receipt>>
  BY <1>0, <1>2, NoTxnFields, TxnOnly, ZenonT(30)
<1>3. ASSUME NEW m \in Messages, m \in txn[c].rows, Applied(c, m) PROVE StoreInv'
  <2>1. StoreTypeOK'
    BY <1>0, <1>1, <1>3, AppliedEffect DEF StoreInv, StoreTypeOK
  <2>2. ASSUME NEW n \in Messages PROVE MessageOK(n)'
    <3>1. CASE n = m
      BY <1>0, <1>3, <3>1, AppliedEffect, StateTypes DEF MessageOK
    <3>2. CASE n # m
      <4>1. submission'[n] = submission[n] /\ receipt'[n] = receipt[n] /\ history'[n] = history[n]
        BY <1>3, <3>2, AppliedEffect
      <4> QED
        BY <1>0, <4>1, StateTypes DEF MessageOK
    <3> QED
      BY <3>1, <3>2
  <2>3. ASSUME NEW x \in Clients, NEW n \in Messages PROVE TxnOK(x, n)'
    <3>1. CASE x = c
      BY <1>1, <3>1 DEF TxnOK
    <3>2. CASE x # c
      <4>1. TxnOK(x, n) /\ txn'[x] = txn[x]
        BY <1>1, <3>2 DEF StoreInv
      <4>2. CASE n # m
        <5>1. submission'[n] = submission[n] /\ receipt'[n] = receipt[n]
          BY <1>3, <4>2, AppliedEffect
        <5> QED
          BY <1>0, <4>1, <5>1 DEF TxnOK, ClaimOK, ApplyOK
      <4>3. CASE n = m
        <5>1. /\ submission'[n].status = "JUDGED" /\ receipt'[n] # None
              /\ submission'[n].version \in Nat /\ submission'[n].version >= submission[n].version
              /\ submission[n].version = 0 => submission'[n].version = 1
          BY <1>3, <4>3, AppliedEffect
        <5>2. receipt[n] = None /\ submission[n].version \in Nat
          BY <1>3, <4>3, StateTypes DEF Applied
        <5>3. txn[x].op = "claim" => ClaimOK(txn[x], n)'
          <6> SUFFICES ASSUME txn[x].op = "claim" PROVE ClaimOK(txn[x], n)'
            OBVIOUS
          <6>1. ClaimOK(txn[x], n)
            BY <4>1 DEF TxnOK
          <6> QED
            BY <1>0, <4>1, <5>1, <5>2, <6>1 DEF ClaimOK
        <5>4. txn[x].op = "apply" => ApplyOK(txn[x], n)'
          <6> SUFFICES ASSUME txn[x].op = "apply", n \in txn[x].rows
                       PROVE  txn[x].subs[n].version <= submission'[n].version
            BY <1>1, <3>2, <4>1, <5>1 DEF TxnOK, ApplyOK
          <6>1. txn[x].subs[n] \in SubType
            BY DEF StoreInv, StoreTypeOK, TxnType
          <6>2. txn[x].subs[n].version \in Nat
            BY <6>1, SubParts
          <6>3. txn[x].subs[n].version <= submission[n].version
            BY <4>1 DEF TxnOK, ApplyOK
          <6> QED
            BY <5>1, <5>2, <6>2, <6>3
        <5> QED
          BY <1>0, <4>1, <5>3, <5>4 DEF TxnOK, ClaimOK, ApplyOK
      <4> QED
        BY <4>2, <4>3
    <3> QED
      BY <3>1, <3>2
  <2> QED
    BY <1>1, <2>1, <2>2, <2>3 DEF StoreInv
<1>4. \A m \in txn[c].rows : m \in Messages
  BY <1>0 DEF TxnType
<1> QED
  BY <1>2, <1>3, <1>4 DEF CommitApply, ReceiptInserts, Applied

\* What ClaimPendingOutbox does to one message: gives it up, leases it, or
\* nothing.
LEMMA ClaimEffect ==
  ASSUME StoreInv, NEW p \in Publishers, CommitClaim(p), NEW m \in Messages
  PROVE  /\ outbox'[m] \in RowType /\ submission'[m] \in SubType
         /\ submission'[m].version \in Nat /\ submission'[m].version >= submission[m].version
         /\ outbox[m].status # "none" => outbox'[m].status # "none"
         /\ m \notin txn[p].rows => outbox'[m] = outbox[m]
         /\ m \in txn[p].rows => outbox'[m].status \in {"DEAD", "SENDING"}
         /\ outbox'[m].status = "DEAD" /\ m \in txn[p].rows => submission'[m].status # "QUEUED"
         /\ submission'[m] = submission[m]
              \/ /\ m \in txn[p].rows /\ submission'[m].status = "SYSTEM_ERROR"
                 /\ submission'[m].version = 1
<1> DEFINE t == txn[p]
           read == t.subs[m]
           sub == Sub("SYSTEM_ERROR", read.result, read.version + 1)
<1>0. p \in Clients /\ t \in TxnType /\ t.op = "claim"
  BY DEF Clients, StoreInv, StoreTypeOK, CommitClaim
<1>1. ClaimOK(t, m)
  BY <1>0 DEF StoreInv, TxnOK
<1>2. read \in SubType
  BY <1>0 DEF TxnType
<1>3. read.result \in Results \cup {None} /\ read.version \in Nat
  BY <1>2, SubParts
<1>4. read.version + 1 \in Nat
  BY <1>3
<1>5. sub \in SubType
  BY <1>3, <1>4, SubTypes
<1>6. sub.status = "SYSTEM_ERROR" /\ sub.version = read.version + 1
  BY SubFields
<1>7. submission'[m] = IF m \in t.dead /\ read.status = "QUEUED" THEN sub ELSE submission[m]
  BY DEF CommitClaim, DeadSubmission
<1>8. /\ m \in t.dead =>
           outbox'[m] = Row("DEAD", None, outbox[m].attempts, FALSE, outbox[m].due)
      /\ m \notin t.dead /\ m \in t.rows =>
           outbox'[m] = Row("SENDING", p, outbox[m].attempts + 1, TRUE, TRUE)
      /\ m \notin t.dead /\ m \notin t.rows => outbox'[m] = outbox[m]
  BY ZenonT(30) DEF CommitClaim
<1> HIDE DEF t, read, sub
<1>9. /\ submission[m] \in SubType /\ submission[m].version \in Nat
      /\ outbox[m] \in RowType /\ outbox[m].attempts \in 0 .. MaxAttempts
      /\ outbox[m].due \in BOOLEAN
  BY StateTypes, RowParts
<1>10. CASE m \in t.dead
  <2>1. outbox'[m] \in RowType
    BY <1>8, <1>9, <1>10, RowTypes, ZenonT(30)
  <2>2. outbox'[m].status = "DEAD" /\ m \in t.rows
    BY <1>1, <1>8, <1>10 DEF Row, ClaimOK
  <2>3. CASE read.status = "QUEUED"
    <3>1. submission'[m] = sub /\ read.version = 0 /\ submission[m].version <= 1
      BY <1>1, <1>7, <1>10, <2>3 DEF ClaimOK, read
    <3> QED
      BY <1>5, <1>6, <1>9, <2>1, <2>2, <3>1 DEF t
  <2>4. CASE read.status # "QUEUED"
    <3>1. submission'[m] = submission[m] /\ submission[m].status # "QUEUED"
      BY <1>1, <1>7, <1>10, <2>4 DEF ClaimOK, read
    <3> QED
      BY <1>9, <2>1, <2>2, <3>1 DEF t
  <2> QED
    BY <2>3, <2>4
<1>11. CASE m \notin t.dead /\ m \in t.rows
  <2>1. outbox[m].attempts + 1 \in 0 .. MaxAttempts
    BY <1>1, <1>9, <1>11, StoreConstants DEF ClaimOK
  <2>2. outbox'[m] \in RowType
    BY <1>8, <1>11, <2>1, RowTypes, Zenon
  <2>3. outbox'[m].status = "SENDING"
    BY <1>8, <1>11 DEF Row
  <2> QED
    BY <1>7, <1>9, <1>11, <2>2, <2>3 DEF t
<1>12. CASE m \notin t.dead /\ m \notin t.rows
  BY <1>7, <1>8, <1>9, <1>12 DEF t
<1> QED
  BY <1>10, <1>11, <1>12

\* The commit of a claim keeps the invariant.
LEMMA CommitClaimInv ==
  ASSUME StoreInv, NEW p \in Publishers, CommitClaim(p)
  PROVE  StoreInv'
<1>0. /\ p \in Clients /\ txn[p].op = "claim"
      /\ txn' = [txn EXCEPT ![p] = NoTxn] /\ UNCHANGED <<receipt, history, aged>>
  BY DEF Clients, CommitClaim
<1>1. /\ txn' \in [Clients -> TxnType] /\ txn'[p].op = "idle"
      /\ \A y \in Clients : y # p => txn'[y] = txn[y]
      /\ LockPart'
  BY <1>0, EndTxn, Zenon
<1>2. StoreTypeOK'
  <2>1. \A m \in Messages : outbox'[m] \in RowType /\ submission'[m] \in SubType
    BY ClaimEffect
  <2>2. outbox' \in [Messages -> RowType]
    BY <2>1, Zenon DEF CommitClaim
  <2>3. submission' \in [Messages -> SubType]
    BY <2>1, ZenonT(30) DEF CommitClaim
  <2> QED
    BY <1>0, <1>1, <2>2, <2>3 DEF StoreInv, StoreTypeOK
<1>3. ASSUME NEW m \in Messages PROVE MessageOK(m)'
  <2>1. MessageOK(m) /\ (m \in txn[p].rows => outbox[m].status # "none")
    BY <1>0 DEF StoreInv, TxnOK, ClaimOK
  <2>2. CASE submission'[m] = submission[m]
    BY <1>0, <2>1, <2>2, ClaimEffect DEF MessageOK
  <2>3. CASE /\ m \in txn[p].rows /\ submission'[m].status = "SYSTEM_ERROR"
             /\ submission'[m].version = 1
    BY <1>0, <2>1, <2>3, ClaimEffect DEF MessageOK
  <2> QED
    BY <2>2, <2>3, ClaimEffect
<1>4. ASSUME NEW x \in Clients, NEW m \in Messages PROVE TxnOK(x, m)'
  <2>1. CASE x = p
    BY <1>1, <2>1 DEF TxnOK
  <2>2. CASE x # p
    <3>1. TxnOK(x, m) /\ txn'[x] = txn[x]
      BY <1>1, <2>2 DEF StoreInv
    <3>2. txn[x].op = "claim" => ClaimOK(txn[x], m)'
      <4> SUFFICES ASSUME txn[x].op = "claim" PROVE ClaimOK(txn[x], m)'
        OBVIOUS
      <4>1. x \in Publishers /\ ClaimOK(txn[x], m)
        BY <3>1 DEF TxnOK
      <4>2. txn[x].rows \cap txn[p].rows = {}
        BY <1>0, <2>2, <4>1 DEF StoreInv, LockPart
      <4>3. CASE m \in txn[x].rows
        <5>1. outbox'[m] = outbox[m] /\ submission'[m] = submission[m]
          BY <4>2, <4>3, ClaimEffect
        <5> QED
          BY <1>0, <1>1, <2>2, <4>1, <5>1 DEF ClaimOK
      <4>4. CASE m \notin txn[x].rows
        BY <1>1, <2>2, <4>1, <4>4 DEF ClaimOK
      <4> QED
        BY <4>3, <4>4
    <3>3. txn[x].op = "apply" => ApplyOK(txn[x], m)'
      <4> SUFFICES ASSUME txn[x].op = "apply", m \in txn[x].rows
                   PROVE  /\ submission'[m].status # "none"
                          /\ txn[x].subs[m].version <= submission'[m].version
        BY <1>1, <2>2, <3>1 DEF TxnOK, ApplyOK
      <4>1. txn[x].subs[m] \in SubType
        BY DEF StoreInv, StoreTypeOK, TxnType
      <4>2. txn[x].subs[m].version \in Nat /\ submission[m].version \in Nat
        BY <4>1, SubParts, StateTypes
      <4>3. submission[m].status # "none" /\ txn[x].subs[m].version <= submission[m].version
        BY <3>1 DEF TxnOK, ApplyOK
      <4>4. submission'[m].version \in Nat /\ submission'[m].version >= submission[m].version
        BY ClaimEffect
      <4>5. submission'[m].status # "none"
        BY <4>3, ClaimEffect
      <4> QED
        BY <4>2, <4>3, <4>4, <4>5
    <3>4. txn[x].op \in {"published", "failed"} /\ m \in txn[x].rows => outbox'[m].status # "none"
      BY <3>1, ClaimEffect DEF TxnOK
    <3> QED
      BY <3>1, <3>2, <3>3, <3>4, Zenon DEF TxnOK, ClaimOK, ApplyOK
  <2> QED
    BY <2>1, <2>2
<1> QED
  BY <1>1, <1>2, <1>3, <1>4 DEF StoreInv

-----------------------------------------------------------------------------
\* Every step keeps the invariant.
LEMMA StoreStep == StoreInv /\ [StoreNext]_storeVars => StoreInv'
<1> SUFFICES ASSUME StoreInv, [StoreNext]_storeVars PROVE StoreInv'
  OBVIOUS
<1>1. CASE UNCHANGED storeVars
  <2>1. StoreTypeOK' /\ LockPart'
    BY <1>1 DEF storeVars, StoreInv, StoreTypeOK, LockPart
  <2>2. \A m \in Messages : MessageOK(m)'
    BY <1>1 DEF storeVars, StoreInv, MessageOK
  <2>3. \A x \in Clients, m \in Messages : TxnOK(x, m)'
    BY <1>1 DEF storeVars, StoreInv, TxnOK, ClaimOK, ApplyOK
  <2> QED
    BY <2>1, <2>2, <2>3 DEF StoreInv
<1>2. CASE StoreNext
  BY <1>2, CreateInv, ClockInv, BeginClaimInv, CommitClaimInv, BeginUpdateInv, CommitUpdateInv,
     BeginApplyInv, CommitApplyInv, AbortInv
  DEF StoreNext
<1> QED
  BY <1>1, <1>2

\* The invariant of the tables, for any number of messages and clients.
THEOREM StoreInvariant == StoreSpec => []StoreInv
BY StoreInitInv, StoreStep, PTL DEF StoreSpec

\* The rows have their types; in particular attempts never exceeds
\* kOutboxMaxAttempts.
THEOREM StoreTypes == StoreSpec => []StoreTypeOK
<1>1. StoreInv => StoreTypeOK
  BY DEF StoreInv
<1> QED
  BY <1>1, StoreInvariant, PTL

\* ApplyJudgeResult takes effect once per message.
THEOREM StoreOneResult == StoreSpec => []OneResultPerMessage
<1>1. StoreInv => OneResultPerMessage
  BY DEF StoreInv, MessageOK, OneResultPerMessage
<1> QED
  BY <1>1, StoreInvariant, PTL

\* A submission shows the verdict of its receipt, or SYSTEM_ERROR.
THEOREM StoreVerdictIsReceipt == StoreSpec => []VerdictIsReceipt
<1>1. StoreInv => VerdictIsReceipt
  <2> SUFFICES ASSUME StoreInv, NEW m \in Messages
               PROVE  /\ submission[m].status = "JUDGED" => submission[m].result = receipt[m]
                      /\ receipt[m] # None => submission[m].status \in {"JUDGED", "SYSTEM_ERROR"}
    BY DEF VerdictIsReceipt
  <2> QED
    BY StateTypes, SubParts DEF MessageOK
<1> QED
  BY <1>1, StoreInvariant, PTL

\* A submission whose message was given up is not left QUEUED.
THEOREM StoreDeadIsVisible == StoreSpec => []DeadIsVisible
<1>1. StoreInv => DeadIsVisible
  BY DEF StoreInv, MessageOK, DeadIsVisible
<1> QED
  BY <1>1, StoreInvariant, PTL

\* What one step does to the rows of a message.
Forward(m) ==
  /\ receipt[m] # None => receipt'[m] = receipt[m]
  /\ submission[m].status \notin {"none", "QUEUED"} => submission'[m].status # "QUEUED"
  /\ submission'[m].version >= submission[m].version

\* No step takes a result back.
LEMMA StepsGoForward ==
  ASSUME StoreInv, StoreNext, NEW m \in Messages
  PROVE  Forward(m)
<1>0. submission[m].version \in Nat
  BY StateTypes
<1>1. CASE UNCHANGED <<submission, receipt>>
  BY <1>0, <1>1 DEF Forward
<1>2. ASSUME NEW n \in Messages, Create(n) PROVE Forward(m)
  <2>1. submission[n].status = "none" /\ submission[n].version = 0
    BY <1>2, StateTypes, Zenon DEF Create, MessageOK
  <2>2. Sub("QUEUED", None, 0).version = 0
    BY SubFields
  <2>3. CASE m = n
    <3>1. submission'[m] = Sub("QUEUED", None, 0) /\ receipt' = receipt
      BY <1>2, <2>3 DEF Create, StoreInv, StoreTypeOK
    <3> QED
      BY <2>1, <2>2, <2>3, <3>1 DEF Forward
  <2>4. CASE m # n
    <3>1. submission'[m] = submission[m] /\ receipt' = receipt
      BY <1>2, <2>4 DEF Create, StoreInv, StoreTypeOK
    <3> QED
      BY <1>0, <3>1 DEF Forward
  <2> QED
    BY <2>3, <2>4
<1>3. ASSUME NEW p \in Publishers, CommitClaim(p) PROVE Forward(m)
  <2>1. receipt' = receipt
    BY <1>3 DEF CommitClaim
  <2>2. submission'[m].version >= submission[m].version
    BY <1>3, ClaimEffect
  <2>3. submission'[m] = submission[m] \/ submission'[m].status = "SYSTEM_ERROR"
    BY <1>3, ClaimEffect
  <2> QED
    BY <2>1, <2>2, <2>3 DEF Forward
<1>4. ASSUME NEW c \in Callers, CommitApply(c) PROVE Forward(m)
  <2>0. \A n \in txn[c].rows : n \in Messages
    BY DEF StoreInv, StoreTypeOK, TxnType, Clients
  <2>1. ASSUME NEW n \in Messages, n \in txn[c].rows, Applied(c, n) PROVE Forward(m)
    <3>1. CASE m = n
      BY <1>4, <2>1, <3>1, AppliedEffect, Zenon DEF Applied, Forward
    <3>2. CASE m # n
      <4>1. submission'[m] = submission[m] /\ receipt'[m] = receipt[m]
        BY <1>4, <2>1, <3>2, AppliedEffect
      <4> QED
        BY <1>0, <4>1 DEF Forward
    <3> QED
      BY <3>1, <3>2
  <2> QED
    BY <1>1, <1>4, <2>0, <2>1 DEF CommitApply, ReceiptInserts, Applied
<1> QED
  BY <1>1, <1>2, <1>3, <1>4, Zenon
  DEF StoreNext, Clock, LeaseExpires, RetryDue, GrowOld, BeginClaim, CommitUpdate, BeginUpdate,
      BeginApply, Abort

\* No step takes back a result, a receipt or a version, however old the snapshot
\* it writes from.
THEOREM StoreResultsMoveForward == StoreSpec => ResultsMoveForward
<1>1. StoreInv /\ [StoreNext]_storeVars =>
        [\A m \in Messages :
           /\ receipt[m] # None => receipt'[m] = receipt[m]
           /\ submission[m].status \notin {"none", "QUEUED"} => submission'[m].status # "QUEUED"
           /\ submission'[m].version >= submission[m].version]_storeVars
  BY StepsGoForward DEF Forward
<1> QED
  BY <1>1, StoreInvariant, PTL DEF StoreSpec, ResultsMoveForward

-----------------------------------------------------------------------------
\* The publishers: the store takes a step or stutters whenever they take one.

\* A completion as a callback queues it.
Completion == [msg : Messages, ok : BOOLEAN]

\* TypeOK without the tables.
PubTypes ==
  /\ pc \in [Publishers -> {"settle", "publish", "gone"}]
  /\ running \in [Publishers -> BOOLEAN]
  /\ todo \in [Publishers -> SUBSET Messages]
  /\ inFlight \in [Publishers -> [Messages -> {"none", "live", "expired"}]]
  /\ queue \in [Publishers -> Seq(Completion)]
  /\ ready \in [Publishers -> Seq(Completion)]
  /\ unacked \in [Publishers -> [Messages -> 0 .. MaxUnacked]]
  /\ accepted \in [Messages -> BOOLEAN]
  /\ confirmed \in [Messages -> BOOLEAN]
  /\ faults \in 0 .. MaxFaults

\* What the transactions of the clients can look like: an idle one is empty, an
\* update was begun under the lease of its publisher, and the rows of an open
\* claim have not been settled since they were locked.
TxnPart ==
  /\ \A x \in Clients : txn[x].op = "idle" => txn[x] = NoTxn
  /\ \A p \in Publishers : txn[p].op \in {"published", "failed"} =>
       /\ \E m \in Messages : txn[p].rows = {m}
       /\ HoldsLease(p, txn[p].row)
  /\ \A p \in Publishers : txn[p].op = "claim" =>
       \A m \in txn[p].rows : outbox[m].status \in {"PENDING", "SENDING"}

\* Every success in a queue of completions is a confirm of the broker.
Honest(completions) ==
  \A i \in 1 .. Len(completions) : completions[i].ok => confirmed[completions[i].msg]

\* The queues the callbacks and the worker share are honest, ...
QueuePart == \A p \in Publishers : Honest(queue[p]) /\ Honest(ready[p])

\* ... and so is an update of the table that is under way.
UpdatePart ==
  \A p \in Publishers : txn[p].op = "published" => \A m \in txn[p].rows : confirmed[m]

\* A row is PUBLISHED only on a confirm of the broker, all the way from the
\* callback to the table.
PublishedPart == \A m \in Messages : outbox[m].status = "PUBLISHED" => confirmed[m]

\* The inductive invariant.
PublisherInv ==
  /\ PubTypes /\ StoreInv /\ TxnPart
  /\ QueuePart /\ UpdatePart /\ PublishedPart

-----------------------------------------------------------------------------
\* The refinement.

\* A completion is settled as published or as failed.
LEMMA OutcomeOp ==
  \A p, c : Outcome(p, c) \in {"published", "failed"}
BY DEF Outcome

\* A mark is a transaction of the store, or nothing.
LEMMA MarkUsesStore ==
  ASSUME NEW p \in Publishers, NEW m \in Messages, NEW op \in {"published", "failed"},
         Mark(p, m, op)
  PROVE  StoreNext \/ UNCHANGED storeVars
BY DEF Mark, StoreNext

\* Every step of the publishers, the broker and the callbacks is a step of the
\* store or leaves the tables alone.
LEMMA StepUsesStore ==
  ASSUME StoreInv, TxnPart, PubTypes, [Next]_vars
  PROVE  [StoreNext]_storeVars
<1>0. \A p \in Publishers : p \in Clients
  BY DEF Clients
<1>a. \A c \in Callers : c \in Clients
  BY DEF Clients
<1>1. ASSUME NEW p \in Publishers, Drain(p) PROVE [StoreNext]_storeVars
  <2> DEFINE c == Head(ready[p])
  <2>1. CASE inFlight[p][c.msg] = "none"
    BY <1>1, <2>1 DEF Drain
  <2>2. CASE inFlight[p][c.msg] # "none"
    <3>1. Mark(p, c.msg, Outcome(p, c))
      BY <1>1, <2>2 DEF Drain
    <3>2. c.msg \in Messages
      <4>1. ready[p] \in Seq(Completion) /\ ready[p] # <<>>
        BY <1>1 DEF PubTypes, Drain
      <4>2. c \in Completion
        BY <4>1
      <4> QED
        BY <4>2 DEF Completion
    <3> HIDE DEF c
    <3> QED
      BY <3>1, <3>2, OutcomeOp, MarkUsesStore
  <2> QED
    BY <2>1, <2>2
<1>2. ASSUME NEW p \in Publishers, Wake(p) \/ Claim(p) \/ Claimed(p) \/ Marked(p)
      PROVE  [StoreNext]_storeVars
  BY <1>2, ZenonT(30) DEF Wake, Claim, Claimed, Marked, StoreNext
<1>3. ASSUME NEW p \in Publishers, NEW m \in Messages,
             Expire(p, m) \/ Publish(p, m) \/ Refused(p, m)
      PROVE  [StoreNext]_storeVars
  BY <1>3, MarkUsesStore DEF Expire, Publish, Refused
<1>4. ASSUME NEW m \in Messages, Create(m) \/ Clock(m) PROVE [StoreNext]_storeVars
  BY <1>4 DEF StoreNext
<1>5. ASSUME NEW p \in Publishers, NEW m \in Messages,
             Ack(p, m) \/ AckLost(p, m) \/ Nack(p, m) \/ ConfirmDeadline(p, m)
      PROVE  [StoreNext]_storeVars
  BY <1>5 DEF Ack, AckLost, Nack, ConfirmDeadline
<1>6. ASSUME NEW p \in Publishers, StoreFails(p) \/ Stop(p) PROVE [StoreNext]_storeVars
  BY <1>0, <1>6, Zenon DEF StoreFails, Stop, StoreNext
<1>7. ASSUME NEW p \in Publishers, Crash(p) PROVE [StoreNext]_storeVars
  <2>1. /\ txn' = [txn EXCEPT ![p] = NoTxn]
        /\ UNCHANGED <<outbox, submission, receipt, history, aged>>
    BY <1>7 DEF Crash
  <2>2. CASE txn[p].op = "idle"
    <3>1. txn[p] = NoTxn
      BY <1>0, <2>2 DEF TxnPart
    <3>2. txn' = txn
      BY <1>0, <2>1, <3>1 DEF StoreInv, StoreTypeOK
    <3> QED
      BY <2>1, <3>2 DEF storeVars
  <2>3. CASE txn[p].op # "idle"
    BY <1>0, <2>1, <2>3, Zenon DEF Abort, StoreNext
  <2> QED
    BY <2>2, <2>3
<1>8. ASSUME NEW c \in Callers,
             Reported(c) \/ ReportFails(c) \/ \E m \in Messages, r \in Results : Report(c, m, r)
      PROVE  [StoreNext]_storeVars
  BY <1>a, <1>8 DEF Reported, ReportFails, Report, StoreNext
<1>9. CASE UNCHANGED vars
  BY <1>9 DEF vars
<1> QED
  BY <1>1, <1>2, <1>3, <1>4, <1>5, <1>6, <1>7, <1>8, <1>9 DEF Next, Environment, Step

-----------------------------------------------------------------------------
\* What a step of the store does to the transactions and the outbox.

\* A new row starts PENDING.
LEMMA CreateStatus ==
  ASSUME outbox \in [Messages -> RowType], NEW n \in Messages, Create(n), NEW m \in Messages
  PROVE  \/ outbox'[m] = outbox[m]
         \/ outbox'[m].status = "PENDING" /\ outbox[m].status = "none"
<1> DEFINE row == Row("PENDING", None, 0, FALSE, TRUE)
<1>1. outbox' = [outbox EXCEPT ![n] = row] /\ outbox[n].status = "none"
  BY DEF Create
<1>2. row.status = "PENDING"
  BY DEF Row
<1> HIDE DEF row
<1> QED
  BY <1>1, <1>2

\* The clock changes no status.
LEMMA ClockStatus ==
  ASSUME outbox \in [Messages -> RowType], NEW n \in Messages, Clock(n), NEW m \in Messages
  PROVE  outbox'[m].status = outbox[m].status
<1> DEFINE r == outbox[n]
           late == Row(r.status, r.owner, r.attempts, FALSE, r.due)
           due == Row(r.status, r.owner, r.attempts, r.leased, TRUE)
<1>1. \/ outbox' = [outbox EXCEPT ![n] = late]
      \/ outbox' = [outbox EXCEPT ![n] = due]
      \/ outbox' = outbox
  BY Zenon DEF Clock, LeaseExpires, RetryDue, GrowOld
<1>2. late.status = r.status /\ due.status = r.status
  BY DEF Row
<1> HIDE DEF late, due
<1> QED
  BY <1>1, <1>2

\* UpdateOutbox begins under the lease, and commits on rows nobody has claimed.
LEMMA TxnPartStep ==
  ASSUME StoreInv, TxnPart, [StoreNext]_storeVars
  PROVE  TxnPart'
<1>0. /\ \A p \in Publishers : p \in Clients
      /\ \A c \in Callers : c \in Clients /\ c \notin Publishers
  BY StoreConstants DEF Clients
<1>a. NoTxn \in TxnType /\ NoTxn.op = "idle"
  BY NoTxnFields
<1>1. ASSUME NEW x \in Clients, txn' = [txn EXCEPT ![x] = NoTxn],
             \A p \in Publishers : p # x /\ txn[p].op = "claim" =>
               \A m \in txn[p].rows : outbox'[m].status \in {"PENDING", "SENDING"}
      PROVE  TxnPart'
  <2>1. /\ txn'[x] = NoTxn
        /\ \A y \in Clients : y # x => txn'[y] = txn[y]
    BY <1>1, <1>a, OneTxn, Zenon
  <2> QED
    BY <1>0, <1>1, <1>a, <2>1 DEF TxnPart
<1>2. ASSUME NEW m \in Messages, Create(m) PROVE TxnPart'
  <2>1. txn' = txn
    BY <1>2 DEF Create
  <2>2. \A n \in Messages : \/ outbox'[n] = outbox[n]
                            \/ outbox'[n].status = "PENDING"
    BY <1>2, CreateStatus DEF StoreInv, StoreTypeOK
  <2>3. \A p \in Publishers : txn[p].rows \in SUBSET Messages
    BY <1>0 DEF StoreInv, StoreTypeOK, TxnType
  <2> QED
    BY <2>1, <2>2, <2>3 DEF TxnPart
<1>3. ASSUME NEW m \in Messages, Clock(m) PROVE TxnPart'
  <2>1. txn' = txn
    BY <1>3, ZenonT(30) DEF Clock, LeaseExpires, RetryDue, GrowOld
  <2>3. \A n \in Messages : outbox'[n].status = outbox[n].status
    BY <1>3, ClockStatus DEF StoreInv, StoreTypeOK
  <2>2. \A p \in Publishers : txn[p].rows \in SUBSET Messages
    BY <1>0 DEF StoreInv, StoreTypeOK, TxnType
  <2> QED
    BY <2>1, <2>2, <2>3 DEF TxnPart
<1>4. ASSUME NEW p \in Publishers, BeginClaim(p) PROVE TxnPart'
  <2> DEFINE rows == {m \in Messages \ Locked : Claimable(m)}
             t == Txn("claim", rows, {m \in rows : Terminal(m)}, NoRow, submission, None)
  <2>1. txn' = [txn EXCEPT ![p] = t] /\ outbox' = outbox
    BY <1>4 DEF BeginClaim
  <2>2. t.op = "claim" /\ t.rows = rows
    BY DEF Txn
  <2>3. \A m \in rows : outbox[m].status \in {"PENDING", "SENDING"}
    BY DEF Claimable
  <2> HIDE DEF t, rows
  <2>4. txn'[p] = t /\ \A y \in Clients : y # p => txn'[y] = txn[y]
    BY <1>0, <2>1 DEF StoreInv, StoreTypeOK
  <2> QED
    BY <1>0, <2>1, <2>2, <2>3, <2>4 DEF TxnPart
<1>5. ASSUME NEW p \in Publishers, NEW m \in Messages, NEW op \in {"published", "failed"},
             BeginUpdate(p, m, op)
      PROVE  TxnPart'
  <2> DEFINE t == Txn(op, {m}, {}, outbox[m], NoSubs, None)
  <2>1. txn' = [txn EXCEPT ![p] = t] /\ outbox' = outbox /\ HoldsLease(p, outbox[m])
    BY <1>5 DEF BeginUpdate
  <2>2. t.op = op /\ t.rows = {m} /\ t.row = outbox[m]
    BY DEF Txn
  <2> HIDE DEF t
  <2>4. txn'[p] = t /\ \A y \in Clients : y # p => txn'[y] = txn[y]
    BY <1>0, <2>1 DEF StoreInv, StoreTypeOK
  <2> QED
    BY <1>0, <2>1, <2>2, <2>4 DEF TxnPart
<1>6. ASSUME NEW c \in Callers, NEW m \in Messages, NEW r \in Results, BeginApply(c, m, r)
      PROVE  TxnPart'
  <2> DEFINE t == Txn("apply", {m}, {}, NoRow, submission, r)
  <2>1. txn' = [txn EXCEPT ![c] = t] /\ outbox' = outbox
    BY <1>6 DEF BeginApply
  <2>2. t.op = "apply"
    BY DEF Txn
  <2> HIDE DEF t
  <2>4. txn'[c] = t /\ \A y \in Clients : y # c => txn'[y] = txn[y]
    BY <1>0, <2>1 DEF StoreInv, StoreTypeOK
  <2> QED
    BY <1>0, <2>1, <2>2, <2>4 DEF TxnPart
<1>7. ASSUME NEW p \in Publishers, CommitClaim(p) PROVE TxnPart'
  <2>1. txn' = [txn EXCEPT ![p] = NoTxn] /\ txn[p].op = "claim"
    BY <1>7 DEF CommitClaim
  <2>2. ASSUME NEW q \in Publishers, q # p, txn[q].op = "claim", NEW m \in txn[q].rows
        PROVE  outbox'[m].status \in {"PENDING", "SENDING"}
    <3>1. m \in Messages
      BY <1>0 DEF StoreInv, StoreTypeOK, TxnType
    <3>2. m \notin txn[p].rows
      BY <2>1, <2>2 DEF StoreInv, LockPart
    <3>3. outbox'[m] = outbox[m]
      BY <1>7, <3>1, <3>2, ClaimEffect
    <3> QED
      BY <2>2, <3>3 DEF TxnPart
  <2> QED
    BY <1>0, <1>1, <2>1, <2>2, Zenon
<1>8. ASSUME NEW p \in Publishers, CommitUpdate(p) PROVE TxnPart'
  <2>1. txn' = [txn EXCEPT ![p] = NoTxn] /\ txn[p].rows \cap Locked = {}
        /\ \A m \in Messages : m \notin txn[p].rows => outbox'[m] = outbox[m]
    BY <1>8 DEF CommitUpdate
  <2>2. ASSUME NEW q \in Publishers, q # p, txn[q].op = "claim", NEW m \in txn[q].rows
        PROVE  outbox'[m].status \in {"PENDING", "SENDING"}
    <3>1. m \in Messages
      BY <1>0 DEF StoreInv, StoreTypeOK, TxnType
    <3>2. m \in Locked
      BY <2>2 DEF Locked
    <3> QED
      BY <2>1, <2>2, <3>1, <3>2 DEF TxnPart
  <2> QED
    BY <1>0, <1>1, <2>1, <2>2, ZenonT(30)
<1>9. ASSUME NEW c \in Callers, CommitApply(c) PROVE TxnPart'
  <2>1. txn' = [txn EXCEPT ![c] = NoTxn] /\ outbox' = outbox
    BY <1>9 DEF CommitApply
  <2> QED
    BY <1>0, <1>1, <2>1 DEF TxnPart
<1>10. ASSUME NEW x \in Clients, Abort(x) PROVE TxnPart'
  <2>1. txn' = [txn EXCEPT ![x] = NoTxn] /\ outbox' = outbox
    BY <1>10 DEF Abort
  <2> QED
    BY <1>1, <2>1, ZenonT(30) DEF TxnPart
<1>11. CASE UNCHANGED storeVars
  BY <1>11, Zenon DEF storeVars, TxnPart
<1> QED
  BY <1>2, <1>3, <1>4, <1>5, <1>6, <1>7, <1>8, <1>9, <1>10, <1>11 DEF StoreNext

\* A row becomes PUBLISHED by MarkOutboxPublished only, and a settled row changes
\* its status by an UpdateOutbox that was begun before.
LEMMA OutboxMoves ==
  ASSUME StoreInv, TxnPart, [StoreNext]_storeVars, NEW m \in Messages,
         outbox'[m].status # outbox[m].status
  PROVE  /\ outbox'[m].status = "PUBLISHED" =>
              \E p \in Publishers : txn[p].op = "published" /\ m \in txn[p].rows
         /\ outbox[m].status \in {"PUBLISHED", "DEAD"} =>
              \E p \in Publishers :
                /\ txn[p].op \in {"published", "failed"} /\ txn[p].rows = {m}
                /\ txn'[p] = NoTxn
                /\ txn[p].row.status = "SENDING" /\ txn[p].row.owner = p
<1>0. /\ \A p \in Publishers : p \in Clients
      /\ outbox \in [Messages -> RowType]
  BY Zenon DEF Clients, StoreInv, StoreTypeOK
<1>1. ASSUME NEW n \in Messages, Create(n)
      PROVE  outbox'[m].status = "PENDING" /\ outbox[m].status = "none"
  BY <1>0, <1>1, CreateStatus
<1>2. ASSUME NEW n \in Messages, Clock(n) PROVE FALSE
  BY <1>0, <1>2, ClockStatus
<1>3. ASSUME NEW p \in Publishers, CommitClaim(p)
      PROVE  outbox'[m].status \in {"DEAD", "SENDING"} /\ outbox[m].status \in {"PENDING", "SENDING"}
  <2>1. m \in txn[p].rows /\ txn[p].op = "claim"
    BY <1>3, ClaimEffect, ZenonT(30) DEF CommitClaim
  <2> QED
    BY <1>3, <2>1, ClaimEffect, ZenonT(30) DEF TxnPart
<1>4. ASSUME NEW p \in Publishers, CommitUpdate(p)
      PROVE  /\ txn[p].op \in {"published", "failed"} /\ txn[p].rows = {m}
             /\ txn'[p] = NoTxn
             /\ txn[p].row.status = "SENDING" /\ txn[p].row.owner = p
             /\ outbox'[m].status = "PUBLISHED" => txn[p].op = "published"
  <2>1. /\ txn[p].op \in {"published", "failed"} /\ txn' = [txn EXCEPT ![p] = NoTxn]
        /\ m \in txn[p].rows
        /\ txn[p].op # "published" =>
             outbox'[m] = Row("PENDING", None, txn[p].row.attempts, FALSE, FALSE)
    BY <1>4, ZenonT(30) DEF CommitUpdate
  <2>2. txn'[p] = NoTxn
    BY <1>0, <2>1 DEF StoreInv, StoreTypeOK
  <2>3. txn[p].rows = {m} /\ HoldsLease(p, txn[p].row)
    BY <2>1 DEF TxnPart
  <2>4. Row("PENDING", None, txn[p].row.attempts, FALSE, FALSE).status = "PENDING"
    BY DEF Row
  <2> QED
    BY <2>1, <2>2, <2>3, <2>4, ZenonT(30) DEF HoldsLease
<1>5. CASE outbox' = outbox
  BY <1>5
<1> QED
  BY <1>1, <1>2, <1>3, <1>4, <1>5, ZenonT(30)
  DEF StoreNext, BeginClaim, BeginUpdate, BeginApply, CommitApply, Abort, storeVars

-----------------------------------------------------------------------------
\* The memory of the publishers.

\* What a step may do to the successes on their way to the table: a confirm is
\* never forgotten, an update that starts is justified, and so is what the queues
\* hold.
Justified ==
  /\ \A m \in Messages : confirmed[m] => confirmed'[m]
  /\ \A p \in Publishers : txn'[p].op = "published" =>
       \/ txn'[p] = txn[p]
       \/ \A m \in txn'[p].rows : confirmed[m]

\* A transaction that starts or ends changes one client's.
LEMMA Others ==
  ASSUME StoreInv, NEW x \in Clients, NEW t, txn' = [txn EXCEPT ![x] = t],
         t.op # "published" \/ \A m \in t.rows : confirmed[m], confirmed' = confirmed
  PROVE  Justified
<1>1. txn'[x] = t /\ \A y \in Clients : y # x => txn'[y] = txn[y]
  BY DEF StoreInv, StoreTypeOK
<1>2. \A p \in Publishers : p \in Clients
  BY DEF Clients
<1> QED
  BY <1>1, <1>2 DEF Justified

\* A mark "failed" needs no confirm, a mark "published" one of its row.
LEMMA MarkJustified ==
  ASSUME StoreInv, NEW p \in Publishers, NEW m \in Messages, NEW op, Mark(p, m, op),
         op = "published" => confirmed[m], confirmed' = confirmed
  PROVE  Justified
<1> DEFINE t == Txn(op, {m}, {}, outbox[m], NoSubs, None)
<1>1. CASE UNCHANGED storeVars
  BY <1>1 DEF storeVars, Justified
<1>2. CASE BeginUpdate(p, m, op)
  <2>1. txn' = [txn EXCEPT ![p] = t]
    BY <1>2 DEF BeginUpdate
  <2>2. t.op = op /\ t.rows = {m}
    BY Zenon DEF Txn
  <2>3. p \in Clients
    BY DEF Clients
  <2> HIDE DEF t
  <2> QED
    BY <2>1, <2>2, <2>3, Others, ZenonT(30)
<1> QED
  BY <1>1, <1>2 DEF Mark

\* An empty queue is honest.
LEMMA NoneQueued == <<>> \in Seq(Completion) /\ Honest(<<>>)
<1>1. <<>> \in Seq(Completion) /\ Len(<<>>) = 0
  OBVIOUS
<1> QED
  BY <1>1 DEF Honest

\* A completion taken from an honest queue is honest, and so is the rest.
LEMMA HonestQueues ==
  ASSUME NEW q \in Seq(Completion), Honest(q), q # <<>>
  PROVE  /\ Tail(q) \in Seq(Completion) /\ Honest(Tail(q))
         /\ Head(q) \in Completion
         /\ Head(q).ok => confirmed[Head(q).msg]
<1>1. /\ Tail(q) \in Seq(Completion) /\ Head(q) = q[1] /\ 1 \in 1 .. Len(q)
      /\ q[1] \in Completion
      /\ Len(Tail(q)) = Len(q) - 1
      /\ \A i \in 1 .. Len(Tail(q)) : Tail(q)[i] = q[i + 1] /\ i + 1 \in 1 .. Len(q)
  OBVIOUS
<1> QED
  BY <1>1 DEF Honest

\* What the step of a publisher, the broker or a callback leaves behind: the
\* memory well-typed, the queues honest and every new update justified.
Memory == PubTypes' /\ QueuePart' /\ Justified

\* Steps that leave the queues and the confirms alone keep them honest.
LEMMA QueuesKept ==
  ASSUME QueuePart, UNCHANGED <<queue, ready, confirmed>>
  PROVE  QueuePart'
BY DEF QueuePart, Honest

\* Steps of the store that leave the publishers alone.
LEMMA StoreOnly ==
  ASSUME PublisherInv, UNCHANGED pubVars, Justified
  PROVE  Memory
BY QueuesKept DEF Memory, PublisherInv, PubTypes, pubVars

\* The thread of a publisher, outside DrainCompletions.
LEMMA ThreadMemory ==
  ASSUME PublisherInv, NEW p \in Publishers,
         \/ Wake(p) \/ Claim(p) \/ Claimed(p) \/ Marked(p)
         \/ \E m \in Messages : Expire(p, m) \/ Publish(p, m) \/ Refused(p, m)
  PROVE  Memory
<1> USE DEF PublisherInv
<1>0. p \in Clients /\ NoTxn.op = "idle"
  BY NoTxnFields DEF Clients
<1>1. CASE Wake(p)
  <2>1. <<>> \in Seq(Completion) /\ Honest(<<>>)
    BY NoneQueued
  <2>2. /\ ready' = [ready EXCEPT ![p] = queue[p]] /\ queue' = [queue EXCEPT ![p] = <<>>]
        /\ UNCHANGED <<storeVars, running, todo, inFlight, unacked, accepted, confirmed, faults>>
        /\ \E s \in {"settle", "gone"} : pc' = [pc EXCEPT ![p] = s]
    BY <1>1, ZenonT(30) DEF Wake
  <2>3. PubTypes'
    BY <2>1, <2>2 DEF PubTypes
  <2>4. \A q \in Publishers : /\ queue'[q] = queue[q] \/ queue'[q] = <<>>
                              /\ ready'[q] = ready[q] \/ ready'[q] = queue[q]
    BY <2>2, ZenonT(30) DEF PubTypes
  <2>5. \A q \in Publishers : Honest(queue'[q]) /\ Honest(ready'[q])
    BY <2>1, <2>4, ZenonT(30) DEF QueuePart
  <2>6. QueuePart'
    BY <2>2, <2>5, ZenonT(30) DEF QueuePart, Honest
  <2>7. Justified
    BY <2>2, Zenon DEF Justified, storeVars
  <2> QED
    BY <2>3, <2>6, <2>7 DEF Memory
<1>2. CASE Claim(p)
  <2>1. PubTypes' /\ UNCHANGED <<queue, ready, confirmed>>
    BY <1>2, ZenonT(30) DEF Claim, PubTypes
  <2>2. CASE BeginClaim(p)
    <3> DEFINE rows == {n \in Messages \ Locked : Claimable(n)}
               t == Txn("claim", rows, {n \in rows : Terminal(n)}, NoRow, submission, None)
    <3>1. txn' = [txn EXCEPT ![p] = t]
      BY <2>2 DEF BeginClaim
    <3>2. t.op = "claim"
      BY DEF Txn
    <3> HIDE DEF t
    <3> QED
      BY <1>0, <2>1, <3>1, <3>2, Others, QueuesKept, Zenon DEF Memory
  <2>3. CASE UNCHANGED storeVars
    BY <2>1, <2>3, QueuesKept, ZenonT(30) DEF Memory, Justified, storeVars
  <2> QED
    BY <1>2, <2>2, <2>3, ZenonT(30) DEF Claim
<1>3. CASE Claimed(p)
  <2>1. txn[p].rows \in SUBSET Messages
    BY <1>0 DEF StoreInv, StoreTypeOK, TxnType
  <2>2. PubTypes' /\ UNCHANGED <<queue, ready, confirmed>>
    BY <1>3, <2>1, ZenonT(30) DEF Claimed, PubTypes
  <2>3. txn' = [txn EXCEPT ![p] = NoTxn]
    BY <1>3, ZenonT(30) DEF Claimed, CommitClaim
  <2> QED
    BY <1>0, <2>2, <2>3, Others, QueuesKept, ZenonT(30) DEF Memory
<1>4. CASE Marked(p)
  <2>1. UNCHANGED pubVars /\ confirmed' = confirmed
    BY <1>4 DEF Marked, pubVars
  <2>2. txn' = [txn EXCEPT ![p] = NoTxn]
    BY <1>4, Zenon DEF Marked, CommitUpdate
  <2> QED
    BY <1>0, <2>1, <2>2, Others, StoreOnly, Zenon
<1>5. ASSUME NEW m \in Messages, Expire(p, m) PROVE Memory
  <2>1. PubTypes' /\ UNCHANGED <<queue, ready, confirmed>>
    BY <1>5 DEF Expire, PubTypes
  <2>2. Mark(p, m, "failed")
    BY <1>5 DEF Expire
  <2> QED
    BY <2>1, <2>2, MarkJustified, QueuesKept DEF Memory
<1>6. ASSUME NEW m \in Messages, Publish(p, m) PROVE Memory
  <2>1. UNCHANGED <<storeVars, queue, ready, confirmed>>
    BY <1>6 DEF Publish
  <2>2. inFlight' \in [Publishers -> [Messages -> {"none", "live", "expired"}]]
    <3>1. inFlight' = inFlight \/ inFlight' = [inFlight EXCEPT ![p][m] = "live"]
      BY <1>6 DEF Publish
    <3>2. [inFlight EXCEPT ![p][m] = "live"]
            \in [Publishers -> [Messages -> {"none", "live", "expired"}]]
      BY DEF PubTypes
    <3> QED
      BY <3>1, <3>2, ZenonT(30) DEF PubTypes
  <2>3. unacked' \in [Publishers -> [Messages -> 0 .. MaxUnacked]]
    <3>1. unacked[p][m] \in 0 .. MaxUnacked
      BY DEF PubTypes
    <3> DEFINE k == IF unacked[p][m] < MaxUnacked THEN unacked[p][m] + 1 ELSE unacked[p][m]
    <3>2. k \in 0 .. MaxUnacked
      BY <3>1, PublisherBounds
    <3>3. unacked' = unacked \/ unacked' = [unacked EXCEPT ![p][m] = k]
      BY <1>6 DEF Publish
    <3> HIDE DEF k
    <3>4. [unacked EXCEPT ![p][m] = k] \in [Publishers -> [Messages -> 0 .. MaxUnacked]]
      BY <3>2 DEF PubTypes
    <3> QED
      BY <3>3, <3>4, ZenonT(30) DEF PubTypes
  <2>4. PubTypes'
    BY <1>6, <2>2, <2>3, ZenonT(30) DEF Publish, PubTypes
  <2> QED
    BY <2>1, <2>4, QueuesKept DEF Memory, Justified, storeVars
<1>7. ASSUME NEW m \in Messages, Refused(p, m) PROVE Memory
  <2>1. PubTypes' /\ UNCHANGED <<queue, ready, confirmed>>
    BY <1>7 DEF Refused, PubTypes
  <2>2. Mark(p, m, "failed")
    BY <1>7, Zenon DEF Refused
  <2> QED
    BY <2>1, <2>2, MarkJustified, QueuesKept DEF Memory
<1> QED
  BY <1>1, <1>2, <1>3, <1>4, <1>5, <1>6, <1>7

\* DrainCompletions marks a row published only on a confirm it took from the queue.
LEMMA DrainMemory ==
  ASSUME PublisherInv, NEW p \in Publishers, Drain(p)
  PROVE  Memory
<1> USE DEF PublisherInv
<1> DEFINE c == Head(ready[p])
<1>1. /\ ready' = [ready EXCEPT ![p] = Tail(ready[p])] /\ ready[p] # <<>>
      /\ UNCHANGED <<pc, running, todo, queue, unacked, accepted, confirmed, faults>>
      /\ \/ UNCHANGED <<storeVars, inFlight>>
         \/ /\ inFlight' = [inFlight EXCEPT ![p][c.msg] = "none"]
            /\ Mark(p, c.msg, Outcome(p, c))
  BY DEF Drain
<1>2. ready[p] \in Seq(Completion) /\ Honest(ready[p])
  BY DEF PubTypes, QueuePart
<1>3. /\ Tail(ready[p]) \in Seq(Completion) /\ Honest(Tail(ready[p]))
      /\ c \in Completion
      /\ c.ok => confirmed[c.msg]
  BY <1>1, <1>2, HonestQueues
<1>4. c.msg \in Messages
  BY <1>3 DEF Completion
<1> HIDE DEF c
<1>5. PubTypes'
  <2>1. [inFlight EXCEPT ![p][c.msg] = "none"]
          \in [Publishers -> [Messages -> {"none", "live", "expired"}]]
    BY <1>4 DEF PubTypes
  <2>2. inFlight' \in [Publishers -> [Messages -> {"none", "live", "expired"}]]
    BY <1>1, <2>1, ZenonT(30) DEF PubTypes
  <2>3. ready' \in [Publishers -> Seq(Completion)]
    BY <1>1, <1>3, ZenonT(30) DEF PubTypes
  <2> QED
    BY <1>1, <2>2, <2>3 DEF PubTypes
<1>6. \A q \in Publishers : ready'[q] = ready[q] \/ ready'[q] = Tail(ready[p])
  BY <1>1, ZenonT(30) DEF PubTypes
<1>7. \A q \in Publishers : Honest(queue'[q]) /\ Honest(ready'[q])
  BY <1>1, <1>3, <1>6 DEF QueuePart
<1>8. QueuePart'
  BY <1>1, <1>7, Zenon DEF QueuePart, Honest
<1>9. Justified
  <2>1. CASE UNCHANGED storeVars
    BY <1>1, <2>1 DEF Justified, storeVars
  <2>2. CASE Mark(p, c.msg, Outcome(p, c))
    <3>1. Outcome(p, c) = "published" => confirmed[c.msg]
      BY <1>3 DEF Outcome
    <3> QED
      BY <1>1, <1>4, <2>2, <3>1, MarkJustified
  <2> QED
    BY <1>1, <2>1, <2>2
<1> QED
  BY <1>5, <1>8, <1>9 DEF Memory

\* The broker and the confirm deadline.  An acknowledgement is recorded before the
\* completion that reports it is queued.
LEMMA BrokerMemory ==
  ASSUME PublisherInv, NEW p \in Publishers, NEW m \in Messages,
         Ack(p, m) \/ AckLost(p, m) \/ Nack(p, m) \/ ConfirmDeadline(p, m)
  PROVE  Memory
<1> USE DEF PublisherInv
<1>0. queue[p] \in Seq(Completion) /\ Honest(queue[p]) /\ unacked[p][m] \in 0 .. MaxUnacked
  BY DEF PubTypes, QueuePart
<1>1. ASSUME NEW b \in BOOLEAN, NEW cf \in [Messages -> BOOLEAN], NEW ac \in [Messages -> BOOLEAN],
             unacked[p][m] > 0, unacked' = [unacked EXCEPT ![p][m] = unacked[p][m] - 1],
             \/ queue' = queue
             \/ queue' = [queue EXCEPT ![p] = Append(queue[p], [msg |-> m, ok |-> b])],
             confirmed' = cf, accepted' = ac,
             \A n \in Messages : confirmed[n] => cf[n],
             b => cf[m],
             UNCHANGED <<storeVars, pc, running, todo, inFlight, ready, faults>>
      PROVE  Memory
  <2> DEFINE q2 == Append(queue[p], [msg |-> m, ok |-> b])
             k == unacked[p][m] - 1
  <2>1. [msg |-> m, ok |-> b] \in Completion
    BY DEF Completion
  <2>2. q2 \in Seq(Completion)
    <3>1. queue[p] \in Seq(Completion)
      BY <1>0
    <3> QED
      BY <2>1, <3>1
  <2>3. k \in 0 .. MaxUnacked
    BY <1>0, <1>1, PublisherBounds
  <2>4. unacked' = [unacked EXCEPT ![p][m] = k]
    BY <1>1
  <2>5. \A q \in Publishers : \A i \in 1 .. Len(queue[q]) : queue[q][i] \in Completion
    BY DEF PubTypes
  <2>6. \A q \in Publishers : \A i \in 1 .. Len(ready[q]) : ready[q][i] \in Completion
    BY DEF PubTypes
  <2>7. \A q \in Publishers : Honest(queue[q])' /\ Honest(ready[q])'
    <3>1. ASSUME NEW s, \A i \in 1 .. Len(s) : s[i] \in Completion, Honest(s)
          PROVE  \A i \in 1 .. Len(s) : s[i].ok => cf[s[i].msg]
      BY <1>1, <3>1 DEF Honest, Completion
    <3>2. \A i \in 1 .. Len(q2) : q2[i].ok => cf[q2[i].msg]
      <4> DEFINE c == [msg |-> m, ok |-> b]
      <4>1. c \in Completion /\ c.msg = m /\ c.ok = b
        BY DEF Completion
      <4> HIDE DEF c
      <4>2. /\ Len(Append(queue[p], c)) = Len(queue[p]) + 1
            /\ \A i \in 1 .. Len(queue[p]) : Append(queue[p], c)[i] = queue[p][i]
            /\ Append(queue[p], c)[Len(queue[p]) + 1] = c
        BY <1>0, <4>1
      <4>3. \A i \in 1 .. Len(queue[p]) + 1 : i = Len(queue[p]) + 1 \/ i \in 1 .. Len(queue[p])
        BY <1>0
      <4>4. \A i \in 1 .. Len(queue[p]) : queue[p][i].ok => cf[queue[p][i].msg]
        BY <1>0, <2>5, <3>1, ZenonT(30)
      <4>5. \A i \in 1 .. Len(Append(queue[p], c)) :
              Append(queue[p], c)[i].ok => cf[Append(queue[p], c)[i].msg]
        BY <1>1, <4>1, <4>2, <4>3, <4>4
      <4> QED
        BY <4>5, ZenonT(30) DEF c
    <3> HIDE DEF q2
    <3>3. \A q \in Publishers : queue'[q] = queue[q] \/ queue'[q] = q2
      BY <1>1 DEF PubTypes, q2
    <3>4. \A q \in Publishers :
            \A i \in 1 .. Len(queue'[q]) : queue'[q][i].ok => cf[queue'[q][i].msg]
      BY <2>5, <3>1, <3>2, <3>3, ZenonT(30) DEF QueuePart
    <3>5. \A q \in Publishers :
            \A i \in 1 .. Len(ready[q]) : ready[q][i].ok => cf[ready[q][i].msg]
      BY <2>6, <3>1, ZenonT(30) DEF QueuePart
    <3> QED
      BY <1>1, <3>4, <3>5 DEF Honest
  <2> HIDE DEF q2, k
  <2>8. [unacked EXCEPT ![p][m] = k] \in [Publishers -> [Messages -> 0 .. MaxUnacked]]
    BY <2>3 DEF PubTypes
  <2>9. queue' \in [Publishers -> Seq(Completion)]
    BY <1>1, <2>2, ZenonT(30) DEF PubTypes, q2
  <2>10. PubTypes'
    BY <1>1, <2>4, <2>8, <2>9, ZenonT(30) DEF PubTypes
  <2>11. Justified
    BY <1>1 DEF Justified, storeVars
  <2> QED
    BY <2>7, <2>10, <2>11, Zenon DEF Memory, QueuePart
<1>2. CASE Ack(p, m)
  <2> DEFINE cf == [confirmed EXCEPT ![m] = TRUE]
             ac == [accepted EXCEPT ![m] = TRUE]
  <2>1. cf \in [Messages -> BOOLEAN] /\ ac \in [Messages -> BOOLEAN]
    BY DEF PubTypes
  <2>2. (\A n \in Messages : confirmed[n] => cf[n]) /\ cf[m]
    BY DEF PubTypes
  <2>3. confirmed' = cf /\ accepted' = ac
    BY <1>2 DEF Ack
  <2>4. /\ unacked[p][m] > 0 /\ unacked' = [unacked EXCEPT ![p][m] = unacked[p][m] - 1]
        /\ UNCHANGED <<storeVars, pc, running, todo, inFlight, ready, faults>>
    BY <1>2 DEF Ack
  <2>5. \/ queue' = queue
        \/ queue' = [queue EXCEPT ![p] = Append(queue[p], [msg |-> m, ok |-> TRUE])]
    BY <1>2, Zenon DEF Ack, PubTypes
  <2>6. TRUE \in BOOLEAN
    OBVIOUS
  <2> HIDE DEF cf, ac
  <2> QED
    BY <1>1, <2>1, <2>2, <2>3, <2>4, <2>5, <2>6, ZenonT(30)
<1>3. CASE AckLost(p, m)
  <2> DEFINE ac == [accepted EXCEPT ![m] = TRUE]
  <2>1. confirmed \in [Messages -> BOOLEAN] /\ ac \in [Messages -> BOOLEAN]
    BY DEF PubTypes
  <2>3. confirmed' = confirmed /\ accepted' = ac
    BY <1>3 DEF AckLost
  <2>4. /\ unacked[p][m] > 0 /\ unacked' = [unacked EXCEPT ![p][m] = unacked[p][m] - 1]
        /\ UNCHANGED <<storeVars, pc, running, todo, inFlight, ready, faults>>
        /\ queue' = queue
    BY <1>3 DEF AckLost
  <2>6. FALSE \in BOOLEAN /\ (FALSE => confirmed[m])
    OBVIOUS
  <2> HIDE DEF ac
  <2> QED
    BY <1>1, <2>1, <2>3, <2>4, <2>6
<1>4. CASE Nack(p, m)
  <2>1. confirmed \in [Messages -> BOOLEAN] /\ accepted \in [Messages -> BOOLEAN]
    BY DEF PubTypes
  <2>4. /\ unacked[p][m] > 0 /\ unacked' = [unacked EXCEPT ![p][m] = unacked[p][m] - 1]
        /\ UNCHANGED <<storeVars, pc, running, todo, inFlight, ready, faults>>
        /\ confirmed' = confirmed /\ accepted' = accepted
    BY <1>4 DEF Nack
  <2>5. \/ queue' = queue
        \/ queue' = [queue EXCEPT ![p] = Append(queue[p], [msg |-> m, ok |-> FALSE])]
    BY <1>4, ZenonT(30) DEF Nack, PubTypes
  <2>6. FALSE \in BOOLEAN /\ (FALSE => confirmed[m])
    OBVIOUS
  <2> QED
    BY <1>1, <2>1, <2>4, <2>5, <2>6, ZenonT(30)
<1>5. CASE ConfirmDeadline(p, m)
  <2>1. PubTypes' /\ UNCHANGED <<storeVars, queue, ready, confirmed>>
    BY <1>5 DEF ConfirmDeadline, PubTypes
  <2> QED
    BY <2>1, QueuesKept, ZenonT(30) DEF Memory, Justified, storeVars
<1> QED
  BY <1>2, <1>3, <1>4, <1>5

\* Failed transactions, stops and crashes.  A crash empties the queues.
LEMMA FaultMemory ==
  ASSUME PublisherInv, NEW p \in Publishers, StoreFails(p) \/ Stop(p) \/ Crash(p)
  PROVE  Memory
<1> USE DEF PublisherInv
<1>0. p \in Clients /\ NoTxn.op = "idle"
  BY NoTxnFields DEF Clients
<1>1. faults' \in 0 .. MaxFaults
  BY PublisherBounds DEF PubTypes, StoreFails, Stop, Crash
<1>2. CASE StoreFails(p)
  <2>1. PubTypes' /\ UNCHANGED <<queue, ready, confirmed>>
    BY <1>1, <1>2, Zenon DEF StoreFails, PubTypes
  <2>2. txn' = [txn EXCEPT ![p] = NoTxn]
    BY <1>2 DEF StoreFails, Abort
  <2> QED
    BY <1>0, <2>1, <2>2, Others, QueuesKept, ZenonT(30) DEF Memory
<1>3. CASE Stop(p)
  <2>1. PubTypes' /\ UNCHANGED <<storeVars, queue, ready, confirmed>>
    BY <1>1, <1>3 DEF Stop, PubTypes
  <2> QED
    BY <2>1, QueuesKept, ZenonT(30) DEF Memory, Justified, storeVars
<1>4. CASE Crash(p)
  <2>1. <<>> \in Seq(Completion) /\ Honest(<<>>)
    BY NoneQueued
  <2>2. /\ queue' = [queue EXCEPT ![p] = <<>>] /\ ready' = [ready EXCEPT ![p] = <<>>]
        /\ txn' = [txn EXCEPT ![p] = NoTxn] /\ confirmed' = confirmed
    BY <1>4 DEF Crash
  <2>3. inFlight' \in [Publishers -> [Messages -> {"none", "live", "expired"}]]
    BY <1>4 DEF Crash, PubTypes
  <2>4. PubTypes'
    BY <1>1, <1>4, <2>1, <2>3 DEF Crash, PubTypes
  <2>5. \A q \in Publishers : /\ queue'[q] = queue[q] \/ queue'[q] = <<>>
                              /\ ready'[q] = ready[q] \/ ready'[q] = <<>>
    BY <2>2 DEF PubTypes
  <2>6. \A q \in Publishers : Honest(queue'[q]) /\ Honest(ready'[q])
    BY <2>1, <2>5 DEF QueuePart
  <2>7. QueuePart'
    BY <2>2, <2>6, Zenon DEF QueuePart, Honest
  <2> QED
    BY <1>0, <2>2, <2>4, <2>7, Others, Zenon DEF Memory
<1> QED
  BY <1>2, <1>3, <1>4

\* CreateSubmission, the clock and the callbacks of the judge.
LEMMA ClientMemory ==
  ASSUME PublisherInv,
         \/ \E m \in Messages : (Create(m) \/ Clock(m)) /\ UNCHANGED pubVars
         \/ \E c \in Callers : \/ Reported(c) \/ ReportFails(c)
                               \/ \E m \in Messages, r \in Results : Report(c, m, r)
  PROVE  Memory
<1> USE DEF PublisherInv
<1>0. \A c \in Callers : c \in Clients
  BY DEF Clients
<1>a. NoTxn.op = "idle"
  BY NoTxnFields
<1>1. ASSUME NEW m \in Messages, Create(m) \/ Clock(m), UNCHANGED pubVars PROVE Memory
  <2>1. UNCHANGED txn /\ UNCHANGED confirmed
    BY <1>1, ZenonT(30) DEF Create, Clock, LeaseExpires, RetryDue, GrowOld, pubVars
  <2> QED
    BY <1>1, <2>1, StoreOnly DEF Justified
<1>2. ASSUME NEW c \in Callers, Reported(c) PROVE Memory
  <2>1. UNCHANGED pubVars /\ confirmed' = confirmed /\ txn' = [txn EXCEPT ![c] = NoTxn]
    BY <1>2, ZenonT(30) DEF Reported, CommitApply, pubVars
  <2> QED
    BY <1>0, <1>a, <2>1, Others, StoreOnly, ZenonT(30)
<1>3. ASSUME NEW c \in Callers, NEW m \in Messages, NEW r \in Results, Report(c, m, r)
      PROVE  Memory
  <2> DEFINE t == Txn("apply", {m}, {}, NoRow, submission, r)
  <2>1. UNCHANGED pubVars /\ confirmed' = confirmed /\ txn' = [txn EXCEPT ![c] = t]
    BY <1>3, ZenonT(30) DEF Report, BeginApply, pubVars
  <2>2. t.op = "apply"
    BY DEF Txn
  <2> HIDE DEF t
  <2> QED
    BY <1>0, <2>1, <2>2, Others, StoreOnly, ZenonT(30)
<1>4. ASSUME NEW c \in Callers, ReportFails(c) PROVE Memory
  <2>1. faults' \in 0 .. MaxFaults
    BY <1>4, PublisherBounds DEF PubTypes, ReportFails
  <2>2. PubTypes' /\ UNCHANGED <<queue, ready, confirmed>>
    BY <1>4, <2>1 DEF ReportFails, PubTypes
  <2>3. txn' = [txn EXCEPT ![c] = NoTxn]
    BY <1>4 DEF ReportFails, Abort
  <2> QED
    BY <1>0, <1>a, <2>2, <2>3, Others, QueuesKept, ZenonT(30) DEF Memory
<1> QED
  BY <1>1, <1>2, <1>3, <1>4

-----------------------------------------------------------------------------
\* The publishers start with nothing in hand.
LEMMA PublisherInit ==
  ASSUME Init
  PROVE  PublisherInv
<1>1. StoreInv
  BY StoreInitInv DEF Init
<1>2. /\ txn = [x \in Clients |-> NoTxn] /\ NoTxn.op = "idle"
      /\ outbox = [m \in Messages |-> NoRow] /\ NoRow.status = "none"
  BY NoTxnFields DEF Init, StoreInit, NoRow, Row
<1>3. \A p \in Publishers : p \in Clients /\ txn[p] = NoTxn
  BY <1>2 DEF Clients
<1>4. TxnPart
  BY <1>2, <1>3 DEF TxnPart
<1>5. UpdatePart /\ PublishedPart
  BY <1>2, <1>3 DEF UpdatePart, PublishedPart
<1>6. <<>> \in Seq(Completion) /\ Honest(<<>>)
  BY DEF Honest
<1>7. QueuePart
  BY <1>6 DEF Init, QueuePart
<1>8. /\ queue \in [Publishers -> Seq(Completion)] /\ ready \in [Publishers -> Seq(Completion)]
  BY <1>6 DEF Init
<1>9. /\ unacked \in [Publishers -> [Messages -> 0 .. MaxUnacked]] /\ faults \in 0 .. MaxFaults
  BY PublisherBounds DEF Init
<1>10. /\ inFlight \in [Publishers -> [Messages -> {"none", "live", "expired"}]]
       /\ pc \in [Publishers -> {"settle", "publish", "gone"}]
       /\ todo \in [Publishers -> SUBSET Messages]
  BY DEF Init
<1>11. /\ running \in [Publishers -> BOOLEAN]
       /\ accepted \in [Messages -> BOOLEAN]
       /\ confirmed \in [Messages -> BOOLEAN]
  BY DEF Init
<1> QED
  BY <1>1, <1>4, <1>5, <1>7, <1>8, <1>9, <1>10, <1>11 DEF PublisherInv, PubTypes

\* Every step keeps the invariant.
LEMMA PublisherStep ==
  ASSUME PublisherInv, [Next]_vars
  PROVE  PublisherInv'
<1> USE DEF PublisherInv
<1>1. [StoreNext]_storeVars
  BY StepUsesStore
<1>2. StoreInv'
  BY <1>1, StoreStep
<1>3. TxnPart'
  BY <1>1, TxnPartStep
<1>4. Memory
  <2>1. CASE UNCHANGED vars
    <3>1. UNCHANGED pubVars /\ Justified
      BY <2>1, Zenon DEF vars, storeVars, pubVars, Justified
    <3> QED
      BY <3>1, StoreOnly
  <2>2. ASSUME NEW p \in Publishers, Step(p) PROVE Memory
    <3>1. CASE Drain(p)
      BY <3>1, DrainMemory
    <3>2. CASE ~Drain(p)
      BY <2>2, <3>2, ThreadMemory DEF Step
    <3> QED
      BY <3>1, <3>2
  <2>3. CASE Environment
    BY <2>3, BrokerMemory, FaultMemory, ClientMemory DEF Environment
  <2> QED
    BY <2>1, <2>2, <2>3 DEF Next
<1>5. UpdatePart'
  <2>1. SUFFICES ASSUME NEW p \in Publishers, txn'[p].op = "published", NEW m \in txn'[p].rows
                 PROVE  confirmed'[m]
    BY DEF UpdatePart
  <2>2. p \in Clients
    BY DEF Clients
  <2>3. m \in Messages
    BY <1>2, <2>2 DEF StoreInv, StoreTypeOK, TxnType
  <2> QED
    BY <1>4, <2>1, <2>3, Zenon DEF Memory, Justified, UpdatePart
<1>6. PublishedPart'
  <2>1. SUFFICES ASSUME NEW m \in Messages, outbox'[m].status = "PUBLISHED"
                 PROVE  confirmed[m]
    BY <1>4 DEF PublishedPart, Memory, Justified
  <2>2. CASE outbox'[m].status = outbox[m].status
    BY <2>1, <2>2 DEF PublishedPart
  <2>3. CASE outbox'[m].status # outbox[m].status
    BY <1>1, <2>1, <2>3, OutboxMoves DEF UpdatePart
  <2> QED
    BY <2>2, <2>3
<1> QED
  BY <1>2, <1>3, <1>4, <1>5, <1>6 DEF Memory

\* The invariant of the publishers holds in every behaviour.
THEOREM PublisherInvariant == Spec => []PublisherInv
<1>1. Init => PublisherInv
  BY PublisherInit
<1>2. PublisherInv /\ [Next]_vars => PublisherInv'
  BY PublisherStep
<1> QED
  BY <1>1, <1>2, PTL DEF Spec

\* Rows, transactions, queues and counters stay in their types: in particular the
\* completions queued by the callbacks always name a row (outbox_publisher.cpp).
THEOREM PublisherTypes == Spec => []TypeOK
<1>1. PublisherInv => TypeOK
  BY Zenon DEF PublisherInv, PubTypes, TypeOK, StoreInv, Completion
<1> QED
  BY <1>1, PublisherInvariant, PTL

\* Refinement: whatever the publishers, the broker and the callbacks do, crashes
\* included, the tables see only transactions of SubmissionStore, one after the
\* other, so every theorem about the tables holds of the whole pipeline.
THEOREM PublisherUsesStore == Spec => UsesStore
<1>1. Init => StoreInit
  BY DEF Init
<1>2. PublisherInv /\ [Next]_vars => [StoreNext]_storeVars
  BY StepUsesStore DEF PublisherInv
<1> QED
  BY <1>1, <1>2, PublisherInvariant, PTL DEF Spec, UsesStore

\* A QUEUED submission has a row that will be tried again or a copy the broker
\* acknowledged: no loss between the commit of CreateSubmission and the broker.
THEOREM PublisherNothingLost == Spec => []NothingLost
<1>1. PublisherInv => NothingLost
  BY DEF PublisherInv, StoreInv, MessageOK, NothingLost, PublishedPart, StoreTypeOK, RowType
<1> QED
  BY <1>1, PublisherInvariant, PTL

\* A settled row is reopened only by an UpdateOutbox that read it under its own
\* lease before another publisher settled it.
THEOREM PublisherOnlyStaleWritesUnsettle == Spec => OnlyStaleWritesUnsettle
<1>1. PublisherInv /\ [Next]_vars =>
        [\A m \in Messages :
           outbox[m].status \in {"PUBLISHED", "DEAD"} =>
             \/ outbox'[m].status = outbox[m].status
             \/ \E p \in Publishers :
                  /\ txn[p].op \in {"published", "failed"} /\ txn[p].rows = {m}
                  /\ txn'[p] = NoTxn
                  /\ txn[p].row.status = "SENDING" /\ txn[p].row.owner = p]_vars
  <2> SUFFICES ASSUME PublisherInv, [Next]_vars, NEW m \in Messages,
                      outbox[m].status \in {"PUBLISHED", "DEAD"},
                      outbox'[m].status # outbox[m].status
               PROVE  \E p \in Publishers :
                        /\ txn[p].op \in {"published", "failed"} /\ txn[p].rows = {m}
                        /\ txn'[p] = NoTxn
                        /\ txn[p].row.status = "SENDING" /\ txn[p].row.owner = p
    OBVIOUS
  <2>1. [StoreNext]_storeVars
    BY StepUsesStore DEF PublisherInv
  <2> QED
    BY <2>1, OutboxMoves DEF PublisherInv
<1> QED
  BY <1>1, PublisherInvariant, PTL DEF Spec, OnlyStaleWritesUnsettle

-----------------------------------------------------------------------------
\* One publisher.

\* A row that is PUBLISHED or DEAD stays so.
SettledIsFinal ==
  [][\A m \in Messages :
       outbox[m].status \in {"PUBLISHED", "DEAD"} => outbox'[m].status = outbox[m].status]_vars

\* What an open UpdateOutbox has read is still SENDING.
FreshPart ==
  \A p \in Publishers : txn[p].op \in {"published", "failed"} =>
    \A m \in txn[p].rows : outbox[m].status = "SENDING"

\* Nobody else settles it.
LEMMA FreshStep ==
  ASSUME \A p, q \in Publishers : p = q,
         StoreInv, FreshPart, [StoreNext]_storeVars
  PROVE  FreshPart'
<1> SUFFICES ASSUME NEW p \in Publishers, txn'[p].op \in {"published", "failed"},
                    NEW m \in Messages, m \in txn'[p].rows
             PROVE  outbox'[m].status = "SENDING"
  <2>1. ASSUME NEW p \in Publishers, txn'[p].op \in {"published", "failed"},
               NEW m, m \in txn'[p].rows
        PROVE  m \in Messages
    <3>1. StoreTypeOK'
      BY StoreStep DEF StoreInv
    <3> QED
      BY <2>1, <3>1 DEF StoreTypeOK, TxnType, Clients
  <2> QED
    BY <2>1, Zenon DEF FreshPart
<1>0. /\ outbox \in [Messages -> RowType] /\ txn \in [Clients -> TxnType] /\ p \in Clients
      /\ NoTxn.op = "idle"
  BY Zenon DEF StoreInv, StoreTypeOK, Clients, NoTxn, Txn
<1>1. ASSUME txn'[p] = txn[p], outbox'[m] = outbox[m] \/ outbox'[m].status = outbox[m].status
      PROVE  outbox'[m].status = "SENDING"
  BY <1>1 DEF FreshPart
<1>2. ASSUME NEW n \in Messages, Create(n) PROVE outbox'[m].status = "SENDING"
  <2>1. txn' = txn
    BY <1>2 DEF Create
  <2>2. outbox[m].status = "SENDING"
    BY <2>1 DEF FreshPart
  <2> QED
    BY <1>0, <1>2, <2>2, CreateStatus
<1>3. ASSUME NEW n \in Messages, Clock(n) PROVE outbox'[m].status = "SENDING"
  <2>1. txn' = txn
    BY <1>3, ZenonT(30) DEF Clock, LeaseExpires, RetryDue, GrowOld
  <2> QED
    BY <1>0, <1>1, <1>3, <2>1, ClockStatus
<1>4. ASSUME NEW q \in Publishers, CommitClaim(q) \/ CommitUpdate(q) PROVE FALSE
  <2>1. q = p /\ txn' = [txn EXCEPT ![q] = NoTxn]
    BY <1>4, ZenonT(30) DEF CommitClaim, CommitUpdate
  <2> QED
    BY <1>0, <2>1
<1>5. ASSUME NEW q \in Publishers, NEW n \in Messages, NEW op \in {"published", "failed"},
             BeginUpdate(q, n, op)
      PROVE  outbox'[m].status = "SENDING"
  <2> DEFINE t == Txn(op, {n}, {}, outbox[n], NoSubs, None)
  <2>1. /\ q = p /\ txn' = [txn EXCEPT ![q] = t] /\ outbox' = outbox
        /\ outbox[n].status = "SENDING"
    BY <1>5, ZenonT(30) DEF BeginUpdate, HoldsLease
  <2>2. t.rows = {n}
    BY ZenonT(30) DEF Txn
  <2> HIDE DEF t
  <2> QED
    BY <1>0, <2>1, <2>2
<1>6. ASSUME NEW q \in Publishers, BeginClaim(q) PROVE outbox'[m].status = "SENDING"
  <2> DEFINE rows == {n \in Messages \ Locked : Claimable(n)}
             t == Txn("claim", rows, {n \in rows : Terminal(n)}, NoRow, submission, None)
  <2>1. txn' = [txn EXCEPT ![q] = t] /\ outbox' = outbox
    BY <1>6, ZenonT(30) DEF BeginClaim
  <2>2. t.op = "claim" /\ q \in Clients
    BY ZenonT(30) DEF Txn, Clients
  <2> HIDE DEF t
  <2>3. q # p
    BY <1>0, <2>1, <2>2, ZenonT(30)
  <2>4. txn'[p] = txn[p]
    BY <1>0, <2>1, <2>2, <2>3, ZenonT(30)
  <2> QED
    BY <1>1, <2>1, <2>4
<1>7. ASSUME NEW c \in Callers, NEW n \in Messages, NEW r \in Results, BeginApply(c, n, r)
      PROVE  outbox'[m].status = "SENDING"
  <2> DEFINE t == Txn("apply", {n}, {}, NoRow, submission, r)
  <2>1. txn' = [txn EXCEPT ![c] = t] /\ outbox' = outbox
    BY <1>7, ZenonT(30) DEF BeginApply
  <2>2. t.op = "apply" /\ c \in Clients
    BY DEF Txn, Clients
  <2> HIDE DEF t
  <2>3. c # p
    BY <1>0, <2>1, <2>2
  <2>4. txn'[p] = txn[p]
    BY <1>0, <2>1, <2>2, <2>3
  <2> QED
    BY <1>1, <2>1, <2>4
<1>8. ASSUME NEW x \in Clients, CommitApply(x) \/ Abort(x) PROVE outbox'[m].status = "SENDING"
  <2>1. txn' = [txn EXCEPT ![x] = NoTxn] /\ outbox' = outbox
    BY <1>8, ZenonT(30) DEF CommitApply, Abort
  <2>2. x # p
    BY <1>0, <2>1, ZenonT(30)
  <2>3. txn'[p] = txn[p]
    BY <1>0, <2>1, <2>2
  <2> QED
    BY <1>1, <2>1, <2>3
<1>9. CASE UNCHANGED storeVars
  BY <1>1, <1>9 DEF storeVars
<1> QED
  BY <1>2, <1>3, <1>4, <1>5, <1>6, <1>7, <1>8, <1>9, ZenonT(30) DEF StoreNext, Clients

\* With a single publisher, whatever its confirms, deadlines, failed transactions
\* and leases, a settled row is final: it takes a second instance to reopen one
\* (UpdateOutbox in model_submission.hpp, outbox_publisher.cpp).
THEOREM PublisherAloneSettles ==
  ASSUME \A p, q \in Publishers : p = q
  PROVE  Spec => SettledIsFinal
<1>1. Init => FreshPart
  BY DEF Init, StoreInit, FreshPart, NoTxn, Txn, Clients
<1>2. PublisherInv /\ FreshPart /\ [Next]_vars => FreshPart'
  <2> SUFFICES ASSUME PublisherInv, FreshPart, [Next]_vars PROVE FreshPart'
    OBVIOUS
  <2>1. [StoreNext]_storeVars
    BY StepUsesStore DEF PublisherInv
  <2> QED
    BY <2>1, FreshStep DEF PublisherInv
<1>3. PublisherInv /\ FreshPart /\ [Next]_vars =>
        [\A m \in Messages :
           outbox[m].status \in {"PUBLISHED", "DEAD"} => outbox'[m].status = outbox[m].status]_vars
  <2> SUFFICES ASSUME PublisherInv, FreshPart, [Next]_vars, NEW m \in Messages,
                      outbox[m].status \in {"PUBLISHED", "DEAD"},
                      outbox'[m].status # outbox[m].status
               PROVE  FALSE
    OBVIOUS
  <2>1. [StoreNext]_storeVars
    BY StepUsesStore DEF PublisherInv
  <2>2. PICK p \in Publishers : txn[p].op \in {"published", "failed"} /\ txn[p].rows = {m}
    BY <2>1, OutboxMoves, Zenon DEF PublisherInv
  <2> QED
    BY <2>2 DEF FreshPart
<1> QED
  BY <1>1, <1>2, <1>3, PublisherInvariant, PTL DEF Spec, SettledIsFinal
=============================================================================
