--------------------------- MODULE OutboxPublisher ---------------------------
(***************************************************************************)
(* The publisher threads of outbox_publisher.cpp on the tables of          *)
(* SubmissionStore, the confirmed publishes they make through MQProducer,  *)
(* and the results that come back for the copies the broker accepted.      *)
(*                                                                         *)
(* Run is a loop of two phases here: "settle" (drain the completions,       *)
(* expire the confirms, claim rows) and "publish" (publish what was        *)
(* claimed, then wait).  A store call made by the loop is a transaction of *)
(* SubmissionStore, so other instances, callbacks and the clock run        *)
(* between its read and its write.  Notify only shortens the wait, which   *)
(* may end at any time here.                                               *)
(***************************************************************************)
EXTENDS SubmissionStore, Sequences

CONSTANTS
  MaxFaults,     \* bound on failed transactions, crashes and stops
  MaxUnacked     \* bound on the publishes of a row the broker may still answer

ASSUME PublisherBounds == MaxFaults \in Nat /\ MaxUnacked \in Nat \ {0}

VARIABLES
  pc,            \* pc[p]: where publisher p is in Run
  running,       \* running[p]: running_
  todo,          \* todo[p]: claimed rows not yet published
  inFlight,      \* inFlight[p][m]: "none", "live" or "expired" confirm deadline
  queue,         \* queue[p]: SharedCompletions::queue
  ready,         \* ready[p]: the completions DrainCompletions has swapped out
  unacked,       \* unacked[p][m]: publishes the broker has not answered
  accepted,      \* accepted[m]: the broker holds or held a copy of m
  confirmed,     \* confirmed[m]: the broker acknowledged a copy of m
  faults

pubVars == <<pc, running, todo, inFlight, queue, ready, unacked, accepted, confirmed, faults>>

vars == <<storeVars, pubVars>>

TypeOK ==
  /\ StoreTypeOK
  /\ pc \in [Publishers -> {"settle", "publish", "gone"}]
  /\ running \in [Publishers -> BOOLEAN]
  /\ todo \in [Publishers -> SUBSET Messages]
  /\ inFlight \in [Publishers -> [Messages -> {"none", "live", "expired"}]]
  /\ \A p \in Publishers :
       /\ queue[p] \in Seq([msg : Messages, ok : BOOLEAN])
       /\ ready[p] \in Seq([msg : Messages, ok : BOOLEAN])
  /\ unacked \in [Publishers -> [Messages -> 0 .. MaxUnacked]]
  /\ accepted \in [Messages -> BOOLEAN]
  /\ confirmed \in [Messages -> BOOLEAN]
  /\ faults \in 0 .. MaxFaults

\* Every publisher has been started, with an owner_ of its own.
Init ==
  /\ StoreInit
  /\ pc = [p \in Publishers |-> "publish"]
  /\ running = [p \in Publishers |-> TRUE]
  /\ todo = [p \in Publishers |-> {}]
  /\ inFlight = [p \in Publishers |-> [m \in Messages |-> "none"]]
  /\ queue = [p \in Publishers |-> <<>>]
  /\ ready = [p \in Publishers |-> <<>>]
  /\ unacked = [p \in Publishers |-> [m \in Messages |-> 0]]
  /\ accepted = [m \in Messages |-> FALSE]
  /\ confirmed = [m \in Messages |-> FALSE]
  /\ faults = 0

Free(p) == txn[p].op = "idle"

-----------------------------------------------------------------------------
\* A mark that writes the row without asking whose lease it is.
BugMark(p, m, op) ==
  /\ outbox' = [outbox EXCEPT ![m] = Row("PUBLISHED", None, @.attempts, FALSE, TRUE)]
  /\ UNCHANGED <<submission, receipt, history, aged, txn>>

\* MarkPublished or MarkFailed by the loop: a transaction when p still holds
\* the lease, nothing otherwise.
Mark(p, m, op) ==
  IF HoldsLease(p, outbox[m]) THEN BeginUpdate(p, m, op) ELSE UNCHANGED storeVars

\* The wait ends.  DrainCompletions takes the whole queue, for the last time
\* if the publisher has been stopped.
Wake(p) ==
  /\ pc[p] = "publish" /\ todo[p] = {} /\ Free(p)
  /\ ready' = [ready EXCEPT ![p] = queue[p]]
  /\ queue' = [queue EXCEPT ![p] = <<>>]
  /\ pc' = [pc EXCEPT ![p] = IF running[p] THEN "settle" ELSE "gone"]
  /\ UNCHANGED <<storeVars, running, todo, inFlight, unacked, accepted, confirmed, faults>>

\* A drain that takes any answer for a confirm.
BugOutcome(p, c) == "published"

\* A confirm counts only before its deadline.
Outcome(p, c) ==
  IF c.ok /\ inFlight[p][c.msg] = "live" THEN "published" ELSE "failed"

\* DrainCompletions settles the entries that are still in flight one by one.
Drain(p) ==
  LET c == Head(ready[p])
  IN  /\ ready[p] # <<>> /\ Free(p)
      /\ ready' = [ready EXCEPT ![p] = Tail(@)]
      /\ IF inFlight[p][c.msg] = "none"
         THEN UNCHANGED <<storeVars, inFlight>>
         ELSE /\ inFlight' = [inFlight EXCEPT ![p][c.msg] = "none"]
              /\ Mark(p, c.msg, Outcome(p, c))
      /\ UNCHANGED <<pc, running, todo, queue, unacked, accepted, confirmed, faults>>

\* ExpireConfirms gives the entries whose deadline has passed back.
Expire(p, m) ==
  /\ pc[p] = "settle" /\ ready[p] = <<>> /\ Free(p)
  /\ inFlight[p][m] = "expired"
  /\ inFlight' = [inFlight EXCEPT ![p][m] = "none"]
  /\ Mark(p, m, "failed")
  /\ UNCHANGED <<pc, running, todo, queue, ready, unacked, accepted, confirmed, faults>>

\* Claim, once no expired entry is left: a transaction when some row is
\* claimable.  A deadline that passes after ExpireConfirms read the clock
\* passes after this step.
Claim(p) ==
  /\ pc[p] = "settle" /\ ready[p] = <<>> /\ Free(p)
  /\ \A m \in Messages : inFlight[p][m] # "expired"
  /\ IF \E m \in Messages \ Locked : Claimable(m)
     THEN BeginClaim(p) /\ UNCHANGED pc
     ELSE pc' = [pc EXCEPT ![p] = "publish"] /\ UNCHANGED storeVars
  /\ UNCHANGED <<running, todo, inFlight, queue, ready, unacked, accepted, confirmed, faults>>

Claimed(p) ==
  /\ CommitClaim(p)
  /\ todo' = [todo EXCEPT ![p] = txn[p].rows \ txn[p].dead]
  /\ pc' = [pc EXCEPT ![p] = "publish"]
  /\ UNCHANGED <<running, inFlight, queue, ready, unacked, accepted, confirmed, faults>>

Marked(p) ==
  /\ CommitUpdate(p)
  /\ UNCHANGED pubVars

\* The publish loop: a row already in flight is skipped; the rows left when
\* the publisher is stopped keep their lease.
Publish(p, m) ==
  /\ pc[p] = "publish" /\ m \in todo[p] /\ Free(p)
  /\ todo' = [todo EXCEPT ![p] = IF running[p] THEN @ \ {m} ELSE {}]
  /\ IF running[p] /\ inFlight[p][m] = "none"
     THEN /\ inFlight' = [inFlight EXCEPT ![p][m] = "live"]
          /\ unacked' = [unacked EXCEPT ![p][m] = IF @ < MaxUnacked THEN @ + 1 ELSE @]
     ELSE UNCHANGED <<inFlight, unacked>>
  /\ UNCHANGED <<storeVars, pc, running, queue, ready, accepted, confirmed, faults>>

\* PublishConfirmed refuses: there is no connection.
Refused(p, m) ==
  /\ pc[p] = "publish" /\ m \in todo[p] /\ Free(p)
  /\ running[p] /\ inFlight[p][m] = "none"
  /\ todo' = [todo EXCEPT ![p] = @ \ {m}]
  /\ Mark(p, m, "failed")
  /\ UNCHANGED <<pc, running, inFlight, queue, ready, unacked, accepted, confirmed, faults>>

-----------------------------------------------------------------------------
\* The broker stores a copy and the acknowledgement reaches the callback ...
Ack(p, m) ==
  /\ unacked[p][m] > 0
  /\ unacked' = [unacked EXCEPT ![p][m] = @ - 1]
  /\ accepted' = [accepted EXCEPT ![m] = TRUE]
  /\ confirmed' = [confirmed EXCEPT ![m] = TRUE]
  /\ queue' = [queue EXCEPT ![p] =
       IF pc[p] = "gone" THEN @ ELSE Append(@, [msg |-> m, ok |-> TRUE])]
  /\ UNCHANGED <<storeVars, pc, running, todo, inFlight, ready, faults>>

\* ... or it does not: the connection is lost after the copy was stored.
AckLost(p, m) ==
  /\ unacked[p][m] > 0
  /\ unacked' = [unacked EXCEPT ![p][m] = @ - 1]
  /\ accepted' = [accepted EXCEPT ![m] = TRUE]
  /\ UNCHANGED <<storeVars, pc, running, todo, inFlight, queue, ready, confirmed, faults>>

\* Nack, unroutable, channel error or NOT_CONNECTED.
Nack(p, m) ==
  /\ unacked[p][m] > 0
  /\ unacked' = [unacked EXCEPT ![p][m] = @ - 1]
  /\ queue' = [queue EXCEPT ![p] =
       IF pc[p] = "gone" THEN @ ELSE Append(@, [msg |-> m, ok |-> FALSE])]
  /\ UNCHANGED <<storeVars, pc, running, todo, inFlight, ready, accepted, confirmed, faults>>

\* The confirm deadline of an entry passes.
ConfirmDeadline(p, m) ==
  /\ inFlight[p][m] = "live"
  /\ inFlight' = [inFlight EXCEPT ![p][m] = "expired"]
  /\ UNCHANGED <<storeVars, pc, running, todo, queue, ready, unacked, accepted, confirmed, faults>>

\* A store call fails: the loop ignores it, or skips the publish phase.
StoreFails(p) ==
  /\ faults < MaxFaults
  /\ Abort(p)
  /\ faults' = faults + 1
  /\ pc' = [pc EXCEPT ![p] = IF txn[p].op = "claim" THEN "publish" ELSE @]
  /\ UNCHANGED <<running, todo, inFlight, queue, ready, unacked, accepted, confirmed>>

\* Another instance is kept running.
Replaceable(p) == \E q \in Publishers \ {p} : running[q]

Stop(p) ==
  /\ running[p] /\ faults < MaxFaults /\ Replaceable(p)
  /\ running' = [running EXCEPT ![p] = FALSE]
  /\ faults' = faults + 1
  /\ UNCHANGED <<storeVars, pc, todo, inFlight, queue, ready, unacked, accepted, confirmed>>

\* The process dies: its transaction rolls back, its memory is gone.
Crash(p) ==
  /\ pc[p] # "gone" /\ faults < MaxFaults /\ Replaceable(p)
  /\ txn' = [txn EXCEPT ![p] = NoTxn]
  /\ pc' = [pc EXCEPT ![p] = "gone"]
  /\ running' = [running EXCEPT ![p] = FALSE]
  /\ todo' = [todo EXCEPT ![p] = {}]
  /\ inFlight' = [inFlight EXCEPT ![p] = [m \in Messages |-> "none"]]
  /\ queue' = [queue EXCEPT ![p] = <<>>]
  /\ ready' = [ready EXCEPT ![p] = <<>>]
  /\ faults' = faults + 1
  /\ UNCHANGED <<outbox, submission, receipt, history, aged, unacked, accepted, confirmed>>

\* UpdateJudgeResult for a copy the broker accepted.
Report(c, m, r) ==
  /\ accepted[m]
  /\ BeginApply(c, m, r)
  /\ UNCHANGED pubVars

Reported(c) ==
  /\ CommitApply(c)
  /\ UNCHANGED pubVars

ReportFails(c) ==
  /\ faults < MaxFaults
  /\ Abort(c)
  /\ faults' = faults + 1
  /\ UNCHANGED <<pc, running, todo, inFlight, queue, ready, unacked, accepted, confirmed>>

\* One step of the thread of publisher p.
Step(p) ==
  \/ Wake(p) \/ Drain(p) \/ Claim(p) \/ Claimed(p) \/ Marked(p)
  \/ \E m \in Messages : Expire(p, m) \/ Publish(p, m) \/ Refused(p, m)

Environment ==
  \/ \E m \in Messages : (Create(m) \/ Clock(m)) /\ UNCHANGED pubVars
  \/ \E p \in Publishers, m \in Messages :
       Ack(p, m) \/ AckLost(p, m) \/ Nack(p, m) \/ ConfirmDeadline(p, m)
  \/ \E p \in Publishers : StoreFails(p) \/ Stop(p) \/ Crash(p)
  \/ \E c \in Callers :
       Reported(c) \/ ReportFails(c) \/ \E m \in Messages, r \in Results : Report(c, m, r)

Next == Environment \/ \E p \in Publishers : Step(p)

Spec == Init /\ [][Next]_vars

-----------------------------------------------------------------------------
\* No accepted submission is lost between the database and the broker: as
\* long as it is QUEUED, its row will be tried again or the broker has a copy
\* (README: the outbox avoids "stored in the database, message lost").
NothingLost ==
  \A m \in Messages :
    submission[m].status = "QUEUED" =>
      outbox[m].status \in {"PENDING", "SENDING"} \/ confirmed[m]

\* A row that is PUBLISHED or DEAD stays so, but for one way out: UpdateOutbox
\* of a publisher writes back the row it read while it was SENDING under its own
\* lease.  Its transaction has been open since, so another publisher settled the
\* row: with a single publisher a settled row is final, and a late completion or
\* an expired confirm alone never reopens one.
OnlyStaleWritesUnsettle ==
  [][\A m \in Messages :
       outbox[m].status \in {"PUBLISHED", "DEAD"} =>
         \/ outbox'[m].status = outbox[m].status
         \/ \E p \in Publishers :
              /\ txn[p].op \in {"published", "failed"} /\ txn[p].rows = {m}
              /\ txn'[p] = NoTxn
              /\ txn[p].row.status = "SENDING" /\ txn[p].row.owner = p]_vars

\* Every outbox row is eventually settled for good, whatever the broker does
\* and whichever publishers stop.
RowsSettle ==
  \A m \in Messages :
    outbox[m].status # "none" ~> [](outbox[m].status \in {"PUBLISHED", "DEAD"})

\* The publishers and callbacks use the tables only through the transactions
\* of SubmissionStore, so what holds of the tables under any client holds here.
UsesStore == StoreInit /\ [][StoreNext]_storeVars
=============================================================================
