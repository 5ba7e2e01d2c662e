---------------------------- MODULE AdminProcess ----------------------------
(***************************************************************************)
(* oj_admin from its first request to its exit: the handlers on the        *)
(* business executor, the AdminAuditWorker they hand their records to      *)
(* (admin_audit_worker.cpp), and main, which stops the executor, the audit *)
(* worker and the database in that order (oj_admin.cpp).                   *)
(*                                                                         *)
(* The worker waits on condition_ in two steps: it tests the predicate,    *)
(* then sleeps.  It holds mutex_ in between, which Enqueue takes and Stop  *)
(* does not.                                                               *)
(***************************************************************************)
EXTENDS Naturals, Sequences

CONSTANTS
  Handlers,        \* the requests that write an audit record
  AuditCapacity,   \* capacity_
  NoRecord

VARIABLES
  handler,     \* handler[h]: the request and what became of its record
  auditQueue,  \* queue_
  auditing,    \* running_
  auditor,     \* the worker thread: where Run is, its record, the attempts
  auditLog,    \* the records in admin_audit_logs
  givenUp,     \* the records whose three attempts failed
  stage,       \* where main is
  database,    \* the ODB runtime: "up", "down", or "again" when started anew
  missed       \* history: Stop notified while the worker was about to sleep

adminVars == <<handler, auditQueue, auditing, auditor, auditLog, givenUp, stage, database, missed>>

Auditor(pc, record, attempt) == [pc |-> pc, record |-> record, attempt |-> attempt]
AtTop == Auditor("top", NoRecord, 0)

AdminInit ==
  /\ handler = [h \in Handlers |-> "new"]
  /\ auditQueue = <<>> /\ auditing = TRUE
  /\ auditor = AtTop
  /\ auditLog = {} /\ givenUp = {}
  /\ stage = "serve"
  /\ database = "up"
  /\ missed = FALSE

-----------------------------------------------------------------------------
Accept(h) ==
  /\ handler[h] = "new" /\ stage = "serve"
  /\ handler' = [handler EXCEPT ![h] = "accepted"]
  /\ UNCHANGED <<auditQueue, auditing, auditor, auditLog, givenUp, stage, database, missed>>

\* WriteAudit at the end of a handler: Enqueue, or a warning.
WriteAudit(h) ==
  /\ handler[h] = "accepted" /\ auditor.pc # "parking"
  /\ IF auditing /\ Len(auditQueue) < AuditCapacity
     THEN /\ auditQueue' = Append(auditQueue, h)
          /\ handler' = [handler EXCEPT ![h] = "queued"]
          /\ auditor' = IF auditor.pc = "asleep" THEN AtTop ELSE auditor
     ELSE /\ handler' = [handler EXCEPT ![h] = "refused"]
          /\ UNCHANGED <<auditQueue, auditor>>
  /\ UNCHANGED <<auditing, auditLog, givenUp, stage, database, missed>>

-----------------------------------------------------------------------------
\* A worker that leaves as soon as running_ is false.
BugAuditorLeaves == ~auditing

\* Run returns only with an empty queue.
AuditorLeaves == ~auditing /\ auditQueue = <<>>

\* The section of Run under mutex_.
TestQueue ==
  /\ auditor.pc = "top"
  /\ \/ /\ AuditorLeaves
        /\ auditor' = Auditor("exit", NoRecord, 0)
        /\ UNCHANGED auditQueue
     \/ /\ ~AuditorLeaves /\ auditQueue = <<>>
        /\ auditor' = Auditor("parking", NoRecord, 0)
        /\ UNCHANGED auditQueue
     \/ /\ ~AuditorLeaves /\ auditQueue # <<>>
        /\ auditor' = Auditor("insert", Head(auditQueue), 0)
        /\ auditQueue' = Tail(auditQueue)
  /\ UNCHANGED <<handler, auditing, auditLog, givenUp, stage, database, missed>>

Park ==
  /\ auditor.pc = "parking"
  /\ auditor' = Auditor("asleep", NoRecord, 0)
  /\ UNCHANGED <<handler, auditQueue, auditing, auditLog, givenUp, stage, database, missed>>

\* InsertAdminAuditLog; AcquireDatabase starts a database that is stopped.
InsertAuditLog ==
  /\ auditor.pc = "insert"
  /\ database' = IF database = "up" THEN "up" ELSE "again"
  /\ \/ /\ auditLog' = auditLog \cup {auditor.record}
        /\ auditor' = AtTop
        /\ UNCHANGED givenUp
     \/ /\ auditor.attempt < 2
        /\ auditor' = Auditor("insert", auditor.record, auditor.attempt + 1)
        /\ UNCHANGED <<auditLog, givenUp>>
     \/ /\ auditor.attempt = 2
        /\ givenUp' = givenUp \cup {auditor.record}
        /\ auditor' = AtTop
        /\ UNCHANGED auditLog
  /\ UNCHANGED <<handler, auditQueue, auditing, stage, missed>>

-----------------------------------------------------------------------------
AfterExecutor == "audit"

\* The server has stopped; executor.Stop() runs every accepted request.
ExecutorStopped ==
  /\ stage = "serve" /\ \A h \in Handlers : handler[h] # "accepted"
  /\ stage' = AfterExecutor
  /\ UNCHANGED <<handler, auditQueue, auditing, auditor, auditLog, givenUp, database, missed>>

\* audit_worker.Stop(): running_ ...
AuditStop ==
  /\ stage = "audit"
  /\ auditing' = FALSE
  /\ stage' = "notify"
  /\ UNCHANGED <<handler, auditQueue, auditor, auditLog, givenUp, database, missed>>

\* A Stop without the notification.
BugAfterNotify(a) == a

AfterNotify(a) == IF a.pc = "asleep" THEN AtTop ELSE a

\* ... the notification, which reaches a thread that sleeps already ...
AuditNotify ==
  /\ stage = "notify"
  /\ auditor' = AfterNotify(auditor)
  /\ missed' = (auditor.pc = "parking")
  /\ stage' = "join"
  /\ UNCHANGED <<handler, auditQueue, auditing, auditLog, givenUp, database>>

\* ... and the join.
AuditJoined ==
  /\ stage = "join" /\ auditor.pc = "exit"
  /\ stage' = "database"
  /\ UNCHANGED <<handler, auditQueue, auditing, auditor, auditLog, givenUp, database, missed>>

DatabaseStopped ==
  /\ stage = "database"
  /\ database' = "down"
  /\ stage' = "done"
  /\ UNCHANGED <<handler, auditQueue, auditing, auditor, auditLog, givenUp, missed>>

AuditorStep == TestQueue \/ Park \/ InsertAuditLog

ShutdownStep == AuditStop \/ AuditNotify \/ AuditJoined \/ DatabaseStopped

AdminNext ==
  \/ \E h \in Handlers : Accept(h) \/ WriteAudit(h)
  \/ AuditorStep
  \/ ExecutorStopped \/ ShutdownStep

AdminSpec == AdminInit /\ [][AdminNext]_adminVars

-----------------------------------------------------------------------------
\* Every record Enqueue accepted is in the table, or three attempts to insert it
\* failed, before main stops the database: Stop drains the queue.
AuditedBeforeExit ==
  stage \in {"database", "done"} =>
    \A h \in Handlers : handler[h] = "queued" => h \in auditLog \cup givenUp

\* Nothing uses the database after main has stopped it; a late user would start
\* it again (EnsureDatabaseStarted) and nobody would stop it.
DatabaseStaysDown == database # "again"

\* main ends, unless Stop, which changes running_ without mutex_, notified in
\* the moment between the worker's test and its sleep.
AdminExits == []<>(stage = "serve" \/ stage = "done" \/ missed)
=============================================================================
