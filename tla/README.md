# A verification of OnlineJudge in TLA+

These modules model the concurrent parts of OnlineJudge: what happens to a
submission between the database, RabbitMQ, the judge nodes and the callback; how
a judge node runs it; and the thread, lock, cache and transaction structures of
the two servers. TLC checks them on small instances. TLAPS proves every safety
property of the passing runs for all instances.

## The system

```text
gateway -> oj_server RPC -> AsyncDispatch -> BusinessExecutor worker
                                |              | one MySQL transaction
             sessions, cache,   |     submission row + outbox row
             custom test states |              |
             (Redis)  <---------+              v
   OutboxPublisher --MQProducer, confirmed--> RabbitMQ --delivery--> JudgeConsumer
        ^                                   ^   retry queue, dead-letter queue
        | marks the row                     |                     |
        |                              retry / ack          JudgeInbox (Redis)
        |                                   |                     |
   MySQL <-- ApplyJudgeResult <-- UpdateJudgeResult <-- ResultReporter
     ^                                                      ^
     | connection pool               JudgeEventLoop: owners, I/O threads
   oj_server, oj_admin (audit worker)      Judger::Run, Docker containers
```

`PROJECT.json` lists every part of the system, modelled or not, with the reason.

| Part | Module | State | Actions |
|---|---|---|---|
| Lua scripts of the inbox | `InboxScripts` | (operators) | reply and effect of `ClaimScript`, `CompleteScript` |
| Idempotent consumer | `JudgeInbox` | Redis hash, each delivery's progress, results reported | `Claim`, `Judge`, `Complete`, `Report`, lost replies, expiry, crash |
| What the inbox promises | `ResultRegister` | decided result, reports | `Decide`, `Report`, `Forget` |
| Submission tables | `SubmissionStore` | outbox, submission, receipt, history rows, open transactions | `Create`; begin and commit of claim, update, apply; rollback; clock |
| Publisher threads | `OutboxPublisher` (extends the tables) | position in `Run`, `in_flight_`, completion queue, broker | one action per step of `Run`; confirms, losses, stop, crash; the callback |
| Confirming producer | `MQProducer` | publishes of one message, `_returned`, the channel | publish, route, return, ack, nack, channel error |
| Broker, consumer, inbox, callback together | `JudgePipeline` (uses `InboxScripts`) | copies of a message, deliveries, hash, receipt | delivery, claim to report, ack, retry, dead letter, failures of each |
| Coroutine event loop | `JudgeEventLoop` | `_pendings`, `_ready`, `_io_queue`, threads, `Stop` | one action per section under `_mutex` |
| Judging coroutine, containers | `Judger` | the next `co_await`, the verdict, two containers, what the program did | one action per `co_await` with the code up to the next; stop, deadline, unwinding |
| Executor and dispatch | `BusinessExecutor` | lifecycle, queue, workers, completions, counters | `Start`, `Submit`, `Take`, `Run`, `Stop`, `Drop`, destruction |
| Connection pool, `ModelContext` | `ConnectionPool` | `_running`, `_active_count`, idle connections, each thread's position | one action per section under `_mtx`; start, health check, stop with its timeout |
| `oj_admin` and its audit worker | `AdminProcess` | requests, `queue_`, the worker, the stages of `main` | accept, enqueue, insert with three attempts, each step of the shutdown |
| Cache metrics | `CacheMetrics` | the atomic counters, the flush, the rows | one action per operation on an atomic; insert, failure, last flush |
| Cached content | `ContentCache` | the row, its entries, list versions and lists, readers, writers | commit, each cache call after it, each step of a read, expiry |
| Custom tests and guests | `CustomTests` | the polled key, outbox row, receipt, parties | creation, recovery, callback step by step, cleanup, expiry |
| Sessions | `Sessions` | the Redis hash, the local maps, operations under way | one action per Redis command |
| Likes, favourites, comments | `Discussion` | rows, counters, transactions, row locks | begin, each lock, commit, rollback, deadlock victim, account deletion |

Definitions named `Bug...` are faulty variants of the definition after them; no
specification uses them. They record that a property notices that fault.

**How the instances are put together.** Where components interact, one module has
them together (`JudgePipeline`, `OutboxPublisher` over `SubmissionStore`,
`AdminProcess`, `Judger` with the loop around it). Components that share no state
are only run together: the MC module extends or instantiates several, and the
variable `part`, chosen in the initial state, says which one a behaviour is
about. The others keep their initial state. The state space is the sum of theirs.

| MC module | Parts |
|---|---|
| `MCDelivery` | `JudgeInbox`, `JudgePipeline` |
| `MCTables` | `SubmissionStore`, `Discussion` |
| `MCOutboxPublisher` | `OutboxPublisher` |
| `MCDatabaseLive` | `OutboxPublisher`, `Discussion`, with fairness |
| `MCJudgeLive` | `JudgePipeline`, `JudgeEventLoop`, with fairness |
| `MCJudgeEventLoop` | `JudgeEventLoop`, `Judger` |
| `MCServices` | `BusinessExecutor`, `ConnectionPool`, `AdminProcess`, `CacheMetrics`, `ContentCache`, `CustomTests`, `Sessions`, `MQProducer`, with fairness |
| `MCJudgePipeline` | `JudgePipeline`, for two of the findings |

## Abstractions

- **Time.** A comparison with a clock is a flag that an action flips (`leased`,
  `due`, `aged`, `late`, `clock`). Any order of expiry and other events is possible.
- **Transactions.** MySQL runs at REPEATABLE READ and ODB's `find` takes no lock,
  so a transaction that finds and then updates is two steps, with any commit in
  between. Rows read `FOR UPDATE` stay locked until the transaction ends, and
  InnoDB rolls back one transaction of a cycle of waits. The receipt's primary
  key makes a second insert roll back. The batch limit of a claim is not reached
  by the instances. Locks that InnoDB takes on its own for foreign keys are not
  modelled.
- **Payloads.** A message body, a result and a token are values without structure.
  In the tables all verdicts are one status, `JUDGED`, with a result. In the cache
  a value is the number of the commit it shows.
- **Broker.** Durable queues keep copies. Ordering between copies is not assumed.
  The per-message delay is an event that may come at any time. On one channel the
  broker's answers keep their order, and a return comes before its ack.
- **Coroutines.** In `JudgeEventLoop` a coroutine is the number of Docker calls it
  still makes. In `Judger` it is the whole of `Judger::Run`, and the loop is
  reduced to what it does to one coroutine. Sizes are left out: argument and
  output limits, and exceptions of host files. A task has at least one test,
  because `ValidJudgeTask` refuses others.
- **Ready order.** The deadline sweep and `Stop` walk a `std::map` whose keys are
  random ids. The model lists each set of tasks in one order
  (`ById`), which is any order up to renaming; the proofs hold for every choice.
- **Condition variables.** Where a notifier does not hold the mutex, the test of
  the predicate and the sleep are two steps (`JudgeEventLoop`, `AdminProcess`);
  a notification in between is missed.
- **After a use of a destroyed coroutine** (see Findings) the model goes on as if
  the process survived.

Assumptions about durations: a completed inbox key outlives a report that is
under way (days against an RPC of 5 s), so it does not expire under one; each
Docker call returns (they have timeouts).

## Runs

| Run | Instance | Distinct states | Shows |
|---|---|---|---|
| `delivery` | inbox: 1 message, 3 workers, 2 bodies, 2 results, 5 claims; pipeline: 2 nodes, 3 copies, 2 faults | 85,093 | `ReportsAgree`, `NoDuplicateJudging`, `RegisterSpec`, `NothingSilentlyLost` |
| `tables` | 2 messages, 1 publisher, 2 callers, 2 results; 2 connections, 2 users, 2 comments | 208,445 | `OneResultPerMessage`, `VerdictIsReceipt`, `ResultsMoveForward`, `CountsMatchRows` |
| `outbox` | 1 message, 2 publishers, 2 attempts, 1 caller, 1 fault | 1,210,712 | `NothingLost`, `OnlyStaleWritesUnsettle` |
| `database_live` | 1 message, 2 publishers, 1 attempt, 1 caller, 2 faults; 2 connections, 3 comments | 131,449 | the tables are used only through their transactions (`UsesStore`), `RowsSettle`, `TransactionsEnd`, `TwoLevels`, `CyclesOnlyAtReplies` |
| `judge_live` | 2 tasks of up to 1 call, 2 owners, 1 I/O thread; 2 nodes, 3 copies, 2 faults | 348,266 | `CallbackRuns`, `StopReturnsOrMisses`, `PublishedIsJudged` |
| `event_loop` | 2 tasks of up to 2 calls, 2 owners, 2 I/O threads; 3 tests, 2 Docker faults | 1,253,683 | `CallbackAtMostOnce`, `NoResumeDuringIo`, `NoDestroyDuringIo`, `UndisturbedVerdict`, `AcceptedIsEarned`, `NoContainerLeft` |
| `services` | below | 408,501 | below |

The parts of `services`:

| Part | Instance | Shows |
|---|---|---|
| executor | 3 requests, 2 workers, queue of 1 | `RetryableNotRun`, `DrainRunsAll`, `EveryRequestAnswered` |
| pool | 3 threads, 1 to 2 connections, 2 stops | `PoolInv`: the limit, the count of places, no lost wakeup, nothing survives a restart |
| admin | 3 requests, queue of 1 | `AuditedBeforeExit`, `AdminExits` |
| metrics | 2 recorders, 3 records | `HitsWithinRequests` |
| cache | 2 writers, 1 reader, 2 commits, 1 Redis error | `ListsAreCurrent`, `StaleOnlyFromReaders`, `EventuallyFresh` |
| tasks | 2 nodes with 2 results, 2 claims, 1 error | `AcksAgree`, `FinalStaysVisible`, `GuestIsKnown`, `ReceiptBecomesVisible` |
| sessions | 2 processes | `LogoutSticks` |
| producer | 3 publishes, 2 channel errors | `ConfirmedWasRouted` |

Why the bounds suffice for the cases of interest: messages share no row, key or
receipt, so one message shows the races on it, and `tables` has two because one
claim locks several rows. Three workers let a lease be lost twice. Three copies
leave room for a retry while a duplicate exists. Two owners are what it takes for
one to meet a coroutine of the other. Three tests put one before and one after a
failed one. Three requests keep a worker busy, fill a queue of one and leave one
to be rejected; three threads do the same with two connections. Two users let an
account go while another one's rows stay; three comments are two levels and a
sibling. Two commits and one reader are enough for a fill that overtakes a write
and is overtaken by the next. `MaxClaims`, `MaxSends`, `MaxUnacked`, `MaxFaults`,
`MaxStops`, `MaxRecords`, `MaxWrites`, `MaxComments`, `MaxTests`, `Max...Errors`,
`Max...Faults`, `Copies` and `Calls` bound what the program does not;
`MaxAttempts` stands for 20, `RetryLimit` for 3 and `CountMax` for the largest
value of a counter column.

Larger instances were run once, with the same result: the inbox with two messages
(168,385 states), `Discussion` with two users and three comments (4.0 million),
the cache with two readers (6.6 million) and with two Redis errors (334,589), the
pipeline's liveness with four copies, custom tests with two errors (128,782), the tables with three publishers, two
callers and two attempts for one message (166,037).

The type invariants of the modules (`TypeOK`, `StoreTypeOK`, `DiscussionTypeOK`,
`CacheTypeOK`) hold on the same instances; they are parts of the inductive
invariants or documentation, and no run is spent on them alone.

The `outbox` run checks for deadlock: a publisher's loop never ends while it is
running. The others do not: their instances end when the messages are settled,
the loop, executor or process has stopped, or the bounds are used up.

**Fairness.** Threads that can take a step eventually do, and clocks advance:
weak fairness of each publisher's loop, of the lease, retry and age clocks, of
each node's work, of each owner, I/O and worker thread, of the audit worker, of
each cache reader and writer, and of the expiry of cache keys. `Stop` and the
shutdown of `oj_admin`, once begun, go on. A judge node repeats a callback until
it is answered. A row lock is granted under strong fairness: InnoDB queues the
waiters, so one that finds the row free time and again gets it; the victim of a
lock cycle is rolled back. Creation, failures, crashes and the broker's answers
to publishers are not fair. For `PublishedIsJudged` the fairness of a node's
`Work` includes the broker's deliveries and the services it calls; failures are
bounded, so the property speaks about what follows the last of them. The
liveness configs use no symmetry.

## Findings

1. `pipeline_transient`: `UpdateJudgeResult` takes a database error while reading
   the outbox row for a missing task (`oj_service_impl.cpp:1283`) and rejects the
   report, so the judge dead-letters the delivery at once. `README.md:166` sends
   transient failures to the retry queue.
2. `pipeline_retry_limit`: at the retry limit `RetryOrDeadLetter`
   (`mq_consumer.hpp:33`) retries again, with a longer delay. `README.md:166`
   promises the dead-letter queue. Its own log line says "retaining task", so the
   code is deliberate and the document is behind.
3. `event_loop_destroy`: an owner can destroy a coroutine that another owner is
   executing (`event_loop.hpp:348`). Owner 1 resumes a task, which submits its
   I/O; the I/O completes and owner 2 resumes the task; the deadline passes and
   the task's next `SubmitIo` sets `cancel_requested`; owner 1, only now back
   under the lock, finds the entry cancelled with no I/O in flight and erases it.
4. `account_deletion`: `DeleteUserByEmail` (`model_user.hpp:1011`) erases the user,
   and the foreign keys remove the account's comments, likes and favourites. The
   counters of the solutions and comments they belonged to stay as they were,
   while `sql/solutions.sql:32` and `sql/solution_comments.sql:28` call them the
   number of comments and likes. `CountsMatchRows` says that nothing else makes
   them wrong.
5. `stop_cancels`: `JudgeEventLoop::Stop` refuses new I/O (`event_loop.hpp:153`)
   some time before it cancels the tasks. A coroutine running in between takes
   the refusals for failed Docker calls and delivers, say, SYSTEM_ERROR, which is
   stored and reported. `README.md:120` says that a stop cancels the pending
   coroutines.

Facts that do not hold, and what is stated instead:

- A submission with a receipt may show SYSTEM_ERROR, when `MarkOutboxTerminal`
  read it before the verdict was committed (`VerdictIsReceipt`).
- With two publishers a settled row can be written back for a while:
  `OnlyStaleWritesUnsettle` says that only an update from a stale read does it,
  `RowsSettle` that it ends, and the theorem `PublisherAloneSettles` that one
  publisher alone never does it.
- `JudgeEventLoop::Stop` need not return: it sets `_stop_owners` without `_mutex`
  (`event_loop.hpp:175`), so an idle owner that has tested its predicate but does
  not wait yet misses the notification and is joined forever.
  `StopReturnsOrMisses` says that there is no other way. `AdminAuditWorker::Stop`
  is written the same way, and `AdminExits` says the same of it.
- A list may be stale when a reader took version 1 for the version, after an error
  or because its SET undid an INCR (`oj_cache.hpp:601`); `ListsAreCurrent` excludes
  these. A detail entry may be stale after a slow reader (`StaleOnlyFromReaders`)
  until it expires (`EventuallyFresh`).
- The QUEUED state of a custom test can be written over its result, by the
  creating request or by the recovery; `FinalStaysVisible` says by nothing else.
- A success of `PublishConfirmed` means a routed message only while the publishes
  of a message do not overlap on a channel (`ConfirmedWasRouted`).
- A program that runs into the wall timeout before the last test is reported as
  SYSTEM_ERROR: the timeout kills the container the next test is written to.
  `UndisturbedVerdict` has this as the verdict it deserves.
- Deleting a comment and replying to it can deadlock in InnoDB; one of them is
  rolled back (`CyclesOnlyAtReplies`, `TransactionsEnd`).

## Proofs

The proof modules extend the components. The constants are arbitrary, up to the
assumptions named; TLC evaluates those on the runs. They say that bounds are
natural numbers, that markers of absence are not values, that sets of threads
that are counted are finite, and that sets of tasks can be listed.

| Module | Component, assumptions | Invariant | Proved |
|---|---|---|---|
| `JudgeServiceProofs` | `JudgeInbox`: `NoneIsNoValue`, `MaxClaimsIsNat` | `InboxInv` | `ReportsAgree`, `NoDuplicateJudging`, `RegisterSpec` |
| | `Judger`: `JudgerBounds` | `BoxPart`, `EarnedPart`, `CalmPart` | `NoContainerLeft`, `AcceptedIsEarned`, `UndisturbedVerdict` |
| `JudgePipelineProofs` | `JudgePipeline`: `NoneIsNoValue`, `PipelineConstants` | `PipelineInv` | `NothingSilentlyLost` |
| `JudgeEventLoopProofs` | `JudgeEventLoop`: `LoopConstants` | `LoopInv` | `TypeOK`, `CallbackAtMostOnce`, `NoResumeDuringIo`, `NoDestroyDuringIo`; with one owner, `NoDestroyWhileRunning` |
| `OutboxProofs` | `SubmissionStore`: `StoreConstants` | `StoreInv` | `StoreTypeOK`, `OneResultPerMessage`, `VerdictIsReceipt`, `DeadIsVisible`, `ResultsMoveForward` |
| | `OutboxPublisher`: also `PublisherBounds` | `PublisherInv` | `TypeOK`, `UsesStore`, `NothingLost`, `OnlyStaleWritesUnsettle`; with one publisher, `SettledIsFinal` |
| `DiscussionProofs` | `Discussion`: `DiscussionConstants` | `DiscussionInv`, `HeldPart` | `CountsMatchRows`, `TwoLevels`, `CyclesOnlyAtReplies` |
| `ContentCacheProofs` | `ContentCache`: `CacheConstants` | `CacheInv` | `ListsAreCurrent`, `StaleOnlyFromReaders` |
| `ServerThreadsProofs` | `BusinessExecutor`: `ExecutorConfig` | `ExecutorInv` | `TypeOK`, `DoneOnce`, `RetryableNotRun`, `DrainRunsAll`, `CountersBalance` |
| | `ConnectionPool`: `PoolConfig` | `PoolInv` | `WithinLimit`, `ActiveIsBusy`, `SleepersMustWait`, `NoConnectionSurvivesRestart` |
| | `CacheMetrics`: `RecordersFinite` | `MetricsInv` | `NoRequestLost`, `HitsWithinRequests` |
| `ServerProofs` | `Sessions`: none | `SessionsInv` | `LogoutSticks`, `DestroyedIsGone` |
| | `MQProducer`: none | `ProducerInv` | `ConfirmedWasRouted` |
| | `CustomTests`: `TaskConstants` | `TasksInv` | `AcksAgree`, `FinalStaysVisible`, `GuestIsKnown` |
| | `AdminProcess`: none | `AdminInv` | `AuditedBeforeExit`, `DatabaseStaysDown` |

Why the invariants are needed, and what they add:

- **Inbox.** A report must come from the stored result, and the stored result must
  not change while reports of it exist. `InboxInv` adds that a hash has a result
  exactly when it is completed, that only a claim in progress has a lease, that
  what was reported is what is stored, and that a worker about to report holds
  the stored result. `ImplementsRegister` shows that every step is a step of
  `ResultRegister` or leaves it alone, with the stored result as the decided
  value.
- **Judger.** `BoxPart` says which containers exist and are known at each
  `co_await`. `EarnedPart` says that as long as the status is still the initial
  one, every test before the current one ended well. `CalmPart` is about runs that
  nothing disturbs: the verdict so far is what the first bad test is worth, and
  the runner is gone only after a wall timeout.
- **Pipeline.** A delivery on a live channel has a copy of its own, and a delivery
  about to be reported has a result. While the submission is not settled, one copy
  of the published message is *kept*: no node is about to acknowledge it without
  having sent another one. Several nodes can hold copies at once, so this cannot
  be said of a particular copy.
- **Event loop.** Entry, coroutine, I/O queue, threads and callback are changed in
  different locked sections. `LoopInv` says that a job in the queue or in a thread
  belongs to the generation of its entry and is the only one of its task, that an
  entry with a call in flight waits for it or is cancelled, and that one owner at
  most is inside a coroutine, and none during its call. With a single owner thread
  that owner is also the only one that erases, so `NoDestroyWhileRunning`, which
  two owners violate, is inductive beside `LoopInv`.
- **Tables.** The properties speak about committed rows, and a commit writes what
  was read earlier. `StoreInv` relates every open transaction's snapshot to the
  rows as they are now: what a snapshot may be behind on, and which rows its locks
  keep from moving.
- **Publishers.** `UsesStore` shows step by step that publishers, confirms,
  failures and callbacks make only the store's transactions, so `StoreInv` holds
  here too. `PublisherInv` adds that a success in a completion queue, in the
  worker and in an open update rests on a confirm of the broker, and what open
  transactions say about leases. `FreshPart` is for a single publisher: a row
  that an open update has read is still SENDING, so no settled row is reopened.
- **Discussion.** The counters are written back with the whole row, so the proof is
  about locks: a row is locked by one transaction, what a transaction has read of
  a row it has locked is what the row holds, and the comment it has locked is
  still there. Counters are cardinalities, which change by one with each row.
  `HeldPart` bounds the locks from above: nothing before the comment is found, and
  not the solution while it is waited for. Two transactions in a row that wait and
  are waited for then have one at the replies.
- **Content cache.** Increments of the version are counted against the writers that
  still have one to make. Unless a reader guessed the version, nothing is stored
  under a version to come, and what is about to be stored under the current one
  was read after the last increment. The writers' mutex gives the second property.
- **Executor.** Who holds the completion of a request follows from where the
  request is (in the queue, in a worker, with the dispatcher); the queue has no
  request twice; a worker that left a drain left an empty queue.
- **Pool.** The count of places is the number of threads in a busy state
  (cardinalities of finite sets), and `Lifecycle` says where `_started`,
  `_running` and the stop stand to each other. No thread can start the pool while
  it is stopped, and `Init` refuses while places are taken.
- **Admin.** Every accepted record is queued, in the worker, inserted or given up;
  from each stage of `main` on, certain of these places are empty.
- **Metrics.** The sums in memory, in the flush and in the rows add up to what was
  recorded, and the hits not yet added are those of the recorders in between.
- **Sessions.** Once a destruction has succeeded the key never has five fields
  again: a renewal under way can only make a hash of one.
- **Producer.** While publishes do not overlap, everything on the wire is about the
  one that is unanswered, and a publish no queue took has its return ahead of its
  ack or in `_returned`.
- **Polled tasks.** Until the task expires the receipt decides: a callback about to
  write the state has the receipt's result. A guest's state is there from before
  the message is published.

The proofs have one step per action; lemmas about fields, queues and single
updates come first and are cited by name. The inductive invariants were checked
with TLC before they were proved.

Only model-checked are the nine liveness properties: `CallbackRuns`,
`StopReturnsOrMisses`, `PublishedIsJudged`, `RowsSettle`, `TransactionsEnd`,
`EveryRequestAnswered`, `AdminExits`, `EventuallyFresh` and
`ReceiptBecomesVisible`. They rest on fairness, and `ENABLED` is outside what the
prover does.

## Not modelled

- **Generated and vendored code** (protobuf, ODB, the AMQP transport): most of the
  lines of the repository. The map covers a small share of all lines for that
  reason, and a much larger one of the code that is written by hand.
- **Queries, pages, formatting, mail, logging, latency figures:** they change no
  state another part reads. The read paths that fill the cache are modelled.
- **Authentication:** signatures, hashes and tokens are cryptography. What is left
  are codes and attempt counters with an expiry in Redis, which no other part
  reads. The sessions a login creates are in `Sessions`.
- **Native gateway:** not built; `CMakeLists.txt:54` has it commented out as not
  ready.
- **`ApplicationContext`:** compiled, but no program constructs one.
- **Malformed tasks and results:** their validation is stateless, and they leave
  the pipeline at once.
- **RabbitMQ reconnection and topology:** a channel error ends the publishes and
  deliveries of its channel in the models; how a new channel is set up is library
  and timer code.
- **A consumer stopping while the loop still works:** to the broker it is the crash
  of `JudgePipeline`, and to the coroutine the stop of `Judger`.
