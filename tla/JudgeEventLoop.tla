--------------------------- MODULE JudgeEventLoop ---------------------------
(***************************************************************************)
(* The coroutine event loop of the judge service (event_loop.hpp): owner   *)
(* threads that resume and destroy coroutines, I/O threads that run their  *)
(* Docker calls, PushNewTask, deadlines and Stop.                          *)
(*                                                                         *)
(* Every section that holds _mutex is one action.  Between the sections of *)
(* an owner (pop, resume, inspect, erase) every other thread may run: in   *)
(* particular a coroutine that has submitted its I/O can be completed and  *)
(* resumed by a second owner before the first one looks at it again.       *)
(*                                                                         *)
(* A coroutine is the number of Docker calls it still makes; what the      *)
(* calls return is left out, as is the I/O deadline, which only changes    *)
(* the returned status.                                                    *)
(***************************************************************************)
EXTENDS Naturals, Sequences, FiniteSets, Functions

CONSTANTS
  Tasks,
  Owners,
  IoThreads,
  NoTask,      \* an empty task id
  Calls        \* bound on the Docker calls of a coroutine

ASSUME LoopConstants ==
  /\ Calls \in Nat /\ NoTask \notin Tasks
  /\ \A S \in SUBSET Tasks :     \* finitely many tasks, so that sets of them are listed
       Cardinality(S) \in Nat /\ Injection(1 .. Cardinality(S), S) # {}

VARIABLES
  entry,       \* entry[t]: the PendingEntry of t
  co,          \* co[t]: Docker calls left, and whether the coroutine is done
  hasCb,       \* hasCb[t]: promise().cb has not been moved out
  called,      \* called[t]: how often the completion callback ran
  ready,       \* _ready
  ioQueue,     \* _io_queue
  owner,       \* owner[o]: where owner thread o is
  io,          \* io[w]: where I/O thread w is
  stop,        \* progress of Stop
  stopOwners   \* _stop_owners

vars == <<entry, co, hasCb, called, ready, ioQueue, owner, io, stop, stopOwners>>

\* state is "none" before the task is pushed and "gone" once it is destroyed.
Entry(state, gen, late, inFlight, cancel) ==
  [state |-> state, gen |-> gen, late |-> late, inFlight |-> inFlight, cancel |-> cancel]

At(pc, t, stopping) == [pc |-> pc, task |-> t, stopping |-> stopping]

IoIdle == [pc |-> "idle", task |-> NoTask, gen |-> 0]

TypeOK ==
  /\ entry \in [Tasks ->
       [state : {"none", "Ready", "Running", "Waiting", "gone"}, gen : 0 .. Calls,
        late : BOOLEAN, inFlight : BOOLEAN, cancel : BOOLEAN]]
  /\ co \in [Tasks -> [left : 0 .. Calls, done : BOOLEAN]]
  /\ hasCb \in [Tasks -> BOOLEAN]
  /\ called \in [Tasks -> Nat]
  /\ ready \in Seq(Tasks)
  /\ ioQueue \in Seq([task : Tasks, gen : 1 .. Calls])
  /\ owner \in [Owners ->
       [pc : {"top", "blocking", "asleep", "inside", "back", "cancelled", "finished", "exit"},
        task : Tasks \cup {NoTask}, stopping : BOOLEAN]]
  /\ io \in [IoThreads -> [pc : {"idle", "work", "exit"},
                           task : Tasks \cup {NoTask}, gen : 0 .. Calls]]
  /\ stop \in {"no", "refusing", "joining", "cancelled", "done"}
  /\ stopOwners \in BOOLEAN

Init ==
  /\ entry = [t \in Tasks |-> Entry("none", 0, FALSE, FALSE, FALSE)]
  /\ co \in [Tasks -> [left : 0 .. Calls, done : {FALSE}]]
  /\ hasCb = [t \in Tasks |-> FALSE]
  /\ called = [t \in Tasks |-> 0]
  /\ ready = <<>> /\ ioQueue = <<>>
  /\ owner = [o \in Owners |-> At("top", NoTask, FALSE)]
  /\ io = [w \in IoThreads |-> IoIdle]
  /\ stop = "no" /\ stopOwners = FALSE

\* The tasks in _pendings.
Pending == {t \in Tasks : entry[t].state \notin {"none", "gone"}}

Accepting == stop = "no"                 \* _accepting_io

Running == stop \in {"no", "refusing"}   \* _running

\* No owner is between testing its wait predicate and blocking on _cv; until
\* then it holds _mutex.
Unlocked == \A o \in Owners : owner[o].pc # "blocking"

\* notify_one on _cv.
Notified(owners) ==
  LET asleep == {o \in Owners : owners[o].pc = "asleep"}
  IN  IF asleep = {} THEN {owners}
      ELSE {[owners EXCEPT ![o].pc = "top"] : o \in asleep}

\* The tasks of S in the order of their ids: _pendings is a std::map.
ById(S) == CHOOSE q \in Injection(1 .. Cardinality(S), S) : TRUE

-----------------------------------------------------------------------------
\* PushNewTask, refused once Stop has begun.
PushNewTask(t) ==
  /\ Unlocked /\ Accepting /\ entry[t].state = "none"
  /\ entry' = [entry EXCEPT ![t].state = "Ready"]
  /\ hasCb' = [hasCb EXCEPT ![t] = TRUE]
  /\ ready' = Append(ready, t)
  /\ owner' \in Notified(owner)
  /\ UNCHANGED <<co, called, ioQueue, io, stop, stopOwners>>

\* The clock passes the deadline of the task.
Deadline(t) ==
  /\ t \in Pending /\ ~entry[t].late
  /\ entry' = [entry EXCEPT ![t].late = TRUE]
  /\ UNCHANGED <<co, hasCb, called, ready, ioQueue, owner, io, stop, stopOwners>>

\* Entries after the deadline sweep of OwnerWork ...
Swept ==
  {t \in Pending : entry[t].late /\ ~entry[t].cancel}

SweptEntry ==
  [t \in Tasks |->
     IF t \in Swept
     THEN Entry(IF entry[t].state = "Running" THEN "Running" ELSE "Ready",
                entry[t].gen, TRUE, entry[t].inFlight, TRUE)
     ELSE entry[t]]

\* ... and the queue with the tasks it made ready.
SweptReady ==
  ready \o ById({t \in Swept : entry[t].state # "Running"})

\* A pop that resumes cancelled coroutines as well.
BugStopping(e) == ~Running

\* A popped task is not resumed when it is cancelled or the loop is stopping.
Stopping(e) == ~Running \/ e.cancel

\* With nothing pending an owner waits without a timeout: it tests the
\* predicate, blocks, and is woken by a notification only.
Block(o) ==
  /\ owner[o].pc = "top" /\ Unlocked
  /\ Pending = {} /\ ready = <<>> /\ ~stopOwners
  /\ owner' = [owner EXCEPT ![o].pc = "blocking"]
  /\ UNCHANGED <<entry, co, hasCb, called, ready, ioQueue, io, stop, stopOwners>>

Sleep(o) ==
  /\ owner[o].pc = "blocking"
  /\ owner' = [owner EXCEPT ![o].pc = "asleep"]
  /\ UNCHANGED <<entry, co, hasCb, called, ready, ioQueue, io, stop, stopOwners>>

\* The first section of OwnerWork: sweep the deadlines, pop a task.
Pop(o) ==
  /\ owner[o].pc = "top" /\ Unlocked
  /\ Pending = {} => stopOwners \/ ready # <<>>
  /\ IF SweptReady = <<>>
     THEN /\ entry' = SweptEntry /\ ready' = <<>>
          /\ owner' = [owner EXCEPT ![o].pc = IF stopOwners THEN "exit" ELSE "top"]
     ELSE LET t == Head(SweptReady)
              e == SweptEntry[t]
          IN  /\ ready' = Tail(SweptReady)
              /\ IF e.state # "Ready"
                 THEN entry' = SweptEntry /\ UNCHANGED owner
                 ELSE /\ entry' = [SweptEntry EXCEPT ![t].state = "Running"]
                      /\ owner' = [owner EXCEPT ![o] =
                           At(IF Stopping(e) THEN "back" ELSE "inside", t, Stopping(e))]
  /\ UNCHANGED <<co, hasCb, called, ioQueue, io, stop, stopOwners>>

NextGeneration(e) == e.gen + 1

\* The coroutine awaits a Docker call and SubmitIo takes it ...
SubmitIo(o) ==
  LET t == owner[o].task
  IN  /\ owner[o].pc = "inside" /\ Unlocked /\ co[t].left > 0
      /\ Accepting /\ entry[t].state = "Running" /\ ~entry[t].cancel /\ ~entry[t].late
      /\ co' = [co EXCEPT ![t].left = @ - 1]
      /\ entry' = [entry EXCEPT ![t] = Entry("Waiting", NextGeneration(@), FALSE, TRUE, FALSE)]
      /\ ioQueue' = Append(ioQueue, [task |-> t, gen |-> NextGeneration(entry[t])])
      /\ owner' = [owner EXCEPT ![o].pc = "back"]
      /\ UNCHANGED <<hasCb, called, ready, io, stop, stopOwners>>

\* ... or refuses it, and the coroutine goes on with a CANCELLED result.  An
\* owner inside a destroyed coroutine finds no entry and goes on here as well:
\* of the outcomes of that use after destruction (see NoDestroyWhileRunning)
\* the model keeps the one in which the process survives.
RefuseIo(o) ==
  LET t == owner[o].task
      e == entry[t]
  IN  /\ owner[o].pc = "inside" /\ Unlocked /\ co[t].left > 0
      /\ ~Accepting \/ e.state # "Running" \/ e.cancel \/ e.late
      /\ co' = [co EXCEPT ![t].left = @ - 1]
      /\ entry' = IF Accepting /\ e.state = "Running"
                  THEN [entry EXCEPT ![t].cancel = TRUE] ELSE entry
      /\ UNCHANGED <<hasCb, called, ready, ioQueue, owner, io, stop, stopOwners>>

\* The coroutine reaches its final suspension.
Finish(o) ==
  LET t == owner[o].task
  IN  /\ owner[o].pc = "inside" /\ co[t].left = 0
      /\ co' = [co EXCEPT ![t].done = TRUE]
      /\ owner' = [owner EXCEPT ![o].pc = "back"]
      /\ UNCHANGED <<entry, hasCb, called, ready, ioQueue, io, stop, stopOwners>>

\* A copy of promise().cb.
BugTakeCallback(t) == hasCb

\* std::move of promise().cb: at most one owner gets it.
TakeCallback(t) == [hasCb EXCEPT ![t] = FALSE]

\* The second section of OwnerWork, and the callback it calls after unlocking.
\* The entry is looked at again, whoever has it by now.
Back(o) ==
  LET t == owner[o].task
      e == entry[t]
      run(pc) ==
        /\ called' = [called EXCEPT ![t] = IF hasCb[t] THEN @ + 1 ELSE @]
        /\ hasCb' = TakeCallback(t)
        /\ owner' = [owner EXCEPT ![o].pc = pc]
  IN  /\ owner[o].pc = "back" /\ Unlocked
      /\ IF t \in Pending /\ (owner[o].stopping \/ e.cancel) THEN run("cancelled")
         ELSE IF t \in Pending /\ co[t].done THEN run("finished")
         ELSE owner' = [owner EXCEPT ![o] = At("top", NoTask, FALSE)]
              /\ UNCHANGED <<called, hasCb>>
      /\ UNCHANGED <<entry, co, ready, ioQueue, io, stop, stopOwners>>

\* An erase that does not wait for the I/O in flight.
BugEraseCancelled(e) ==
  Entry("gone", e.gen, e.late, FALSE, e.cancel)

\* A cancelled entry stays until its I/O has completed.
EraseCancelled(e) ==
  IF e.inFlight THEN Entry("Waiting", e.gen, e.late, TRUE, e.cancel)
  ELSE Entry("gone", e.gen, e.late, FALSE, e.cancel)

\* The last section of OwnerWork: erase the entry, destroying the coroutine.
Erase(o) ==
  LET t == owner[o].task
      e == entry[t]
  IN  /\ owner[o].pc \in {"cancelled", "finished"} /\ Unlocked
      /\ entry' = [entry EXCEPT ![t] =
           IF t \notin Pending THEN e
           ELSE IF owner[o].pc = "cancelled" THEN EraseCancelled(e)
           ELSE Entry("gone", e.gen, e.late, FALSE, e.cancel)]
      /\ owner' = [owner EXCEPT ![o] = At("top", NoTask, FALSE)]
      /\ UNCHANGED <<co, hasCb, called, ready, ioQueue, io, stop, stopOwners>>

\* An I/O thread that looks at _running only when it has a job.
BugIoMayLeave == ~Running /\ ioQueue # <<>>

IoMayLeave == ~Running

\* An I/O thread takes a job, or leaves when the loop is stopping.
TakeIo(w) ==
  /\ io[w].pc = "idle"
  /\ \/ /\ IoMayLeave
        /\ io' = [io EXCEPT ![w].pc = "exit"]
        /\ UNCHANGED ioQueue
     \/ /\ Running /\ ioQueue # <<>>
        /\ io' = [io EXCEPT ![w] =
             [pc |-> "work", task |-> Head(ioQueue).task, gen |-> Head(ioQueue).gen]]
        /\ ioQueue' = Tail(ioQueue)
  /\ UNCHANGED <<entry, co, hasCb, called, ready, owner, stop, stopOwners>>

\* CompleteIo: nothing for an entry that is gone or of another generation.
CompleteIo(w) ==
  LET t == io[w].task
      e == entry[t]
      cancel == e.cancel \/ ~Running
      wakes == ~cancel \/ e.state # "Running"
  IN  /\ io[w].pc = "work" /\ Unlocked
      /\ io' = [io EXCEPT ![w] = IoIdle]
      /\ IF t \notin Pending \/ e.gen # io[w].gen
         THEN UNCHANGED <<entry, ready, owner>>
         ELSE /\ entry' = [entry EXCEPT ![t] =
                   Entry(IF wakes THEN "Ready" ELSE e.state, e.gen, e.late, FALSE, cancel)]
              /\ ready' = IF wakes THEN Append(ready, t) ELSE ready
              /\ owner' \in IF wakes THEN Notified(owner) ELSE {owner}
      /\ UNCHANGED <<co, hasCb, called, ioQueue, stop, stopOwners>>

\* Stop refuses new work ...
StopBegin ==
  /\ stop = "no"
  /\ stop' = "refusing"
  /\ UNCHANGED <<entry, co, hasCb, called, ready, ioQueue, owner, io, stopOwners>>

\* ... ends the I/O threads and drops the queued I/O ...
StopIo ==
  /\ stop = "refusing"
  /\ stop' = "joining"
  /\ ioQueue' = <<>>
  /\ UNCHANGED <<entry, co, hasCb, called, ready, owner, io, stopOwners>>

\* A Stop that marks the entries without queueing them.
BugWokenByStop == {}

\* The entries Stop queues: a running one is inspected by its owner anyway.
WokenByStop == {t \in Pending : entry[t].state # "Running"}

\* ... joins the I/O threads, cancels every entry ...
StopCancel ==
  /\ stop = "joining" /\ Unlocked
  /\ \A w \in IoThreads : io[w].pc = "exit"
  /\ stop' = "cancelled"
  /\ entry' = [t \in Tasks |->
       IF t \notin Pending THEN entry[t]
       ELSE Entry(IF t \in WokenByStop THEN "Ready" ELSE entry[t].state,
                  entry[t].gen, entry[t].late, FALSE, TRUE)]
  /\ ready' = ready \o ById(WokenByStop)
  /\ UNCHANGED <<co, hasCb, called, ioQueue, owner, io, stopOwners>>

\* ... and tells the owners, without holding _mutex.
StopOwnersNow ==
  /\ stop = "cancelled" /\ ~stopOwners
  /\ stopOwners' = TRUE
  /\ owner' = [o \in Owners |->
       IF owner[o].pc = "asleep" THEN At("top", NoTask, FALSE) ELSE owner[o]]
  /\ UNCHANGED <<entry, co, hasCb, called, ready, ioQueue, io, stop>>

StopJoined ==
  /\ stopOwners /\ stop # "done"
  /\ \A o \in Owners : owner[o].pc = "exit"
  /\ stop' = "done"
  /\ UNCHANGED <<entry, co, hasCb, called, ready, ioQueue, owner, io, stopOwners>>

OwnerStep(o) ==
  \/ Block(o) \/ Sleep(o) \/ Pop(o) \/ SubmitIo(o) \/ RefuseIo(o)
  \/ Finish(o) \/ Back(o) \/ Erase(o)

IoStep(w) == TakeIo(w) \/ CompleteIo(w)

StopStep == StopIo \/ StopCancel \/ StopOwnersNow \/ StopJoined

Next ==
  \/ \E t \in Tasks : PushNewTask(t) \/ Deadline(t)
  \/ \E o \in Owners : OwnerStep(o)
  \/ \E w \in IoThreads : IoStep(w)
  \/ StopBegin \/ StopStep

Spec == Init /\ [][Next]_vars

-----------------------------------------------------------------------------
\* The completion callback of a task runs at most once, although two owners
\* can inspect the same entry and deadlines and Stop cancel it concurrently.
CallbackAtMostOnce == \A t \in Tasks : called[t] <= 1

\* A coroutine is resumed only when the Docker call it awaits has completed:
\* the sweep and Stop make entries ready whose call is still in flight, but
\* those are cancelled, not resumed.
NoResumeDuringIo ==
  \A o \in Owners, w \in IoThreads :
    owner[o].pc = "inside" /\ io[w].pc = "work" => owner[o].task # io[w].task

\* A coroutine is not destroyed while its Docker call runs: the call uses the
\* frame of the coroutine.
NoDestroyDuringIo ==
  \A w \in IoThreads : io[w].pc = "work" => io[w].task \in Pending

\* The owner that runs a coroutine is the one that destroys it: no coroutine
\* is destroyed while another owner is inside it ("owner worker is the only
\* coroutine destroyer", event_loop.hpp).
NoDestroyWhileRunning ==
  \A o \in Owners : owner[o].pc = "inside" => owner[o].task \in Pending

\* Every task PushNewTask accepts gets its callback, even if its I/O is dropped
\* by Stop or its deadline passes while another owner runs it.
CallbackRuns ==
  []<>(\A t \in Tasks : entry[t].state # "none" => called[t] = 1)

\* Stop returns, unless it notified the owners, without _mutex, while one of
\* them was between its test of _stop_owners and its sleep.
StopReturnsOrMisses ==
  []<>(stop \in {"no", "done"} \/ (stopOwners /\ \E o \in Owners : owner[o].pc = "asleep"))
=============================================================================
