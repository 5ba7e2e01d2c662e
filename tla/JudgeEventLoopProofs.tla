------------------------ MODULE JudgeEventLoopProofs ------------------------
(***************************************************************************)
(* The coroutine event loop of the judge, for any number of tasks, owner   *)
(* threads and I/O threads: callbacks run at most once, and no coroutine is *)
(* resumed or destroyed during its Docker call (event_loop.hpp).           *)
(***************************************************************************)
EXTENDS JudgeEventLoop, TLAPS

\* A leaf that names no prover goes to SMT, to Zenon, and to SMT with more time.
USE SMTT(10), Zenon, SMTT(20)

\* The types of entries, coroutines, calls and threads.
States == {"none", "Ready", "Running", "Waiting", "gone"}
EntryType ==
  [state : States, gen : 0 .. Calls, late : BOOLEAN, inFlight : BOOLEAN, cancel : BOOLEAN]
CoType == [left : 0 .. Calls, done : BOOLEAN]
JobType == [task : Tasks, gen : 1 .. Calls]
OwnerPCs == {"top", "blocking", "asleep", "inside", "back", "cancelled", "finished", "exit"}
OwnerType == [pc : OwnerPCs, task : Tasks \cup {NoTask}, stopping : BOOLEAN]
IoType == [pc : {"idle", "work", "exit"}, task : Tasks \cup {NoTask}, gen : 0 .. Calls]

LoopTypes ==
  /\ entry \in [Tasks -> EntryType]
  /\ co \in [Tasks -> CoType]
  /\ hasCb \in [Tasks -> BOOLEAN]
  /\ called \in [Tasks -> Nat]
  /\ ready \in Seq(Tasks)
  /\ ioQueue \in Seq(JobType)
  /\ owner \in [Owners -> OwnerType]
  /\ io \in [IoThreads -> IoType]
  /\ stop \in {"no", "refusing", "joining", "cancelled", "done"}
  /\ stopOwners \in BOOLEAN

\* The callback of a task is with its promise, or has run.
CallbackPart ==
  \A t \in Tasks :
    /\ called[t] <= 1
    /\ hasCb[t] => called[t] = 0
    /\ entry[t].state = "none" => called[t] = 0 /\ ~hasCb[t]

\* The tasks with a Docker call in the queue ...
Queued(t) == \E i \in 1 .. Len(ioQueue) : ioQueue[i].task = t
\* ... or run by an I/O thread.
Underway(t) == \E w \in IoThreads : io[w].pc = "work" /\ io[w].task = t

\* A call belongs to the current generation of a pending entry, ...
JobOf(t, gen) == t \in Pending /\ entry[t].inFlight /\ entry[t].gen = gen

\* ... wherever it is, ...
JobPart ==
  /\ \A i \in 1 .. Len(ioQueue) : JobOf(ioQueue[i].task, ioQueue[i].gen)
  /\ \A w \in IoThreads : io[w].pc = "work" => io[w].task \in Tasks /\ JobOf(io[w].task, io[w].gen)

\* ... and a task has one at a time.
OneJobPart ==
  /\ \A i, j \in 1 .. Len(ioQueue) : ioQueue[i].task = ioQueue[j].task => i = j
  /\ \A v, w \in IoThreads : io[v].pc = "work" /\ io[w].pc = "work" /\ io[v].task = io[w].task => v = w
  /\ \A t \in Tasks : ~(Queued(t) /\ Underway(t))

\* An entry whose call is in flight waits for it, or is cancelled.
FlightPart ==
  \A t \in Tasks : entry[t].inFlight => entry[t].state = "Waiting" \/ entry[t].cancel

\* What an owner holds.
OwnerPart ==
  \A o \in Owners :
    /\ owner[o].pc \in {"inside", "back", "cancelled", "finished"} => owner[o].task \in Tasks
    /\ owner[o].pc = "finished" => co[owner[o].task].done

\* One owner at a time is inside a coroutine, and none while its call is in flight.
InsidePart ==
  \A o \in Owners, t \in Tasks : owner[o].pc = "inside" /\ owner[o].task = t =>
    /\ entry[t].state \in {"Running", "gone"} \/ entry[t].cancel
    /\ ~Queued(t) /\ ~Underway(t)
    /\ \A p \in Owners : owner[p].pc = "inside" /\ owner[p].task = t => p = o

\* A coroutine makes Calls calls at most, and none after its final suspension.
CoroutinePart ==
  \A t \in Tasks :
    /\ entry[t].gen + co[t].left <= Calls
    /\ co[t].done => co[t].left = 0 /\ ~Queued(t) /\ ~Underway(t)

\* Once the I/O threads are told to leave, nothing is queued for them.
StopPart ==
  /\ stop \in {"joining", "cancelled", "done"} => ioQueue = <<>>
  /\ stopOwners => stop \in {"cancelled", "done"}

\* The inductive invariant.
LoopInv ==
  /\ LoopTypes /\ CallbackPart /\ JobPart /\ OneJobPart /\ FlightPart
  /\ OwnerPart /\ InsidePart /\ CoroutinePart /\ StopPart

-----------------------------------------------------------------------------
\* An entry has the fields it was made of.
LEMMA EntryFields ==
  ASSUME NEW st \in States, NEW g \in 0 .. Calls, NEW l \in BOOLEAN, NEW f \in BOOLEAN,
         NEW c \in BOOLEAN
  PROVE  LET e == Entry(st, g, l, f, c)
         IN  /\ e \in EntryType /\ e.state = st /\ e.gen = g /\ e.late = l
             /\ e.inFlight = f /\ e.cancel = c
BY DEF Entry, EntryType

\* The fields of an entry in its type.
LEMMA EntryParts ==
  ASSUME NEW e \in EntryType
  PROVE  /\ e.state \in States /\ e.gen \in 0 .. Calls /\ e.late \in BOOLEAN
         /\ e.inFlight \in BOOLEAN /\ e.cancel \in BOOLEAN
BY DEF EntryType

\* An owner is where it was put, with the task it was given.
LEMMA OwnerFields ==
  ASSUME NEW pc \in OwnerPCs, NEW t \in Tasks \cup {NoTask}, NEW b \in BOOLEAN
  PROVE  /\ At(pc, t, b) \in OwnerType
         /\ At(pc, t, b).pc = pc /\ At(pc, t, b).task = t /\ At(pc, t, b).stopping = b
BY DEF At, OwnerType

\* One owner moves on with the task it has.
LEMMA OwnerMoves ==
  ASSUME LoopTypes, NEW o \in Owners, NEW pc \in OwnerPCs,
         owner' = [owner EXCEPT ![o].pc = pc]
  PROVE  /\ owner' \in [Owners -> OwnerType]
         /\ owner'[o].pc = pc /\ owner'[o].task = owner[o].task
         /\ owner'[o].stopping = owner[o].stopping
         /\ \A p \in Owners : p # o => owner'[p] = owner[p]
<1>1. owner \in [Owners -> OwnerType]
  BY DEF LoopTypes
<1>2. owner[o] \in OwnerType
  BY <1>1
<1> DEFINE new == [owner[o] EXCEPT !.pc = pc]
<1>3. new \in OwnerType /\ new.pc = pc /\ new.task = owner[o].task
      /\ new.stopping = owner[o].stopping
  BY <1>2 DEF OwnerType
<1>4. owner' = [owner EXCEPT ![o] = new]
  OBVIOUS
<1> HIDE DEF new
<1> QED
  BY <1>1, <1>3, <1>4

\* One owner takes up a task, or gives it up.
LEMMA OwnerBecomes ==
  ASSUME LoopTypes, NEW o \in Owners, NEW pc \in OwnerPCs, NEW t \in Tasks \cup {NoTask},
         NEW b \in BOOLEAN, owner' = [owner EXCEPT ![o] = At(pc, t, b)]
  PROVE  /\ owner' \in [Owners -> OwnerType]
         /\ owner'[o].pc = pc /\ owner'[o].task = t /\ owner'[o].stopping = b
         /\ \A p \in Owners : p # o => owner'[p] = owner[p]
<1> DEFINE new == At(pc, t, b)
<1>1. owner \in [Owners -> OwnerType]
  BY DEF LoopTypes
<1>2. new \in OwnerType /\ new.pc = pc /\ new.task = t /\ new.stopping = b
  BY OwnerFields
<1>3. owner' = [owner EXCEPT ![o] = new]
  OBVIOUS
<1> HIDE DEF new
<1> QED
  BY <1>1, <1>2, <1>3

\* A notification wakes a sleeping owner.
LEMMA Woken ==
  ASSUME LoopTypes, owner' \in Notified(owner)
  PROVE  /\ owner' \in [Owners -> OwnerType]
         /\ \A o \in Owners : owner'[o] = owner[o] \/ owner'[o].pc = "top"
<1>1. CASE owner' = owner
  BY <1>1 DEF LoopTypes
<1>2. CASE owner' # owner
  <2>1. PICK o \in Owners : owner' = [owner EXCEPT ![o].pc = "top"]
    BY <1>2 DEF Notified
  <2>2. "top" \in OwnerPCs
    BY DEF OwnerPCs
  <2> QED
    BY <2>1, <2>2, OwnerMoves, Zenon
<1> QED
  BY <1>1, <1>2

\* One entry is replaced.
LEMMA EntryMoves ==
  ASSUME LoopTypes, NEW t \in Tasks, NEW e \in EntryType, entry' = [entry EXCEPT ![t] = e]
  PROVE  /\ entry' \in [Tasks -> EntryType] /\ entry'[t] = e
         /\ \A u \in Tasks : u # t => entry'[u] = entry[u]
BY DEF LoopTypes

-----------------------------------------------------------------------------
\* The task has a call, queued or running.
Job(t) == Queued(t) \/ Underway(t)

\* What a step other than SubmitIo does to an entry, ...
EntryKeeps(t) ==
  /\ entry'[t].gen = entry[t].gen
  /\ entry'[t].state = "none" => entry[t].state = "none"
  /\ entry'[t].inFlight => entry'[t].state = "Waiting" \/ entry'[t].cancel
  /\ entry[t].cancel => entry'[t].cancel
  /\ entry[t].state = "Running" => entry'[t].state \in {"Running", "gone"} \/ entry'[t].cancel
  /\ entry[t].state = "gone" => entry'[t].state = "gone"

\* ... to a coroutine, ...
CoKeeps(t) ==
  /\ co'[t].left <= co[t].left
  /\ co[t].done => co'[t].done
  /\ co'[t].done => co'[t].left = 0
  /\ co'[t].done => ~Job(t)

\* ... to an owner, ...
OwnerKeeps(o) ==
  \/ owner'[o].pc \notin {"inside", "back", "cancelled", "finished"}
  \/ owner'[o].pc = "inside" /\ owner[o].pc = "inside" /\ owner'[o].task = owner[o].task
  \/ owner'[o].pc \in {"back", "cancelled"} /\ owner'[o].task \in Tasks
  \/ owner'[o].pc = "finished" /\ owner'[o].task \in Tasks /\ co'[owner'[o].task].done
  \/ /\ owner'[o].pc = "inside" /\ owner'[o].task \in Tasks
     /\ entry'[owner'[o].task].state = "Running" /\ ~Job(owner'[o].task)
     /\ \A p \in Owners :
          owner'[p].pc = "inside" /\ owner'[p].task = owner'[o].task => p = o

\* ... and to a task with a call.
CallKept(t) ==
  Job(t) => entry'[t].state \notin {"none", "gone"} /\ entry'[t].inFlight

\* A step that gives no task a new call keeps what the owners rely on.
LEMMA OwnersKeep ==
  ASSUME LoopInv, LoopTypes',
         \A t \in Tasks : EntryKeeps(t) /\ CoKeeps(t),
         \A o \in Owners : OwnerKeeps(o),
         \A t \in Tasks : (Queued(t)' \/ Underway(t)') => Job(t)
  PROVE  FlightPart' /\ OwnerPart' /\ InsidePart' /\ CoroutinePart'
<1> USE DEF LoopInv
<1>1. FlightPart'
  BY DEF FlightPart, EntryKeeps
<1>2. OwnerPart'
  <2> SUFFICES ASSUME NEW o \in Owners
               PROVE  /\ owner'[o].pc \in {"inside", "back", "cancelled", "finished"}
                           => owner'[o].task \in Tasks
                      /\ owner'[o].pc = "finished" => co'[owner'[o].task].done
    BY DEF OwnerPart
  <2>1. OwnerKeeps(o)
    OBVIOUS
  <2>2. owner[o].pc = "inside" => owner[o].task \in Tasks
    BY DEF OwnerPart
  <2> QED
    BY <2>1, <2>2 DEF OwnerKeeps
<1>3. InsidePart'
  <2> SUFFICES ASSUME NEW o \in Owners, NEW t \in Tasks,
                      owner'[o].pc = "inside", owner'[o].task = t
               PROVE  /\ entry'[t].state \in {"Running", "gone"} \/ entry'[t].cancel
                      /\ ~Queued(t)' /\ ~Underway(t)'
                      /\ \A p \in Owners :
                           owner'[p].pc = "inside" /\ owner'[p].task = t => p = o
    BY DEF InsidePart
  <2>1. OwnerKeeps(o)
    OBVIOUS
  <2>2. CASE /\ entry'[t].state = "Running" /\ ~Job(t)
             /\ \A p \in Owners :
                  owner'[p].pc = "inside" /\ owner'[p].task = t => p = o
    BY <2>2
  <2>3. CASE owner[o].pc = "inside" /\ owner[o].task = t
    <3>2. /\ entry[t].state \in {"Running", "gone"} \/ entry[t].cancel
          /\ ~Job(t)
          /\ \A p \in Owners : owner[p].pc = "inside" /\ owner[p].task = t => p = o
      BY <2>3 DEF InsidePart, Job
    <3>3. entry'[t].state \in {"Running", "gone"} \/ entry'[t].cancel
      BY <3>2 DEF EntryKeeps
    <3>4. \A p \in Owners : owner'[p].pc = "inside" /\ owner'[p].task = t => p = o
      <4> SUFFICES ASSUME NEW p \in Owners, owner'[p].pc = "inside", owner'[p].task = t
                   PROVE  p = o
        OBVIOUS
      <4>1. OwnerKeeps(p)
        OBVIOUS
      <4>2. CASE owner[p].pc = "inside" /\ owner[p].task = t
        BY <4>2, <3>2
      <4>3. CASE \A q \in Owners :
                   owner'[q].pc = "inside" /\ owner'[q].task = t => q = p
        BY <4>3
      <4> QED
        BY <4>1, <4>2, <4>3 DEF OwnerKeeps
    <3>5. ~Queued(t)' /\ ~Underway(t)'
      BY <3>2
    <3> QED
      BY <3>3, <3>4, <3>5
  <2> QED
    BY <2>1, <2>2, <2>3 DEF OwnerKeeps
<1>4. CoroutinePart'
  <2> SUFFICES ASSUME NEW t \in Tasks
               PROVE  /\ entry'[t].gen + co'[t].left <= Calls
                      /\ co'[t].done => co'[t].left = 0 /\ ~Queued(t)' /\ ~Underway(t)'
    BY DEF CoroutinePart
  <2>1. entry[t] \in EntryType /\ co[t] \in CoType /\ co'[t] \in CoType
    BY DEF LoopTypes
  <2>2. entry[t].gen \in Nat /\ co[t].left \in Nat /\ co'[t].left \in Nat
    BY <2>1, LoopConstants DEF EntryType, CoType
  <2>3. entry[t].gen + co[t].left <= Calls
    BY DEF CoroutinePart
  <2>4. entry'[t].gen = entry[t].gen /\ co'[t].left <= co[t].left
    BY DEF EntryKeeps, CoKeeps
  <2>5. entry'[t].gen + co'[t].left <= Calls
    BY <2>2, <2>3, <2>4, LoopConstants
  <2>6. co'[t].done => co'[t].left = 0 /\ ~Queued(t)' /\ ~Underway(t)'
    BY DEF CoKeeps
  <2> QED
    BY <2>5, <2>6
<1> QED
  BY <1>1, <1>2, <1>3, <1>4

\* A step that leaves the calls alone, and the entries they belong to, keeps
\* what holds of the calls.
LEMMA CallsKeep ==
  ASSUME LoopInv, ioQueue' = ioQueue, io' = io,
         \A t \in Tasks : EntryKeeps(t) /\ CallKept(t)
  PROVE  /\ JobPart' /\ OneJobPart'
         /\ \A t \in Tasks : (Queued(t)' \/ Underway(t)') => Job(t)
<1>1. \A t : Queued(t)' = Queued(t) /\ Underway(t)' = Underway(t)
  BY DEF Queued, Underway
<1>2. OneJobPart'
  BY <1>1 DEF LoopInv, OneJobPart
<1>3. \A t \in Tasks : \A g : JobOf(t, g) /\ Job(t) => JobOf(t, g)'
  BY DEF JobOf, Pending, EntryKeeps, CallKept
<1>4. \A i \in 1 .. Len(ioQueue) : JobOf(ioQueue[i].task, ioQueue[i].gen)'
  <2> SUFFICES ASSUME NEW i \in 1 .. Len(ioQueue)
               PROVE  JobOf(ioQueue[i].task, ioQueue[i].gen)'
    OBVIOUS
  <2>1. JobOf(ioQueue[i].task, ioQueue[i].gen)
    BY DEF LoopInv, JobPart
  <2>2. ioQueue[i].task \in Tasks
    BY <2>1 DEF JobOf, Pending
  <2>3. Job(ioQueue[i].task)
    BY DEF Job, Queued
  <2>4. \A g : JobOf(ioQueue[i].task, g)' <=>
               ioQueue[i].task \in Pending' /\ entry'[ioQueue[i].task].inFlight
               /\ entry'[ioQueue[i].task].gen = g
    BY DEF JobOf
  <2> QED
    BY <2>1, <2>2, <2>3, <1>3
<1>5. \A w \in IoThreads : io[w].pc = "work" => io[w].task \in Tasks /\ JobOf(io[w].task, io[w].gen)'
  <2> SUFFICES ASSUME NEW w \in IoThreads, io[w].pc = "work"
               PROVE  io[w].task \in Tasks /\ JobOf(io[w].task, io[w].gen)'
    OBVIOUS
  <2>1. io[w].task \in Tasks /\ JobOf(io[w].task, io[w].gen)
    BY DEF LoopInv, JobPart
  <2>2. Job(io[w].task)
    BY DEF Job, Underway
  <2> QED
    BY <2>1, <2>2, <1>3
<1> QED
  BY <1>1, <1>2, <1>4, <1>5 DEF JobPart, Job

-----------------------------------------------------------------------------
\* A call belongs to a pending entry with a call in flight, and is the only
\* reason for one.
LEMMA JobsPend ==
  ASSUME LoopInv, NEW t \in Tasks, Job(t)
  PROVE  /\ entry[t].state \notin {"none", "gone"} /\ entry[t].inFlight
         /\ entry[t].state = "Waiting" \/ entry[t].cancel
<1>1. CASE Queued(t)
  <2>1. PICK i \in 1 .. Len(ioQueue) : ioQueue[i].task = t
    BY <1>1 DEF Queued
  <2>2. JobOf(t, ioQueue[i].gen)
    BY <2>1 DEF LoopInv, JobPart
  <2> QED
    BY <2>2 DEF JobOf, Pending, LoopInv, FlightPart
<1>2. CASE Underway(t)
  <2>1. PICK w \in IoThreads : io[w].pc = "work" /\ io[w].task = t
    BY <1>2 DEF Underway
  <2>2. JobOf(t, io[w].gen)
    BY <2>1 DEF LoopInv, JobPart
  <2> QED
    BY <2>2 DEF JobOf, Pending, LoopInv, FlightPart
<1> QED
  BY <1>1, <1>2 DEF Job

\* Entries a step does not touch.
LEMMA EntriesStay ==
  ASSUME LoopInv, entry' = entry
  PROVE  \A t \in Tasks : EntryKeeps(t) /\ CallKept(t)
<1> SUFFICES ASSUME NEW t \in Tasks
             PROVE  EntryKeeps(t) /\ CallKept(t)
  OBVIOUS
<1>1. EntryKeeps(t)
  BY DEF LoopInv, FlightPart, EntryKeeps
<1>2. CallKept(t)
  BY JobsPend DEF CallKept
<1> QED
  BY <1>1, <1>2

\* Coroutines a step does not touch.
LEMMA CoroutinesStay ==
  ASSUME LoopInv, co' = co
  PROVE  \A t \in Tasks : CoKeeps(t)
<1> SUFFICES ASSUME NEW t \in Tasks
             PROVE  CoKeeps(t)
  OBVIOUS
<1>1. co[t].left \in Nat
  BY LoopConstants DEF LoopInv, LoopTypes, CoType
<1> QED
  BY <1>1 DEF LoopInv, CoroutinePart, CoKeeps, Job

\* An owner that stays where it is.
LEMMA OwnerStays ==
  ASSUME LoopInv, NEW o \in Owners, owner'[o] = owner[o],
         \A t \in Tasks : co[t].done => co'[t].done
  PROVE  OwnerKeeps(o)
BY Zenon DEF LoopInv, LoopTypes, OwnerType, OwnerPCs, OwnerPart, OwnerKeeps

\* Callbacks a step does not touch.
LEMMA CallbacksStay ==
  ASSUME LoopInv, hasCb' = hasCb, called' = called, \A t \in Tasks : EntryKeeps(t)
  PROVE  CallbackPart'
BY DEF LoopInv, CallbackPart, EntryKeeps

\* A step that leaves the calls alone.
LEMMA CallsAside ==
  ASSUME LoopInv, LoopTypes', CallbackPart', StopPart', ioQueue' = ioQueue, io' = io,
         \A t \in Tasks : EntryKeeps(t) /\ CallKept(t),
         \A t \in Tasks : CoKeeps(t),
         \A o \in Owners : OwnerKeeps(o)
  PROVE  LoopInv'
<1>1. /\ JobPart' /\ OneJobPart'
      /\ \A t \in Tasks : (Queued(t)' \/ Underway(t)') => Job(t)
  BY CallsKeep
<1>2. FlightPart' /\ OwnerPart' /\ InsidePart' /\ CoroutinePart'
  BY <1>1, OwnersKeep
<1> QED
  BY <1>1, <1>2 DEF LoopInv

-----------------------------------------------------------------------------
\* PushNewTask.
LEMMA PushNewTaskStep ==
  ASSUME LoopInv, NEW t \in Tasks, PushNewTask(t)
  PROVE  LoopInv'
<1> USE DEF PushNewTask
<1> DEFINE new == [entry[t] EXCEPT !.state = "Ready"]
<1>1. LoopTypes
  BY DEF LoopInv
<1>2. entry[t] \in EntryType
  BY <1>1 DEF LoopTypes
<1>3. /\ new \in EntryType /\ new.state = "Ready" /\ new.gen = entry[t].gen
      /\ new.inFlight = entry[t].inFlight /\ new.cancel = entry[t].cancel
  BY <1>2 DEF EntryType, States
<1>4. entry' = [entry EXCEPT ![t] = new]
  OBVIOUS
<1> HIDE DEF new
<1>5. /\ entry' \in [Tasks -> EntryType] /\ entry'[t] = new
      /\ \A u \in Tasks : u # t => entry'[u] = entry[u]
  BY <1>1, <1>3, <1>4, EntryMoves, Zenon
<1>6. /\ owner' \in [Owners -> OwnerType]
      /\ \A o \in Owners : owner'[o] = owner[o] \/ owner'[o].pc = "top"
  BY <1>1, Woken
<1>7. ready' \in Seq(Tasks) /\ hasCb' \in [Tasks -> BOOLEAN]
  BY <1>1 DEF LoopTypes
<1>8. LoopTypes'
  BY <1>1, <1>5, <1>6, <1>7 DEF LoopTypes
<1>9. ~Job(t)
  BY JobsPend
<1>10. ~entry[t].inFlight \/ entry[t].cancel
  BY DEF LoopInv, FlightPart
<1>11. \A u \in Tasks : EntryKeeps(u) /\ CallKept(u)
  <2> SUFFICES ASSUME NEW u \in Tasks
               PROVE  EntryKeeps(u) /\ CallKept(u)
    OBVIOUS
  <2>1. CASE u = t
    BY <2>1, <1>3, <1>5, <1>9, <1>10 DEF EntryKeeps, CallKept
  <2>2. CASE u # t
    <3>1. entry'[u] = entry[u]
      BY <2>2, <1>5
    <3> QED
      BY <3>1, JobsPend DEF EntryKeeps, CallKept, LoopInv, FlightPart
  <2> QED
    BY <2>1, <2>2
<1>12. \A u \in Tasks : CoKeeps(u)
  BY CoroutinesStay
<1>13. \A o \in Owners : OwnerKeeps(o)
  <2> SUFFICES ASSUME NEW o \in Owners
               PROVE  OwnerKeeps(o)
    OBVIOUS
  <2>1. CASE owner'[o] = owner[o]
    BY <2>1, OwnerStays
  <2>2. CASE owner'[o].pc = "top"
    BY <2>2 DEF OwnerKeeps
  <2> QED
    BY <1>6, <2>1, <2>2
<1>14. CallbackPart'
  <2> SUFFICES ASSUME NEW u \in Tasks
               PROVE  /\ called'[u] <= 1
                      /\ hasCb'[u] => called'[u] = 0
                      /\ entry'[u].state = "none" => called'[u] = 0 /\ ~hasCb'[u]
    BY DEF CallbackPart
  <2>1. CASE u = t
    <3>1. called[t] = 0
      BY DEF LoopInv, CallbackPart
    <3>2. called'[t] = 0 /\ entry'[t].state = "Ready"
      BY <3>1, <1>3, <1>5
    <3> QED
      BY <2>1, <3>2
  <2>2. CASE u # t
    <3>1. called'[u] = called[u] /\ hasCb'[u] = hasCb[u] /\ entry'[u] = entry[u]
      BY <2>2, <1>1, <1>5 DEF LoopTypes
    <3> QED
      BY <3>1, Zenon DEF LoopInv, CallbackPart
  <2> QED
    BY <2>1, <2>2
<1>15. StopPart'
  BY DEF LoopInv, StopPart
<1> QED
  BY <1>8, <1>11, <1>12, <1>13, <1>14, <1>15, CallsAside

\* A deadline.
LEMMA DeadlineStep ==
  ASSUME LoopInv, NEW t \in Tasks, Deadline(t)
  PROVE  LoopInv'
<1> USE DEF Deadline
<1> DEFINE new == [entry[t] EXCEPT !.late = TRUE]
<1>1. LoopTypes
  BY DEF LoopInv
<1>2. entry[t] \in EntryType
  BY <1>1 DEF LoopTypes
<1>3. /\ new \in EntryType /\ new.state = entry[t].state /\ new.gen = entry[t].gen
      /\ new.inFlight = entry[t].inFlight /\ new.cancel = entry[t].cancel
  BY <1>2, Zenon DEF EntryType
<1>4. entry' = [entry EXCEPT ![t] = new]
  OBVIOUS
<1> HIDE DEF new
<1>5. /\ entry' \in [Tasks -> EntryType] /\ entry'[t] = new
      /\ \A u \in Tasks : u # t => entry'[u] = entry[u]
  BY <1>1, <1>3, <1>4, EntryMoves, Zenon
<1>6. LoopTypes'
  BY <1>1, <1>5 DEF LoopTypes
<1>7. \A u \in Tasks : EntryKeeps(u) /\ CallKept(u)
  <2> SUFFICES ASSUME NEW u \in Tasks
               PROVE  EntryKeeps(u) /\ CallKept(u)
    OBVIOUS
  <2>1. /\ entry'[u].state = entry[u].state /\ entry'[u].gen = entry[u].gen
        /\ entry'[u].inFlight = entry[u].inFlight /\ entry'[u].cancel = entry[u].cancel
    BY <1>3, <1>5
  <2> QED
    BY <2>1, JobsPend DEF EntryKeeps, CallKept, LoopInv, FlightPart
<1>8. \A u \in Tasks : CoKeeps(u)
  BY CoroutinesStay
<1>9. \A o \in Owners : OwnerKeeps(o)
  BY OwnerStays
<1>10. CallbackPart' /\ StopPart'
  BY <1>7, CallbacksStay DEF LoopInv, StopPart
<1> QED
  BY <1>6, <1>7, <1>8, <1>9, <1>10, CallsAside

\* One owner moves to pc, keeping its task, while entries and coroutines stay.
LEMMA OwnerAlone ==
  ASSUME LoopInv, NEW o \in Owners, NEW pc \in {"top", "blocking", "asleep", "exit"},
         owner' = [owner EXCEPT ![o].pc = pc], entry' = entry, co' = co, hasCb' = hasCb,
         called' = called, ready' = ready, ioQueue' = ioQueue, io' = io, stop' = stop,
         stopOwners' = stopOwners
  PROVE  LoopInv'
<1>1. LoopTypes /\ pc \in OwnerPCs
  BY DEF LoopInv, OwnerPCs
<1>2. /\ owner' \in [Owners -> OwnerType] /\ owner'[o].pc = pc
      /\ \A p \in Owners : p # o => owner'[p] = owner[p]
  BY <1>1, OwnerMoves, Zenon
<1>3. LoopTypes'
  BY <1>1, <1>2 DEF LoopTypes
<1>4. \A u \in Tasks : EntryKeeps(u) /\ CallKept(u)
  BY EntriesStay
<1>5. \A u \in Tasks : CoKeeps(u)
  BY CoroutinesStay
<1>6. \A p \in Owners : OwnerKeeps(p)
  <2> SUFFICES ASSUME NEW p \in Owners
               PROVE  OwnerKeeps(p)
    OBVIOUS
  <2>1. CASE p = o
    BY <2>1, <1>2 DEF OwnerKeeps
  <2>2. CASE p # o
    BY <2>2, <1>2, OwnerStays
  <2> QED
    BY <2>1, <2>2
<1>7. CallbackPart' /\ StopPart'
  BY <1>4, CallbacksStay DEF LoopInv, StopPart
<1> QED
  BY <1>3, <1>4, <1>5, <1>6, <1>7, CallsAside

\* Block and Sleep.
LEMMA BlockStep ==
  ASSUME LoopInv, NEW o \in Owners, Block(o) \/ Sleep(o)
  PROVE  LoopInv'
<1>1. CASE Block(o)
  BY <1>1, OwnerAlone, Zenon DEF Block
<1>2. CASE Sleep(o)
  BY <1>2, OwnerAlone, ZenonT(30) DEF Sleep
<1> QED
  BY <1>1, <1>2

\* StopBegin, StopJoined and StopOwnersNow.
LEMMA StopBeginStep ==
  ASSUME LoopInv, StopBegin \/ StopJoined \/ StopOwnersNow
  PROVE  LoopInv'
<1>1. /\ entry' = entry /\ co' = co /\ hasCb' = hasCb /\ called' = called /\ ready' = ready
      /\ ioQueue' = ioQueue /\ io' = io
  BY Zenon DEF StopBegin, StopJoined, StopOwnersNow
<1>2. LoopTypes
  BY DEF LoopInv
<1>3. /\ owner' \in [Owners -> OwnerType]
      /\ \A o \in Owners : owner'[o] = owner[o] \/ owner'[o].pc = "top"
  <2>1. CASE owner' = owner
    BY <2>1, <1>2 DEF LoopTypes
  <2>2. CASE StopOwnersNow
    <3> DEFINE awake == At("top", NoTask, FALSE)
    <3>1. awake \in OwnerType /\ awake.pc = "top"
      BY DEF At, OwnerType, OwnerPCs
    <3>2. owner' = [o \in Owners |-> IF owner[o].pc = "asleep" THEN awake ELSE owner[o]]
      BY <2>2 DEF StopOwnersNow
    <3> HIDE DEF awake
    <3> QED
      BY <3>1, <3>2, <1>2 DEF LoopTypes
  <2> QED
    BY <2>1, <2>2 DEF StopBegin, StopJoined
<1>4. /\ stop' \in {"no", "refusing", "joining", "cancelled", "done"}
      /\ stopOwners' \in BOOLEAN
  BY <1>2, Zenon DEF LoopTypes, StopBegin, StopJoined, StopOwnersNow
<1>5. LoopTypes'
  BY <1>1, <1>2, <1>3, <1>4 DEF LoopTypes
<1>6. StopPart'
  <2>0. StopPart
    BY DEF LoopInv
  <2>1. CASE StopBegin
    <3>1. stop = "no" /\ stop' = "refusing" /\ stopOwners' = stopOwners
      BY <2>1 DEF StopBegin
    <3>2. ~stopOwners
      BY <2>0, <3>1 DEF StopPart
    <3> QED
      BY <3>1, <3>2 DEF StopPart
  <2>2. CASE StopJoined
    <3>1. stopOwners /\ stop' = "done"
      BY <2>2 DEF StopJoined
    <3>2. ioQueue = <<>>
      BY <2>0, <3>1 DEF StopPart
    <3> QED
      BY <1>1, <3>1, <3>2 DEF StopPart
  <2>3. CASE StopOwnersNow
    <3>1. stop = "cancelled" /\ stop' = stop
      BY <2>3 DEF StopOwnersNow
    <3>2. ioQueue = <<>>
      BY <2>0, <3>1 DEF StopPart
    <3> QED
      BY <1>1, <3>1, <3>2 DEF StopPart
  <2> QED
    BY <2>1, <2>2, <2>3
<1>7. \A u \in Tasks : EntryKeeps(u) /\ CallKept(u)
  BY <1>1, EntriesStay
<1>8. \A u \in Tasks : CoKeeps(u)
  BY <1>1, CoroutinesStay
<1>9. \A o \in Owners : OwnerKeeps(o)
  <2> SUFFICES ASSUME NEW o \in Owners
               PROVE  OwnerKeeps(o)
    OBVIOUS
  <2>1. CASE owner'[o] = owner[o]
    BY <1>1, <2>1, OwnerStays
  <2>2. CASE owner'[o].pc = "top"
    BY <2>2 DEF OwnerKeeps
  <2> QED
    BY <1>3, <2>1, <2>2
<1>10. CallbackPart'
  BY <1>1, <1>7, CallbacksStay
<1> QED
  BY <1>1, <1>5, <1>6, <1>7, <1>8, <1>9, <1>10, CallsAside

\* The coroutine of an owner inside it.
LEMMA InsideTask ==
  ASSUME LoopInv, NEW o \in Owners, owner[o].pc = "inside"
  PROVE  owner[o].task \in Tasks /\ ~Job(owner[o].task)
BY DEF LoopInv, OwnerPart, InsidePart, Job

\* RefuseIo.
LEMMA RefuseIoStep ==
  ASSUME LoopInv, NEW o \in Owners, RefuseIo(o)
  PROVE  LoopInv'
<1> USE DEF RefuseIo
<1> DEFINE t == owner[o].task
<1> DEFINE newCo == [co[t] EXCEPT !.left = co[t].left - 1]
<1> DEFINE new == [entry[t] EXCEPT !.cancel = TRUE]
<1>1. LoopTypes /\ t \in Tasks /\ ~Job(t)
  BY InsideTask DEF LoopInv
<1>2. entry[t] \in EntryType /\ co[t] \in CoType
  BY <1>1 DEF LoopTypes
<1>3. co[t].left \in Nat /\ co[t].left > 0 /\ co[t].left <= Calls
  BY <1>2, LoopConstants DEF CoType
<1>4. newCo.left = co[t].left - 1 /\ newCo.done = co[t].done /\ newCo \in CoType
  BY <1>2, <1>3, LoopConstants DEF CoType
<1>5. co' = [co EXCEPT ![t] = newCo]
  OBVIOUS
<1>6. /\ new \in EntryType /\ new.state = entry[t].state /\ new.gen = entry[t].gen
      /\ new.inFlight = entry[t].inFlight /\ new.cancel
  BY <1>2, Zenon DEF EntryType
<1>7. entry' = entry \/ entry' = [entry EXCEPT ![t] = new]
  OBVIOUS
<1> HIDE DEF newCo, new
<1>8. /\ co' \in [Tasks -> CoType] /\ co'[t] = newCo
      /\ \A u \in Tasks : u # t => co'[u] = co[u]
  BY <1>1, <1>4, <1>5, Zenon DEF LoopTypes
<1>9. /\ entry' \in [Tasks -> EntryType]
      /\ entry'[t] = entry[t] \/ entry'[t] = new
      /\ \A u \in Tasks : u # t => entry'[u] = entry[u]
  <2>1. CASE entry' = entry
    BY <2>1, <1>1, Zenon DEF LoopTypes
  <2>2. CASE entry' = [entry EXCEPT ![t] = new]
    BY <2>2, <1>1, <1>6, EntryMoves, ZenonT(30)
  <2> QED
    BY <1>7, <2>1, <2>2, Zenon
<1>10. LoopTypes'
  BY <1>1, <1>8, <1>9 DEF LoopTypes
<1> HIDE DEF t, RefuseIo
<1>11. \A u \in Tasks : EntryKeeps(u) /\ CallKept(u)
  <2> SUFFICES ASSUME NEW u \in Tasks
               PROVE  EntryKeeps(u) /\ CallKept(u)
    OBVIOUS
  <2>1. CASE entry'[u] = entry[u]
    BY <2>1, JobsPend DEF EntryKeeps, CallKept, LoopInv, FlightPart
  <2>2. CASE u = t /\ entry'[t] = new
    BY <2>2, <1>1, <1>6, JobsPend DEF EntryKeeps, CallKept, LoopInv, FlightPart
  <2> QED
    BY <1>9, <2>1, <2>2
<1>12. \A u \in Tasks : CoKeeps(u)
  <2> SUFFICES ASSUME NEW u \in Tasks
               PROVE  CoKeeps(u)
    OBVIOUS
  <2>0. co[u].left \in Nat
    BY LoopConstants DEF LoopInv, LoopTypes, CoType
  <2>1. CASE u = t
    <3>1. ~co[t].done
      BY <1>1, <1>3 DEF LoopInv, CoroutinePart
    <3> QED
      BY <2>1, <3>1, <1>3, <1>4, <1>8 DEF CoKeeps
  <2>2. CASE u # t
    BY <2>0, <2>2, <1>8 DEF LoopInv, CoroutinePart, CoKeeps, Job
  <2> QED
    BY <2>1, <2>2
<1>13. \A p \in Owners : OwnerKeeps(p)
  BY <1>12, OwnerStays DEF CoKeeps, RefuseIo
<1>14. CallbackPart' /\ StopPart'
  BY <1>11, CallbacksStay DEF LoopInv, StopPart, RefuseIo
<1> QED
  BY <1>10, <1>11, <1>12, <1>13, <1>14, CallsAside DEF RefuseIo

\* Finish.
LEMMA FinishStep ==
  ASSUME LoopInv, NEW o \in Owners, Finish(o)
  PROVE  LoopInv'
<1> USE DEF Finish
<1> DEFINE t == owner[o].task
<1> DEFINE newCo == [co[t] EXCEPT !.done = TRUE]
<1>1. LoopTypes /\ t \in Tasks /\ ~Job(t)
  BY InsideTask DEF LoopInv
<1>2. co[t] \in CoType /\ "back" \in OwnerPCs
  BY <1>1 DEF LoopTypes, OwnerPCs
<1>3. newCo.left = 0 /\ newCo.done /\ newCo \in CoType
  BY <1>2, Zenon DEF CoType
<1>4. co' = [co EXCEPT ![t] = newCo]
  OBVIOUS
<1> HIDE DEF newCo
<1>5. /\ co' \in [Tasks -> CoType] /\ co'[t] = newCo
      /\ \A u \in Tasks : u # t => co'[u] = co[u]
  BY <1>1, <1>3, <1>4, ZenonT(30) DEF LoopTypes
<1>6. /\ owner' \in [Owners -> OwnerType] /\ owner'[o].pc = "back" /\ owner'[o].task = t
      /\ \A p \in Owners : p # o => owner'[p] = owner[p]
  BY <1>1, <1>2, OwnerMoves, Zenon
<1>7. LoopTypes'
  BY <1>1, <1>5, <1>6 DEF LoopTypes
<1>8. co[t].left = 0
  OBVIOUS
<1>9. \A u \in Tasks : EntryKeeps(u) /\ CallKept(u)
  BY EntriesStay
<1> HIDE DEF t, Finish
<1>10. \A u \in Tasks : CoKeeps(u)
  <2> SUFFICES ASSUME NEW u \in Tasks
               PROVE  CoKeeps(u)
    OBVIOUS
  <2>0. co[u].left \in Nat
    BY LoopConstants DEF LoopInv, LoopTypes, CoType
  <2>1. CASE u = t
    BY <2>1, <1>1, <1>3, <1>5, <1>8 DEF CoKeeps
  <2>2. CASE u # t
    BY <2>0, <2>2, <1>5 DEF LoopInv, CoroutinePart, CoKeeps, Job
  <2> QED
    BY <2>1, <2>2
<1>11. \A p \in Owners : OwnerKeeps(p)
  <2> SUFFICES ASSUME NEW p \in Owners
               PROVE  OwnerKeeps(p)
    OBVIOUS
  <2>1. CASE p = o
    BY <2>1, <1>1, <1>6 DEF OwnerKeeps
  <2>2. CASE p # o
    BY <2>2, <1>6, <1>10, OwnerStays DEF CoKeeps
  <2> QED
    BY <2>1, <2>2
<1>12. CallbackPart' /\ StopPart'
  BY <1>9, CallbacksStay DEF LoopInv, StopPart, Finish
<1> QED
  BY <1>7, <1>9, <1>10, <1>11, <1>12, CallsAside DEF Finish

\* Back: whoever gets the callback runs it, once.
LEMMA BackStep ==
  ASSUME LoopInv, NEW o \in Owners, Back(o)
  PROVE  LoopInv'
<1> DEFINE t == owner[o].task
<1>1. LoopTypes /\ owner[o].pc = "back" /\ t \in Tasks
  BY DEF LoopInv, OwnerPart, Back
<1>2. /\ entry' = entry /\ co' = co /\ ready' = ready /\ ioQueue' = ioQueue /\ io' = io
      /\ stop' = stop /\ stopOwners' = stopOwners
  BY DEF Back
<1>3. \A u \in Tasks : EntryKeeps(u) /\ CallKept(u)
  BY <1>2, EntriesStay
<1>4. \A u \in Tasks : CoKeeps(u)
  BY <1>2, CoroutinesStay
<1>5. /\ owner' \in [Owners -> OwnerType]
      /\ \A p \in Owners : p # o => owner'[p] = owner[p]
      /\ \/ owner'[o].pc = "top"
         \/ owner'[o].pc = "cancelled" /\ owner'[o].task = t
         \/ owner'[o].pc = "finished" /\ owner'[o].task = t /\ co[t].done
  <2>1. \/ owner' = [owner EXCEPT ![o].pc = "cancelled"]
        \/ owner' = [owner EXCEPT ![o].pc = "finished"] /\ co[t].done
        \/ owner' = [owner EXCEPT ![o] = At("top", NoTask, FALSE)]
    BY Zenon DEF Back
  <2>2. "cancelled" \in OwnerPCs /\ "finished" \in OwnerPCs /\ "top" \in OwnerPCs
        /\ NoTask \in Tasks \cup {NoTask} /\ FALSE \in BOOLEAN
    BY DEF OwnerPCs
  <2>3. CASE owner' = [owner EXCEPT ![o].pc = "cancelled"]
    BY <2>3, <2>2, <1>1, OwnerMoves, Zenon
  <2>4. CASE owner' = [owner EXCEPT ![o].pc = "finished"] /\ co[t].done
    BY <2>4, <2>2, <1>1, OwnerMoves, Zenon
  <2>5. CASE owner' = [owner EXCEPT ![o] = At("top", NoTask, FALSE)]
    BY <2>5, <2>2, <1>1, OwnerBecomes, ZenonT(30)
  <2> QED
    BY <2>1, <2>3, <2>4, <2>5, Zenon
<1>6. \/ called' = called /\ hasCb' = hasCb
      \/ /\ entry[t].state # "none"
         /\ called' = [called EXCEPT ![t] = IF hasCb[t] THEN called[t] + 1 ELSE called[t]]
         /\ hasCb' = [hasCb EXCEPT ![t] = FALSE]
  BY ZenonT(30) DEF Back, TakeCallback, Pending
<1>7. /\ called' \in [Tasks -> Nat] /\ hasCb' \in [Tasks -> BOOLEAN] /\ CallbackPart'
  <2>1. called \in [Tasks -> Nat] /\ hasCb \in [Tasks -> BOOLEAN] /\ CallbackPart
    BY DEF LoopInv, LoopTypes
  <2>2. CASE called' = called /\ hasCb' = hasCb
    BY <2>1, <2>2, <1>2 DEF CallbackPart
  <2>3. CASE /\ entry[t].state # "none"
             /\ called' = [called EXCEPT ![t] = IF hasCb[t] THEN called[t] + 1 ELSE called[t]]
             /\ hasCb' = [hasCb EXCEPT ![t] = FALSE]
    <3>1. (IF hasCb[t] THEN called[t] + 1 ELSE called[t]) \in 0 .. 1
      BY <2>1, <1>1 DEF CallbackPart
    <3>2. /\ called' \in [Tasks -> Nat] /\ called'[t] \in 0 .. 1
          /\ \A u \in Tasks : u # t => called'[u] = called[u]
      BY <2>1, <2>3, <3>1, <1>1
    <3>3. /\ hasCb' \in [Tasks -> BOOLEAN] /\ ~hasCb'[t]
          /\ \A u \in Tasks : u # t => hasCb'[u] = hasCb[u]
      BY <2>1, <2>3, <1>1
    <3> HIDE DEF t
    <3>4. \A u \in Tasks : /\ called'[u] <= 1
                           /\ hasCb'[u] => called'[u] = 0
                           /\ entry[u].state = "none" => called'[u] = 0 /\ ~hasCb'[u]
      <4> SUFFICES ASSUME NEW u \in Tasks
                   PROVE  /\ called'[u] <= 1
                          /\ hasCb'[u] => called'[u] = 0
                          /\ entry[u].state = "none" => called'[u] = 0 /\ ~hasCb'[u]
        OBVIOUS
      <4>1. CASE u = t
        BY <4>1, <3>2, <3>3, <2>3
      <4>2. CASE u # t
        BY <4>2, <3>2, <3>3, <2>1 DEF CallbackPart
      <4> QED
        BY <4>1, <4>2
    <3> QED
      BY <1>2, <3>2, <3>3, <3>4 DEF CallbackPart
  <2> QED
    BY <1>6, <2>2, <2>3
<1>8. LoopTypes'
  BY <1>1, <1>2, <1>5, <1>7 DEF LoopTypes
<1>9. \A p \in Owners : OwnerKeeps(p)
  <2> SUFFICES ASSUME NEW p \in Owners
               PROVE  OwnerKeeps(p)
    OBVIOUS
  <2>1. CASE p = o
    BY <2>1, <1>1, <1>2, <1>5 DEF OwnerKeeps
  <2>2. CASE p # o
    BY <2>2, <1>2, <1>5, OwnerStays
  <2> QED
    BY <2>1, <2>2
<1>10. StopPart'
  BY <1>2 DEF LoopInv, StopPart
<1> QED
  BY <1>2, <1>3, <1>4, <1>7, <1>8, <1>9, <1>10, CallsAside

\* Erase: a finished coroutine has no call, a cancelled one with a call in
\* flight stays.
LEMMA EraseStep ==
  ASSUME LoopInv, NEW o \in Owners, Erase(o)
  PROVE  LoopInv'
<1> DEFINE t == owner[o].task
<1> DEFINE e == entry[t]
<1>1. LoopTypes /\ owner[o].pc \in {"cancelled", "finished"} /\ t \in Tasks
  BY DEF LoopInv, OwnerPart, Erase
<1>2. /\ co' = co /\ ready' = ready /\ ioQueue' = ioQueue /\ io' = io /\ hasCb' = hasCb
      /\ called' = called /\ stop' = stop /\ stopOwners' = stopOwners
      /\ owner' = [owner EXCEPT ![o] = At("top", NoTask, FALSE)]
  BY DEF Erase
<1>3. e \in EntryType
  BY <1>1 DEF LoopTypes
<1>4. /\ e.state \in States /\ e.gen \in 0 .. Calls /\ e.late \in BOOLEAN
      /\ e.inFlight \in BOOLEAN /\ e.cancel \in BOOLEAN
  BY <1>3, EntryParts
<1> DEFINE gone == Entry("gone", e.gen, e.late, FALSE, e.cancel)
<1> DEFINE kept == Entry("Waiting", e.gen, e.late, TRUE, e.cancel)
<1>5. /\ gone \in EntryType /\ gone.state = "gone" /\ gone.gen = e.gen
      /\ ~gone.inFlight /\ gone.cancel = e.cancel
  BY <1>4 DEF Entry, EntryType, States
<1>6. /\ kept \in EntryType /\ kept.state = "Waiting" /\ kept.gen = e.gen
      /\ kept.inFlight /\ kept.cancel = e.cancel
  BY <1>4 DEF Entry, EntryType, States
<1>7. PICK n : /\ entry' = [entry EXCEPT ![t] = n]
               /\ \/ n = e
                  \/ n = gone /\ ~e.inFlight /\ t \in Pending
                  \/ n = kept /\ e.inFlight /\ t \in Pending
                  \/ n = gone /\ owner[o].pc = "finished" /\ t \in Pending
  <2>1. CASE t \notin Pending
    BY <2>1, Zenon DEF Erase
  <2>2. CASE t \in Pending /\ owner[o].pc = "cancelled"
    BY <2>2, Zenon DEF Erase, EraseCancelled
  <2>3. CASE t \in Pending /\ owner[o].pc = "finished"
    BY <2>3, Zenon DEF Erase
  <2> QED
    BY <1>1, <2>1, <2>2, <2>3, Zenon
<1> HIDE DEF gone, kept
<1>8. n \in EntryType
  BY <1>3, <1>5, <1>6, <1>7
<1>9. /\ entry' \in [Tasks -> EntryType] /\ entry'[t] = n
      /\ \A u \in Tasks : u # t => entry'[u] = entry[u]
  BY <1>1, <1>7, <1>8, EntryMoves, Zenon
<1>10. "top" \in OwnerPCs /\ NoTask \in Tasks \cup {NoTask} /\ FALSE \in BOOLEAN
  BY DEF OwnerPCs
<1>11. /\ owner' \in [Owners -> OwnerType] /\ owner'[o].pc = "top"
       /\ \A p \in Owners : p # o => owner'[p] = owner[p]
  BY <1>1, <1>2, <1>10, OwnerBecomes, Zenon
<1>12. LoopTypes'
  BY <1>1, <1>2, <1>9, <1>11, Zenon DEF LoopTypes
<1>13. owner[o].pc = "finished" => ~Job(t)
  BY <1>1 DEF LoopInv, OwnerPart, CoroutinePart, Job
<1>14. Job(t) => e.inFlight /\ e.state \notin {"none", "gone"}
  BY <1>1, JobsPend
<1>15. e.inFlight => e.state = "Waiting" \/ e.cancel
  BY <1>1 DEF LoopInv, FlightPart
<1>16. t \in Pending => e.state \notin {"none", "gone"}
  BY DEF Pending
<1> HIDE DEF t, e
<1>17. EntryKeeps(t) /\ CallKept(t)
  <2>1. entry[t] = e
    BY DEF e
  <2>2. CASE n = e
    BY <2>1, <2>2, <1>9, <1>14, <1>15 DEF EntryKeeps, CallKept
  <2>3. CASE n = gone /\ t \in Pending /\ ~Job(t)
    BY <2>1, <2>3, <1>5, <1>9, <1>16 DEF EntryKeeps, CallKept
  <2>4. CASE n = kept /\ e.inFlight /\ t \in Pending
    BY <2>1, <2>4, <1>6, <1>9, <1>15, <1>16 DEF EntryKeeps, CallKept
  <2> QED
    BY <1>7, <1>13, <1>14, <2>2, <2>3, <2>4
<1>18. \A u \in Tasks : EntryKeeps(u) /\ CallKept(u)
  <2> SUFFICES ASSUME NEW u \in Tasks, u # t
               PROVE  EntryKeeps(u) /\ CallKept(u)
    BY <1>17
  <2>1. entry'[u] = entry[u]
    BY <1>9
  <2> QED
    BY <2>1, JobsPend DEF EntryKeeps, CallKept, LoopInv, FlightPart
<1>19. \A u \in Tasks : CoKeeps(u)
  BY <1>2, CoroutinesStay
<1>20. \A p \in Owners : OwnerKeeps(p)
  <2> SUFFICES ASSUME NEW p \in Owners
               PROVE  OwnerKeeps(p)
    OBVIOUS
  <2>1. CASE p = o
    BY <2>1, <1>11 DEF OwnerKeeps
  <2>2. CASE p # o
    BY <2>2, <1>2, <1>11, OwnerStays, Zenon
  <2> QED
    BY <2>1, <2>2
<1>21. CallbackPart' /\ StopPart'
  BY <1>2, <1>18, CallbacksStay DEF LoopInv, StopPart
<1> QED
  BY <1>2, <1>12, <1>18, <1>19, <1>20, <1>21, CallsAside

-----------------------------------------------------------------------------
\* Sets of tasks as queues of them.
LEMMA TaskListing ==
  ASSUME NEW S, S \subseteq Tasks
  PROVE  ById(S) \in Seq(Tasks)
<1>1. Cardinality(S) \in Nat /\ Injection(1 .. Cardinality(S), S) # {}
  BY LoopConstants
<1>2. ById(S) \in [1 .. Cardinality(S) -> S]
  BY <1>1 DEF ById, Injection
<1> QED
  BY <1>1, <1>2

\* StopCancel: the I/O threads have left and the queue is empty, so no entry it
\* cancels has a call.
LEMMA StopCancelStep ==
  ASSUME LoopInv, StopCancel
  PROVE  LoopInv'
<1>1. LoopTypes
  BY DEF LoopInv
<1>2. /\ co' = co /\ ioQueue' = ioQueue /\ io' = io /\ hasCb' = hasCb /\ owner' = owner
      /\ called' = called /\ stop = "joining" /\ stop' = "cancelled"
      /\ stopOwners' = stopOwners
      /\ \A w \in IoThreads : io[w].pc = "exit"
      /\ ready' = ready \o ById(WokenByStop)
  BY DEF StopCancel
<1>3. ioQueue = <<>>
  BY <1>2 DEF LoopInv, StopPart
<1>4. \A t \in Tasks : ~Job(t)
  BY <1>2, <1>3 DEF Job, Queued, Underway
<1>5. ready' \in Seq(Tasks)
  <2>1. ById(WokenByStop) \in Seq(Tasks)
    BY TaskListing DEF WokenByStop, Pending
  <2> QED
    BY <2>1, <1>1, <1>2 DEF LoopTypes
<1> DEFINE new(t) == Entry(IF t \in WokenByStop THEN "Ready" ELSE entry[t].state,
                           entry[t].gen, entry[t].late, FALSE, TRUE)
<1>6. entry' = [t \in Tasks |-> IF t \notin Pending THEN entry[t] ELSE new(t)]
  BY DEF StopCancel
<1>7. \A t \in Tasks : /\ new(t) \in EntryType /\ ~new(t).inFlight /\ new(t).cancel
                       /\ new(t).state \in {"Ready", entry[t].state}
                       /\ new(t).gen = entry[t].gen
  <2> SUFFICES ASSUME NEW t \in Tasks
               PROVE  /\ new(t) \in EntryType /\ ~new(t).inFlight /\ new(t).cancel
                      /\ new(t).state \in {"Ready", entry[t].state}
                      /\ new(t).gen = entry[t].gen
    BY Zenon
  <2>1. entry[t] \in EntryType
    BY <1>1 DEF LoopTypes
  <2> DEFINE st == IF t \in WokenByStop THEN "Ready" ELSE entry[t].state
  <2>2. entry[t].state \in States /\ entry[t].gen \in 0 .. Calls /\ entry[t].late \in BOOLEAN
    BY <2>1, EntryParts
  <2>3. st \in States /\ st \in {"Ready", entry[t].state}
    BY <2>2 DEF States
  <2> HIDE DEF st
  <2> QED
    BY <2>2, <2>3 DEF Entry, EntryType, st
<1> HIDE DEF new
<1>8. entry' \in [Tasks -> EntryType]
  BY <1>1, <1>6, <1>7 DEF LoopTypes
<1>9. "cancelled" \in {"no", "refusing", "joining", "cancelled", "done"}
  OBVIOUS
<1>10. LoopTypes'
  BY <1>1, <1>2, <1>5, <1>8, <1>9 DEF LoopTypes
<1>11. \A t \in Tasks : EntryKeeps(t) /\ CallKept(t)
  <2> SUFFICES ASSUME NEW t \in Tasks
               PROVE  EntryKeeps(t) /\ CallKept(t)
    OBVIOUS
  <2>1. CASE t \notin Pending
    <3>1. entry'[t] = entry[t]
      BY <2>1, <1>6
    <3> QED
      BY <3>1, <1>4 DEF EntryKeeps, CallKept, LoopInv, FlightPart
  <2>2. CASE t \in Pending
    <3>1. entry'[t] = new(t)
      BY <2>2, <1>6
    <3>2. entry[t].state \notin {"none", "gone"}
      BY <2>2 DEF Pending
    <3> QED
      BY <3>1, <3>2, <1>4, <1>7 DEF EntryKeeps, CallKept
  <2> QED
    BY <2>1, <2>2
<1>12. \A u \in Tasks : CoKeeps(u)
  BY <1>2, CoroutinesStay
<1>13. \A o \in Owners : OwnerKeeps(o)
  BY <1>2, OwnerStays
<1>14. CallbackPart'
  BY <1>2, <1>11, CallbacksStay
<1>15. StopPart'
  BY <1>2, <1>3 DEF StopPart
<1> QED
  BY <1>2, <1>10, <1>11, <1>12, <1>13, <1>14, <1>15, CallsAside

\* What the deadline sweep does to an entry: nothing, or it cancels it.
SweptFrom(s, e) ==
  /\ s.gen = e.gen /\ s.inFlight = e.inFlight
  /\ s # e => /\ e.state \notin {"none", "gone"} /\ s.cancel
              /\ s.state = IF e.state = "Running" THEN "Running" ELSE "Ready"

\* The sweep of OwnerWork does no more, and queues tasks only.
LEMMA Sweep ==
  ASSUME LoopInv
  PROVE  /\ SweptEntry \in [Tasks -> EntryType]
         /\ \A t \in Tasks : SweptFrom(SweptEntry[t], entry[t])
         /\ SweptReady \in Seq(Tasks)
<1>1. LoopTypes
  BY DEF LoopInv
<1>2. \A t \in Tasks : SweptEntry[t] \in EntryType /\ SweptFrom(SweptEntry[t], entry[t])
  <2> SUFFICES ASSUME NEW t \in Tasks
               PROVE  SweptEntry[t] \in EntryType /\ SweptFrom(SweptEntry[t], entry[t])
    OBVIOUS
  <2>1. entry[t] \in EntryType
    BY <1>1 DEF LoopTypes
  <2>2. CASE t \notin Swept
    <3>1. SweptEntry[t] = entry[t]
      BY <2>2 DEF SweptEntry
    <3> QED
      BY <2>1, <3>1 DEF SweptFrom
  <2>3. CASE t \in Swept
    <3> DEFINE st == IF entry[t].state = "Running" THEN "Running" ELSE "Ready"
    <3> DEFINE s == Entry(st, entry[t].gen, TRUE, entry[t].inFlight, TRUE)
    <3>1. SweptEntry[t] = s
      BY <2>3 DEF SweptEntry
    <3>2. entry[t].gen \in 0 .. Calls /\ entry[t].inFlight \in BOOLEAN
      BY <2>1, EntryParts
    <3>3. st \in States
      BY DEF States
    <3>4. entry[t].state \notin {"none", "gone"}
      BY <2>3 DEF Swept, Pending
    <3> HIDE DEF st
    <3>5. /\ s \in EntryType /\ s.gen = entry[t].gen /\ s.inFlight = entry[t].inFlight
          /\ s.cancel /\ s.state = st
      BY <3>2, <3>3 DEF Entry, EntryType
    <3> HIDE DEF s
    <3> QED
      BY <3>1, <3>4, <3>5 DEF SweptFrom, st
  <2> QED
    BY <2>2, <2>3
<1>3. SweptEntry \in [Tasks -> EntryType]
  <2>1. SweptEntry = [t \in Tasks |-> SweptEntry[t]]
    BY DEF SweptEntry
  <2> QED
    BY <2>1, <1>2
<1>4. ById({t \in Swept : entry[t].state # "Running"}) \in Seq(Tasks)
  BY TaskListing DEF Swept, Pending
<1>5. SweptReady \in Seq(Tasks)
  BY <1>1, <1>4 DEF SweptReady, LoopTypes
<1> QED
  BY <1>2, <1>3, <1>5

\* Pop: only an entry without a call is resumed, and no owner is inside it.
LEMMA PopStep ==
  ASSUME LoopInv, NEW o \in Owners, Pop(o)
  PROVE  LoopInv'
<1>1. LoopTypes
  BY DEF LoopInv
<1>2. /\ co' = co /\ ioQueue' = ioQueue /\ io' = io /\ hasCb' = hasCb /\ called' = called
      /\ stop' = stop /\ stopOwners' = stopOwners
  BY DEF Pop
<1>3. /\ SweptEntry \in [Tasks -> EntryType]
      /\ \A t \in Tasks : SweptFrom(SweptEntry[t], entry[t])
      /\ SweptReady \in Seq(Tasks)
  BY Sweep
<1>4. \A t \in Tasks : entry[t].inFlight => entry[t].state = "Waiting" \/ entry[t].cancel
  BY DEF LoopInv, FlightPart
<1>5. \A t \in Tasks : entry'[t] = SweptEntry[t] => EntryKeeps(t) /\ CallKept(t)
  <2> SUFFICES ASSUME NEW t \in Tasks, entry'[t] = SweptEntry[t]
               PROVE  EntryKeeps(t) /\ CallKept(t)
    OBVIOUS
  <2>1. CASE entry'[t] = entry[t]
    BY <2>1, JobsPend DEF EntryKeeps, CallKept, LoopInv, FlightPart
  <2>2. CASE entry'[t] # entry[t]
    BY <2>2, <1>3, JobsPend DEF EntryKeeps, CallKept, SweptFrom
  <2> QED
    BY <2>1, <2>2
<1>6. \A u \in Tasks : CoKeeps(u)
  BY <1>2, CoroutinesStay
<1>7. StopPart'
  BY <1>2 DEF LoopInv, StopPart
<1>8. CASE SweptReady = <<>> \/ SweptEntry[Head(SweptReady)].state # "Ready"
  <2>1. entry' = SweptEntry
    BY <1>8 DEF Pop
  <2>2. ready' \in Seq(Tasks)
    <3>1. CASE SweptReady = <<>>
      <4>1. ready' = <<>>
        BY <3>1 DEF Pop
      <4> QED
        BY <4>1
    <3>2. CASE SweptReady # <<>>
      BY <3>2, <1>3 DEF Pop
    <3> QED
      BY <3>1, <3>2
  <2>3. /\ owner' \in [Owners -> OwnerType]
        /\ \A p \in Owners : owner'[p] = owner[p] \/ owner'[p].pc \in {"top", "exit"}
    <3>1. CASE owner' = owner
      BY <3>1, <1>1 DEF LoopTypes
    <3>2. CASE SweptReady = <<>>
      <4> DEFINE pc == IF stopOwners THEN "exit" ELSE "top"
      <4>1. owner' = [owner EXCEPT ![o].pc = pc]
        BY <3>2 DEF Pop
      <4>2. pc \in OwnerPCs /\ pc \in {"top", "exit"}
        BY DEF OwnerPCs
      <4> HIDE DEF pc
      <4> QED
        BY <4>1, <4>2, <1>1, OwnerMoves, Zenon
    <3> QED
      BY <1>8, <3>1, <3>2 DEF Pop
  <2>4. \A p \in Owners : OwnerKeeps(p)
    <3> SUFFICES ASSUME NEW p \in Owners
                 PROVE  OwnerKeeps(p)
      OBVIOUS
    <3>1. CASE owner'[p] = owner[p]
      BY <3>1, <1>2, OwnerStays
    <3>2. CASE owner'[p].pc \in {"top", "exit"}
      BY <3>2 DEF OwnerKeeps
    <3> QED
      BY <2>3, <3>1, <3>2
  <2>5. LoopTypes'
    BY <1>1, <1>2, <1>3, <2>1, <2>2, <2>3 DEF LoopTypes
  <2>6. \A t \in Tasks : EntryKeeps(t) /\ CallKept(t)
    BY <1>5, <2>1
  <2>7. CallbackPart'
    BY <1>2, <2>6, CallbacksStay
  <2> QED
    BY <1>2, <1>6, <1>7, <2>4, <2>5, <2>6, <2>7, CallsAside
<1>9. CASE SweptReady # <<>> /\ SweptEntry[Head(SweptReady)].state = "Ready"
  <2> DEFINE t == Head(SweptReady)
  <2> DEFINE e == SweptEntry[t]
  <2> DEFINE new == [e EXCEPT !.state = "Running"]
  <2>1. /\ ready' = Tail(SweptReady)
        /\ entry' = [SweptEntry EXCEPT ![t] = new]
        /\ owner' = [owner EXCEPT ![o] =
             At(IF Stopping(e) THEN "back" ELSE "inside", t, Stopping(e))]
    BY <1>9 DEF Pop
  <2>2. t \in Tasks /\ ready' \in Seq(Tasks) /\ e.state = "Ready"
    BY <1>3, <1>9, <2>1
  <2>3. e \in EntryType /\ SweptFrom(e, entry[t])
    BY <1>3, <2>2
  <2> HIDE DEF t, e
  <2>4. /\ new \in EntryType /\ new.state = "Running" /\ new.gen = e.gen
        /\ new.inFlight = e.inFlight /\ new.cancel = e.cancel
    BY <2>3 DEF EntryType, States
  <2> HIDE DEF new
  <2>5. /\ entry' \in [Tasks -> EntryType] /\ entry'[t] = new
        /\ \A u \in Tasks : u # t => entry'[u] = SweptEntry[u]
    BY <1>3, <2>1, <2>2, <2>4
  <2> DEFINE pc == IF Stopping(e) THEN "back" ELSE "inside"
  <2>6. pc \in OwnerPCs /\ Stopping(e) \in BOOLEAN /\ t \in Tasks \cup {NoTask}
    BY <2>2, <2>3 DEF OwnerPCs, Stopping, EntryType
  <2>7. owner' = [owner EXCEPT ![o] = At(pc, t, Stopping(e))]
    BY <2>1
  <2>8. pc = "back" \/ (pc = "inside" /\ ~e.cancel)
    BY DEF Stopping
  <2> HIDE DEF pc
  <2>9. /\ owner' \in [Owners -> OwnerType]
        /\ owner'[o].pc = pc /\ owner'[o].task = t
        /\ \A p \in Owners : p # o => owner'[p] = owner[p]
    BY <1>1, <2>6, <2>7, OwnerBecomes, Zenon
  <2>10. LoopTypes'
    BY <1>1, <1>2, <2>2, <2>5, <2>9 DEF LoopTypes
  <2>11. e = entry[t] \/ e.cancel
    BY <2>3 DEF SweptFrom
  <2>12. e.gen = entry[t].gen /\ e.inFlight = entry[t].inFlight
    BY <2>3 DEF SweptFrom
  <2>13. entry[t].state \notin {"none", "gone"}
    BY <2>2, <2>3 DEF SweptFrom
  <2>14. entry[t].cancel => e.cancel
    BY <2>11
  <2>15. e.inFlight => e.cancel
    BY <1>4, <2>2, <2>11
  <2>16. \A u \in Tasks : EntryKeeps(u) /\ CallKept(u)
    <3> SUFFICES ASSUME NEW u \in Tasks
                 PROVE  EntryKeeps(u) /\ CallKept(u)
      OBVIOUS
    <3>1. CASE u = t
      BY <3>1, <2>4, <2>5, <2>12, <2>13, <2>14, <2>15, JobsPend DEF EntryKeeps, CallKept
    <3>2. CASE u # t
      BY <3>2, <2>5, <1>5
    <3> QED
      BY <3>1, <3>2
  <2>17. \A p \in Owners : OwnerKeeps(p)
    <3> SUFFICES ASSUME NEW p \in Owners
                 PROVE  OwnerKeeps(p)
      OBVIOUS
    <3>1. CASE p # o
      BY <3>1, <1>2, <2>9, OwnerStays
    <3>2. CASE p = o /\ pc = "back"
      BY <3>2, <2>2, <2>9 DEF OwnerKeeps
    <3>3. CASE p = o /\ pc = "inside" /\ ~e.cancel
      <4>1. e = entry[t] /\ ~entry[t].inFlight
        BY <3>3, <2>11, <2>15
      <4>2. ~Job(t)
        BY <4>1, <2>2, JobsPend
      <4>3. \A q \in Owners : ~(owner[q].pc = "inside" /\ owner[q].task = t)
        BY <3>3, <4>1, <2>2 DEF LoopInv, InsidePart
      <4>4. \A q \in Owners : owner'[q].pc = "inside" /\ owner'[q].task = t => q = o
        BY <4>3, <2>9
      <4> QED
        BY <3>3, <4>2, <4>4, <2>2, <2>4, <2>5, <2>9 DEF OwnerKeeps
    <3> QED
      BY <3>1, <3>2, <3>3, <2>8
  <2>18. CallbackPart'
    BY <1>2, <2>16, CallbacksStay
  <2> QED
    BY <1>2, <1>6, <1>7, <2>10, <2>16, <2>17, <2>18, CallsAside
<1> QED
  BY <1>8, <1>9

-----------------------------------------------------------------------------
\* The I/O threads a step does not touch, and the one it does.
LEMMA IoMoves ==
  ASSUME LoopTypes, NEW w \in IoThreads, NEW r \in IoType, io' = [io EXCEPT ![w] = r]
  PROVE  /\ io' \in [IoThreads -> IoType] /\ io'[w] = r
         /\ \A v \in IoThreads : v # w => io'[v] = io[v]
BY DEF LoopTypes

\* A step of the I/O side that leaves entries, coroutines and owners alone and
\* whose calls are ones there were before.
LEMMA IoAlone ==
  ASSUME LoopInv, LoopTypes', JobPart', OneJobPart', StopPart',
         entry' = entry, co' = co, owner' = owner, hasCb' = hasCb, called' = called,
         \A t \in Tasks : (Queued(t)' \/ Underway(t)') => Job(t)
  PROVE  LoopInv'
<1>1. \A t \in Tasks : EntryKeeps(t) /\ CallKept(t)
  BY EntriesStay
<1>2. \A t \in Tasks : CoKeeps(t)
  BY CoroutinesStay
<1>3. \A o \in Owners : OwnerKeeps(o)
  BY OwnerStays
<1>4. FlightPart' /\ OwnerPart' /\ InsidePart' /\ CoroutinePart'
  BY <1>1, <1>2, <1>3, OwnersKeep
<1>5. CallbackPart'
  BY <1>1, CallbacksStay
<1> QED
  BY <1>4, <1>5 DEF LoopInv

\* StopIo drops the queue.
LEMMA StopIoStep ==
  ASSUME LoopInv, StopIo
  PROVE  LoopInv'
<1>1. LoopTypes /\ JobPart /\ OneJobPart /\ StopPart
  BY DEF LoopInv
<1>2. /\ entry' = entry /\ co' = co /\ owner' = owner /\ hasCb' = hasCb /\ called' = called
      /\ ready' = ready /\ io' = io /\ stopOwners' = stopOwners
      /\ ioQueue' = <<>> /\ stop = "refusing" /\ stop' = "joining"
  BY DEF StopIo
<1>3. <<>> \in Seq(JobType)
  OBVIOUS
<1>4. "joining" \in {"no", "refusing", "joining", "cancelled", "done"}
  OBVIOUS
<1>5. LoopTypes'
  BY <1>1, <1>2, <1>3, <1>4 DEF LoopTypes
<1>6. \A t : ~Queued(t)' /\ Underway(t)' = Underway(t)
  BY <1>2 DEF Queued, Underway
<1>7. \A t, g : JobOf(t, g)' = JobOf(t, g)
  BY <1>2 DEF JobOf, Pending
<1>8. \A w \in IoThreads : io[w].pc = "work" =>
        io[w].task \in Tasks /\ JobOf(io[w].task, io[w].gen)
  BY <1>1 DEF JobPart
<1>9. JobPart'
  <2>1. \A w \in IoThreads : io'[w].pc = "work" =>
          io'[w].task \in Tasks /\ JobOf(io[w].task, io[w].gen)'
    BY <1>2, <1>8 DEF JobOf, Pending
  <2> QED
    BY <1>2, <2>1 DEF JobPart
<1>10. OneJobPart'
  BY <1>1, <1>2, <1>6 DEF OneJobPart
<1>11. StopPart'
  BY <1>1, <1>2 DEF StopPart
<1>12. \A t \in Tasks : (Queued(t)' \/ Underway(t)') => Job(t)
  BY <1>6 DEF Job
<1> QED
  BY <1>2, <1>5, <1>9, <1>10, <1>11, <1>12, IoAlone

\* TakeIo: the call moves from the queue to the thread.
LEMMA TakeIoStep ==
  ASSUME LoopInv, NEW w \in IoThreads, TakeIo(w)
  PROVE  LoopInv'
<1>1. LoopTypes /\ JobPart /\ OneJobPart /\ StopPart
  BY DEF LoopInv
<1>2. /\ entry' = entry /\ co' = co /\ owner' = owner /\ hasCb' = hasCb /\ called' = called
      /\ ready' = ready /\ stopOwners' = stopOwners /\ stop' = stop /\ io[w].pc = "idle"
  BY DEF TakeIo
<1>3. \A t, g : JobOf(t, g)' = JobOf(t, g)
  BY <1>2 DEF JobOf, Pending
<1>4. \A v \in IoThreads : io[v].pc = "work" =>
        io[v].task \in Tasks /\ JobOf(io[v].task, io[v].gen)
  BY <1>1 DEF JobPart
<1>5. ioQueue \in Seq(JobType) /\ io[w] \in IoType
  BY <1>1 DEF LoopTypes
<1>6. CASE IoMayLeave /\ io' = [io EXCEPT ![w].pc = "exit"] /\ ioQueue' = ioQueue
  <2> DEFINE r == [io[w] EXCEPT !.pc = "exit"]
  <2>1. r \in IoType /\ r.pc = "exit" /\ io' = [io EXCEPT ![w] = r]
    BY <1>5, <1>6 DEF IoType
  <2> HIDE DEF r
  <2>2. /\ io' \in [IoThreads -> IoType] /\ io'[w] = r
        /\ \A v \in IoThreads : v # w => io'[v] = io[v]
    BY <1>1, <2>1, IoMoves, Zenon
  <2>3. LoopTypes'
    BY <1>1, <1>2, <1>6, <2>2 DEF LoopTypes
  <2>4. \A v \in IoThreads : io'[v].pc = "work" => io[v].pc = "work" /\ io'[v] = io[v]
    BY <2>1, <2>2
  <2>5. \A t : Queued(t)' = Queued(t) /\ (Underway(t)' => Underway(t))
    BY <1>6, <2>4 DEF Queued, Underway
  <2>6. JobPart'
    <3>1. \A i \in 1 .. Len(ioQueue) : JobOf(ioQueue[i].task, ioQueue[i].gen)
      BY <1>1 DEF JobPart
    <3> QED
      BY <1>2, <1>4, <1>6, <2>4, <3>1 DEF JobPart, JobOf, Pending
  <2>7. OneJobPart'
    BY <1>1, <1>6, <2>4, <2>5 DEF OneJobPart
  <2>8. StopPart'
    BY <1>1, <1>2, <1>6 DEF StopPart
  <2>9. \A t \in Tasks : (Queued(t)' \/ Underway(t)') => Job(t)
    BY <2>5 DEF Job
  <2> QED
    BY <1>2, <2>3, <2>6, <2>7, <2>8, <2>9, IoAlone
<1>7. CASE /\ Running /\ ioQueue # <<>>
           /\ io' = [io EXCEPT ![w] =
                [pc |-> "work", task |-> Head(ioQueue).task, gen |-> Head(ioQueue).gen]]
           /\ ioQueue' = Tail(ioQueue)
  <2> DEFINE h == Head(ioQueue)
  <2> DEFINE r == [pc |-> "work", task |-> h.task, gen |-> h.gen]
  <2>1. h \in JobType /\ h = ioQueue[1] /\ Len(ioQueue) \in Nat /\ Len(ioQueue) >= 1
    BY <1>5, <1>7
  <2>2. h.task \in Tasks /\ h.gen \in 0 .. Calls
    BY <2>1, LoopConstants DEF JobType
  <2>3. r \in IoType /\ r.pc = "work" /\ r.task = h.task /\ r.gen = h.gen
    BY <2>2 DEF IoType
  <2>4. io' = [io EXCEPT ![w] = r]
    BY <1>7
  <2>5. /\ Tail(ioQueue) \in Seq(JobType) /\ Len(Tail(ioQueue)) = Len(ioQueue) - 1
        /\ \A i \in 1 .. Len(Tail(ioQueue)) :
             /\ i + 1 \in 1 .. Len(ioQueue) /\ i + 1 # 1 /\ i \in Nat
             /\ Tail(ioQueue)[i] = ioQueue[i + 1]
    BY <1>5, <1>7
  <2> HIDE DEF h, r
  <2>6. /\ io' \in [IoThreads -> IoType] /\ io'[w] = r
        /\ \A v \in IoThreads : v # w => io'[v] = io[v]
    BY <1>1, <2>3, <2>4, IoMoves, ZenonT(30)
  <2>7. LoopTypes'
    BY <1>1, <1>2, <1>7, <2>5, <2>6 DEF LoopTypes
  <2>8. 1 \in 1 .. Len(ioQueue)
    BY <2>1
  <2>9. \A i \in 1 .. Len(ioQueue) : JobOf(ioQueue[i].task, ioQueue[i].gen)
    BY <1>1 DEF JobPart
  <2>10. JobPart'
    <3>1. JobOf(h.task, h.gen)
      BY <2>1, <2>8, <2>9
    <3>2. \A i \in 1 .. Len(Tail(ioQueue)) : JobOf(Tail(ioQueue)[i].task, Tail(ioQueue)[i].gen)
      BY <2>5, <2>9
    <3>3. \A v \in IoThreads : io'[v].pc = "work" =>
            io'[v].task \in Tasks /\ JobOf(io'[v].task, io'[v].gen)
      <4> SUFFICES ASSUME NEW v \in IoThreads, io'[v].pc = "work"
                   PROVE  io'[v].task \in Tasks /\ JobOf(io'[v].task, io'[v].gen)
        OBVIOUS
      <4>1. CASE v = w
        BY <4>1, <2>2, <2>3, <2>6, <3>1
      <4>2. CASE v # w
        BY <4>2, <1>4, <2>6
      <4> QED
        BY <4>1, <4>2
    <3> QED
      BY <1>2, <1>7, <3>2, <3>3, ZenonT(30) DEF JobPart, JobOf, Pending
  <2>11. \A t \in Tasks : Queued(t)' => Queued(t) /\ t # h.task
    <3> SUFFICES ASSUME NEW t \in Tasks, Queued(t)'
                 PROVE  Queued(t) /\ t # h.task
      OBVIOUS
    <3>1. PICK i \in 1 .. Len(Tail(ioQueue)) : Tail(ioQueue)[i].task = t
      BY <1>7 DEF Queued
    <3>2. /\ i + 1 \in 1 .. Len(ioQueue) /\ i + 1 # 1 /\ ioQueue[i + 1].task = t
      BY <2>5, <3>1
    <3> QED
      BY <1>1, <2>1, <2>8, <3>2 DEF OneJobPart, Queued
  <2>12. Queued(h.task)
    BY <2>1, <2>8 DEF Queued
  <2>13. \A t \in Tasks : Underway(t)' => Underway(t) \/ t = h.task
    BY <2>3, <2>6 DEF Underway
  <2>14. \A t \in Tasks : (Queued(t)' \/ Underway(t)') => Job(t)
    BY <2>11, <2>12, <2>13 DEF Job
  <2>15. OneJobPart'
    <3>1. \A i, j \in 1 .. Len(Tail(ioQueue)) :
            Tail(ioQueue)[i].task = Tail(ioQueue)[j].task => i = j
      <4> SUFFICES ASSUME NEW i \in 1 .. Len(Tail(ioQueue)), NEW j \in 1 .. Len(Tail(ioQueue)),
                          Tail(ioQueue)[i].task = Tail(ioQueue)[j].task
                   PROVE  i = j
        OBVIOUS
      <4>1. i + 1 = j + 1
        BY <1>1, <2>5 DEF OneJobPart
      <4> QED
        BY <4>1, <2>5
    <3>2. ~Underway(h.task)
      BY <1>1, <2>2, <2>12 DEF OneJobPart
    <3>3. \A u, v \in IoThreads :
            io'[u].pc = "work" /\ io'[v].pc = "work" /\ io'[u].task = io'[v].task => u = v
      <4> SUFFICES ASSUME NEW u \in IoThreads, NEW v \in IoThreads, io'[u].pc = "work",
                          io'[v].pc = "work", io'[u].task = io'[v].task
                   PROVE  u = v
        OBVIOUS
      <4>1. CASE u # w /\ v # w
        BY <4>1, <1>1, <2>6 DEF OneJobPart
      <4>2. CASE u = w /\ v # w
        BY <4>2, <2>3, <2>6, <3>2 DEF Underway
      <4>3. CASE u # w /\ v = w
        BY <4>3, <2>3, <2>6, <3>2 DEF Underway
      <4> QED
        BY <4>1, <4>2, <4>3
    <3>4. \A t \in Tasks : ~(Queued(t)' /\ Underway(t)')
      BY <1>1, <2>11, <2>13 DEF OneJobPart
    <3> QED
      BY <1>7, <3>1, <3>3, <3>4 DEF OneJobPart
  <2>16. StopPart'
    BY <1>1, <1>2, <1>7 DEF StopPart, Running
  <2> QED
    BY <1>2, <2>7, <2>10, <2>14, <2>15, <2>16, IoAlone
<1> QED
  BY <1>6, <1>7 DEF TakeIo

\* CompleteIo: the call is the one its entry waits for.
LEMMA CompleteIoStep ==
  ASSUME LoopInv, NEW w \in IoThreads, CompleteIo(w)
  PROVE  LoopInv'
<1> DEFINE t == io[w].task
<1> DEFINE e == entry[t]
<1>1. LoopTypes /\ JobPart /\ OneJobPart /\ StopPart
  BY DEF LoopInv
<1>2. /\ co' = co /\ hasCb' = hasCb /\ called' = called /\ ioQueue' = ioQueue
      /\ stopOwners' = stopOwners /\ stop' = stop /\ io[w].pc = "work"
      /\ io' = [io EXCEPT ![w] = IoIdle]
  BY DEF CompleteIo
<1>3. t \in Tasks /\ t \in Pending /\ e.inFlight /\ e.gen = io[w].gen
  BY <1>1, <1>2 DEF JobPart, JobOf
<1>4. Underway(t) /\ Job(t) /\ ~Queued(t)
  BY <1>1, <1>2, <1>3 DEF Underway, Job, OneJobPart
<1>5. /\ e.state \notin {"none", "gone"} /\ (e.state = "Waiting" \/ e.cancel)
  BY <1>3, <1>4, JobsPend
<1> DEFINE cancel == e.cancel \/ ~Running
<1> DEFINE wakes == ~cancel \/ e.state # "Running"
<1> DEFINE new == Entry(IF wakes THEN "Ready" ELSE e.state, e.gen, e.late, FALSE, cancel)
<1>6. /\ entry' = [entry EXCEPT ![t] = new]
      /\ ready' = IF wakes THEN Append(ready, t) ELSE ready
      /\ owner' = owner \/ owner' \in Notified(owner)
  BY <1>3, ZenonT(30) DEF CompleteIo
<1>7. e \in EntryType
  BY <1>1, <1>3 DEF LoopTypes
<1>8. /\ e.state \in States /\ e.gen \in 0 .. Calls /\ e.late \in BOOLEAN
      /\ e.inFlight \in BOOLEAN /\ e.cancel \in BOOLEAN
  BY <1>7, EntryParts
<1>9. cancel \in BOOLEAN /\ (e.cancel => cancel)
  BY <1>8
<1> DEFINE st == IF wakes THEN "Ready" ELSE e.state
<1>10. st \in States /\ st \in {"Ready", e.state}
  BY <1>8 DEF States
<1>11. ready' \in Seq(Tasks)
  <2>1. ready \in Seq(Tasks) /\ t \in Tasks
    BY <1>1, <1>3 DEF LoopTypes
  <2>2. Append(ready, t) \in Seq(Tasks)
    BY <2>1
  <2> QED
    BY <1>6, <2>1, <2>2
<1>12. new = Entry(st, e.gen, e.late, FALSE, cancel)
  OBVIOUS
<1> HIDE DEF cancel, st, new, wakes
<1>13. /\ new \in EntryType /\ new.state = st /\ new.gen = e.gen
       /\ ~new.inFlight /\ new.cancel = cancel
  BY <1>8, <1>9, <1>10, <1>12 DEF Entry, EntryType
<1>14. /\ entry' \in [Tasks -> EntryType] /\ entry'[t] = new
       /\ \A u \in Tasks : u # t => entry'[u] = entry[u]
  BY <1>1, <1>3, <1>6, <1>13, EntryMoves, ZenonT(30)
<1>15. /\ owner' \in [Owners -> OwnerType]
       /\ \A o \in Owners : owner'[o] = owner[o] \/ owner'[o].pc = "top"
  <2>1. CASE owner' = owner
    BY <2>1, <1>1 DEF LoopTypes
  <2>2. CASE owner' \in Notified(owner)
    BY <2>2, <1>1, Woken
  <2> QED
    BY <1>6, <2>1, <2>2
<1>16. IoIdle \in IoType /\ IoIdle.pc = "idle"
  BY LoopConstants DEF IoIdle, IoType
<1>17. /\ io' \in [IoThreads -> IoType] /\ io'[w] = IoIdle
       /\ \A v \in IoThreads : v # w => io'[v] = io[v]
  BY <1>1, <1>2, <1>16, IoMoves, Zenon
<1>18. LoopTypes'
  BY <1>1, <1>2, <1>11, <1>14, <1>15, <1>17 DEF LoopTypes
<1>19. \A v \in IoThreads : io'[v].pc = "work" =>
         io[v].pc = "work" /\ io'[v] = io[v] /\ io[v].task # t
  <2> SUFFICES ASSUME NEW v \in IoThreads, io'[v].pc = "work"
               PROVE  io[v].pc = "work" /\ io'[v] = io[v] /\ io[v].task # t
    BY ZenonT(30)
  <2>1. v # w
    BY <1>16, <1>17
  <2> QED
    BY <2>1, <1>1, <1>2, <1>17 DEF OneJobPart
<1>20. \A u : Queued(u)' = Queued(u) /\ (Underway(u)' => Underway(u))
  BY <1>2, <1>19, ZenonT(30) DEF Queued, Underway
<1>21. \A u \in Tasks : (Queued(u)' \/ Underway(u)') => Job(u)
  BY <1>20 DEF Job
<1>22. OneJobPart'
  BY <1>1, <1>2, <1>19, <1>20 DEF OneJobPart
<1> HIDE DEF e
<1>23. JobPart'
  <2>1. \A u \in Tasks : \A g : u # t /\ JobOf(u, g) =>
          entry'[u].state \notin {"none", "gone"} /\ entry'[u].inFlight /\ entry'[u].gen = g
    BY <1>14 DEF JobOf, Pending
  <2>2. \A i \in 1 .. Len(ioQueue) :
          /\ ioQueue[i].task \in Tasks /\ ioQueue[i].task # t
          /\ JobOf(ioQueue[i].task, ioQueue[i].gen)
    BY <1>1, <1>4 DEF JobPart, JobOf, Pending, Queued
  <2>3. \A v \in IoThreads : io'[v].pc = "work" =>
          io[v].task \in Tasks /\ io[v].task # t /\ JobOf(io[v].task, io[v].gen)
    BY <1>1, <1>19 DEF JobPart
  <2>4. \A i \in 1 .. Len(ioQueue) :
          /\ ioQueue[i].task \in Tasks
          /\ entry'[ioQueue[i].task].state \notin {"none", "gone"}
          /\ entry'[ioQueue[i].task].inFlight
          /\ entry'[ioQueue[i].task].gen = ioQueue[i].gen
    BY <2>1, <2>2
  <2>5. \A v \in IoThreads : io'[v].pc = "work" =>
          /\ io'[v].task \in Tasks
          /\ entry'[io'[v].task].state \notin {"none", "gone"}
          /\ entry'[io'[v].task].inFlight
          /\ entry'[io'[v].task].gen = io'[v].gen
    BY <2>1, <2>3, <1>19, SMTT(20)
  <2> QED
    BY <1>2, <2>4, <2>5 DEF JobPart, JobOf, Pending
<1>24. \A u \in Tasks : EntryKeeps(u)
  <2> SUFFICES ASSUME NEW u \in Tasks
               PROVE  EntryKeeps(u)
    OBVIOUS
  <2>1. CASE u # t
    BY <2>1, <1>14 DEF EntryKeeps, LoopInv, FlightPart
  <2>2. CASE u = t
    <3>1. entry[t] = e
      BY DEF e
    <3> QED
      BY <3>1, <2>2, <1>5, <1>9, <1>10, <1>13, <1>14 DEF EntryKeeps
  <2> QED
    BY <2>1, <2>2
<1>25. \A u \in Tasks : CoKeeps(u)
  BY <1>2, CoroutinesStay
<1>26. \A o \in Owners : OwnerKeeps(o)
  <2> SUFFICES ASSUME NEW o \in Owners
               PROVE  OwnerKeeps(o)
    OBVIOUS
  <2>1. CASE owner'[o] = owner[o]
    BY <1>2, <2>1, OwnerStays
  <2>2. CASE owner'[o].pc = "top"
    BY <2>2 DEF OwnerKeeps
  <2> QED
    BY <1>15, <2>1, <2>2
<1>27. FlightPart' /\ OwnerPart' /\ InsidePart' /\ CoroutinePart'
  BY <1>18, <1>21, <1>24, <1>25, <1>26, OwnersKeep
<1>28. CallbackPart'
  BY <1>2, <1>24, CallbacksStay
<1>29. StopPart'
  BY <1>1, <1>2 DEF StopPart
<1> QED
  BY <1>18, <1>22, <1>23, <1>27, <1>28, <1>29 DEF LoopInv

\* SubmitIo: the task had no call, and its owner is the only one inside it.
LEMMA SubmitIoStep ==
  ASSUME LoopInv, NEW o \in Owners, SubmitIo(o)
  PROVE  LoopInv'
<1> DEFINE t == owner[o].task
<1> DEFINE e == entry[t]
<1> DEFINE g == e.gen + 1
<1>1. LoopTypes /\ JobPart /\ OneJobPart /\ StopPart /\ t \in Tasks /\ ~Job(t)
  BY InsideTask DEF LoopInv, SubmitIo
<1>2. /\ hasCb' = hasCb /\ called' = called /\ ready' = ready /\ io' = io
      /\ stopOwners' = stopOwners /\ stop' = stop /\ stop = "no"
      /\ owner[o].pc = "inside" /\ co[t].left > 0 /\ e.state = "Running"
      /\ owner' = [owner EXCEPT ![o].pc = "back"]
      /\ ioQueue' = Append(ioQueue, [task |-> t, gen |-> g])
  BY DEF SubmitIo, NextGeneration, Accepting
<1>3. e \in EntryType /\ co[t] \in CoType /\ ioQueue \in Seq(JobType)
  BY <1>1 DEF LoopTypes
<1>4. /\ e.gen \in Nat /\ co[t].left \in Nat /\ e.gen + co[t].left <= Calls
  BY <1>1, <1>3, LoopConstants DEF EntryType, CoType, LoopInv, CoroutinePart
<1>5. g \in 1 .. Calls /\ g \in 0 .. Calls /\ g \in Nat
  BY <1>2, <1>4, LoopConstants
<1> DEFINE new == Entry("Waiting", g, FALSE, TRUE, FALSE)
<1> DEFINE newCo == [co[t] EXCEPT !.left = co[t].left - 1]
<1> DEFINE job == [task |-> t, gen |-> g]
<1>6. entry' = [entry EXCEPT ![t] = new] /\ co' = [co EXCEPT ![t] = newCo]
  BY DEF SubmitIo, NextGeneration
<1> HIDE DEF g
<1>7. new \in EntryType /\ new.state = "Waiting" /\ new.gen = g /\ new.inFlight
  BY <1>5 DEF Entry, EntryType, States
<1>8. newCo \in CoType /\ newCo.left = co[t].left - 1 /\ newCo.done = co[t].done
  <2>1. co[t].left - 1 \in 0 .. Calls
    BY <1>2, <1>4, LoopConstants
  <2> QED
    BY <1>3, <2>1 DEF CoType
<1>9. job \in JobType /\ job.task = t /\ job.gen = g
  BY <1>1, <1>5 DEF JobType
<1>10. ioQueue' = Append(ioQueue, job)
  BY <1>2
<1> HIDE DEF new, newCo, job
<1>11. /\ entry' \in [Tasks -> EntryType] /\ entry'[t] = new
       /\ \A u \in Tasks : u # t => entry'[u] = entry[u]
  BY <1>1, <1>6, <1>7, EntryMoves, Zenon
<1>12. /\ co' \in [Tasks -> CoType] /\ co'[t] = newCo
       /\ \A u \in Tasks : u # t => co'[u] = co[u]
  BY <1>1, <1>6, <1>8 DEF LoopTypes
<1>13. /\ ioQueue' \in Seq(JobType) /\ Len(ioQueue') = Len(ioQueue) + 1 /\ Len(ioQueue) \in Nat
       /\ ioQueue'[Len(ioQueue) + 1] = job
       /\ \A i \in 1 .. Len(ioQueue) : ioQueue'[i] = ioQueue[i]
  BY <1>3, <1>9, <1>10, SMTT(20)
<1>14. "back" \in OwnerPCs
  BY DEF OwnerPCs
<1>15. /\ owner' \in [Owners -> OwnerType] /\ owner'[o].pc = "back" /\ owner'[o].task = t
       /\ \A p \in Owners : p # o => owner'[p] = owner[p]
  BY <1>1, <1>2, <1>14, OwnerMoves, Zenon
<1>16. LoopTypes'
  BY <1>1, <1>2, <1>11, <1>12, <1>13, <1>15 DEF LoopTypes
<1>17. \A i \in 1 .. Len(ioQueue') : i \in 1 .. Len(ioQueue) \/ i = Len(ioQueue) + 1
  BY <1>13
<1>18. \A i \in 1 .. Len(ioQueue) : ioQueue[i].task # t
  BY <1>1 DEF Job, Queued
<1>19. \A v \in IoThreads : io[v].pc = "work" => io[v].task # t
  BY <1>1 DEF Job, Underway
<1>20. \A u : (Underway(u)' = Underway(u)) /\ (Queued(u)' => Queued(u) \/ u = t)
  <2>1. \A u : Underway(u)' = Underway(u)
    BY <1>2 DEF Underway
  <2>2. \A u : Queued(u)' => Queued(u) \/ u = t
    BY <1>9, <1>13, <1>17 DEF Queued
  <2> QED
    BY <2>1, <2>2
<1>21. ~Underway(t)
  BY <1>1 DEF Job
<1>22. \A p \in Owners : owner'[p].pc = "inside" =>
         p # o /\ owner'[p] = owner[p] /\ owner[p].task # t
  BY <1>1, <1>2, <1>15 DEF LoopInv, InsidePart
<1>23. ~co[t].done
  BY <1>1, <1>2, <1>4 DEF LoopInv, CoroutinePart
<1>24. co'[t].left = co[t].left - 1 /\ ~co'[t].done
  BY <1>8, <1>12, <1>23
<1> HIDE DEF t, e
<1>25. JobPart'
  <2>1. \A u \in Tasks : \A k : u # t /\ JobOf(u, k) =>
          entry'[u].state \notin {"none", "gone"} /\ entry'[u].inFlight /\ entry'[u].gen = k
    BY <1>11 DEF JobOf, Pending
  <2>2. \A i \in 1 .. Len(ioQueue) :
          ioQueue[i].task \in Tasks /\ JobOf(ioQueue[i].task, ioQueue[i].gen)
    BY <1>1 DEF JobPart, JobOf, Pending
  <2>3. \A v \in IoThreads : io[v].pc = "work" =>
          io[v].task \in Tasks /\ JobOf(io[v].task, io[v].gen)
    BY <1>1 DEF JobPart
  <2>4. \A i \in 1 .. Len(ioQueue') :
          /\ ioQueue'[i].task \in Tasks
          /\ entry'[ioQueue'[i].task].state \notin {"none", "gone"}
          /\ entry'[ioQueue'[i].task].inFlight
          /\ entry'[ioQueue'[i].task].gen = ioQueue'[i].gen
    <3> SUFFICES ASSUME NEW i \in 1 .. Len(ioQueue')
                 PROVE  /\ ioQueue'[i].task \in Tasks
                        /\ entry'[ioQueue'[i].task].state \notin {"none", "gone"}
                        /\ entry'[ioQueue'[i].task].inFlight
                        /\ entry'[ioQueue'[i].task].gen = ioQueue'[i].gen
      OBVIOUS
    <3>1. CASE i \in 1 .. Len(ioQueue)
      BY <3>1, <2>1, <2>2, <1>13, <1>18
    <3>2. CASE i = Len(ioQueue) + 1
      BY <3>2, <1>1, <1>7, <1>9, <1>11, <1>13
    <3> QED
      BY <3>1, <3>2, <1>17
  <2>5. \A v \in IoThreads : io[v].pc = "work" =>
          /\ io[v].task \in Tasks
          /\ entry'[io[v].task].state \notin {"none", "gone"}
          /\ entry'[io[v].task].inFlight
          /\ entry'[io[v].task].gen = io[v].gen
    BY <2>1, <2>3, <1>19
  <2> QED
    BY <1>2, <2>4, <2>5 DEF JobPart, JobOf, Pending
<1>26. OneJobPart'
  <2>1. \A i, j \in 1 .. Len(ioQueue') : ioQueue'[i].task = ioQueue'[j].task => i = j
    <3> SUFFICES ASSUME NEW i \in 1 .. Len(ioQueue'), NEW j \in 1 .. Len(ioQueue'),
                        ioQueue'[i].task = ioQueue'[j].task
                 PROVE  i = j
      OBVIOUS
    <3>1. CASE i \in 1 .. Len(ioQueue) /\ j \in 1 .. Len(ioQueue)
      BY <3>1, <1>1, <1>13 DEF OneJobPart
    <3>2. CASE i \in 1 .. Len(ioQueue) /\ j = Len(ioQueue) + 1
      BY <3>2, <1>9, <1>13, <1>18
    <3>3. CASE i = Len(ioQueue) + 1 /\ j \in 1 .. Len(ioQueue)
      BY <3>3, <1>9, <1>13, <1>18
    <3> QED
      BY <3>1, <3>2, <3>3, <1>17
  <2>2. \A u \in Tasks : ~(Queued(u)' /\ Underway(u)')
    BY <1>1, <1>20, <1>21 DEF OneJobPart
  <2> QED
    BY <1>1, <1>2, <2>1, <2>2 DEF OneJobPart
<1>27. FlightPart'
  BY <1>7, <1>11 DEF FlightPart, LoopInv
<1>28. OwnerPart'
  <2> SUFFICES ASSUME NEW p \in Owners
               PROVE  /\ owner'[p].pc \in {"inside", "back", "cancelled", "finished"}
                           => owner'[p].task \in Tasks
                      /\ owner'[p].pc = "finished" => co'[owner'[p].task].done
    BY DEF OwnerPart
  <2>1. CASE p = o
    BY <2>1, <1>1, <1>15
  <2>2. CASE p # o
    <3>1. /\ owner'[p] = owner[p]
          /\ owner[p].pc \in {"inside", "back", "cancelled", "finished"} => owner[p].task \in Tasks
          /\ owner[p].pc = "finished" => owner[p].task \in Tasks /\ co[owner[p].task].done
      BY <2>2, <1>15 DEF LoopInv, OwnerPart
    <3> QED
      BY <3>1, <1>12, <1>23
  <2> QED
    BY <2>1, <2>2
<1>29. InsidePart'
  <2> SUFFICES ASSUME NEW p \in Owners, NEW u \in Tasks,
                      owner'[p].pc = "inside", owner'[p].task = u
               PROVE  /\ entry'[u].state \in {"Running", "gone"} \/ entry'[u].cancel
                      /\ ~Queued(u)' /\ ~Underway(u)'
                      /\ \A q \in Owners : owner'[q].pc = "inside" /\ owner'[q].task = u => q = p
    BY DEF InsidePart
  <2>1. p # o /\ owner[p].pc = "inside" /\ owner[p].task = u /\ u # t
    BY <1>22
  <2>2. /\ entry[u].state \in {"Running", "gone"} \/ entry[u].cancel
        /\ ~Queued(u) /\ ~Underway(u)
        /\ \A q \in Owners : owner[q].pc = "inside" /\ owner[q].task = u => q = p
    BY <2>1 DEF LoopInv, InsidePart
  <2>3. entry'[u].state \in {"Running", "gone"} \/ entry'[u].cancel
    BY <2>1, <2>2, <1>11
  <2>4. ~Queued(u)' /\ ~Underway(u)'
    BY <2>1, <2>2, <1>20
  <2>5. \A q \in Owners : owner'[q].pc = "inside" /\ owner'[q].task = u => q = p
    BY <2>2, <1>22
  <2> QED
    BY <2>3, <2>4, <2>5
<1>30. CoroutinePart'
  <2> SUFFICES ASSUME NEW u \in Tasks
               PROVE  /\ entry'[u].gen + co'[u].left <= Calls
                      /\ co'[u].done => co'[u].left = 0 /\ ~Queued(u)' /\ ~Underway(u)'
    BY DEF CoroutinePart
  <2>1. CASE u = t
    <3>1. entry'[t].gen = e.gen + 1
      BY <1>7, <1>11 DEF g
    <3>2. entry'[t].gen + co'[t].left <= Calls
      BY <3>1, <1>4, <1>24, LoopConstants
    <3> QED
      BY <2>1, <3>2, <1>24
  <2>2. CASE u # t
    BY <2>2, <1>11, <1>12, <1>20 DEF LoopInv, CoroutinePart
  <2> QED
    BY <2>1, <2>2
<1>31. CallbackPart'
  <2> SUFFICES ASSUME NEW u \in Tasks
               PROVE  /\ called[u] <= 1
                      /\ hasCb[u] => called[u] = 0
                      /\ entry'[u].state = "none" => called[u] = 0 /\ ~hasCb[u]
    BY <1>2 DEF CallbackPart
  <2> QED
    BY <1>7, <1>11 DEF LoopInv, CallbackPart
<1>32. StopPart'
  BY <1>1, <1>2 DEF StopPart
<1> QED
  BY <1>16, <1>25, <1>26, <1>27, <1>28, <1>29, <1>30, <1>31, <1>32 DEF LoopInv

-----------------------------------------------------------------------------
\* Every step keeps the invariant.
LEMMA LoopStep ==
  ASSUME LoopInv, [Next]_vars
  PROVE  LoopInv'
<1>1. CASE UNCHANGED vars
  <2>1. LoopTypes' /\ CallbackPart' /\ StopPart'
    BY <1>1 DEF vars, LoopInv, LoopTypes, CallbackPart, StopPart
  <2>2. JobPart' /\ OneJobPart'
    BY <1>1 DEF vars, LoopInv, JobPart, JobOf, Pending, OneJobPart, Queued, Underway
  <2>3. FlightPart' /\ OwnerPart'
    BY <1>1 DEF vars, LoopInv, FlightPart, OwnerPart, JobOf, Pending, Queued, Underway
  <2>4. InsidePart' /\ CoroutinePart'
    BY <1>1, SMTT(20) DEF vars, LoopInv, InsidePart, CoroutinePart, JobOf, Pending, Queued, Underway
  <2> QED
    BY <2>1, <2>2, <2>3, <2>4 DEF LoopInv
<1>2. ASSUME NEW t \in Tasks, PushNewTask(t) \/ Deadline(t)
      PROVE  LoopInv'
  BY <1>2, PushNewTaskStep, DeadlineStep
<1>3. ASSUME NEW o \in Owners, OwnerStep(o)
      PROVE  LoopInv'
  BY <1>3, BlockStep, PopStep, SubmitIoStep, RefuseIoStep, FinishStep, BackStep, EraseStep
     DEF OwnerStep
<1>4. ASSUME NEW w \in IoThreads, IoStep(w)
      PROVE  LoopInv'
  BY <1>4, TakeIoStep, CompleteIoStep DEF IoStep
<1>5. CASE StopBegin \/ StopStep
  BY <1>5, StopBeginStep, StopIoStep, StopCancelStep DEF StopStep
<1> QED
  BY <1>1, <1>2, <1>3, <1>4, <1>5 DEF Next

\* Initially nothing is pending.
LEMMA LoopStart ==
  ASSUME Init
  PROVE  LoopInv
<1> DEFINE none == Entry("none", 0, FALSE, FALSE, FALSE)
<1> DEFINE top == At("top", NoTask, FALSE)
<1>1. none \in EntryType /\ none.state = "none" /\ none.gen = 0 /\ ~none.inFlight
  BY LoopConstants DEF Entry, EntryType, States
<1>2. top \in OwnerType /\ top.pc = "top"
  BY DEF At, OwnerType, OwnerPCs
<1>3. IoIdle \in IoType /\ IoIdle.pc = "idle"
  BY LoopConstants DEF IoIdle, IoType
<1>4. /\ entry = [t \in Tasks |-> none] /\ owner = [o \in Owners |-> top]
      /\ io = [w \in IoThreads |-> IoIdle] /\ ioQueue = <<>> /\ ready = <<>>
      /\ hasCb = [t \in Tasks |-> FALSE] /\ called = [t \in Tasks |-> 0]
      /\ co \in [Tasks -> [left : 0 .. Calls, done : {FALSE}]]
      /\ stop = "no" /\ stopOwners = FALSE
  BY Zenon DEF Init
<1> HIDE DEF none, top
<1>5. \A t \in Tasks : co[t] \in CoType /\ ~co[t].done /\ co[t].left \in 0 .. Calls
  BY <1>4, Zenon DEF CoType
<1>6. co \in [Tasks -> CoType]
  <2>1. co = [t \in Tasks |-> co[t]]
    BY <1>4
  <2> QED
    BY <2>1, <1>5
<1>7. <<>> \in Seq(Tasks) /\ <<>> \in Seq(JobType)
  OBVIOUS
<1>8. /\ entry \in [Tasks -> EntryType] /\ owner \in [Owners -> OwnerType]
      /\ io \in [IoThreads -> IoType]
  BY <1>1, <1>2, <1>3, <1>4
<1>9. /\ hasCb \in [Tasks -> BOOLEAN] /\ called \in [Tasks -> Nat]
      /\ stop \in {"no", "refusing", "joining", "cancelled", "done"} /\ stopOwners \in BOOLEAN
  BY <1>4, Zenon
<1>10. LoopTypes
  BY <1>4, <1>6, <1>7, <1>8, <1>9 DEF LoopTypes
<1>11. CallbackPart /\ FlightPart
  BY <1>1, <1>4 DEF CallbackPart, FlightPart
<1>12. \A t : ~Queued(t) /\ ~Underway(t)
  BY <1>3, <1>4 DEF Queued, Underway
<1>13. JobPart /\ OneJobPart
  BY <1>3, <1>4, <1>12 DEF JobPart, OneJobPart
<1>14. OwnerPart /\ InsidePart
  BY <1>2, <1>4 DEF OwnerPart, InsidePart
<1>15. CoroutinePart
  BY <1>1, <1>4, <1>5, LoopConstants DEF CoroutinePart
<1>16. StopPart
  BY <1>4 DEF StopPart
<1> QED
  BY <1>10, <1>11, <1>13, <1>14, <1>15, <1>16 DEF LoopInv

\* The inductive invariant of the event loop: every Docker call belongs to the
\* current generation of a pending entry, a task has one call at a time, and an
\* owner inside a coroutine is alone there and its task has no call.
THEOREM LoopInvariant == Spec => []LoopInv
<1>1. Init => LoopInv
  BY LoopStart
<1>2. LoopInv /\ [Next]_vars => LoopInv'
  BY LoopStep
<1> QED
  BY <1>1, <1>2, PTL DEF Spec

\* Type correctness of the event loop.
THEOREM LoopTypesHold == Spec => []TypeOK
<1>1. LoopInv => TypeOK
  BY DEF LoopInv, LoopTypes, TypeOK, EntryType, States, CoType, JobType, OwnerType, OwnerPCs,
     IoType
<1> QED
  BY <1>1, LoopInvariant, PTL

\* The completion callback of a task runs at most once, for any number of
\* tasks and threads.
THEOREM LoopCallbackAtMostOnce == Spec => []CallbackAtMostOnce
<1>1. LoopInv => CallbackAtMostOnce
  BY DEF LoopInv, CallbackPart, CallbackAtMostOnce
<1> QED
  BY <1>1, LoopInvariant, PTL

\* A coroutine is resumed only when the Docker call it awaits has completed.
THEOREM LoopNoResumeDuringIo == Spec => []NoResumeDuringIo
<1>1. LoopInv => NoResumeDuringIo
  BY DEF LoopInv, JobPart, InsidePart, Underway, NoResumeDuringIo
<1> QED
  BY <1>1, LoopInvariant, PTL

\* A coroutine is not destroyed while its Docker call runs.
THEOREM LoopNoDestroyDuringIo == Spec => []NoDestroyDuringIo
<1>1. LoopInv => NoDestroyDuringIo
  BY DEF LoopInv, JobPart, JobOf, NoDestroyDuringIo
<1> QED
  BY <1>1, LoopInvariant, PTL

-----------------------------------------------------------------------------
\* One owner thread: Run(1), and Run of anything below.

\* An owner inside a coroutine stays with a pending entry when the step leaves
\* that owner alone and erases no entry.
LEMMA InsideStays ==
  ASSUME NoDestroyWhileRunning, NEW o \in Owners, owner'[o] = owner[o],
         owner'[o].pc = "inside",
         \A t \in Pending : entry'[t].state \notin {"none", "gone"}
  PROVE  owner'[o].task \in Pending'
<1>1. owner[o].task \in Pending
  BY DEF NoDestroyWhileRunning
<1>2. owner[o].task \in Tasks
  BY <1>1 DEF Pending
<1> QED
  BY <1>1, <1>2 DEF Pending

\* The pop of the only owner: it enters a coroutine whose entry it marks running.
LEMMA InsideAfterPop ==
  ASSUME LoopInv, NEW o \in Owners, Pop(o), owner'[o].pc = "inside"
  PROVE  owner'[o].task \in Pending'
<1>1. LoopTypes
  BY DEF LoopInv
<1>2. owner[o].pc = "top" /\ owner[o].pc # "inside"
  BY DEF Pop
<1>3. SweptReady # <<>>
  <2>1. SUFFICES ASSUME SweptReady = <<>> PROVE FALSE
    OBVIOUS
  <2> DEFINE pc == IF stopOwners THEN "exit" ELSE "top"
  <2>2. owner' = [owner EXCEPT ![o].pc = pc]
    BY <2>1 DEF Pop
  <2>3. pc \in OwnerPCs /\ pc # "inside"
    BY DEF OwnerPCs
  <2> HIDE DEF pc
  <2> QED
    BY <1>1, <2>2, <2>3, OwnerMoves, Zenon
<1> DEFINE t == Head(SweptReady)
           e == SweptEntry[t]
<1>4. t \in Tasks /\ SweptEntry \in [Tasks -> EntryType]
  BY <1>3, Sweep
<1>5. e.state = "Ready"
  BY <1>2, <1>3 DEF Pop
<1>6. /\ entry' = [SweptEntry EXCEPT ![t].state = "Running"]
      /\ owner' = [owner EXCEPT ![o] =
           At(IF Stopping(e) THEN "back" ELSE "inside", t, Stopping(e))]
  BY <1>3, <1>5 DEF Pop
<1> HIDE DEF t, e
<1>7. entry'[t].state = "Running"
  BY <1>4, <1>6 DEF EntryType
<1>8. owner'[o].task = t
  BY <1>1, <1>6 DEF At, LoopTypes
<1> QED
  BY <1>4, <1>7, <1>8 DEF Pending

\* No step but an owner's erases an entry, and no step but a pop lets an owner
\* into a coroutine.
LEMMA InsideStep ==
  ASSUME \A o, p \in Owners : o = p, LoopInv, NoDestroyWhileRunning, [Next]_vars
  PROVE  NoDestroyWhileRunning'
<1> SUFFICES ASSUME NEW o \in Owners, owner'[o].pc = "inside"
             PROVE  owner'[o].task \in Pending'
  BY DEF NoDestroyWhileRunning
<1>1. LoopTypes
  BY DEF LoopInv
<1>2. /\ entry \in [Tasks -> EntryType] /\ owner \in [Owners -> OwnerType]
      /\ \A t \in Pending : t \in Tasks /\ entry[t].state \notin {"none", "gone"}
  BY <1>1 DEF LoopTypes, Pending
<1>3. CASE UNCHANGED <<entry, owner>>
  BY <1>2, <1>3, InsideStays
<1>4. ASSUME NEW t \in Tasks, PushNewTask(t) PROVE owner'[o].task \in Pending'
  <2>1. owner'[o] = owner[o]
    BY <1>1, <1>4, Woken DEF PushNewTask
  <2>2. \A u \in Pending : entry'[u].state \notin {"none", "gone"}
    BY <1>2, <1>4 DEF PushNewTask, EntryType
  <2> QED
    BY <2>1, <2>2, InsideStays
<1>5. ASSUME NEW t \in Tasks, Deadline(t) PROVE owner'[o].task \in Pending'
  <2>1. owner'[o] = owner[o]
    BY <1>5 DEF Deadline
  <2>2. \A u \in Pending : entry'[u].state \notin {"none", "gone"}
    BY <1>2, <1>5 DEF Deadline, EntryType
  <2> QED
    BY <2>1, <2>2, InsideStays
<1>6. ASSUME Block(o) \/ Sleep(o) \/ SubmitIo(o) \/ Finish(o) PROVE FALSE
  <2>1. PICK pc \in {"blocking", "asleep", "back"} : owner' = [owner EXCEPT ![o].pc = pc]
    BY <1>6, Zenon DEF Block, Sleep, SubmitIo, Finish
  <2>2. pc \in OwnerPCs
    BY <2>1 DEF OwnerPCs
  <2> QED
    BY <1>1, <2>1, <2>2, OwnerMoves, Zenon
<1>7. ASSUME RefuseIo(o) PROVE owner'[o].task \in Pending'
  <2>1. owner'[o] = owner[o] /\ owner[o].pc = "inside"
    BY <1>7 DEF RefuseIo
  <2>2. owner[o].task \in Tasks
    BY <2>1, InsideTask
  <2>3. \A u \in Pending : entry'[u].state \notin {"none", "gone"}
    BY <1>2, <1>7, <2>2 DEF RefuseIo, EntryType
  <2> QED
    BY <2>1, <2>3, InsideStays
<1>8. ASSUME Back(o) \/ Erase(o) PROVE FALSE
  <2>1. CASE owner' = [owner EXCEPT ![o] = At("top", NoTask, FALSE)]
    BY <1>2, <2>1 DEF At
  <2>2. CASE \E pc \in {"cancelled", "finished"} : owner' = [owner EXCEPT ![o].pc = pc]
    <3>1. PICK pc \in {"cancelled", "finished"} : owner' = [owner EXCEPT ![o].pc = pc]
      BY <2>2, ZenonT(30)
    <3>2. pc \in OwnerPCs
      BY <3>1 DEF OwnerPCs
    <3> QED
      BY <1>1, <3>1, <3>2, OwnerMoves, Zenon
  <2> QED
    BY <1>8, <2>1, <2>2, Zenon DEF Back, Erase
<1>9. ASSUME NEW w \in IoThreads, CompleteIo(w) PROVE owner'[o].task \in Pending'
  <2> DEFINE u == io[w].task
             e == entry[u]
             cancel == e.cancel \/ ~Running
             wakes == ~cancel \/ e.state # "Running"
             new == Entry(IF wakes THEN "Ready" ELSE e.state, e.gen, e.late, FALSE, cancel)
  <2>1. CASE u \notin Pending \/ e.gen # io[w].gen
    BY <1>3, <1>9, <2>1, ZenonT(30) DEF CompleteIo
  <2>2. CASE ~(u \notin Pending \/ e.gen # io[w].gen)
    <3>1. u \in Pending /\ entry' = [entry EXCEPT ![u] = new]
      BY <1>9, <2>2, Zenon DEF CompleteIo
    <3>2. owner' \in Notified(owner) \/ owner' = owner
      BY <1>9, <2>2, Zenon DEF CompleteIo
    <3>3. owner'[o] = owner[o]
      BY <1>1, <3>2, Woken
    <3>4. new.state \notin {"none", "gone"}
      BY <1>2, <3>1 DEF Entry
    <3> HIDE DEF new
    <3>5. \A t \in Pending : entry'[t].state \notin {"none", "gone"}
      BY <1>2, <3>1, <3>4
    <3> QED
      BY <3>3, <3>5, InsideStays
  <2> QED
    BY <2>1, <2>2
<1>10. ASSUME StopCancel PROVE owner'[o].task \in Pending'
  <2>1. owner'[o] = owner[o]
    BY <1>10 DEF StopCancel
  <2>2. \A t \in Pending : entry'[t].state \notin {"none", "gone"}
    BY <1>2, <1>10 DEF StopCancel, Entry
  <2> QED
    BY <2>1, <2>2, InsideStays
<1>11. ASSUME StopOwnersNow PROVE owner'[o].task \in Pending'
  <2>1. owner'[o] = owner[o] /\ entry' = entry
    BY <1>11 DEF StopOwnersNow, At
  <2> QED
    BY <1>2, <2>1, InsideStays
<1>12. ASSUME NEW p \in Owners, OwnerStep(p) PROVE owner'[o].task \in Pending'
  <2>1. p = o
    OBVIOUS
  <2> QED
    BY <1>6, <1>7, <1>8, <1>12, <2>1, InsideAfterPop DEF OwnerStep
<1>13. ASSUME NEW w \in IoThreads, IoStep(w) PROVE owner'[o].task \in Pending'
  BY <1>3, <1>9, <1>13 DEF IoStep, TakeIo
<1>14. ASSUME StopBegin \/ StopStep PROVE owner'[o].task \in Pending'
  BY <1>3, <1>10, <1>11, <1>14, ZenonT(30) DEF StopBegin, StopStep, StopIo, StopJoined
<1>15. CASE UNCHANGED vars
  BY <1>3, <1>15 DEF vars
<1> QED
  BY <1>4, <1>5, <1>12, <1>13, <1>14, <1>15 DEF Next

\* With one owner thread no coroutine is destroyed while it runs: whatever
\* deadlines, completions and Stop do, the comment in event_loop.hpp that the
\* owner is the only destroyer is then true.  A second owner is what it takes
\* to refute it.
THEOREM LoopAloneNeverDestroysRunning ==
  ASSUME \A o, p \in Owners : o = p
  PROVE  Spec => []NoDestroyWhileRunning
<1>1. Init => NoDestroyWhileRunning
  BY DEF Init, NoDestroyWhileRunning, At
<1>2. LoopInv /\ NoDestroyWhileRunning /\ [Next]_vars => NoDestroyWhileRunning'
  BY InsideStep
<1> QED
  BY <1>1, <1>2, LoopInvariant, PTL DEF Spec
=============================================================================
