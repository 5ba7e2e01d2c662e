------------------------------- MODULE Judger -------------------------------
(***************************************************************************)
(* The judging of one submission: the coroutine Judger::Run, the two       *)
(* containers it makes through DockerSandbox and SandboxPool, and what the *)
(* event loop does to it from outside.                                     *)
(*                                                                         *)
(* Between two steps the coroutine runs on an owner thread and is about to *)
(* co_await its next Docker call.  A step is that co_await: SubmitIo, the  *)
(* work on an I/O thread, CompleteIo and the code up to the next co_await. *)
(* Nobody else touches the coroutine meanwhile, but it may never be        *)
(* resumed.  What the submitted program does is chosen when it runs.       *)
(***************************************************************************)
EXTENDS Naturals, Sequences

CONSTANTS
  MaxTests,         \* bound: test cases of a task
  MaxDockerFaults   \* bound: Docker calls that fail or are late

ASSUME JudgerBounds == MaxTests \in Nat /\ MaxDockerFaults \in Nat

VARIABLES
  \* the task: its number of tests and whether outputs are compared
  task,
  \* the next co_await, or where the coroutine ended
  at,
  \* the test case the loop is at
  test,
  \* resp->status
  verdict,
  \* what the submitted program has shown of itself
  program,
  \* the tests whose output was not read in full
  unread,
  \* history: a co_await of the coroutine was refused
  turnedAway,
  \* box[b].there: Docker's container; box[b].known: _container_id is set
  box,
  \* the containers of which a create or delete call failed
  orphans,
  \* the event loop: "open", "stopping" (takes no I/O), "cancelled" (this task)
  loop,
  \* the status handed to the completion callback
  told,
  \* Docker calls that failed or were late
  dockerFaults

judgerVars == <<task, at, test, verdict, program, unread, turnedAway, box,
                orphans, loop, told, dockerFaults>>

Boxes == {"compile", "runner"}

\* How a run of the program can end: by itself, over the CPU limit (SIGXCPU),
\* over the memory limit, or still running when the wall clock is over.
Does == {"right", "wrong", "crash", "cpu", "oom", "wall"}

Box(there, known) == [there |-> there, known |-> known]

\* What is known of the program: that it compiled, that the executable was cut
\* short, and what it did on each test it was run on.
Program(compiles, broken, did) == [compiles |-> compiles, broken |-> broken, did |-> did]

JudgerInit ==
  /\ task \in [tests : 1 .. MaxTests, compares : BOOLEAN]
  /\ at = "create" /\ test = 1 /\ verdict = "ACCEPTED"
  /\ program = Program(TRUE, FALSE, <<>>)
  /\ unread = {} /\ box = [b \in Boxes |-> Box("none", FALSE)] /\ orphans = {}
  /\ loop = "open" /\ told = "none" /\ dockerFaults = 0 /\ turnedAway = FALSE

-----------------------------------------------------------------------------
(***************************************************************************)
(* A Docker call.                                                          *)
(***************************************************************************)

\* How a co_await can go.  An open loop takes the work: it is done in time, is
\* done but late ("late"), is not started before its deadline ("unrun"), fails
\* ("failed"), or the task is cancelled meanwhile and never resumed, with the
\* work done ("dropped") or not ("abandoned").  Any other loop refuses it, and
\* the coroutine goes on at once with the result CANCELLED.
Outcomes == IF loop = "open"
            THEN {"ok", "late", "unrun", "failed", "dropped", "abandoned"}
            ELSE {"refused"}

Faulty(o) == o \in {"late", "unrun", "failed"}

\* The work reached Docker and Docker did it.
Done(o) == o \in {"ok", "late", "dropped"}

\* The coroutine goes on at step next, or is never resumed.
GoOn(o, next) ==
  /\ Faulty(o) => dockerFaults < MaxDockerFaults
  /\ dockerFaults' = dockerFaults + (IF Faulty(o) THEN 1 ELSE 0)
  /\ turnedAway' = (turnedAway \/ o = "refused")
  /\ at' = IF o \in {"dropped", "abandoned"} THEN "dropped" ELSE next

\* co_return ErrorResult(SYSTEM_ERROR) unless the result is what the step needs.
Need(o, good, next) ==
  /\ GoOn(o, IF good THEN next ELSE "return")
  /\ verdict' = IF good THEN verdict ELSE "SYSTEM_ERROR"

\* DockerSandbox::Create.  A container whose id is not answered is Docker's only.
CreateBox(b, o) ==
  \/ /\ Done(o)
     /\ box' = [box EXCEPT ![b] = Box("up", TRUE)]
     /\ UNCHANGED orphans
  \/ /\ ~Done(o)
     /\ UNCHANGED <<box, orphans>>
  \/ /\ o = "failed"
     /\ box' = [box EXCEPT ![b] = Box("up", @.known)]
     /\ orphans' = orphans \cup {b}

\* The containers after deleting those of bs: Destroy clears the id whatever
\* Docker answers, and the containers of failed stay.
Deleted(bs, failed) ==
  [b \in Boxes |-> IF b \notin bs THEN box[b]
                   ELSE Box(IF b \in failed THEN box[b].there ELSE "none", FALSE)]

\* Not part of the code: the destructor of DockerSandbox does not delete.
BugOwned == {}

\* The containers ~DockerSandbox deletes when the coroutine's locals go.
Owned == {b \in Boxes : box[b].known}

\* Destroy as a step of its own.
DestroyBox(b, o) ==
  /\ box' = IF Done(o) \/ o = "failed"
            THEN Deleted({b} \cap Owned, IF Done(o) THEN {} ELSE {b}) ELSE box
  /\ orphans' = orphans \cup (IF o = "failed" /\ b \in Owned THEN {b} ELSE {})

\* DockerSandbox::Exec and what is built on it work in a container that is up.
\* A call that runs out of its own time kills the container.
Works(b, o) == Done(o) /\ box[b].there = "up"

ExecBox(b, o) ==
  /\ \/ UNCHANGED box
     \/ o = "failed" /\ box' = [box EXCEPT ![b] = Box("dead", @.known)]
  /\ UNCHANGED orphans

-----------------------------------------------------------------------------
(***************************************************************************)
(* The coroutine.                                                          *)
(***************************************************************************)

\* A late answer still carries the id, which is all that is looked at.
Create(o) ==
  /\ at = "create"
  /\ CreateBox("compile", o)
  /\ Need(o, box'["compile"].known, "start")
  /\ UNCHANGED <<task, test, program, unread, loop, told>>

StartAndWriteSource(o) ==
  /\ at \in {"start", "source"}
  /\ ExecBox("compile", o)
  /\ Need(o, o = "ok", IF at = "start" THEN "source" ELSE "compile")
  /\ UNCHANGED <<task, test, program, unread, loop, told>>

\* Whatever is not OK is a compile error, a call that failed included.
Compile(o) ==
  /\ at = "compile"
  /\ ExecBox("compile", o)
  /\ \E compiles \in IF o = "ok" THEN BOOLEAN ELSE {TRUE} :
       /\ program' = Program(compiles, FALSE, <<>>)
       /\ LET ok == o = "ok" /\ compiles
          IN  /\ GoOn(o, IF ok THEN "executable" ELSE "errors")
              /\ verdict' = IF ok THEN verdict ELSE "COMPILE_ERROR"
  /\ UNCHANGED <<task, test, unread, loop, told>>

\* The error text is read and the container deleted, whatever comes of it.
CompileError(o) ==
  /\ \/ at = "errors" /\ ExecBox("compile", o) /\ GoOn(o, "discard")
     \/ at = "discard" /\ DestroyBox("compile", o) /\ GoOn(o, "return")
  /\ UNCHANGED <<task, test, verdict, program, unread, loop, told>>

\* An empty executable is an error; one that was cut short is not noticed.
ReadExecutable(o) ==
  /\ at = "executable"
  /\ ExecBox("compile", o)
  /\ \E cut \in IF o = "failed" THEN BOOLEAN ELSE {FALSE} :
       /\ Need(o, o = "ok" \/ cut, "drop_compiler")
       /\ program' = Program(TRUE, cut, <<>>)
  /\ UNCHANGED <<task, test, unread, loop, told>>

DropCompiler(o) ==
  /\ at = "drop_compiler"
  /\ DestroyBox("compile", o)
  /\ GoOn(o, "acquire")
  /\ UNCHANGED <<task, test, verdict, program, unread, loop, told>>

\* SandboxPool::Acquire: Create, Start, and Destroy when Start fails.
Acquire(o) ==
  /\ at = "acquire"
  /\ CreateBox("runner", o)
  /\ Need(o, o = "ok", "install")
  /\ UNCHANGED <<task, test, program, unread, loop, told>>

InstallExecutable(o) ==
  /\ at \in {"install", "chmod"}
  /\ ExecBox("runner", o)
  /\ Need(o, o = "ok", IF at = "install" THEN "chmod" ELSE "input")
  /\ UNCHANGED <<task, test, program, unread, loop, told>>

\* A test whose input cannot be written ends the loop with SYSTEM_ERROR.
WriteInput(o) ==
  /\ at = "input"
  /\ ExecBox("runner", o)
  /\ LET good == o = "ok" /\ Works("runner", o)
     IN  /\ GoOn(o, IF good THEN "run" ELSE "drop_runner")
         /\ verdict' = IF good THEN verdict ELSE "SYSTEM_ERROR"
  /\ UNCHANGED <<task, test, program, unread, loop, told>>

\* Not part of the code: a later failure replaces an earlier one.
BugKeepFirst(status) == IF status = "ACCEPTED" THEN verdict ELSE status

\* Not part of the code: the last test decides.
BugLastDecides(status) == status

\* resp->status after a test with this status.
KeepFirst(status) == IF verdict = "ACCEPTED" THEN status ELSE verdict

AfterTest == IF test < task.tests THEN "input" ELSE "drop_runner"

\* The status of a run that does d and whose co_await went as o:
\* ToDockerTaskResult, WasOomKilled, the deadlines of the loop and
\* MapStatusToSubmissionStatus.  "OK" is a run whose output is still to be read.
RunStatus(d, o) ==
  CASE o \in {"late", "unrun"}             -> "TIME_LIMIT_EXCEEDED"
    [] o \in {"failed", "refused"}         -> "RUNTIME_ERROR"
    [] o = "ok" /\ d \in {"cpu", "wall"}   -> "TIME_LIMIT_EXCEEDED"
    [] o = "ok" /\ d = "oom"               -> "MEMORY_LIMIT_EXCEEDED"
    [] o = "ok" /\ d = "crash"             -> "RUNTIME_ERROR"
    [] OTHER                               -> "OK"

\* A program over the wall clock is killed with its container; the kill is a
\* call of its own that may fail, late.
RunTest(o) ==
  /\ at = "run"
  /\ \E d \in IF program.broken THEN {"crash"}
            ELSE IF o \in {"unrun", "refused", "abandoned"} THEN {"right"} ELSE Does :
       LET status == RunStatus(d, o)
       IN  /\ program' = Program(TRUE, program.broken, Append(program.did, d))
           /\ \/ /\ d = "wall" /\ Done(o)
                 /\ box' = [box EXCEPT !["runner"] = Box("dead", @.known)]
                 /\ UNCHANGED orphans
              \/ ~(d = "wall" /\ o \in {"ok", "dropped"}) /\ ExecBox("runner", o)
           /\ IF status = "OK"
              THEN GoOn(o, "output") /\ UNCHANGED <<verdict, test>>
              ELSE /\ GoOn(o, AfterTest)
                   /\ verdict' = KeepFirst(status)
                   /\ test' = test + 1
  /\ UNCHANGED <<task, unread, loop, told>>

\* NormalizeOutput on both sides.  An output that is empty or cut short matches
\* or not, whatever the program printed.
Matches(d, full) == IF full THEN {d = "right"} ELSE BOOLEAN

\* The status of the read is not looked at.
ReadOutput(o) ==
  /\ at = "output"
  /\ ExecBox("runner", o)
  /\ LET full == Works("runner", o)
     IN  /\ unread' = IF full THEN unread ELSE unread \cup {test}
         /\ \E matches \in Matches(program.did[test], full) :
              verdict' = KeepFirst(IF task.compares /\ ~matches
                                   THEN "WRONG_ANSWER" ELSE "ACCEPTED")
  /\ test' = test + 1
  /\ GoOn(o, AfterTest)
  /\ UNCHANGED <<task, program, loop, told>>

\* The memory peak is read by another exec, which kills the container when it
\* runs out of time.
MemoryPeakTimesOut ==
  /\ program.did # <<>> /\ at \in {"output", "input", "drop_runner"}
  /\ box["runner"].there = "up" /\ dockerFaults < MaxDockerFaults
  /\ box' = [box EXCEPT !["runner"] = Box("dead", @.known)]
  /\ dockerFaults' = dockerFaults + 1
  /\ UNCHANGED <<task, at, test, verdict, program, unread, turnedAway, orphans, loop,
                 told>>

DropRunner(o) ==
  /\ at = "drop_runner"
  /\ DestroyBox("runner", o)
  /\ GoOn(o, "return")
  /\ UNCHANGED <<task, test, verdict, program, unread, loop, told>>

\* The locals of the coroutine go, at its co_return or with its frame.
Unwind ==
  /\ at \in {"return", "dropped"}
  /\ \E failed \in SUBSET Owned :
       /\ LET fails(b) == IF b \in failed THEN 1 ELSE 0
          IN  dockerFaults' = dockerFaults + fails("compile") + fails("runner")
       /\ dockerFaults' <= MaxDockerFaults
       /\ box' = Deleted(Owned, failed)
       /\ orphans' = orphans \cup failed
  /\ at' = IF at = "return" THEN "done" ELSE "gone"
  /\ told' = IF at = "dropped" THEN "CANCELLED" ELSE told
  /\ UNCHANGED <<task, test, verdict, program, unread, turnedAway, loop>>

-----------------------------------------------------------------------------
(***************************************************************************)
(* The event loop.                                                         *)
(***************************************************************************)

\* The owner thread finds the coroutine done and runs the completion callback.
CallBack ==
  /\ at = "done"
  /\ told' = IF loop = "cancelled" THEN "CANCELLED" ELSE verdict
  /\ at' = "gone"
  /\ UNCHANGED <<task, test, verdict, program, unread, turnedAway, box,
                 orphans, loop, dockerFaults>>

\* Stop takes no more I/O before it cancels the tasks.
StopAccepting ==
  /\ loop = "open" /\ at # "gone"
  /\ loop' = "stopping"
  /\ UNCHANGED <<task, at, test, verdict, program, unread, turnedAway, box,
                 orphans, told, dockerFaults>>

\* The task's deadline, or the pass of Stop over the tasks.
CancelTask ==
  /\ loop # "cancelled" /\ at # "gone"
  /\ loop' = "cancelled"
  /\ UNCHANGED <<task, at, test, verdict, program, unread, turnedAway, box,
                 orphans, told, dockerFaults>>

JudgerStep(o) ==
  \/ Create(o) \/ StartAndWriteSource(o) \/ Compile(o) \/ CompileError(o)
  \/ ReadExecutable(o) \/ DropCompiler(o) \/ Acquire(o) \/ InstallExecutable(o)
  \/ WriteInput(o) \/ RunTest(o) \/ ReadOutput(o) \/ DropRunner(o)

JudgerNext ==
  \/ \E o \in Outcomes : JudgerStep(o)
  \/ MemoryPeakTimesOut
  \/ Unwind
  \/ CallBack
  \/ StopAccepting
  \/ CancelTask

JudgerSpec == JudgerInit /\ [][JudgerNext]_judgerVars

-----------------------------------------------------------------------------
(***************************************************************************)
(* Properties.                                                             *)
(***************************************************************************)

\* What a test of a program that does d is worth.
Worth(d) ==
  CASE d = "right" \/ (d = "wrong" /\ ~task.compares) -> "ACCEPTED"
    [] d = "wrong" /\ task.compares -> "WRONG_ANSWER"
    [] d = "crash"                   -> "RUNTIME_ERROR"
    [] d = "oom"                     -> "MEMORY_LIMIT_EXCEEDED"
    [] d \in {"cpu", "wall"}         -> "TIME_LIMIT_EXCEEDED"

\* What the submission deserves: its first test that is not accepted decides,
\* but a program that outlives the wall clock before the last test takes the
\* container, and with it the verdict, down with it.
Deserved ==
  LET did == program.did
      bad == {i \in DOMAIN did : Worth(did[i]) # "ACCEPTED"}
  IN  IF ~program.compiles THEN "COMPILE_ERROR"
      ELSE IF \E i \in DOMAIN did : did[i] = "wall" /\ i < task.tests
           THEN "SYSTEM_ERROR"
      ELSE IF bad = {} THEN "ACCEPTED"
      ELSE Worth(did[CHOOSE i \in bad : \A j \in bad : i <= j])

\* When no Docker call fails or is late and the loop stays open, the status the
\* callback of Judger::Run gets is the one the program deserves, or CANCELLED.
UndisturbedVerdict ==
  at = "gone" /\ dockerFaults = 0 /\ loop = "open"
    => told \in {Deserved, "CANCELLED"}

\* Whatever fails, is late, is refused or is cancelled, ACCEPTED is reported only
\* for a program that compiled and ended by itself on every test, and printed the
\* right output on each test whose output Judger::Run could read and compares.
AcceptedIsEarned ==
  told = "ACCEPTED" =>
    /\ program.compiles /\ ~program.broken
    /\ Len(program.did) = task.tests
    /\ \A i \in 1 .. task.tests :
         \/ program.did[i] = "right"
         \/ program.did[i] = "wrong" /\ (i \in unread \/ ~task.compares)

\* On every path out of Judger::Run, early returns and cancellation included, no
\* container is left, except one of which a create or a delete call failed.
NoContainerLeft ==
  at = "gone" => \A b \in Boxes : box[b].there # "none" => b \in orphans

\* README.md: when the service stops it takes no new I/O and cancels the pending
\* coroutines.  So a coroutine of Judger::Run whose I/O was refused is reported
\* as cancelled, never with a status made of the refusals.
StopCancels == turnedAway => told \in {"none", "CANCELLED"}
=============================================================================
