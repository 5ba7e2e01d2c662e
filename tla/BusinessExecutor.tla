-------------------------- MODULE BusinessExecutor --------------------------
(***************************************************************************)
(* The bounded thread pool of the business services                        *)
(* (business_executor.cpp) and the RPC requests AsyncDispatch              *)
(* (async_dispatch.hpp) hands to it.  Every section under mutex_ is one    *)
(* action.  lifecycle_mutex_ lets one Start or Stop run at a time, to its  *)
(* end.                                                                    *)
(*                                                                         *)
(* The DispatchCompletion of a request is a shared object: AsyncDispatch   *)
(* holds it until it returns and the queued task holds it until it is      *)
(* destroyed; whoever lets go last runs its destructor.                    *)
(***************************************************************************)
EXTENDS Naturals, Sequences, FiniteSets

CONSTANTS
  Requests,
  Workers,         \* workers_, worker_count of them
  QueueCapacity,   \* queue_capacity
  None

Answers == {"OK", "INTERNAL_ERROR", "REFUSED", "QUEUE_FULL", "STOPPED"}

\* The constructor throws without workers or without a queue.
ASSUME ExecutorConfig ==
  /\ Workers # {} /\ IsFiniteSet(Workers) /\ QueueCapacity \in Nat \ {0}
  /\ None \notin Requests \cup Answers

VARIABLES
  phase,       \* started_, stopping_ and stopped_
  policy,      \* active_stop_policy_
  tasks,       \* tasks_
  cancelled,   \* the tasks Stop has swapped out and not yet destroyed
  worker,      \* worker[w]: where WorkerLoop is
  req,         \* req[r]: what became of the task of r
  comp,        \* comp[r]: the DispatchCompletion of r
  invoked,     \* requests whose business code was called
  accepted, completed, cancelledPending   \* the counters

vars == <<phase, policy, tasks, cancelled, worker, req, comp, invoked,
          accepted, completed, cancelledPending>>

\* answer is None until completed_ is set; done counts the runs of done_.
Completion(holders, answer, done) ==
  [holders |-> holders, answer |-> answer, done |-> done]

At(pc, r) == [pc |-> pc, task |-> r]

TypeOK ==
  /\ phase \in {"fresh", "starting", "running", "stopping", "stopped", "destroyed"}
  /\ policy \in {"Drain", "CancelPending"}
  /\ tasks \in Seq(Requests) /\ Len(tasks) <= QueueCapacity
  /\ cancelled \in Seq(Requests)
  /\ worker \in [Workers -> [pc : {"wait", "run", "release", "exit"},
                             task : Requests \cup {None}]]
  /\ req \in [Requests -> {"new", "submit", "queued", "taken", "ran", "full", "stopped", "dropped"}]
  /\ comp \in [Requests -> [holders : SUBSET {"dispatch", "task"},
                            answer : Answers \cup {None}, done : Nat]]
  /\ invoked \in SUBSET Requests
  /\ accepted \in Nat /\ completed \in Nat /\ cancelledPending \in Nat

Init ==
  /\ phase = "fresh" /\ policy = "Drain"
  /\ tasks = <<>> /\ cancelled = <<>>
  /\ worker = [w \in Workers |-> At("wait", None)]
  /\ req = [r \in Requests |-> "new"]
  /\ comp = [r \in Requests |-> Completion({}, None, 0)]
  /\ invoked = {}
  /\ accepted = 0 /\ completed = 0 /\ cancelledPending = 0

-----------------------------------------------------------------------------
\* Finish and Fail: the first caller sets completed_ and runs done_.
Answered(c, answer) ==
  IF c.answer # None THEN c ELSE Completion(c.holders, answer, c.done + 1)

\* A completion whose destructor does nothing.
BugReleased(c, h) == Completion(c.holders \ {h}, c.answer, c.done)

\* One holder lets go; the last one runs the destructor.
Released(c, h) ==
  LET rest == Completion(c.holders \ {h}, c.answer, c.done)
  IN  IF rest.holders = {} THEN Answered(rest, "STOPPED") ELSE rest

-----------------------------------------------------------------------------
\* Start creates the threads; a Submit can come before it returns ...
Start ==
  /\ phase = "fresh"
  /\ phase' = "starting"
  /\ UNCHANGED <<policy, tasks, cancelled, worker, req, comp, invoked, accepted, completed, cancelledPending>>

Started ==
  /\ phase = "starting"
  /\ phase' = "running"
  /\ UNCHANGED <<policy, tasks, cancelled, worker, req, comp, invoked, accepted, completed, cancelledPending>>

\* ... and a thread may fail to start: the others are joined, and what has been
\* submitted stays in tasks_.
StartFails ==
  /\ phase = "starting"
  /\ phase' = "stopping" /\ policy' = "CancelPending"
  /\ UNCHANGED <<tasks, cancelled, worker, req, comp, invoked, accepted, completed, cancelledPending>>

\* AsyncDispatch makes the completion and the task.
Dispatch(r) ==
  /\ req[r] = "new" /\ phase # "destroyed"
  /\ req' = [req EXCEPT ![r] = "submit"]
  /\ comp' = [comp EXCEPT ![r] = Completion({"dispatch", "task"}, None, 0)]
  /\ UNCHANGED <<phase, policy, tasks, cancelled, worker, invoked, accepted, completed, cancelledPending>>

Accepting == phase \in {"starting", "running"}

Full == Len(tasks) >= QueueCapacity

\* Submit.  A rejected task is destroyed on return; AsyncDispatch still holds
\* the completion.
Submit(r) ==
  /\ req[r] = "submit"
  /\ IF Accepting /\ ~Full
     THEN /\ tasks' = Append(tasks, r)
          /\ accepted' = accepted + 1
          /\ req' = [req EXCEPT ![r] = "queued"]
          /\ UNCHANGED comp
     ELSE /\ req' = [req EXCEPT ![r] = IF Accepting THEN "full" ELSE "stopped"]
          /\ comp' = [comp EXCEPT ![r] = Released(@, "task")]
          /\ UNCHANGED <<tasks, accepted>>
  /\ UNCHANGED <<phase, policy, cancelled, worker, invoked, completed, cancelledPending>>

\* AsyncDispatch answers a rejected request, and returns.
Return(r) ==
  LET c == comp[r]
  IN  /\ req[r] # "submit" /\ "dispatch" \in c.holders
      /\ comp' = [comp EXCEPT ![r] = Released(
           IF req[r] = "full" THEN Answered(c, "QUEUE_FULL")
           ELSE IF req[r] = "stopped" THEN Answered(c, "STOPPED") ELSE c, "dispatch")]
      /\ UNCHANGED <<phase, policy, tasks, cancelled, worker, req, invoked, accepted, completed, cancelledPending>>

\* A worker that leaves whatever the policy says.
BugMayExit == phase = "stopping"

\* WorkerLoop returns: at once when cancelling, after the last task when draining.
MayExit == phase = "stopping" /\ (policy = "CancelPending" \/ tasks = <<>>)

Exit(w) ==
  /\ worker[w].pc = "wait" /\ MayExit
  /\ worker' = [worker EXCEPT ![w] = At("exit", None)]
  /\ UNCHANGED <<phase, policy, tasks, cancelled, req, comp, invoked, accepted, completed, cancelledPending>>

Take(w) ==
  /\ worker[w].pc = "wait"
  /\ phase \in {"starting", "running", "stopping"} /\ ~MayExit /\ tasks # <<>>
  /\ worker' = [worker EXCEPT ![w] = At("run", Head(tasks))]
  /\ req' = [req EXCEPT ![Head(tasks)] = "taken"]
  /\ tasks' = Tail(tasks)
  /\ UNCHANGED <<phase, policy, cancelled, comp, invoked, accepted, completed, cancelledPending>>

\* A task that leaves an exception of the business code to the worker.
BugRun(w) ==
  LET r == worker[w].task
  IN  /\ worker[w].pc = "run"
      /\ invoked' = invoked \cup {r}
      /\ comp' \in {comp, [comp EXCEPT ![r] = Answered(@, "OK")]}
      /\ req' = [req EXCEPT ![r] = "ran"]
      /\ worker' = [worker EXCEPT ![w].pc = "release"]
      /\ UNCHANGED <<phase, policy, tasks, cancelled, accepted, completed, cancelledPending>>

\* The task: a bad or cancelled request is refused before the business code is
\* called; otherwise the code returns or throws.
Run(w) ==
  LET r == worker[w].task
  IN  /\ worker[w].pc = "run"
      /\ \/ /\ comp' = [comp EXCEPT ![r] = Answered(@, "REFUSED")]
            /\ UNCHANGED invoked
         \/ /\ \E answer \in {"OK", "INTERNAL_ERROR"} :
                 comp' = [comp EXCEPT ![r] = Answered(@, answer)]
            /\ invoked' = invoked \cup {r}
      /\ req' = [req EXCEPT ![r] = "ran"]
      /\ worker' = [worker EXCEPT ![w] = At("release", r)]
      /\ UNCHANGED <<phase, policy, tasks, cancelled, accepted, completed, cancelledPending>>

\* The counters of WorkerLoop, and the end of the task object.
Release(w) ==
  LET r == worker[w].task
  IN  /\ worker[w].pc = "release"
      /\ completed' = completed + 1
      /\ comp' = [comp EXCEPT ![r] = Released(@, "task")]
      /\ worker' = [worker EXCEPT ![w] = At("wait", None)]
      /\ UNCHANGED <<phase, policy, tasks, cancelled, req, invoked, accepted, cancelledPending>>

\* What Stop adds to cancelled_pending_count_.
CancelledCount == Len(tasks)

\* Stop, on an executor that was started or not ...
Stop(p) ==
  \/ /\ phase = "fresh"
     /\ phase' = "stopped"
     /\ UNCHANGED <<policy, tasks, cancelled, worker, req, comp, invoked, accepted, completed, cancelledPending>>
  \/ /\ phase = "running"
     /\ phase' = "stopping" /\ policy' = p
     /\ IF p = "CancelPending"
        THEN /\ cancelled' = tasks /\ tasks' = <<>>
             /\ cancelledPending' = cancelledPending + CancelledCount
        ELSE UNCHANGED <<cancelled, tasks, cancelledPending>>
     /\ UNCHANGED <<worker, req, comp, invoked, accepted, completed>>

\* ... destroys the tasks it took, outside mutex_ ...
Drop ==
  LET r == Head(cancelled)
  IN  /\ cancelled # <<>>
      /\ cancelled' = Tail(cancelled)
      /\ req' = [req EXCEPT ![r] = "dropped"]
      /\ comp' = [comp EXCEPT ![r] = Released(@, "task")]
      /\ UNCHANGED <<phase, policy, tasks, worker, invoked, accepted, completed, cancelledPending>>

\* ... and joins the workers.
Stopped ==
  /\ phase = "stopping" /\ cancelled = <<>>
  /\ \A w \in Workers : worker[w].pc = "exit"
  /\ phase' = "stopped"
  /\ UNCHANGED <<policy, tasks, cancelled, worker, req, comp, invoked, accepted, completed, cancelledPending>>

\* The executor is destroyed once no RPC uses it, and tasks_ with it.
Destroy ==
  /\ phase = "stopped"
  /\ \A r \in Requests : req[r] # "submit"
  /\ phase' = "destroyed"
  /\ cancelled' = tasks /\ tasks' = <<>>
  /\ UNCHANGED <<policy, worker, req, comp, invoked, accepted, completed, cancelledPending>>

WorkerStep(w) == Exit(w) \/ Take(w) \/ Run(w) \/ Release(w)

RequestStep(r) == Submit(r) \/ Return(r)

LifecycleStep == Started \/ StartFails \/ Drop \/ Stopped \/ Destroy

Next ==
  \/ Start \/ LifecycleStep
  \/ \E p \in {"Drain", "CancelPending"} : Stop(p)
  \/ \E r \in Requests : Dispatch(r) \/ RequestStep(r)
  \/ \E w \in Workers : WorkerStep(w)

Spec == Init /\ [][Next]_vars

-----------------------------------------------------------------------------
\* done_ runs at most once, although the worker, AsyncDispatch and Stop can each
\* complete a request (README: the completion object runs `done` only once).
DoneOnce == \A r \in Requests : comp[r].done <= 1

\* A request that is told to retry (QUEUE_FULL and STOPPED are answered with
\* retryable = true) has not been executed, so a retry does not execute it
\* twice.
RetryableNotRun ==
  \A r \in Requests : comp[r].answer \in {"QUEUE_FULL", "STOPPED"} => r \notin invoked

\* A Stop that drains runs every task Submit has accepted, also those accepted
\* while it was called.
DrainRunsAll ==
  phase \in {"stopped", "destroyed"} /\ policy = "Drain" =>
    \A r \in Requests : req[r] \notin {"queued", "taken", "dropped"}

\* Every accepted task is counted exactly once as queued, running, completed or
\* cancelled.
CountersBalance ==
  phase # "destroyed" =>
    accepted = Len(tasks) + completed + cancelledPending
               + Cardinality({w \in Workers : worker[w].pc \in {"run", "release"}})

\* Every request is answered: done_ runs whether the request is executed,
\* rejected, cancelled by Stop or left behind by a failed Start.  (A request is
\* dispatched once, so none waits for ever exactly if time and again none waits.)
EveryRequestAnswered ==
  []<>(\A r \in Requests : req[r] # "new" => comp[r].done = 1)
=============================================================================
