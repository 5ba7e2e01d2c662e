------------------------ MODULE ServerThreadsProofs -------------------------
(***************************************************************************)
(* What the server counts: requests, connections and cache lookups, each   *)
(* for any number of threads and any bounds.  A request is run at most once *)
(* and only while its queue is open, the connection pool keeps its limits  *)
(* over stops and restarts, and the cache metrics add up                   *)
(* (business_executor.cpp, async_dispatch.hpp, connection_pool.hpp,        *)
(* model_base.hpp).                                                        *)
(***************************************************************************)
EXTENDS BusinessExecutor, ConnectionPool, CacheMetrics, TLAPS, FiniteSetTheorems

\* A leaf that names no prover goes to SMT, to Zenon, and to SMT with more time.
USE SMTT(10), Zenon, SMTT(20)

\* The queue of business requests (BusinessExecutor).

Elems(s) == {s[i] : i \in 1 .. Len(s)}

Distinct(s) == \A i, j \in 1 .. Len(s) : s[i] = s[j] => i = j

CompType == [holders : SUBSET {"dispatch", "task"}, answer : Answers \cup {None}, done : Nat]

WorkerType == [pc : {"wait", "run", "release", "exit"}, task : Requests \cup {None}]

ReqStates == {"new", "submit", "queued", "taken", "ran", "full", "stopped", "dropped"}

\* completed_ and done_ agree.
CompOK(c) == c \in CompType /\ c.done <= 1 /\ (c.answer = None <=> c.done = 0)

\* A request whose task is alive is not answered, and one that ran is answered
\* by its task.
AnswerOK(state, c) ==
  /\ state \in {"submit", "queued", "taken"} => "task" \in c.holders /\ c.answer = None
  /\ state = "ran" => c.answer \in {"OK", "INTERNAL_ERROR", "REFUSED"}

CompPart ==
  /\ comp \in [Requests -> CompType]
  /\ req \in [Requests -> ReqStates]
  /\ \A r \in Requests : CompOK(comp[r]) /\ AnswerOK(req[r], comp[r])
  /\ \A r \in invoked : r \in Requests /\ req[r] = "ran"

\* A task is queued once, in tasks_ or among those Stop has taken out.
QueuePart ==
  /\ tasks \in Seq(Requests) /\ cancelled \in Seq(Requests)
  /\ Distinct(tasks) /\ Distinct(cancelled) /\ Elems(tasks) \cap Elems(cancelled) = {}
  /\ \A r \in Requests : req[r] = "queued" <=> r \in Elems(tasks) \cup Elems(cancelled)

\* A task is run by one worker.
WorkerPart ==
  /\ worker \in [Workers -> WorkerType]
  /\ \A w \in Workers : worker[w].pc = "run" =>
       worker[w].task \in Requests /\ req[worker[w].task] = "taken"
  /\ \A w \in Workers : worker[w].pc = "release" =>
       worker[w].task \in Requests /\ req[worker[w].task] = "ran"
  /\ \A v, w \in Workers : worker[v].pc = "run" /\ worker[w].pc = "run"
                           /\ worker[v].task = worker[w].task => v = w
  /\ \A r \in Requests : req[r] = "taken" =>
       \E w \in Workers : worker[w].pc = "run" /\ worker[w].task = r

\* What the phases of the executor guarantee.
PhasePart ==
  /\ phase \in {"fresh", "starting", "running", "stopping", "stopped", "destroyed"}
  /\ policy \in {"Drain", "CancelPending"}
  /\ phase \in {"fresh", "starting", "running"} => policy = "Drain"
  /\ phase = "stopped" \/ policy = "Drain" => cancelled = <<>>
  /\ phase = "fresh" => tasks = <<>> /\ \A w \in Workers : worker[w].pc = "wait"
  /\ policy = "Drain" => \A r \in Requests : req[r] # "dropped"
  /\ \A w \in Workers : worker[w].pc = "exit" =>
       phase \in {"stopping", "stopped", "destroyed"} /\ (policy = "Drain" => tasks = <<>>)
  /\ phase \in {"stopped", "destroyed"} /\ policy = "Drain" =>
       tasks = <<>> /\ \A w \in Workers : worker[w].pc # "run"

Running == {w \in Workers : worker[w].pc \in {"run", "release"}}

CountPart ==
  /\ accepted \in Nat /\ completed \in Nat /\ cancelledPending \in Nat
  /\ Len(tasks) <= QueueCapacity
  /\ CountersBalance

ExecutorInv == CompPart /\ QueuePart /\ WorkerPart /\ PhasePart /\ CountPart

-----------------------------------------------------------------------------
\* What Append adds to the elements of a queue.
LEMMA AppendElems ==
  ASSUME NEW S, NEW s \in Seq(S), NEW x \in S
  PROVE  /\ Append(s, x) \in Seq(S) /\ Len(Append(s, x)) = Len(s) + 1 /\ Len(s) \in Nat
         /\ Elems(Append(s, x)) = Elems(s) \cup {x}
         /\ Distinct(s) /\ x \notin Elems(s) => Distinct(Append(s, x))
<1> DEFINE t == Append(s, x)
<1>1. /\ t \in Seq(S) /\ Len(t) = Len(s) + 1 /\ Len(s) \in Nat
      /\ \A i \in 1 .. Len(s) : t[i] = s[i]
      /\ t[Len(s) + 1] = x
  OBVIOUS
<1> HIDE DEF t
<1>2. 1 .. Len(t) = 1 .. Len(s) \cup {Len(s) + 1}
  BY <1>1
<1>3. Elems(t) = Elems(s) \cup {x}
  BY <1>1, <1>2 DEF Elems
<1>4. Distinct(s) /\ x \notin Elems(s) => Distinct(t)
  BY <1>1, <1>2 DEF Elems, Distinct
<1> QED
  BY <1>1, <1>3, <1>4 DEF t

\* What taking the head leaves of them.
LEMMA TailElems ==
  ASSUME NEW S, NEW s \in Seq(S), s # <<>>
  PROVE  /\ Head(s) \in S /\ Tail(s) \in Seq(S) /\ Len(s) \in Nat /\ Len(Tail(s)) = Len(s) - 1
         /\ Elems(s) = Elems(Tail(s)) \cup {Head(s)}
         /\ Distinct(s) => Distinct(Tail(s)) /\ Head(s) \notin Elems(Tail(s))
<1> DEFINE t == Tail(s)
<1>1. /\ t \in Seq(S) /\ Len(s) \in Nat \ {0} /\ Len(t) = Len(s) - 1
      /\ Head(s) = s[1] /\ Head(s) \in S
      /\ \A i \in 1 .. Len(t) : t[i] = s[i + 1]
  OBVIOUS
<1> HIDE DEF t
<1>2. \A i \in 1 .. Len(t) : i + 1 \in 1 .. Len(s) /\ i + 1 # 1 /\ i \in Int
  BY <1>1
<1>3. \A i \in 1 .. Len(s) : i = 1 \/ (i - 1 \in 1 .. Len(t) /\ (i - 1) + 1 = i)
  BY <1>1
<1>4. ASSUME NEW x \in Elems(s) PROVE x \in Elems(t) \cup {Head(s)}
  <2>1. PICK i \in 1 .. Len(s) : x = s[i]
    BY DEF Elems
  <2>2. CASE i # 1
    <3>1. i - 1 \in 1 .. Len(t) /\ (i - 1) + 1 = i
      BY <1>3, <2>2
    <3>2. t[i - 1] = x
      BY <1>1, <2>1, <3>1
    <3> QED
      BY <3>1, <3>2 DEF Elems
  <2> QED
    BY <1>1, <2>1, <2>2
<1>5. ASSUME NEW x \in Elems(t) PROVE x \in Elems(s)
  <2>1. PICK i \in 1 .. Len(t) : x = t[i]
    BY DEF Elems
  <2> QED
    BY <1>1, <1>2, <2>1 DEF Elems
<1>6. Head(s) \in Elems(s) /\ 1 \in 1 .. Len(s)
  BY <1>1 DEF Elems
<1>7. ASSUME Distinct(s) PROVE Distinct(t)
  <2> SUFFICES ASSUME NEW i \in 1 .. Len(t), NEW j \in 1 .. Len(t), t[i] = t[j]
               PROVE  i = j
    BY DEF Distinct
  <2>1. i + 1 = j + 1
    BY <1>1, <1>2, <1>7 DEF Distinct
  <2> QED
    BY <1>2, <2>1
<1>8. ASSUME Distinct(s), Head(s) \in Elems(t) PROVE FALSE
  <2>1. PICK i \in 1 .. Len(t) : Head(s) = t[i]
    BY <1>8 DEF Elems
  <2>2. s[i + 1] = s[1]
    BY <1>1, <2>1
  <2> QED
    BY <1>2, <1>6, <1>8, <2>2 DEF Distinct
<1> QED
  BY <1>1, <1>4, <1>5, <1>6, <1>7, <1>8 DEF t

\* What Finish, Fail and the destructor make of a completion.
LEMMA AnsweredOK ==
  ASSUME NEW c, CompOK(c), NEW a \in Answers
  PROVE  /\ CompOK(Answered(c, a))
         /\ Answered(c, a).holders = c.holders
         /\ Answered(c, a).answer = IF c.answer = None THEN a ELSE c.answer
<1>1. None \notin Answers
  BY ExecutorConfig
<1>2. CASE c.answer # None
  BY <1>2 DEF Answered
<1>3. CASE c.answer = None
  <2>1. Answered(c, a) = [holders |-> c.holders, answer |-> a, done |-> c.done + 1]
    BY <1>3 DEF Answered, Completion
  <2>2. c.done = 0 /\ c.holders \in SUBSET {"dispatch", "task"}
    BY <1>3 DEF CompOK, CompType
  <2> QED
    BY <1>1, <1>3, <2>1, <2>2 DEF CompOK, CompType
<1> QED
  BY <1>2, <1>3

\* Releasing a completion answers a request at most once.
LEMMA ReleasedOK ==
  ASSUME NEW c, CompOK(c), NEW h \in {"dispatch", "task"}
  PROVE  /\ CompOK(Released(c, h))
         /\ Released(c, h).holders = c.holders \ {h}
         /\ Released(c, h).answer = IF c.answer = None /\ c.holders \ {h} = {}
                                    THEN "STOPPED" ELSE c.answer
<1> DEFINE rest == Completion(c.holders \ {h}, c.answer, c.done)
<1>1. CompOK(rest) /\ rest.holders = c.holders \ {h} /\ rest.answer = c.answer
  BY DEF Completion, CompOK, CompType
<1>2. "STOPPED" \in Answers
  BY DEF Answers
<1>3. Released(c, h) = IF rest.holders = {} THEN Answered(rest, "STOPPED") ELSE rest
  BY DEF Released
<1> HIDE DEF rest
<1> QED
  BY <1>1, <1>2, <1>3, AnsweredOK

-----------------------------------------------------------------------------
\* One request changes its state and its completion.
LEMMA OneRequest ==
  ASSUME CompPart, NEW r \in Requests, NEW state \in ReqStates, NEW c,
         CompOK(c), AnswerOK(state, c),
         req' = [req EXCEPT ![r] = state], comp' = [comp EXCEPT ![r] = c],
         invoked' = invoked \/ (invoked' = invoked \cup {r} /\ state = "ran"),
         r \in invoked => state = "ran"
  PROVE  CompPart'
<1>1. comp' \in [Requests -> CompType] /\ req' \in [Requests -> ReqStates]
  BY DEF CompPart, CompOK
<1>2. ASSUME NEW x \in Requests PROVE CompOK(comp'[x]) /\ AnswerOK(req'[x], comp'[x])
  BY DEF CompPart
<1>3. \A x \in invoked' : x \in Requests /\ req'[x] = "ran"
  BY DEF CompPart
<1> QED
  BY <1>1, <1>2, <1>3 DEF CompPart

\* A step that leaves the requests alone keeps what is known of them.
LEMMA SameRequests ==
  ASSUME CompPart, UNCHANGED <<req, comp, invoked>>
  PROVE  CompPart'
BY DEF CompPart

\* A request that is not queued, before and after, leaves the queues alone.
LEMMA SameQueues ==
  ASSUME QueuePart, NEW r \in Requests, NEW state \in ReqStates, req \in [Requests -> ReqStates],
         req[r] # "queued", state # "queued",
         req' = [req EXCEPT ![r] = state], UNCHANGED <<tasks, cancelled>>
  PROVE  QueuePart'
BY DEF QueuePart

\* One that is not taken leaves the workers alone.
LEMMA SameWorkers ==
  ASSUME WorkerPart, NEW r \in Requests, NEW state \in ReqStates, req \in [Requests -> ReqStates],
         req[r] \notin {"taken", "ran"}, state # "taken",
         req' = [req EXCEPT ![r] = state], UNCHANGED worker
  PROVE  WorkerPart'
BY DEF WorkerPart

\* Dispatch, Submit and Return.
LEMMA DispatchParts ==
  ASSUME CompPart, QueuePart, WorkerPart, NEW r \in Requests, Dispatch(r)
  PROVE  CompPart' /\ QueuePart' /\ WorkerPart'
<1> DEFINE c == Completion({"dispatch", "task"}, None, 0)
<1>1. CompOK(c) /\ AnswerOK("submit", c)
  BY DEF Completion, CompOK, CompType, AnswerOK
<1>2. "submit" \in ReqStates /\ req \in [Requests -> ReqStates]
  BY DEF ReqStates, CompPart
<1>3. r \notin invoked
  BY DEF Dispatch, CompPart
<1> HIDE DEF c
<1>4. CompPart'
  BY <1>1, <1>2, <1>3, OneRequest, Zenon DEF Dispatch, c
<1>5. QueuePart' /\ WorkerPart'
  BY <1>2, SameQueues, SameWorkers, Zenon DEF Dispatch
<1> QED
  BY <1>4, <1>5

\* Submit keeps the invariant.
LEMMA SubmitParts ==
  ASSUME CompPart, QueuePart, WorkerPart, NEW r \in Requests, Submit(r)
  PROVE  CompPart' /\ QueuePart' /\ WorkerPart'
<1>0. /\ "queued" \in ReqStates /\ "full" \in ReqStates /\ "stopped" \in ReqStates
      /\ req \in [Requests -> ReqStates] /\ r \notin invoked
      /\ CompOK(comp[r]) /\ AnswerOK("submit", comp[r])
  BY DEF Submit, ReqStates, CompPart
<1>1. CASE /\ tasks' = Append(tasks, r) /\ req' = [req EXCEPT ![r] = "queued"]
           /\ UNCHANGED comp
  <2>1. AnswerOK("queued", comp[r]) /\ comp' = [comp EXCEPT ![r] = comp[r]]
    BY <1>0, <1>1 DEF AnswerOK, CompPart
  <2>2. CompPart'
    BY <1>0, <1>1, <2>1, OneRequest, Zenon DEF Submit
  <2>3. /\ tasks' \in Seq(Requests) /\ Elems(tasks') = Elems(tasks) \cup {r}
        /\ r \notin Elems(tasks) \cup Elems(cancelled) /\ Distinct(tasks')
    BY <1>1, AppendElems DEF Submit, QueuePart
  <2>4. QueuePart'
    BY <1>0, <1>1, <2>3 DEF Submit, QueuePart
  <2> QED
    BY <1>0, <1>1, <2>2, <2>4, SameWorkers, Zenon DEF Submit
<1>2. CASE /\ req' = [req EXCEPT ![r] = IF Accepting THEN "full" ELSE "stopped"]
           /\ comp' = [comp EXCEPT ![r] = Released(@, "task")]
           /\ UNCHANGED <<tasks, accepted>>
  <2>1. PICK state \in {"full", "stopped"} : req' = [req EXCEPT ![r] = state]
    BY <1>2, Zenon
  <2>2. CompOK(Released(comp[r], "task")) /\ AnswerOK(state, Released(comp[r], "task"))
    BY <1>0, <2>1, ReleasedOK DEF AnswerOK
  <2>3. comp' = [comp EXCEPT ![r] = Released(comp[r], "task")]
    BY <1>2
  <2>4. CompPart'
    BY <1>0, <2>1, <2>2, <2>3, OneRequest, ZenonT(30) DEF Submit
  <2> QED
    BY <1>0, <1>2, <2>1, <2>4, SameQueues, SameWorkers, Zenon DEF Submit
<1> QED
  BY <1>1, <1>2 DEF Submit

\* The return from Submit keeps the invariant.
LEMMA ReturnParts ==
  ASSUME CompPart, QueuePart, WorkerPart, NEW r \in Requests, Return(r)
  PROVE  CompPart' /\ QueuePart' /\ WorkerPart'
<1> DEFINE c == IF req[r] = "full" THEN Answered(comp[r], "QUEUE_FULL")
                ELSE IF req[r] = "stopped" THEN Answered(comp[r], "STOPPED") ELSE comp[r]
<1>1. CompOK(comp[r]) /\ AnswerOK(req[r], comp[r]) /\ "QUEUE_FULL" \in Answers /\ "STOPPED" \in Answers
  BY DEF CompPart, Answers
<1>2. CompOK(c) /\ c.holders = comp[r].holders
  BY <1>1, AnsweredOK
<1>3. req[r] \notin {"full", "stopped"} => c.answer = comp[r].answer
  OBVIOUS
<1>4. comp' = [comp EXCEPT ![r] = Released(c, "dispatch")] /\ UNCHANGED <<req, invoked>>
  BY DEF Return
<1> HIDE DEF c
<1>5. CompOK(Released(c, "dispatch")) /\ AnswerOK(req[r], Released(c, "dispatch"))
  BY <1>1, <1>2, <1>3, ReleasedOK, ExecutorConfig DEF AnswerOK, Answers
<1>6. req[r] \in ReqStates /\ req' = [req EXCEPT ![r] = req[r]] /\ (r \in invoked => req[r] = "ran")
  BY <1>4 DEF CompPart
<1>7. CompPart'
  BY <1>4, <1>5, <1>6, OneRequest, Zenon
<1> QED
  BY <1>7 DEF Return, QueuePart, WorkerPart

\* One worker moves.
LEMMA AtFields ==
  ASSUME NEW pc \in {"wait", "run", "release", "exit"}, NEW r \in Requests \cup {None}
  PROVE  At(pc, r) \in WorkerType /\ At(pc, r).pc = pc /\ At(pc, r).task = r
BY DEF At, WorkerType

\* The end of a worker keeps the invariant.
LEMMA ExitParts ==
  ASSUME CompPart, QueuePart, WorkerPart, NEW w \in Workers, Exit(w)
  PROVE  CompPart' /\ QueuePart' /\ WorkerPart'
<1>1. At("exit", None) \in WorkerType /\ At("exit", None).pc = "exit"
  BY AtFields
<1>2. WorkerPart'
  BY <1>1 DEF Exit, WorkerPart
<1> QED
  BY <1>2, SameRequests DEF Exit, QueuePart

\* Taking a task keeps the invariant.
LEMMA TakeParts ==
  ASSUME CompPart, QueuePart, WorkerPart, NEW w \in Workers, Take(w)
  PROVE  CompPart' /\ QueuePart' /\ WorkerPart'
<1> DEFINE r == Head(tasks)
<1>1. /\ r \in Requests /\ tasks' \in Seq(Requests) /\ Elems(tasks) = Elems(tasks') \cup {r}
      /\ Distinct(tasks') /\ r \notin Elems(tasks')
  BY TailElems DEF Take, QueuePart
<1>2. /\ req' = [req EXCEPT ![r] = "taken"] /\ worker' = [worker EXCEPT ![w] = At("run", r)]
      /\ UNCHANGED <<cancelled, comp, invoked>> /\ worker[w].pc = "wait"
  BY DEF Take
<1> HIDE DEF r
<1>3. req[r] = "queued" /\ r \notin Elems(cancelled)
  BY <1>1 DEF QueuePart
<1>4. /\ "taken" \in ReqStates /\ req \in [Requests -> ReqStates] /\ r \notin invoked
      /\ CompOK(comp[r]) /\ AnswerOK("taken", comp[r])
      /\ comp' = [comp EXCEPT ![r] = comp[r]]
  BY <1>1, <1>2, <1>3 DEF ReqStates, CompPart, AnswerOK
<1>5. CompPart'
  BY <1>1, <1>2, <1>4, OneRequest, Zenon
<1>6. QueuePart'
  BY <1>1, <1>2, <1>3, <1>4 DEF QueuePart
<1>7. At("run", r) \in WorkerType /\ At("run", r).pc = "run" /\ At("run", r).task = r
  BY <1>1, AtFields
<1>8. worker' \in [Workers -> WorkerType]
  BY <1>2, <1>7 DEF WorkerPart
<1>9. \A v \in Workers : v # w => worker'[v] = worker[v]
  BY <1>2 DEF WorkerPart
<1>10. worker'[w].pc = "run" /\ worker'[w].task = r
  BY <1>2, <1>7 DEF WorkerPart
<1>11. \A v \in Workers : v # w /\ worker[v].pc \in {"run", "release"} => worker[v].task # r
  BY <1>3 DEF WorkerPart
<1>12. \A x \in Requests : x # r => req'[x] = req[x]
  BY <1>2, <1>4
<1>13. req'[r] = "taken"
  BY <1>1, <1>2, <1>4
<1>14. WorkerPart'
  BY <1>1, <1>2, <1>8, <1>9, <1>10, <1>11, <1>12, <1>13 DEF WorkerPart
<1> QED
  BY <1>5, <1>6, <1>14

\* Running a task keeps the invariant.
LEMMA RunParts ==
  ASSUME CompPart, QueuePart, WorkerPart, NEW w \in Workers, Run(w)
  PROVE  CompPart' /\ QueuePart' /\ WorkerPart'
<1> DEFINE r == worker[w].task
<1>1. PICK a \in {"OK", "INTERNAL_ERROR", "REFUSED"} :
        comp' = [comp EXCEPT ![r] = Answered(comp[r], a)]
  BY DEF Run
<1>2. /\ invoked' = invoked \/ invoked' = invoked \cup {r}
      /\ req' = [req EXCEPT ![r] = "ran"] /\ worker' = [worker EXCEPT ![w] = At("release", r)]
      /\ UNCHANGED <<tasks, cancelled>> /\ worker[w].pc = "run"
  BY DEF Run
<1>3. r \in Requests /\ req[r] = "taken"
  BY <1>2 DEF WorkerPart
<1>4. \A v \in Workers : v # w /\ worker[v].pc = "run" => worker[v].task # r
  BY <1>2 DEF WorkerPart
<1>5. worker \in [Workers -> WorkerType]
  BY DEF WorkerPart
<1>6. worker[w].task = r
  OBVIOUS
<1> HIDE DEF r
<1>7. /\ "ran" \in ReqStates /\ req \in [Requests -> ReqStates]
      /\ CompOK(comp[r]) /\ comp[r].answer = None /\ a \in Answers
  BY <1>3 DEF ReqStates, CompPart, AnswerOK, Answers
<1>8. CompOK(Answered(comp[r], a)) /\ AnswerOK("ran", Answered(comp[r], a))
  BY <1>7, AnsweredOK DEF AnswerOK
<1>9. CompPart'
  BY <1>1, <1>2, <1>3, <1>7, <1>8, OneRequest, Zenon
<1>10. QueuePart'
  BY <1>2, <1>3, <1>7, SameQueues, Zenon
<1>11. At("release", r) \in WorkerType /\ At("release", r).pc = "release" /\ At("release", r).task = r
  BY <1>3, AtFields
<1>12. /\ worker' \in [Workers -> WorkerType]
       /\ \A v \in Workers : v # w => worker'[v] = worker[v]
       /\ worker'[w].pc = "release" /\ worker'[w].task = r
  BY <1>2, <1>5, <1>11
<1>13. req'[r] = "ran" /\ \A x \in Requests : x # r => req'[x] = req[x]
  BY <1>2, <1>3, <1>7
<1>14. ASSUME NEW x \in Requests, req'[x] = "taken"
       PROVE  \E v \in Workers : worker'[v].pc = "run" /\ worker'[v].task = x
  <2>1. x # r /\ req[x] = "taken"
    BY <1>13, <1>14
  <2>2. PICK v \in Workers : worker[v].pc = "run" /\ worker[v].task = x
    BY <2>1 DEF WorkerPart
  <2>3. v # w
    BY <1>6, <2>1, <2>2
  <2> QED
    BY <1>12, <2>2, <2>3
<1>15. WorkerPart'
  BY <1>3, <1>4, <1>12, <1>13, <1>14 DEF WorkerPart
<1> QED
  BY <1>9, <1>10, <1>15

\* The end of a task keeps the invariant.
LEMMA ReleaseParts ==
  ASSUME CompPart, QueuePart, WorkerPart, NEW w \in Workers, Release(w)
  PROVE  CompPart' /\ QueuePart' /\ WorkerPart'
<1> DEFINE r == worker[w].task
<1>1. /\ comp' = [comp EXCEPT ![r] = Released(comp[r], "task")]
      /\ worker' = [worker EXCEPT ![w] = At("wait", None)]
      /\ UNCHANGED <<tasks, cancelled, req, invoked>> /\ worker[w].pc = "release"
  BY DEF Release
<1>2. r \in Requests /\ req[r] = "ran"
  BY <1>1 DEF WorkerPart
<1> HIDE DEF r
<1>3. /\ req[r] \in ReqStates /\ req' = [req EXCEPT ![r] = req[r]]
      /\ CompOK(comp[r]) /\ AnswerOK("ran", comp[r])
  BY <1>1, <1>2 DEF CompPart
<1>4. comp[r].answer # None
  BY <1>3, ExecutorConfig DEF AnswerOK, Answers
<1>5. CompOK(Released(comp[r], "task")) /\ AnswerOK("ran", Released(comp[r], "task"))
  BY <1>3, <1>4, ReleasedOK DEF AnswerOK
<1>6. CompPart'
  BY <1>1, <1>2, <1>3, <1>5, OneRequest, ZenonT(30)
<1>7. QueuePart'
  BY <1>1 DEF QueuePart
<1>8. At("wait", None) \in WorkerType /\ At("wait", None).pc = "wait"
  BY AtFields
<1>9. WorkerPart'
  BY <1>1, <1>8 DEF WorkerPart
<1> QED
  BY <1>6, <1>7, <1>9

-----------------------------------------------------------------------------
\* The empty queue.
LEMMA EmptyElems == Elems(<<>>) = {} /\ Distinct(<<>>) /\ \A S : <<>> \in Seq(S)
BY DEF Elems, Distinct

\* Stop and the destruction of the executor move the tasks; Drop destroys one.
LEMMA MoveParts ==
  ASSUME CompPart, QueuePart, WorkerPart, cancelled = <<>>,
         cancelled' = tasks, tasks' = <<>>, UNCHANGED <<worker, req, comp, invoked>>
  PROVE  CompPart' /\ QueuePart' /\ WorkerPart'
<1>1. QueuePart'
  BY EmptyElems DEF QueuePart
<1> QED
  BY <1>1, SameRequests DEF WorkerPart

\* Dropping a cancelled task keeps the invariant.
LEMMA DropParts ==
  ASSUME CompPart, QueuePart, WorkerPart, Drop
  PROVE  CompPart' /\ QueuePart' /\ WorkerPart'
<1> DEFINE r == Head(cancelled)
<1>1. /\ r \in Requests /\ cancelled' \in Seq(Requests)
      /\ Elems(cancelled) = Elems(cancelled') \cup {r}
      /\ Distinct(cancelled') /\ r \notin Elems(cancelled')
  BY TailElems DEF Drop, QueuePart
<1>2. /\ req' = [req EXCEPT ![r] = "dropped"]
      /\ comp' = [comp EXCEPT ![r] = Released(comp[r], "task")]
      /\ UNCHANGED <<tasks, worker, invoked>>
  BY DEF Drop
<1> HIDE DEF r
<1>3. req[r] = "queued" /\ r \notin Elems(tasks)
  BY <1>1 DEF QueuePart
<1>4. /\ "dropped" \in ReqStates /\ req \in [Requests -> ReqStates] /\ r \notin invoked
      /\ CompOK(comp[r])
  BY <1>1, <1>3 DEF ReqStates, CompPart
<1>5. CompOK(Released(comp[r], "task")) /\ AnswerOK("dropped", Released(comp[r], "task"))
  BY <1>4, ReleasedOK DEF AnswerOK
<1>6. CompPart'
  BY <1>1, <1>2, <1>4, <1>5, OneRequest, Zenon
<1>7. QueuePart'
  BY <1>1, <1>2, <1>3, <1>4 DEF QueuePart
<1>8. WorkerPart'
  BY <1>1, <1>2, <1>3, <1>4, SameWorkers, ZenonT(30)
<1> QED
  BY <1>6, <1>7, <1>8

\* The three parts under every action.
LEMMA PartsStep ==
  ASSUME CompPart, QueuePart, WorkerPart, PhasePart, Next
  PROVE  CompPart' /\ QueuePart' /\ WorkerPart'
<1>1. ASSUME UNCHANGED <<tasks, cancelled, worker, req, comp, invoked>>
      PROVE  CompPart' /\ QueuePart' /\ WorkerPart'
  BY <1>1, SameRequests DEF QueuePart, WorkerPart
<1>2. CASE Start \/ Started \/ StartFails \/ Stopped
  BY <1>1, <1>2 DEF Start, Started, StartFails, Stopped
<1>3. ASSUME NEW p \in {"Drain", "CancelPending"}, Stop(p)
      PROVE  CompPart' /\ QueuePart' /\ WorkerPart'
  <2>1. CASE UNCHANGED <<tasks, cancelled>>
    BY <1>1, <1>3, <2>1 DEF Stop
  <2>2. CASE phase = "running" /\ cancelled' = tasks /\ tasks' = <<>>
    <3>1. cancelled = <<>>
      BY <2>2 DEF PhasePart
    <3> QED
      BY <1>3, <2>2, <3>1, MoveParts DEF Stop
  <2> QED
    BY <1>3, <2>1, <2>2 DEF Stop
<1>4. CASE Destroy
  <2>1. cancelled = <<>>
    BY <1>4 DEF Destroy, PhasePart
  <2> QED
    BY <1>4, <2>1, MoveParts DEF Destroy
<1>5. CASE Drop
  BY <1>5, DropParts
<1>6. ASSUME NEW r \in Requests, Dispatch(r) \/ RequestStep(r)
      PROVE  CompPart' /\ QueuePart' /\ WorkerPart'
  BY <1>6, DispatchParts, SubmitParts, ReturnParts DEF RequestStep
<1>7. ASSUME NEW w \in Workers, WorkerStep(w)
      PROVE  CompPart' /\ QueuePart' /\ WorkerPart'
  BY <1>7, ExitParts, TakeParts, RunParts, ReleaseParts DEF WorkerStep
<1> QED
  BY <1>2, <1>3, <1>4, <1>5, <1>6, <1>7 DEF Next, LifecycleStep

\* The phases.
LEMMA PhaseStep ==
  ASSUME CompPart, QueuePart, WorkerPart, PhasePart, Next
  PROVE  PhasePart'
<1>1. CASE Start \/ Started \/ StartFails
  BY <1>1 DEF Start, Started, StartFails, PhasePart
<1>2. ASSUME NEW p \in {"Drain", "CancelPending"}, Stop(p) PROVE PhasePart'
  BY <1>2 DEF Stop, PhasePart
<1>3. CASE Stopped
  <2>1. PICK w \in Workers : worker[w].pc = "exit"
    BY <1>3, ExecutorConfig DEF Stopped
  <2> QED
    BY <1>3, <2>1 DEF Stopped, PhasePart
<1>4. CASE Destroy
  BY <1>4 DEF Destroy, PhasePart
<1>5. CASE Drop
  <2>1. cancelled # <<>> /\ UNCHANGED <<phase, policy, tasks, worker>>
    BY <1>5 DEF Drop
  <2>2. policy = "CancelPending" /\ phase \notin {"fresh", "stopped"}
    BY <2>1 DEF PhasePart
  <2> QED
    BY <2>1, <2>2 DEF PhasePart
<1>6. ASSUME NEW r \in Requests, Dispatch(r) \/ Return(r) PROVE PhasePart'
  <2>1. \A x \in Requests : req'[x] = "dropped" => req[x] = "dropped"
    BY <1>6 DEF Dispatch, Return, CompPart
  <2> QED
    BY <1>6, <2>1 DEF Dispatch, Return, PhasePart
<1>7. ASSUME NEW r \in Requests, Submit(r) PROVE PhasePart'
  <2>1. \A x \in Requests : req'[x] = "dropped" => req[x] = "dropped"
    BY <1>7 DEF Submit, CompPart
  <2>2. UNCHANGED tasks \/ phase \in {"starting", "running"}
    BY <1>7 DEF Submit, Accepting
  <2> QED
    BY <1>7, <2>1, <2>2 DEF Submit, PhasePart
<1>8. ASSUME NEW w \in Workers, Exit(w) PROVE PhasePart'
  <2>1. At("exit", None).pc = "exit"
    BY DEF At
  <2>2. \A v \in Workers : worker'[v].pc = IF v = w THEN "exit" ELSE worker[v].pc
    BY <1>8, <2>1 DEF Exit, WorkerPart
  <2> QED
    BY <1>8, <2>2 DEF Exit, MayExit, PhasePart
<1>9. ASSUME NEW w \in Workers, Take(w) PROVE PhasePart'
  <2>1. At("run", Head(tasks)).pc = "run"
    BY DEF At
  <2>2. \A v \in Workers : worker'[v].pc = IF v = w THEN "run" ELSE worker[v].pc
    BY <1>9, <2>1 DEF Take, WorkerPart
  <2>3. \A x \in Requests : req'[x] = "dropped" => req[x] = "dropped"
    BY <1>9 DEF Take, CompPart
  <2>4. phase \in {"starting", "running", "stopping"} /\ tasks # <<>>
    BY <1>9 DEF Take
  <2> QED
    BY <1>9, <2>2, <2>3, <2>4 DEF Take, PhasePart
<1>10. ASSUME NEW w \in Workers, Run(w) \/ Release(w) PROVE PhasePart'
  <2>1. /\ At("release", worker[w].task).pc = "release"
        /\ At("wait", None).pc = "wait"
    BY DEF At
  <2>2. PICK pc \in {"release", "wait"} :
          \A v \in Workers : worker'[v].pc = IF v = w THEN pc ELSE worker[v].pc
    BY <1>10, <2>1 DEF Run, Release, WorkerPart
  <2>3. \A x \in Requests : req'[x] = "dropped" => req[x] = "dropped"
    BY <1>10, ZenonT(30) DEF Run, Release, CompPart
  <2>4. worker[w].pc \in {"run", "release"} /\ UNCHANGED <<phase, policy, tasks, cancelled>>
    BY <1>10 DEF Run, Release
  <2> QED
    BY <2>2, <2>3, <2>4 DEF PhasePart
<1> QED
  BY <1>1, <1>2, <1>3, <1>4, <1>5, <1>6, <1>7, <1>8, <1>9, <1>10
  DEF Next, LifecycleStep, RequestStep, WorkerStep

-----------------------------------------------------------------------------
\* Finitely many workers run tasks.
LEMMA RunningFinite == IsFiniteSet(Running) /\ Cardinality(Running) \in Nat
<1>1. Running \in SUBSET Workers
  BY DEF Running
<1>2. IsFiniteSet(Running)
  BY <1>1, ExecutorConfig, FS_Subset
<1> QED
  BY <1>2, FS_CardinalityType

\* The balance in terms of Running.
LEMMA Balance ==
  CountersBalance <=>
    (phase # "destroyed" =>
       accepted = Len(tasks) + completed + cancelledPending + Cardinality(Running))
BY DEF CountersBalance, Running

\* How the balance of the counters moves with the queue and the workers.
LEMMA BalanceAfter ==
  CountersBalance' <=>
    (phase' # "destroyed" =>
       accepted' = Len(tasks') + completed' + cancelledPending' + Cardinality(Running'))
BY DEF CountersBalance, Running

\* The counters.
LEMMA CountStep ==
  ASSUME QueuePart, WorkerPart, CountPart, Next
  PROVE  CountPart'
<1>0. Len(tasks) \in Nat /\ QueueCapacity \in Nat /\ 0 <= QueueCapacity
  BY ExecutorConfig DEF QueuePart
<1>1. ASSUME UNCHANGED <<worker, tasks, accepted, completed, cancelledPending>>,
             phase' = "destroyed" \/ phase # "destroyed" \/ UNCHANGED phase
      PROVE  CountPart'
  BY <1>1 DEF CountPart, CountersBalance
<1>2. CASE \/ Start \/ Started \/ StartFails \/ Stopped \/ Drop
           \/ \E r \in Requests : Dispatch(r) \/ Return(r)
  BY <1>1, <1>2 DEF Start, Started, StartFails, Stopped, Drop, Dispatch, Return
<1>3. ASSUME NEW p \in {"Drain", "CancelPending"}, Stop(p) PROVE CountPart'
  <2>1. CASE UNCHANGED <<tasks, cancelledPending>>
    BY <1>1, <1>3, <2>1 DEF Stop
  <2>2. CASE /\ phase = "running" /\ tasks' = <<>>
             /\ cancelledPending' = cancelledPending + CancelledCount
    <3>1. Len(tasks') = 0 /\ Running' = Running /\ UNCHANGED <<accepted, completed>>
      BY <1>3, <2>2 DEF Stop, Running
    <3>2. accepted = Len(tasks) + completed + cancelledPending + Cardinality(Running)
      BY <2>2, Balance DEF CountPart
    <3>3. /\ cancelledPending' \in Nat
          /\ accepted' = Len(tasks') + completed' + cancelledPending' + Cardinality(Running')
      BY <1>0, <2>2, <3>1, <3>2, RunningFinite DEF CancelledCount, CountPart
    <3> QED
      BY <1>0, <3>1, <3>3, BalanceAfter DEF CountPart
  <2> QED
    BY <1>3, <2>1, <2>2 DEF Stop
<1>4. CASE Destroy
  <2>1. Len(tasks') = 0
    BY <1>4 DEF Destroy
  <2> QED
    BY <1>0, <1>4, <2>1 DEF Destroy, CountPart, CountersBalance
<1>5. ASSUME NEW r \in Requests, Submit(r) PROVE CountPart'
  <2>1. CASE UNCHANGED <<tasks, accepted>>
    BY <1>1, <1>5, <2>1 DEF Submit
  <2>2. CASE ~Full /\ tasks' = Append(tasks, r) /\ accepted' = accepted + 1
    <3>1. Len(tasks') = Len(tasks) + 1
      BY <2>2, AppendElems DEF QueuePart
    <3>2. Len(tasks') <= QueueCapacity
      BY <1>0, <2>2, <3>1 DEF Full
    <3>3. Running' = Running /\ UNCHANGED <<phase, completed, cancelledPending>>
      BY <1>5 DEF Submit, Running
    <3>4. accepted' \in Nat
      BY <2>2 DEF CountPart
    <3>5. CountersBalance'
      BY <1>0, <2>2, <3>1, <3>3, Balance, BalanceAfter, RunningFinite DEF CountPart
    <3> QED
      BY <3>2, <3>3, <3>4, <3>5 DEF CountPart
  <2> QED
    BY <1>5, <2>1, <2>2 DEF Submit
<1>6. ASSUME NEW w \in Workers, Exit(w) PROVE CountPart'
  <2>1. At("exit", None).pc = "exit"
    BY DEF At
  <2>2. Running' = Running
    BY <1>6, <2>1 DEF Exit, Running, WorkerPart
  <2> QED
    BY <1>6, <2>2, Balance, BalanceAfter DEF Exit, CountPart
<1>7. ASSUME NEW w \in Workers, Take(w) PROVE CountPart'
  <2>1. At("run", Head(tasks)).pc = "run"
    BY DEF At
  <2>2. Running' = Running \cup {w} /\ w \notin Running
    BY <1>7, <2>1 DEF Take, Running, WorkerPart
  <2>3. Cardinality(Running') = Cardinality(Running) + 1
    BY <2>2, RunningFinite, FS_AddElement
  <2>4. Len(tasks') = Len(tasks) - 1
    BY <1>7, TailElems DEF Take, QueuePart
  <2>5. UNCHANGED <<phase, accepted, completed, cancelledPending>>
    BY <1>7 DEF Take
  <2>6. CountersBalance'
    BY <1>0, <2>3, <2>4, <2>5, Balance, BalanceAfter, RunningFinite DEF CountPart
  <2> QED
    BY <1>0, <2>4, <2>5, <2>6 DEF CountPart
<1>8. ASSUME NEW w \in Workers, Run(w) PROVE CountPart'
  <2>1. At("release", worker[w].task).pc = "release"
    BY DEF At
  <2>2. Running' = Running
    BY <1>8, <2>1 DEF Run, Running, WorkerPart
  <2> QED
    BY <1>8, <2>2, Balance, BalanceAfter DEF Run, CountPart
<1>9. ASSUME NEW w \in Workers, Release(w) PROVE CountPart'
  <2>1. At("wait", None).pc = "wait"
    BY DEF At
  <2>2. Running' = Running \ {w} /\ w \in Running
    BY <1>9, <2>1 DEF Release, Running, WorkerPart
  <2>3. Cardinality(Running') = Cardinality(Running) - 1
    BY <2>2, RunningFinite, FS_RemoveElement
  <2>4. completed' = completed + 1 /\ UNCHANGED <<phase, tasks, accepted, cancelledPending>>
    BY <1>9 DEF Release
  <2>5. completed' \in Nat
    BY <2>4 DEF CountPart
  <2>6. CountersBalance'
    BY <1>0, <2>3, <2>4, Balance, BalanceAfter, RunningFinite DEF CountPart
  <2> QED
    BY <2>4, <2>5, <2>6 DEF CountPart
<1> QED
  BY <1>2, <1>3, <1>4, <1>5, <1>6, <1>7, <1>8, <1>9
  DEF Next, LifecycleStep, RequestStep, WorkerStep

-----------------------------------------------------------------------------
\* The invariant holds of a new executor.
LEMMA ExecutorInitInv == Init => ExecutorInv
<1> SUFFICES ASSUME Init PROVE ExecutorInv
  OBVIOUS
<1>1. At("wait", None) \in WorkerType /\ At("wait", None).pc = "wait"
  BY AtFields
<1>2. /\ CompOK(Completion({}, None, 0)) /\ AnswerOK("new", Completion({}, None, 0))
      /\ "new" \in ReqStates
  BY DEF Completion, CompOK, CompType, AnswerOK, ReqStates
<1>3. CompPart
  BY <1>2 DEF Init, CompPart, CompOK
<1>4. QueuePart
  BY EmptyElems DEF Init, QueuePart
<1>5. WorkerPart
  BY <1>1 DEF Init, WorkerPart
<1>6. PhasePart
  BY <1>1 DEF Init, PhasePart
<1>7. Running = {} /\ Len(tasks) = 0
  BY <1>1 DEF Init, Running
<1>8. Cardinality(Running) = 0
  BY <1>7, FS_EmptySet
<1>9. CountPart
  BY <1>7, <1>8, Balance, ExecutorConfig DEF Init, CountPart
<1> QED
  BY <1>3, <1>4, <1>5, <1>6, <1>9 DEF ExecutorInv

\* The invariant of the executor, for any number of requests and workers.
THEOREM ExecutorInvariant == Spec => []ExecutorInv
<1>1. ExecutorInv /\ [Next]_vars => ExecutorInv'
  <2> SUFFICES ASSUME ExecutorInv, [Next]_vars PROVE ExecutorInv'
    OBVIOUS
  <2>1. CASE Next
    BY <2>1, PartsStep, PhaseStep, CountStep DEF ExecutorInv
  <2>2. CASE UNCHANGED vars
    <3>1. CompPart' /\ QueuePart'
      BY <2>2 DEF vars, ExecutorInv, CompPart, QueuePart
    <3>2. WorkerPart' /\ PhasePart'
      BY <2>2 DEF vars, ExecutorInv, WorkerPart, PhasePart
    <3>3. CountPart'
      BY <2>2 DEF vars, ExecutorInv, CountPart, CountersBalance
    <3> QED
      BY <3>1, <3>2, <3>3 DEF ExecutorInv
  <2> QED
    BY <2>1, <2>2
<1> QED
  BY <1>1, ExecutorInitInv, PTL DEF Spec

\* The state of the executor has its type; tasks_ never exceeds queue_capacity.
THEOREM ExecutorTypeOK == Spec => []TypeOK
<1>1. ExecutorInv => TypeOK
  BY DEF ExecutorInv, CompPart, QueuePart, WorkerPart, PhasePart, CountPart, TypeOK,
         CompType, WorkerType, ReqStates
<1> QED
  BY <1>1, ExecutorInvariant, PTL

\* done_ runs at most once for every request.
THEOREM ExecutorDoneOnce == Spec => []DoneOnce
<1>1. ExecutorInv => DoneOnce
  BY DEF ExecutorInv, CompPart, CompOK, DoneOnce
<1> QED
  BY <1>1, ExecutorInvariant, PTL

\* A request that is answered as retryable was not executed.
THEOREM ExecutorRetryableNotRun == Spec => []RetryableNotRun
<1>1. ExecutorInv => RetryableNotRun
  BY DEF ExecutorInv, CompPart, AnswerOK, RetryableNotRun
<1> QED
  BY <1>1, ExecutorInvariant, PTL

\* A draining Stop runs every accepted task.
THEOREM ExecutorDrainRunsAll == Spec => []DrainRunsAll
<1>1. ExecutorInv => DrainRunsAll
  <2> SUFFICES ASSUME ExecutorInv, phase \in {"stopped", "destroyed"}, policy = "Drain",
                      NEW r \in Requests
               PROVE  req[r] \notin {"queued", "taken", "dropped"}
    BY DEF DrainRunsAll
  <2>1. Elems(tasks) = {} /\ Elems(cancelled) = {}
    BY EmptyElems DEF ExecutorInv, PhasePart
  <2> QED
    BY <2>1, Zenon DEF ExecutorInv, PhasePart, QueuePart, WorkerPart
<1> QED
  BY <1>1, ExecutorInvariant, PTL

\* The counters account for every accepted task.
THEOREM ExecutorCountersBalance == Spec => []CountersBalance
<1>1. ExecutorInv => CountersBalance
  BY DEF ExecutorInv, CountPart
<1> QED
  BY <1>1, ExecutorInvariant, PTL

-----------------------------------------------------------------------------
\* The connection pool (ConnectionPool).

\* The limits as Init has checked them.
LEMMA Limits ==
  /\ MinConnections \in Int /\ MaxConnections \in Int
  /\ MinConnections <= MaxConnections
BY PoolConfig DEF PoolConfig

\* Closing idle connections keeps the sum within the limit.
LEMMA FewerIdle ==
  \A a, i, j \in Nat : \A m \in Int : a + i <= m /\ j <= i => a + j <= m
OBVIOUS

\* The threads that have a connection or a place are finitely many.
LEMMA BusyFinite ==
  /\ IsFiniteSet(Busy)
  /\ Cardinality(Busy) \in Nat
<1>1. Busy \in SUBSET Threads
  BY DEF Busy
<1>2. IsFiniteSet(Busy)
  BY <1>1, PoolConfig, FS_Subset
<1> QED
  BY <1>2, FS_CardinalityType

\* A thread that is counted makes _active_count positive.
LEMMA BusyIsCounted ==
  ASSUME ActiveIsBusy, NEW t \in Busy
  PROVE  active \in Nat /\ active >= 1
<1>1. Cardinality(Busy) # 0
  BY BusyFinite, FS_EmptySet
<1> QED
  BY <1>1, BusyFinite DEF ActiveIsBusy

\* A thread gets a place.
LEMMA BusyEnter ==
  ASSUME ActiveIsBusy, NEW t \in Threads, t \notin Busy, Busy' = Busy \cup {t},
         active' = active + 1
  PROVE  ActiveIsBusy'
<1>1. Cardinality(Busy \cup {t}) = Cardinality(Busy) + 1
  BY BusyFinite, FS_AddElement
<1> QED
  BY <1>1 DEF ActiveIsBusy

\* A thread gives its place back.
LEMMA BusyLeave ==
  ASSUME ActiveIsBusy, NEW t \in Busy, Busy' = Busy \ {t}, active' = active - 1
  PROVE  ActiveIsBusy'
<1>1. Cardinality(Busy \ {t}) = Cardinality(Busy) - 1
  BY BusyFinite, FS_RemoveElement
<1> QED
  BY <1>1 DEF ActiveIsBusy

\* A notification, and a thread that leaves, change nothing else in Busy.
LEMMA NotifiedBusy ==
  ASSUME use \in [Threads -> UseStates], NEW t \in Threads, use' = Notified(t, "out")
  PROVE  /\ use' \in [Threads -> UseStates]
         /\ Busy' = Busy \ {t}
         /\ \A x \in Threads : use'[x] # "asleep"
BY DEF Notified, Busy, BusyStates, UseStates

\* A pool that was never started satisfies the invariant.
LEMMA PoolInitInv == PoolInit => PoolInv
<1> SUFFICES ASSUME PoolInit PROVE PoolInv
  OBVIOUS
<1>1. Busy = {}
  BY DEF PoolInit, Busy, BusyStates
<1>2. ActiveIsBusy
  BY <1>1, FS_EmptySet DEF PoolInit, ActiveIsBusy
<1>3. running \in BOOLEAN /\ health \in BOOLEAN /\ started \in BOOLEAN
  BY ZenonT(30) DEF PoolInit
<1>4. use \in [Threads -> UseStates] /\ conn \in [Threads -> Nat]
  BY DEF PoolInit, UseStates
<1>5. active \in Nat /\ idle \in Nat /\ epoch \in Nat /\ stops \in 0 .. MaxStops
  BY PoolConfig DEF PoolInit
<1>6. PoolTypeOK
  BY <1>3, <1>4, <1>5 DEF PoolInit, PoolTypeOK
<1> QED
  BY <1>1, <1>2, <1>6, PoolConfig
  DEF PoolInit, PoolInv, Lifecycle, WithinLimit, SleepersMustWait,
      NoConnectionSurvivesRestart

\* A thread that gives its place back and notifies keeps the invariant, whether
\* its connection becomes
\* idle or is closed (FinishCheckout, CheckFails,
\* ReleaseReservation, ReturnDatabase).
LEMMA GiveBackInv ==
  ASSUME PoolInv, NEW t \in Busy, use' = Notified(t, "out"), active' = active - 1,
         idle' = idle \/ (running /\ idle' = idle + 1),
         UNCHANGED <<running, health, started, stopper, stops, epoch, conn>>
  PROVE  PoolInv'
<1>0. t \in Threads
  BY DEF Busy
<1>1. active \in Nat /\ active >= 1
  BY BusyIsCounted DEF PoolInv
<1>2. /\ use' \in [Threads -> UseStates]
      /\ Busy' = Busy \ {t}
      /\ \A x \in Threads : use'[x] # "asleep"
  BY <1>0, NotifiedBusy DEF PoolInv, PoolTypeOK
<1>3. ActiveIsBusy'
  BY <1>2, BusyLeave DEF PoolInv
<1>4. PoolTypeOK'
  BY <1>1, <1>2 DEF PoolInv, PoolTypeOK
<1>5. Lifecycle'
  BY DEF PoolInv, Lifecycle
<1>6. WithinLimit'
  BY <1>1, PoolConfig DEF PoolInv, PoolTypeOK, WithinLimit
<1>7. SleepersMustWait'
  BY <1>2 DEF SleepersMustWait
<1>8. NoConnectionSurvivesRestart'
  BY <1>2 DEF PoolInv, NoConnectionSurvivesRestart
<1> QED
  BY <1>3, <1>4, <1>5, <1>6, <1>7, <1>8 DEF PoolInv

\* A step that leaves the counters, the idle connections and the places alone,
\* wakes nobody, and keeps every thread out of Busy or in it as it was.
LEMMA QuietInv ==
  ASSUME PoolInv, NEW t \in Threads, NEW s \in UseStates,
         use' = [use EXCEPT ![t] = s], use[t] \in BusyStates <=> s \in BusyStates,
         s = "asleep" => running /\ ~Available,
         UNCHANGED <<running, active, idle, health, started, stopper, stops, epoch, conn>>
  PROVE  PoolInv'
<1>1. use' \in [Threads -> UseStates] /\ Busy' = Busy
  BY DEF PoolInv, PoolTypeOK, Busy
<1>2. PoolTypeOK' /\ Lifecycle' /\ WithinLimit' /\ ActiveIsBusy'
  BY <1>1 DEF PoolInv, PoolTypeOK, Lifecycle, WithinLimit, ActiveIsBusy
<1>3. SleepersMustWait'
  BY DEF PoolInv, PoolTypeOK, SleepersMustWait, Available
<1>4. NoConnectionSurvivesRestart'
  BY <1>1 DEF PoolInv, NoConnectionSurvivesRestart
<1> QED
  BY <1>2, <1>3, <1>4, ZenonT(30) DEF PoolInv

\* ModelContext::Start, with or without its Init.
LEMMA ContextStartInv ==
  ASSUME PoolInv, NEW t \in Threads, ContextStart(t)
  PROVE  PoolInv'
<1>1. CASE UNCHANGED <<started, running, health, idle, epoch>>
  <2>1. "get" \in UseStates /\ (use[t] \in BusyStates <=> "get" \in BusyStates)
    BY DEF ContextStart, UseStates, BusyStates
  <2> QED
    BY <1>1, <2>1, QuietInv, ZenonT(30) DEF ContextStart
<1>2. CASE /\ ~started /\ MayInit
           /\ started' = TRUE /\ running' = TRUE /\ health' = TRUE
           /\ \E n \in 0 .. MinConnections : idle' = idle + n
           /\ epoch' = epoch + 1
  <2>1. ~running /\ idle = 0 /\ active = 0 /\ stopper = "none"
    BY <1>2 DEF ContextStart, MayInit, PoolInv, Lifecycle
  <2>2. idle' \in Nat /\ idle' <= MinConnections
    BY <1>2, <2>1, PoolConfig
  <2>3. Busy = {}
    BY <2>1, BusyFinite, FS_EmptySet, ZenonT(30) DEF PoolInv, ActiveIsBusy
  <2>4. use' \in [Threads -> UseStates] /\ Busy' = {}
    BY <2>3 DEF ContextStart, PoolInv, PoolTypeOK, Busy, UseStates, BusyStates
  <2>5. \A x \in Threads : use'[x] # "asleep"
    BY <2>1 DEF ContextStart, PoolInv, PoolTypeOK, SleepersMustWait
  <2>6. PoolTypeOK'
    BY <1>2, <2>2, <2>4 DEF ContextStart, PoolInv, PoolTypeOK
  <2>7. Lifecycle'
    BY <1>2, <2>1 DEF ContextStart, Lifecycle
  <2>8. WithinLimit'
    <3>1. active' = 0
      BY <2>1 DEF ContextStart
    <3>2. 0 + MinConnections <= MaxConnections /\ MinConnections \in Nat
      BY PoolConfig
    <3>3. 0 + idle' <= MaxConnections
      BY <2>2, <3>2, Limits, FewerIdle, ZenonT(30)
    <3> QED
      BY <3>1, <3>3 DEF WithinLimit
  <2>9. ActiveIsBusy'
    BY <2>1, <2>4, FS_EmptySet DEF ContextStart, ActiveIsBusy
  <2> QED
    BY <2>4, <2>5, <2>6, <2>7, <2>8, <2>9
    DEF PoolInv, SleepersMustWait, NoConnectionSurvivesRestart
<1> QED
  BY <1>1, <1>2, Zenon DEF ContextStart

\* GetDatabase: nothing to have, nothing to give, or a place.
LEMMA GetDatabaseInv ==
  ASSUME PoolInv, NEW t \in Threads, GetDatabase(t)
  PROVE  PoolInv'
<1>0. use[t] \notin BusyStates
  BY DEF GetDatabase, BusyStates
<1>1. CASE /\ ~running /\ use' = [use EXCEPT ![t] = "out"]
           /\ UNCHANGED <<active, idle, conn>>
  <2>1. "out" \in UseStates /\ "out" \notin BusyStates
    BY DEF UseStates, BusyStates
  <2> QED
    BY <1>0, <1>1, <2>1, QuietInv, Zenon DEF GetDatabase
<1>2. CASE /\ running /\ ~Available /\ use' = [use EXCEPT ![t] = "asleep"]
           /\ UNCHANGED <<active, idle, conn>>
  <2>1. "asleep" \in UseStates /\ "asleep" \notin BusyStates
    BY DEF UseStates, BusyStates
  <2> QED
    BY <1>0, <1>2, <2>1, QuietInv, Zenon DEF GetDatabase
<1>3. CASE /\ running /\ Available
           /\ use' = [use EXCEPT ![t] = IF idle = 0 THEN "create" ELSE "check"]
           /\ idle' = IdleAfterTake
           /\ active' = active + 1
           /\ conn' = [conn EXCEPT ![t] = epoch]
  <2>1. UNCHANGED <<running, health, started, stopper, stops, epoch>>
    BY DEF GetDatabase
  <2>2. t \notin Busy
    BY <1>0 DEF Busy
  <2>3. use' \in [Threads -> UseStates] /\ Busy' = Busy \cup {t}
    BY <1>3 DEF PoolInv, PoolTypeOK, Busy, UseStates, BusyStates
  <2>4. ActiveIsBusy'
    BY <1>3, <2>2, <2>3, BusyEnter DEF PoolInv
  <2>5. idle' \in Nat /\ (idle = 0 => idle' = 0) /\ (idle # 0 => idle' = idle - 1)
    BY <1>3 DEF PoolInv, PoolTypeOK, IdleAfterTake
  <2>6. PoolTypeOK'
    BY <1>3, <2>1, <2>3, <2>5 DEF PoolInv, PoolTypeOK
  <2>7. Lifecycle'
    BY <1>3, <2>1, <2>5 DEF PoolInv, Lifecycle
  <2>8. WithinLimit'
    BY <1>3, <2>5, PoolConfig DEF PoolInv, PoolTypeOK, WithinLimit, Available
  <2>9. SleepersMustWait'
    <3>1. \A x \in Threads : use[x] # "asleep"
      BY <1>3 DEF PoolInv, SleepersMustWait
    <3> QED
      BY <1>3, <3>1 DEF PoolInv, PoolTypeOK, SleepersMustWait
  <2>10. NoConnectionSurvivesRestart'
    <3>1. \A x \in Busy : x \in Threads
      BY DEF Busy
    <3> QED
      BY <1>3, <2>1, <2>3, <3>1 DEF PoolInv, PoolTypeOK, NoConnectionSurvivesRestart
  <2> QED
    BY <2>4, <2>6, <2>7, <2>8, <2>9, <2>10 DEF PoolInv
<1> QED
  BY <1>1, <1>2, <1>3 DEF GetDatabase

\* The other steps of a thread.
LEMMA UseInv ==
  ASSUME PoolInv, NEW t \in Threads,
         \/ Acquire(t) \/ FinishCheckout(t) \/ CheckFails(t)
         \/ ReleaseReservation(t) \/ ReturnDatabase(t)
  PROVE  PoolInv'
<1> DEFINE Rest == UNCHANGED <<running, idle, health, started, stopper, stops, epoch, conn>>
<1>1. CASE Acquire(t)
  <2>1. PICK s \in {"get", "start"} : use' = [use EXCEPT ![t] = s]
    BY <1>1, ZenonT(30) DEF Acquire
  <2>2. /\ s \in UseStates /\ s # "asleep"
        /\ use[t] \in BusyStates <=> s \in BusyStates
    BY <1>1 DEF Acquire, UseStates, BusyStates
  <2> QED
    BY <1>1, <2>1, <2>2, QuietInv, Zenon DEF Acquire
<1>2. CASE FinishCheckout(t) \/ CheckFails(t)
  <2>1. t \in Busy /\ Rest
    BY <1>2 DEF FinishCheckout, CheckFails, Busy, BusyStates
  <2>2. CASE running
    <3>1. PICK s \in {"hold", "replace"} :
            use' = [use EXCEPT ![t] = s] /\ UNCHANGED active
      BY <1>2, <2>2, ZenonT(30) DEF FinishCheckout, CheckFails
    <3>2. /\ s \in UseStates /\ s # "asleep"
          /\ use[t] \in BusyStates <=> s \in BusyStates
      BY <2>1 DEF Busy, UseStates, BusyStates
    <3> QED
      BY <2>1, <3>1, <3>2, QuietInv, Zenon
  <2>3. CASE ~running
    <3>1. use' = Notified(t, "out") /\ active' = active - 1
      BY <1>2, <2>3 DEF FinishCheckout, CheckFails
    <3> QED
      BY <2>1, <3>1, GiveBackInv
  <2> QED
    BY <2>2, <2>3
<1>3. CASE ReleaseReservation(t)
  <2>1. t \in Busy /\ Rest /\ use' = Notified(t, "out") /\ active' = active - 1
    BY <1>3 DEF ReleaseReservation, AfterRelease, Busy, BusyStates
  <2> QED
    BY <2>1, GiveBackInv
<1>4. CASE ReturnDatabase(t)
  <2>1. t \in Busy
    BY <1>4 DEF ReturnDatabase, Busy, BusyStates
  <2>2. active # 0
    BY <2>1, BusyIsCounted DEF PoolInv
  <2>3. /\ use' = Notified(t, "out") /\ active' = active - 1
        /\ idle' = idle \/ (running /\ idle' = idle + 1)
        /\ UNCHANGED <<running, health, started, stopper, stops, epoch, conn>>
    BY <1>4, <2>2 DEF ReturnDatabase, ActiveAfterReturn
  <2> QED
    BY <2>1, <2>3, GiveBackInv
<1> QED
  BY <1>1, <1>2, <1>3, <1>4

\* The health check, and every step of a stop.
LEMMA StopInv ==
  ASSUME PoolInv, HealthCheck \/ StopDatabase \/ StopStep
  PROVE  PoolInv'
<1>1. CASE ShutdownBegin
  <2>1. /\ use' \in [Threads -> UseStates] /\ Busy' = Busy
        /\ \A x \in Threads : use'[x] # "asleep"
    BY <1>1 DEF ShutdownBegin, AllNotified, PoolInv, PoolTypeOK, Busy, UseStates, BusyStates
  <2>2. PoolTypeOK' /\ Lifecycle' /\ WithinLimit' /\ ActiveIsBusy'
    BY <1>1, <2>1, ZenonT(30)
    DEF ShutdownBegin, PoolInv, PoolTypeOK, Lifecycle, WithinLimit, ActiveIsBusy
  <2> QED
    BY <1>1, <2>1, <2>2
    DEF ShutdownBegin, PoolInv, SleepersMustWait, NoConnectionSurvivesRestart
<1>2. CASE ~ShutdownBegin
  <2>1. UNCHANGED <<running, active, use, epoch, conn>> /\ Busy' = Busy
    BY <1>2
    DEF HealthCheck, StopDatabase, StopStep, HealthExit, ShutdownEnd, StopReturns,
        StopTimesOut, Busy
  <2>2. idle' \in Nat /\ idle' <= idle
    BY <1>2
    DEF HealthCheck, StopDatabase, StopStep, HealthExit, ShutdownEnd, StopReturns,
        StopTimesOut, PoolInv, PoolTypeOK
  <2>3. PoolTypeOK'
    <3>1. stops' = stops \/ (stops < MaxStops /\ stops' = stops + 1)
      BY <1>2
      DEF HealthCheck, StopDatabase, StopStep, HealthExit, ShutdownEnd, StopReturns,
          StopTimesOut
    <3>2. stops' \in 0 .. MaxStops
      BY <3>1, PoolConfig DEF PoolInv, PoolTypeOK
    <3>3. /\ health' \in BOOLEAN /\ started' \in BOOLEAN
          /\ stopper' \in {"none", "shutdown", "join", "wait"}
      BY <1>2, Zenon
      DEF HealthCheck, StopDatabase, StopStep, HealthExit, ShutdownEnd, StopReturns,
          StopTimesOut, PoolInv, PoolTypeOK
    <3> QED
      BY <2>1, <2>2, <3>2, <3>3 DEF PoolInv, PoolTypeOK
  <2>4. Lifecycle'
    BY <1>2, SMTT(20)
    DEF HealthCheck, StopDatabase, StopStep, HealthExit, ShutdownEnd, StopReturns,
        StopTimesOut, PoolInv, PoolTypeOK, Lifecycle
  <2>5. WithinLimit'
    <3>1. active + idle' <= MaxConnections
      BY <2>2, Limits, FewerIdle, Zenon DEF PoolInv, PoolTypeOK, WithinLimit
    <3> QED
      BY <2>1, <3>1 DEF WithinLimit
  <2>7. SleepersMustWait'
    <3>1. Available' => Available
      BY <2>1, <2>2 DEF PoolInv, PoolTypeOK, Available
    <3> QED
      BY <2>1, <3>1 DEF PoolInv, SleepersMustWait
  <2>6. ActiveIsBusy' /\ NoConnectionSurvivesRestart'
    BY <2>1 DEF PoolInv, ActiveIsBusy, NoConnectionSurvivesRestart
  <2> QED
    BY <2>3, <2>4, <2>5, <2>6, <2>7 DEF PoolInv
<1> QED
  BY <1>1, <1>2

\* ODBConnectionPool and ModelContext keep PoolInv, for every number of threads,
\* every pair of limits Init accepts, and any number of stops and restarts.
THEOREM PoolInvariant == PoolSpec => []PoolInv
<1>1. PoolInv /\ [PoolNext]_poolVars => PoolInv'
  <2> SUFFICES ASSUME PoolInv, [PoolNext]_poolVars PROVE PoolInv'
    OBVIOUS
  <2>1. CASE \E t \in Threads : Acquire(t) \/ UseStep(t)
    BY <2>1, ContextStartInv, GetDatabaseInv, UseInv DEF UseStep
  <2>2. CASE HealthCheck \/ StopDatabase \/ StopStep
    BY <2>2, StopInv
  <2>3. CASE UNCHANGED poolVars
    BY <2>3
    DEF poolVars, PoolInv, PoolTypeOK, Lifecycle, WithinLimit, ActiveIsBusy, Busy,
        SleepersMustWait, Available, NoConnectionSurvivesRestart
  <2> QED
    BY <2>1, <2>2, <2>3 DEF PoolNext
<1> QED
  BY <1>1, PoolInitInv, PTL DEF PoolSpec

\* The pool never has more connections than max_connections (connection_pool.hpp).
THEOREM PoolWithinLimit == PoolSpec => []WithinLimit
<1>1. PoolInv => WithinLimit
  BY DEF PoolInv
<1> QED
  BY <1>1, PoolInvariant, PTL

\* No path through the pool forgets or repeats the return of a place.
THEOREM PoolActiveIsBusy == PoolSpec => []ActiveIsBusy
<1>1. PoolInv => ActiveIsBusy
  BY DEF PoolInv
<1> QED
  BY <1>1, PoolInvariant, PTL

\* GetDatabase loses no wakeup.
THEOREM PoolSleepersMustWait == PoolSpec => []SleepersMustWait
<1>1. PoolInv => SleepersMustWait
  BY DEF PoolInv
<1> QED
  BY <1>1, PoolInvariant, PTL

\* A restarted pool has no user of the time before the stop.
THEOREM PoolRestartIsClean == PoolSpec => []NoConnectionSurvivesRestart
<1>1. PoolInv => NoConnectionSurvivesRestart
  BY DEF PoolInv
<1> QED
  BY <1>1, PoolInvariant, PTL

-----------------------------------------------------------------------------
\* The cache metrics (CacheMetrics).

\* The threads between their two additions.
Between == {r \in Recorders : recorder[r] = "hit"}

FlushPCs == {"idle", "second", "persist", "back", "backHits"}

MetricsTypes ==
  /\ requests \in Nat /\ hits \in Nat
  /\ recorder \in [Recorders -> {"idle", "hit"}]
  /\ flusher \in [pc : FlushPCs, requests : Nat, hits : Nat]
  /\ saved \in [requests : Nat, hits : Nat]
  /\ recorded \in [requests : Nat, hits : Nat]

\* What a flush holds at each of its steps.
FlushPart ==
  /\ flusher.pc \in {"idle", "second", "backHits"} => flusher.requests = 0
  /\ flusher.pc = "idle" => flusher.hits = 0
  /\ flusher.pc = "persist" =>
       saved.hits + flusher.hits <= saved.requests + flusher.requests
  /\ saved.hits <= saved.requests

\* Both sums are kept, and a hit is added after its request.
SumPart ==
  /\ saved.requests + requests + flusher.requests = recorded.requests
  /\ saved.hits + hits + flusher.hits = recorded.hits
  /\ recorded.hits + Cardinality(Between) <= recorded.requests

MetricsInv == MetricsTypes /\ FlushPart /\ SumPart

\* Only finitely many recorders are between their two additions.
LEMMA BetweenFinite ==
  IsFiniteSet(Between) /\ Cardinality(Between) \in Nat
<1>1. Between \in SUBSET Recorders
  BY DEF Between
<1>2. IsFiniteSet(Between)
  BY <1>1, RecordersFinite, FS_Subset
<1> QED
  BY <1>2, FS_CardinalityType

\* The fields of the records the actions build.
LEMMA Fields ==
  \A pc, r, h :
    /\ Flush(pc, r, h).pc = pc /\ Flush(pc, r, h).requests = r /\ Flush(pc, r, h).hits = h
    /\ Pair(r, h).requests = r /\ Pair(r, h).hits = h
BY DEF Flush, Pair

\* The fields of a flush.
LEMMA FlushTypes ==
  ASSUME NEW pc \in FlushPCs,
         NEW r \in Nat, NEW h \in Nat
  PROVE  Flush(pc, r, h) \in [pc : FlushPCs, requests : Nat, hits : Nat]
BY DEF Flush

\* The fields of a pair of sums.
LEMMA PairTypes ==
  ASSUME NEW r \in Nat, NEW h \in Nat
  PROVE  Pair(r, h) \in [requests : Nat, hits : Nat]
BY DEF Pair

\* Every number of a state is one.
LEMMA Numbers ==
  ASSUME MetricsInv
  PROVE  /\ requests \in Nat /\ hits \in Nat
         /\ flusher.requests \in Nat /\ flusher.hits \in Nat
         /\ saved.requests \in Nat /\ saved.hits \in Nat
         /\ recorded.requests \in Nat /\ recorded.hits \in Nat
BY DEF MetricsInv, MetricsTypes

\* The invariant holds before the first request.
LEMMA MetricsInitInv == MetricsInit => MetricsInv
<1> SUFFICES ASSUME MetricsInit PROVE MetricsInv
  OBVIOUS
<1>1. Between = {}
  BY DEF MetricsInit, Between
<1>2. Cardinality(Between) = 0
  BY <1>1, FS_EmptySet
<1>3. /\ flusher.pc = "idle" /\ flusher.requests = 0 /\ flusher.hits = 0
      /\ saved.requests = 0 /\ saved.hits = 0 /\ recorded.requests = 0 /\ recorded.hits = 0
  BY Fields DEF MetricsInit, NoFlush
<1>4. MetricsTypes
  BY FlushTypes, PairTypes DEF FlushPCs, MetricsInit, MetricsTypes, NoFlush
<1>5. FlushPart /\ SumPart
  BY <1>2, <1>3 DEF MetricsInit, FlushPart, SumPart
<1> QED
  BY <1>4, <1>5 DEF MetricsInv

\* The first addition of RecordCacheMetrics.
LEMMA RecordRequestInv ==
  ASSUME MetricsInv, NEW r \in Recorders, RecordRequest(r)
  PROVE  MetricsInv'
<1>1. Between' = Between \cup {r} /\ r \notin Between
  BY DEF RecordRequest, MetricsInv, MetricsTypes, Between
<1>2. Cardinality(Between') = Cardinality(Between) + 1
  BY <1>1, BetweenFinite, FS_AddElement
<1>3. recorded'.requests = recorded.requests + 1 /\ recorded'.hits = recorded.hits
  <2>1. recorded' = Pair(recorded.requests + 1, recorded.hits)
    BY DEF RecordRequest
  <2> QED
    BY <2>1, Zenon DEF Pair
<1>4. MetricsTypes'
  <2>1. recorded.requests + 1 \in Nat /\ requests' \in Nat
    BY Numbers DEF RecordRequest
  <2>2. recorded' \in [requests : Nat, hits : Nat]
    BY <2>1, Numbers, PairTypes, Zenon DEF RecordRequest
  <2> QED
    BY <2>1, <2>2 DEF RecordRequest, MetricsInv, MetricsTypes
<1>5. FlushPart'
  BY DEF RecordRequest, MetricsInv, FlushPart
<1>6. SumPart'
  BY <1>2, <1>3, BetweenFinite, Numbers DEF RecordRequest, MetricsInv, SumPart
<1> QED
  BY <1>4, <1>5, <1>6 DEF MetricsInv

\* The second one.
LEMMA RecordHitInv ==
  ASSUME MetricsInv, NEW r \in Recorders, RecordHit(r)
  PROVE  MetricsInv'
<1>1. Between' = Between \ {r} /\ r \in Between
  BY DEF RecordHit, MetricsInv, MetricsTypes, Between
<1>2. Cardinality(Between') = Cardinality(Between) - 1
  BY <1>1, BetweenFinite, FS_RemoveElement
<1>3. PICK n \in 0 .. 1 : /\ hits' = hits + n
                          /\ recorded' = Pair(recorded.requests, recorded.hits + n)
  BY DEF RecordHit
<1>4. recorded'.requests = recorded.requests /\ recorded'.hits = recorded.hits + n
  BY <1>3, Fields
<1>5. MetricsTypes'
  <2>1. recorded.hits + n \in Nat /\ hits' \in Nat
    BY <1>3, Numbers
  <2>2. recorded' \in [requests : Nat, hits : Nat]
    BY <1>3, <2>1, Numbers, PairTypes, Zenon
  <2> QED
    BY <2>1, <2>2 DEF RecordHit, MetricsInv, MetricsTypes
<1>6. FlushPart'
  BY DEF RecordHit, MetricsInv, FlushPart
<1>7. SumPart'
  BY <1>2, <1>3, <1>4, BetweenFinite, Numbers DEF RecordHit, MetricsInv, SumPart
<1> QED
  BY <1>5, <1>6, <1>7 DEF MetricsInv

\* The actions below leave the recorders alone.
LEMMA SameBetween ==
  ASSUME UNCHANGED recorder
  PROVE  Between' = Between
BY DEF Between

\* The two exchanges: the hits first, so that every hit taken has its request
\* among those written or still to be taken.
LEMMA FlushInv ==
  ASSUME MetricsInv, FlushFirst \/ FlushSecond
  PROVE  MetricsInv'
<1>0. TakeOrder[1] = "hits" /\ TakeOrder[2] = "requests"
  BY DEF TakeOrder
<1>1. CASE FlushFirst
  <2>1. /\ flusher' = Flush("second", flusher.requests, hits)
        /\ requests' = requests /\ hits' = 0
    BY <1>0, <1>1 DEF FlushFirst, Taken
  <2>2. flusher'.pc = "second" /\ flusher'.requests = flusher.requests /\ flusher'.hits = hits
    BY <2>1, Fields
  <2>3. flusher.requests = 0 /\ flusher.hits = 0
    BY <1>1 DEF FlushFirst, MetricsInv, FlushPart
  <2>4. MetricsTypes'
    BY <1>1, <2>1, Numbers, FlushTypes, ZenonT(30) DEF FlushPCs, FlushFirst, MetricsInv, MetricsTypes
  <2>5. FlushPart'
    BY <1>1, <2>2, <2>3 DEF FlushFirst, MetricsInv, FlushPart
  <2>6. SumPart'
    BY <1>1, <2>1, <2>2, <2>3, Numbers, BetweenFinite, SameBetween
    DEF FlushFirst, MetricsInv, SumPart
  <2> QED
    BY <2>4, <2>5, <2>6 DEF MetricsInv
<1>2. CASE FlushSecond
  <2>1. /\ flusher' = Flush("persist", requests, flusher.hits)
        /\ requests' = 0 /\ hits' = hits
    BY <1>0, <1>2 DEF FlushSecond, Taken
  <2>2. flusher'.pc = "persist" /\ flusher'.requests = requests /\ flusher'.hits = flusher.hits
    BY <2>1, Fields
  <2>3. flusher.requests = 0
    BY <1>2 DEF FlushSecond, MetricsInv, FlushPart
  <2>4. MetricsTypes'
    BY <1>2, <2>1, Numbers, FlushTypes, Zenon DEF FlushPCs, FlushSecond, MetricsInv, MetricsTypes
  <2>5. saved.hits + flusher.hits <= saved.requests + requests
    BY <2>3, Numbers, BetweenFinite DEF MetricsInv, SumPart
  <2>6. FlushPart'
    BY <1>2, <2>2, <2>5 DEF FlushSecond, MetricsInv, FlushPart
  <2>7. SumPart'
    BY <1>2, <2>1, <2>2, <2>3, Numbers, BetweenFinite, SameBetween
    DEF FlushSecond, MetricsInv, SumPart
  <2> QED
    BY <2>4, <2>6, <2>7 DEF MetricsInv
<1> QED
  BY <1>1, <1>2

\* The insert and what follows a failed one.
LEMMA PersistInv ==
  ASSUME MetricsInv, Persist \/ PersistFails \/ GiveBackRequests \/ GiveBackHits
  PROVE  MetricsInv'
<1>1. CASE Persist
  <2>1. /\ saved'.requests = saved.requests + flusher.requests
        /\ saved'.hits = saved.hits + flusher.hits
        /\ flusher'.pc = "idle" /\ flusher'.requests = 0 /\ flusher'.hits = 0
    BY <1>1, Fields DEF Persist, NoFlush
  <2>2. MetricsTypes'
    <3>1. saved.requests + flusher.requests \in Nat /\ saved.hits + flusher.hits \in Nat
      BY Numbers
    <3> QED
      BY <1>1, <3>1, FlushTypes, PairTypes, Zenon DEF FlushPCs, Persist, NoFlush, MetricsInv, MetricsTypes
  <2>3. FlushPart'
    BY <1>1, <2>1 DEF Persist, MetricsInv, FlushPart
  <2>4. SumPart'
    BY <1>1, <2>1, Numbers, BetweenFinite, SameBetween DEF Persist, MetricsInv, SumPart
  <2> QED
    BY <2>2, <2>3, <2>4 DEF MetricsInv
<1>2. CASE PersistFails
  <2>1. /\ flusher' = Flush("back", flusher.requests, flusher.hits)
        /\ flusher'.pc = "back" /\ flusher'.requests = flusher.requests
        /\ flusher'.hits = flusher.hits
    BY <1>2, Fields DEF PersistFails, AfterFailure
  <2>2. MetricsTypes'
    <3>1. flusher' \in [pc : FlushPCs, requests : Nat, hits : Nat]
      BY <2>1, Numbers, FlushTypes, Zenon DEF FlushPCs
    <3> QED
      BY <1>2, <3>1 DEF PersistFails, MetricsInv, MetricsTypes
  <2>3. FlushPart' /\ SumPart'
    BY <1>2, <2>1, SameBetween DEF PersistFails, MetricsInv, FlushPart, SumPart
  <2> QED
    BY <2>2, <2>3 DEF MetricsInv
<1>3. CASE GiveBackRequests
  <2>1. /\ flusher' = Flush("backHits", 0, flusher.hits)
        /\ flusher'.pc = "backHits" /\ flusher'.requests = 0 /\ flusher'.hits = flusher.hits
    BY <1>3 DEF GiveBackRequests, Flush
  <2>2. MetricsTypes'
    <3>1. requests' \in Nat
      BY <1>3, Numbers DEF GiveBackRequests
    <3>2. flusher' \in [pc : FlushPCs, requests : Nat, hits : Nat]
      BY <2>1, Numbers, FlushTypes, Zenon DEF FlushPCs
    <3> QED
      BY <1>3, <3>1, <3>2 DEF GiveBackRequests, MetricsInv, MetricsTypes
  <2>3. FlushPart'
    BY <1>3, <2>1 DEF GiveBackRequests, MetricsInv, FlushPart
  <2>4. SumPart'
    BY <1>3, <2>1, Numbers, SameBetween DEF GiveBackRequests, MetricsInv, SumPart
  <2> QED
    BY <2>2, <2>3, <2>4 DEF MetricsInv
<1>4. CASE GiveBackHits
  <2>1. flusher'.pc = "idle" /\ flusher'.requests = 0 /\ flusher'.hits = 0
    BY <1>4, Fields DEF GiveBackHits, NoFlush
  <2>2. flusher.requests = 0
    BY <1>4 DEF GiveBackHits, MetricsInv, FlushPart
  <2>3. MetricsTypes'
    <3>1. hits' \in Nat
      BY <1>4, Numbers DEF GiveBackHits
    <3> QED
      BY <1>4, <3>1, FlushTypes, Zenon DEF FlushPCs, GiveBackHits, NoFlush, MetricsInv, MetricsTypes
  <2>4. FlushPart'
    BY <1>4, <2>1 DEF GiveBackHits, MetricsInv, FlushPart
  <2>5. SumPart'
    BY <1>4, <2>1, <2>2, Numbers, SameBetween DEF GiveBackHits, MetricsInv, SumPart
  <2> QED
    BY <2>3, <2>4, <2>5 DEF MetricsInv
<1> QED
  BY <1>1, <1>2, <1>3, <1>4

\* The invariant of the metrics, for any number of threads and records.
THEOREM MetricsInvariant == MetricsSpec => []MetricsInv
<1>1. MetricsInv /\ [MetricsNext]_metricsVars => MetricsInv'
  <2> SUFFICES ASSUME MetricsInv, [MetricsNext]_metricsVars PROVE MetricsInv'
    OBVIOUS
  <2>1. CASE StopMetrics
    BY <2>1, SameBetween DEF StopMetrics, MetricsInv, MetricsTypes, FlushPart, SumPart
  <2>2. CASE UNCHANGED metricsVars
    BY <2>2, SameBetween DEF metricsVars, MetricsInv, MetricsTypes, FlushPart, SumPart
  <2> QED
    BY <2>1, <2>2, RecordRequestInv, RecordHitInv, FlushInv, PersistInv DEF MetricsNext
<1> QED
  BY <1>1, MetricsInitInv, PTL DEF MetricsSpec

\* No request that was recorded is lost or counted twice by the flushes.
THEOREM MetricsNoRequestLost == MetricsSpec => []NoRequestLost
<1>1. MetricsInv => NoRequestLost
  BY DEF MetricsInv, SumPart, NoRequestLost
<1> QED
  BY <1>1, MetricsInvariant, PTL

\* The rows of cache_metrics_snapshots never have more hits than requests.
THEOREM MetricsHitsWithinRequests == MetricsSpec => []HitsWithinRequests
<1>1. MetricsInv => HitsWithinRequests
  BY DEF MetricsInv, FlushPart, HitsWithinRequests
<1> QED
  BY <1>1, MetricsInvariant, PTL
=============================================================================
