----------------------------- MODULE MCJudgeLive -----------------------------
(***************************************************************************)
(* What must eventually happen in the judge service: a published message   *)
(* is judged, and the event loop finishes its tasks and stops.  The two    *)
(* models share no state: part, chosen at the start, names the one a       *)
(* behaviour is about and the other stays as it starts.                    *)
(***************************************************************************)
EXTENDS JudgePipeline

CONSTANTS Tasks, Owners, IoThreads, NoTask, Calls

VARIABLES entry, co, hasCb, called, ready, ioQueue, owner, io, stop, stopOwners, part

loopVars == <<entry, co, hasCb, called, ready, ioQueue, owner, io, stop, stopOwners>>

Loop == INSTANCE JudgeEventLoop

LiveInit ==
  /\ part \in {"loop", "pipeline"}
  /\ Init /\ Loop!Init
  /\ part # "loop" => \A t \in Tasks : co[t].left = 0

LiveNext ==
  /\ UNCHANGED part
  /\ \/ part = "loop" /\ Loop!Next /\ UNCHANGED vars
     \/ part = "pipeline" /\ Next /\ UNCHANGED loopVars

\* Threads run and Docker calls return (each has a timeout); nodes work, delays
\* and leases run out.
LiveFairness ==
  /\ \A o \in Owners : WF_loopVars(part = "loop" /\ Loop!OwnerStep(o))
  /\ \A w \in IoThreads : WF_loopVars(part = "loop" /\ Loop!IoStep(w))
  /\ WF_loopVars(part = "loop" /\ Loop!StopStep)
  /\ \A n \in Nodes : WF_vars(part = "pipeline" /\ Work(n))
  /\ \A k \in Copies : WF_vars(part = "pipeline" /\ DelayOver(k))
  /\ WF_vars(part = "pipeline" /\ LeaseExpires)

LiveSpec == LiveInit /\ [][LiveNext]_<<vars, loopVars, part>> /\ LiveFairness

\* JudgeEventLoop's liveness: every task PushNewTask accepts gets its callback.
CallbackRuns == Loop!CallbackRuns

\* JudgeEventLoop's Stop returns, unless its notification was missed.
StopReturnsOrMisses == Loop!StopReturnsOrMisses
=============================================================================
