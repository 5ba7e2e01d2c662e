-------------------------- MODULE MCJudgeEventLoop --------------------------
(***************************************************************************)
(* The event loop and the coroutine it runs, each on an instance of its    *)
(* own: part, chosen at the start, names the one a behaviour is about and  *)
(* the other stays as it starts.                                           *)
(* Two owners, so that one can look at an entry another one is running,    *)
(* and two tasks, so that a cancelled one queues behind a live one.  Two   *)
(* Docker calls let a coroutine be resumed and refused by another owner    *)
(* than the one that submitted its first call.                             *)
(* Three tests, so that a failed one has tests before and after it, and    *)
(* two faults, so that a second one meets the recovery from the first.     *)
(***************************************************************************)
EXTENDS JudgeEventLoop, Judger, TLC

VARIABLE part

LoopInit ==
  /\ part \in {"loop", "judger"}
  /\ Init /\ JudgerInit
  /\ part # "loop" => \A t \in Tasks : co[t].left = 0
  /\ part # "judger" => task = [tests |-> 1, compares |-> TRUE]

LoopNext ==
  /\ UNCHANGED part
  /\ \/ part = "loop" /\ Next /\ UNCHANGED judgerVars
     \/ part = "judger" /\ JudgerNext /\ UNCHANGED vars

LoopSpec == LoopInit /\ [][LoopNext]_<<vars, judgerVars, part>>

Symmetry == Permutations(Owners) \cup Permutations(IoThreads)
=============================================================================
