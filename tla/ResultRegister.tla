--------------------------- MODULE ResultRegister ---------------------------
(***************************************************************************)
(* What the judge inbox promises to the rest of the judge service: for     *)
(* every message a register that is decided at most once, and reports that *)
(* only ever carry the decided result.  The register is forgotten when the *)
(* completed key reaches its time to live.                                 *)
(***************************************************************************)
CONSTANTS Messages, Results, None

VARIABLES
  decided,    \* decided[m]: the one result of m, or None
  reported    \* reported[m]: results handed to the business service

vars == <<decided, reported>>

Init ==
  /\ decided = [m \in Messages |-> None]
  /\ reported = [m \in Messages |-> {}]

Decide(m, r) ==
  /\ decided[m] = None
  /\ decided' = [decided EXCEPT ![m] = r]
  /\ UNCHANGED reported

Report(m) ==
  /\ decided[m] # None
  /\ reported' = [reported EXCEPT ![m] = @ \cup {decided[m]}]
  /\ UNCHANGED decided

Forget(m) ==
  /\ decided[m] # None
  /\ decided' = [decided EXCEPT ![m] = None]
  /\ reported' = [reported EXCEPT ![m] = {}]

Next ==
  \E m \in Messages :
    \/ \E r \in Results : Decide(m, r)
    \/ Report(m)
    \/ Forget(m)

Spec == Init /\ [][Next]_vars
=============================================================================
