---------------------------- MODULE InboxScripts ----------------------------
(***************************************************************************)
(* The two Lua scripts of JudgeInbox (judge_inbox.hpp), as operators on    *)
(* the Redis hash of one message.  Redis runs a script atomically, so a    *)
(* script is one reply and one effect on the hash.                         *)
(*                                                                         *)
(* Time is abstracted to what the scripts compare it with: "leased" stands *)
(* for lease_until > now.  A field removed by HDEL is None (0 for the      *)
(* owner token; real tokens are positive).                                 *)
(***************************************************************************)
EXTENDS Naturals

CONSTANTS
  Bodies,    \* message bodies; equal bodies have equal SHA-256 fingerprints
  Results,   \* serialized JudgeResult payloads
  None       \* an absent field

ASSUME NoneIsNoValue == None \notin Bodies \cup Results

HashType ==
  [state : {"none", "processing", "completed"},
   fingerprint : Bodies \cup {None},
   owner : Nat,
   leased : BOOLEAN,
   result : Results \cup {None}]

Hash(state, fp, owner, leased, result) ==
  [state |-> state, fingerprint |-> fp, owner |-> owner,
   leased |-> leased, result |-> result]

NoHash == Hash("none", None, 0, FALSE, None)

\* The hash once the clock has passed lease_until.
LeaseOver(h) == Hash(h.state, h.fingerprint, h.owner, FALSE, h.result)

-----------------------------------------------------------------------------
\* A claim that forgets to compare the lease with the clock.
BugClaimIgnoresLease(h, fp) ==
  IF h.state = "completed" THEN "COMPLETED" ELSE "STARTED"

\* A claim that re-opens a completed message.
BugClaimReopens(h, fp) ==
  IF h.state = "processing" /\ h.leased THEN "PROCESSING" ELSE "STARTED"

\* A claim that never takes over from a holder whose lease has run out.
BugNoTakeover(h, fp) ==
  IF h.state = "none" THEN "STARTED"
  ELSE IF h.state = "completed" THEN "COMPLETED" ELSE "PROCESSING"

\* What ClaimScript returns.
ClaimReply(h, fp) ==
  IF h.state = "none" THEN "STARTED"
  ELSE IF h.fingerprint # fp THEN "CONFLICT"
  ELSE IF h.state = "completed" THEN "COMPLETED"
  ELSE IF h.leased THEN "PROCESSING" ELSE "STARTED"

\* What ClaimScript leaves in the hash: HSET, HDEL result, PEXPIRE.
ClaimEffect(h, fp, token) ==
  IF ClaimReply(h, fp) = "STARTED"
  THEN Hash("processing", fp, token, TRUE, None)
  ELSE h

\* A completion that does not look at the owner token.
BugCompleteIgnoresOwner(h, fp, token, result) ==
  IF h.state = "none" THEN "NOT_OWNER" ELSE "COMPLETED"

\* What CompleteScript returns.
CompleteReply(h, fp, token, result) ==
  IF h.state = "none" THEN "NOT_OWNER"
  ELSE IF h.fingerprint # fp THEN "CONFLICT"
  ELSE IF \/ h.state = "completed" /\ h.result = result
          \/ h.state = "processing" /\ h.owner = token /\ h.leased
       THEN "COMPLETED" ELSE "NOT_OWNER"

\* What CompleteScript leaves in the hash: HSET, HDEL owner and lease, PEXPIRE.
CompleteEffect(h, fp, token, result) ==
  IF h.state = "processing" /\ CompleteReply(h, fp, token, result) = "COMPLETED"
  THEN Hash("completed", fp, 0, FALSE, result)
  ELSE h
=============================================================================
