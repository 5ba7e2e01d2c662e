------------------------------ MODULE Sessions ------------------------------
(***************************************************************************)
(* One login session in Redis and in the fallback maps of the processes    *)
(* that serve it (oj_session.hpp).  Inside a process _mtx lets one         *)
(* operation run at a time; between processes the Redis commands of an     *)
(* operation interleave.  Any command may fail.                            *)
(***************************************************************************)
CONSTANT Managers   \* the SessionManagers, one per process

VARIABLES
  hash,       \* the key of the session: "none", "full", or "partial" (one field)
  local,      \* local[p]: _sessions of p has it
  call,       \* call[p]: where the operation of p is
  created,    \* the cookie was handed out
  destroyed   \* history: a DestroySession has returned true

sessionVars == <<hash, local, call, created, destroyed>>

\* after: the operation began when the session had been destroyed.
Call(pc, after) == [pc |-> pc, after |-> after]
NoCall == Call("idle", FALSE)

SessionsInit ==
  /\ hash = "none" /\ local = [p \in Managers |-> FALSE]
  /\ call = [p \in Managers |-> NoCall]
  /\ created = FALSE /\ destroyed = FALSE

Goto(p, pc) == call' = [call EXCEPT ![p] = Call(pc, @.after)]

Done(p) == call' = [call EXCEPT ![p] = NoCall]

-----------------------------------------------------------------------------
\* CreateSession: HMSET ...
CreateSet(p) ==
  /\ ~created /\ \A q \in Managers : call[q] = NoCall
  /\ \/ /\ hash' = "full" /\ Goto(p, "create")
        /\ UNCHANGED <<local, created>>
     \/ /\ local' = [local EXCEPT ![p] = TRUE]
        /\ created' = TRUE
        /\ UNCHANGED <<hash, call>>
  /\ UNCHANGED destroyed

\* ... and EXPIRE; after an error the session is in the map of p as well.
CreateExpire(p) ==
  /\ call[p].pc = "create"
  /\ local' \in {local, [local EXCEPT ![p] = TRUE]}
  /\ created' = TRUE
  /\ Done(p)
  /\ UNCHANGED <<hash, destroyed>>

-----------------------------------------------------------------------------
\* A reader that takes any hash.
BugValidHash == hash # "none"

\* GetSessionFromRedis takes a hash with exactly the five fields.
ValidHash == hash = "full"

\* The map after an error of Redis: the session may have become too old.
Fallback(p) == local' \in {local, [local EXCEPT ![p] = FALSE]}

\* GetSession: HGETALL.  A miss is authoritative and clears the map; an error
\* falls back to the map.
ReadSession(p) ==
  /\ created /\ call[p] = NoCall
  /\ \/ /\ ValidHash
        /\ call' = [call EXCEPT ![p] = Call("renew", destroyed)]
        /\ UNCHANGED local
     \/ /\ ~ValidHash
        /\ local' = [local EXCEPT ![p] = FALSE]
        /\ UNCHANGED call
     \/ Fallback(p) /\ UNCHANGED call
  /\ UNCHANGED <<hash, created, destroyed>>

\* The renewal: HSET last_access_time, which makes a hash of one field when the
\* key is gone ...
RenewSet(p) ==
  /\ call[p].pc = "renew"
  /\ \/ /\ hash' = IF hash = "none" THEN "partial" ELSE hash
        /\ Goto(p, "expire")
        /\ UNCHANGED local
     \/ Done(p) /\ Fallback(p) /\ UNCHANGED hash
  /\ UNCHANGED <<created, destroyed>>

\* ... and EXPIRE; then the session is returned, from Redis or from the map.
RenewExpire(p) ==
  /\ call[p].pc = "expire"
  /\ Done(p) /\ Fallback(p)
  /\ UNCHANGED <<hash, created, destroyed>>

Reported(deleted) == deleted

\* DestroySession: DEL, and the map of p in any case.
DestroySession(p) ==
  /\ created /\ call[p] = NoCall
  /\ \E deleted \in BOOLEAN :
       /\ hash' = IF deleted THEN "none" ELSE hash
       /\ destroyed' = (destroyed \/ Reported(deleted))
  /\ local' = [local EXCEPT ![p] = FALSE]
  /\ UNCHANGED <<call, created>>

\* SESSION_EXPIRE_SECONDS have passed without a renewal.
SessionExpires ==
  /\ hash # "none"
  /\ hash' = "none"
  /\ UNCHANGED <<local, call, created, destroyed>>

SessionsNext ==
  \/ \E p \in Managers : \/ CreateSet(p) \/ CreateExpire(p)
                         \/ ReadSession(p) \/ RenewSet(p) \/ RenewExpire(p)
                         \/ DestroySession(p)
  \/ SessionExpires

SessionsSpec == SessionsInit /\ [][SessionsNext]_sessionVars

-----------------------------------------------------------------------------
\* After DestroySession has returned true, no GetSession finds the session in
\* Redis, although a renewal by another process may have been under way and
\* written to the deleted key.
LogoutSticks ==
  \A p \in Managers : call[p].pc \in {"renew", "expire"} => ~call[p].after

\* DestroySession returns true only when the session is gone from Redis for good.
DestroyedIsGone == destroyed => hash # "full"
=============================================================================
