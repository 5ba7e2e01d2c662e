--------------------------- MODULE ConnectionPool ---------------------------
(***************************************************************************)
(* ODBConnectionPool (connection_pool.hpp) and the ModelContext that       *)
(* starts and stops it (model_context.hpp, model_base.hpp).  Every section *)
(* under _mtx is one action, with the notification that follows it.  A     *)
(* thread that waits on _cv sleeps until it is notified, and looks again.  *)
(* ModelContext::_mutex is held by a stop from beginning to end; a start   *)
(* holds it, and _mtx, over everything it does.                            *)
(***************************************************************************)
EXTENDS Naturals, FiniteSets

CONSTANTS
  Threads,          \* the threads that use the database
  MinConnections, MaxConnections,
  MaxStops          \* bound: calls of StopDatabase

\* Init throws otherwise.
ASSUME PoolConfig ==
  /\ IsFiniteSet(Threads)
  /\ MinConnections \in Nat /\ MaxConnections \in Nat \ {0}
  /\ MinConnections <= MaxConnections
  /\ MaxStops \in Nat

VARIABLES
  running,   \* _running
  active,    \* _active_count
  idle,      \* the size of _idle_pool
  use,       \* use[t]: where thread t is between two uses of the database
  health,    \* the health check thread exists
  started,   \* ModelContext::_started
  stopper,   \* where ModelContext::Stop is
  stops,     \* calls of Stop so far
  epoch,     \* history: the number of Inits
  conn       \* history: conn[t] is the epoch in which t was given its place

poolVars == <<running, active, idle, use, health, started, stopper, stops, epoch, conn>>

\* The states of a thread that is counted in _active_count.
BusyStates == {"create", "check", "replace", "hold"}
UseStates == {"out", "start", "get", "asleep"} \cup BusyStates

Busy == {t \in Threads : use[t] \in BusyStates}

PoolInit ==
  /\ running = FALSE /\ active = 0 /\ idle = 0
  /\ use = [t \in Threads |-> "out"]
  /\ health = FALSE
  /\ started = FALSE
  /\ stopper = "none" /\ stops = 0
  /\ epoch = 0
  /\ conn = [t \in Threads |-> 0]

\* _cv.notify_all(), after t has moved to state s.
Notified(t, s) ==
  [x \in Threads |-> IF x = t THEN s ELSE IF use[x] = "asleep" THEN "get" ELSE use[x]]

AllNotified == [x \in Threads |-> IF use[x] = "asleep" THEN "get" ELSE use[x]]

-----------------------------------------------------------------------------
\* AcquireDatabase: EnsureDatabaseStarted looks at _started without a lock.
Acquire(t) ==
  /\ use[t] = "out"
  /\ use' = [use EXCEPT ![t] = IF started THEN "get" ELSE "start"]
  /\ UNCHANGED <<running, active, idle, health, started, stopper, stops, epoch, conn>>

\* Init throws while connections are checked out.
MayInit == active = 0

\* ModelContext::Start with Init inside: some of the first connections may fail
\* to open; Init may throw (or the monitor not start), and then nothing has
\* changed.  Whatever Start returns, the thread goes on to GetDatabase.
ContextStart(t) ==
  /\ use[t] = "start" /\ stopper = "none"
  /\ use' = [use EXCEPT ![t] = "get"]
  /\ \/ /\ ~started /\ MayInit
        /\ started' = TRUE /\ running' = TRUE /\ health' = TRUE
        /\ \E n \in 0 .. MinConnections : idle' = idle + n
        /\ epoch' = epoch + 1
     \/ UNCHANGED <<started, running, health, idle, epoch>>
  /\ UNCHANGED <<active, stopper, stops, conn>>

Available == idle > 0 \/ active < MaxConnections

IdleAfterTake == IF idle = 0 THEN 0 ELSE idle - 1

\* GetDatabase up to the first unlock: nullptr, a reservation, an idle
\* connection, or back to sleep.
GetDatabase(t) ==
  /\ use[t] = "get"
  /\ \/ /\ ~running
        /\ use' = [use EXCEPT ![t] = "out"]
        /\ UNCHANGED <<active, idle, conn>>
     \/ /\ running /\ ~Available
        /\ use' = [use EXCEPT ![t] = "asleep"]
        /\ UNCHANGED <<active, idle, conn>>
     \/ /\ running /\ Available
        /\ use' = [use EXCEPT ![t] = IF idle = 0 THEN "create" ELSE "check"]
        /\ idle' = IdleAfterTake
        /\ active' = active + 1
        /\ conn' = [conn EXCEPT ![t] = epoch]
  /\ UNCHANGED <<running, health, started, stopper, stops, epoch>>

\* FinishCheckout, after the connection was opened or found healthy.
FinishCheckout(t) ==
  /\ use[t] \in {"create", "check", "replace"}
  /\ IF running
     THEN use' = [use EXCEPT ![t] = "hold"] /\ UNCHANGED active
     ELSE use' = Notified(t, "out") /\ active' = active - 1
  /\ UNCHANGED <<running, idle, health, started, stopper, stops, epoch, conn>>

\* The health check fails: give up when the pool is stopping, else open another.
CheckFails(t) ==
  /\ use[t] = "check"
  /\ IF running
     THEN use' = [use EXCEPT ![t] = "replace"] /\ UNCHANGED active
     ELSE use' = Notified(t, "out") /\ active' = active - 1
  /\ UNCHANGED <<running, idle, health, started, stopper, stops, epoch, conn>>

\* A ReleaseReservation that wakes nobody.
BugAfterRelease(t) == [use EXCEPT ![t] = "out"]

\* ReleaseReservation notifies.
AfterRelease(t) == Notified(t, "out")

\* Opening a connection fails; the exception goes to the caller.
ReleaseReservation(t) ==
  /\ use[t] \in {"create", "replace"}
  /\ use' = AfterRelease(t)
  /\ active' = active - 1
  /\ UNCHANGED <<running, idle, health, started, stopper, stops, epoch, conn>>

ActiveAfterReturn == active - 1

\* ReturnDatabase, from the destructor of ScopedDB.
ReturnDatabase(t) ==
  /\ use[t] = "hold"
  /\ IF active = 0
     THEN use' = [use EXCEPT ![t] = "out"] /\ UNCHANGED <<active, idle>>
     ELSE /\ use' = Notified(t, "out")
          /\ active' = ActiveAfterReturn
          /\ idle' = IF running THEN idle + 1 ELSE idle
  /\ UNCHANGED <<running, health, started, stopper, stops, epoch, conn>>

-----------------------------------------------------------------------------
\* HealthCheckLoop closes idle connections that are too old, and keeps
\* MinConnections of them ...
HealthCheck ==
  /\ health /\ running
  /\ idle' \in {n \in 0 .. idle : n < idle /\ MinConnections <= n}
  /\ UNCHANGED <<running, active, use, health, started, stopper, stops, epoch, conn>>

\* ... until the pool stops.
HealthExit ==
  /\ health /\ ~running
  /\ health' = FALSE
  /\ UNCHANGED <<running, active, idle, use, started, stopper, stops, epoch, conn>>

\* ModelContext::Stop: _started first,
StopDatabase ==
  /\ stopper = "none" /\ started /\ stops < MaxStops
  /\ stops' = stops + 1
  /\ started' = FALSE
  /\ stopper' = "shutdown"
  /\ UNCHANGED <<running, active, idle, use, health, epoch, conn>>

\* then Shutdown: _running and the notification,
ShutdownBegin ==
  /\ stopper = "shutdown"
  /\ running' = FALSE
  /\ use' = AllNotified
  /\ stopper' = "join"
  /\ UNCHANGED <<active, idle, health, started, stops, epoch, conn>>

\* the health check thread is joined and the idle connections are closed,
ShutdownEnd ==
  /\ stopper = "join" /\ ~health
  /\ idle' = 0
  /\ stopper' = "wait"
  /\ UNCHANGED <<running, active, use, health, started, stops, epoch, conn>>

\* then up to 30 seconds for the connections that are out.
StopReturns ==
  /\ stopper = "wait"
  /\ active = 0
  /\ stopper' = "none"
  /\ UNCHANGED <<running, active, idle, use, health, started, stops, epoch, conn>>

StopTimesOut ==
  /\ stopper = "wait"
  /\ active # 0
  /\ stopper' = "none"
  /\ UNCHANGED <<running, active, idle, use, health, started, stops, epoch, conn>>

UseStep(t) ==
  \/ ContextStart(t) \/ GetDatabase(t) \/ FinishCheckout(t) \/ CheckFails(t)
  \/ ReleaseReservation(t) \/ ReturnDatabase(t)

StopStep == HealthExit \/ ShutdownBegin \/ ShutdownEnd \/ StopReturns \/ StopTimesOut

PoolNext ==
  \/ \E t \in Threads : Acquire(t) \/ UseStep(t)
  \/ HealthCheck \/ StopDatabase \/ StopStep

PoolSpec == PoolInit /\ [][PoolNext]_poolVars

-----------------------------------------------------------------------------
PoolTypeOK ==
  /\ running \in BOOLEAN /\ health \in BOOLEAN /\ started \in BOOLEAN
  /\ active \in Nat /\ idle \in Nat
  /\ use \in [Threads -> UseStates]
  /\ stopper \in {"none", "shutdown", "join", "wait"}
  /\ stops \in 0 .. MaxStops
  /\ epoch \in Nat /\ conn \in [Threads -> Nat]

\* The pool never has more connections than max_connections, open or being
\* opened, although GetDatabase opens and checks them outside the lock.
WithinLimit == active + idle <= MaxConnections

\* _active_count is the number of threads that have a connection or a place for
\* one: no path through GetDatabase, an exception or a stop included, forgets to
\* give its place back or gives it back twice.
ActiveIsBusy == active = Cardinality(Busy)

\* No lost wakeup: a thread sleeps in GetDatabase only while the pool is running
\* and neither an idle connection nor room for a new one exists.
SleepersMustWait == \A t \in Threads : use[t] = "asleep" => running /\ ~Available

\* A restart never finds connections of the time before the stop: whoever has a
\* place while the pool runs got it since the last Init, also when the stop ran
\* into its 30 seconds.
NoConnectionSurvivesRestart == running => \A t \in Busy : conn[t] = epoch

\* Where _started, _running and the stop of ModelContext stand to each other:
\* nobody starts the pool while it is being stopped, and a stopped pool is empty.
Lifecycle ==
  /\ started => running /\ stopper = "none"
  /\ ~started /\ stopper = "none" => ~running /\ idle = 0
  /\ stopper = "shutdown" => running
  /\ stopper \in {"join", "wait"} => ~running
  /\ stopper = "wait" => idle = 0

\* The inductive invariant of ConnectionPoolProofs.
PoolInv ==
  /\ PoolTypeOK /\ Lifecycle /\ WithinLimit /\ ActiveIsBusy
  /\ SleepersMustWait /\ NoConnectionSurvivesRestart
=============================================================================
