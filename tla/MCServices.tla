----------------------------- MODULE MCServices -----------------------------
(***************************************************************************)
(* The components of the server processes that share no state with each    *)
(* other, each on an instance of its own: part, chosen at the start, names *)
(* the component a behaviour is about; the others stay as they start.  The *)
(* state space is the sum of theirs, not the product.                      *)
(***************************************************************************)
EXTENDS BusinessExecutor, ConnectionPool, AdminProcess, CacheMetrics,
        ContentCache, CustomTests, Sessions, MQProducer

VARIABLE part

serviceVars == <<vars, poolVars, adminVars, metricsVars, cacheVars, taskVars,
                 sessionVars, producerVars, part>>

\* Where a component starts in one of several states, the ones that are not the
\* part are kept to one of them.
ServicesInit ==
  /\ part \in {"executor", "pool", "admin", "metrics", "cache", "tasks",
               "sessions", "producer"}
  /\ Init /\ PoolInit /\ AdminInit /\ MetricsInit /\ CacheInit
  /\ TasksInit /\ SessionsInit /\ ProducerInit
  /\ part # "cache" => subject = "record"
  /\ part # "tasks" => taskKind = "guest"

\* Every component but p stands still.
Only(p) ==
  /\ part = p /\ UNCHANGED part
  /\ p # "executor" => UNCHANGED vars
  /\ p # "pool" => UNCHANGED poolVars
  /\ p # "admin" => UNCHANGED adminVars
  /\ p # "metrics" => UNCHANGED metricsVars
  /\ p # "cache" => UNCHANGED cacheVars
  /\ p # "tasks" => UNCHANGED taskVars
  /\ p # "sessions" => UNCHANGED sessionVars
  /\ p # "producer" => UNCHANGED producerVars

ServicesNext ==
  \/ Only("executor") /\ Next
  \/ Only("pool") /\ PoolNext
  \/ Only("admin") /\ AdminNext
  \/ Only("metrics") /\ MetricsNext
  \/ Only("cache") /\ CacheNext
  \/ Only("tasks") /\ TasksNext
  \/ Only("sessions") /\ SessionsNext
  \/ Only("producer") /\ ProducerNext

\* Threads run and business code returns; a request that talks to Redis runs to
\* its end and time passes; a judge node repeats a callback until it is
\* answered.
ServicesFairness ==
  /\ WF_vars(part = "executor" /\ LifecycleStep)
  /\ \A r \in Requests : WF_vars(part = "executor" /\ RequestStep(r))
  /\ \A w \in Workers : WF_vars(part = "executor" /\ WorkerStep(w))
  /\ WF_adminVars(part = "admin" /\ AuditorStep)
  /\ WF_adminVars(part = "admin" /\ ShutdownStep)
  /\ \A w \in Writers : WF_cacheVars(part = "cache" /\ CacheCall(w))
  /\ \A r \in Readers : WF_cacheVars(part = "cache" /\ ReaderStep(r))
  /\ \A k \in EntryKeys \cup {"list"} : WF_cacheVars(part = "cache" /\ Expire(k))
  /\ \A j \in Reporters : WF_taskVars(part = "tasks" /\ CallbackStep(j))

ServicesSpec == ServicesInit /\ [][ServicesNext]_serviceVars /\ ServicesFairness
=============================================================================
