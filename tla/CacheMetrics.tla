---------------------------- MODULE CacheMetrics ----------------------------
(***************************************************************************)
(* The cache metrics of oj_server: RecordCacheMetrics (model_base.hpp)     *)
(* adds to atomic counters, and FlushCacheMetrics (oj_model.hpp) moves     *)
(* them to MySQL, from a thread and, after that thread has ended, from     *)
(* StopMetricsFlushWorker.  Every operation on an atomic is one action.    *)
(* requests stands for total_requests and hits for the three counters that *)
(* are added after it and taken before it.                                 *)
(***************************************************************************)
EXTENDS Naturals, FiniteSets

CONSTANTS
  Recorders,    \* the threads that record
  MaxRecords    \* bound: calls of RecordCacheMetrics

ASSUME RecordersFinite == IsFiniteSet(Recorders)

VARIABLES
  requests, hits,   \* the atomic counters
  recorder,         \* recorder[r]: "hit" between its two additions
  flusher,          \* where the flush is, and what it has taken
  saved,            \* the sums over cache_metrics_snapshots
  recorded,         \* history: additions to requests and to hits
  ending            \* progress of StopMetricsFlushWorker

metricsVars == <<requests, hits, recorder, flusher, saved, recorded, ending>>

Pair(r, h) == [requests |-> r, hits |-> h]
Flush(pc, r, h) == [pc |-> pc, requests |-> r, hits |-> h]
NoFlush == Flush("idle", 0, 0)

MetricsInit ==
  /\ requests = 0 /\ hits = 0
  /\ recorder = [r \in Recorders |-> "idle"]
  /\ flusher = NoFlush
  /\ saved = Pair(0, 0)
  /\ recorded = Pair(0, 0)
  /\ ending = "no"

-----------------------------------------------------------------------------
\* RecordCacheMetrics: the request, and then whether it was a hit.
RecordRequest(r) ==
  /\ recorder[r] = "idle" /\ recorded.requests < MaxRecords /\ ending = "no"
  /\ requests' = requests + 1
  /\ recorded' = Pair(recorded.requests + 1, recorded.hits)
  /\ recorder' = [recorder EXCEPT ![r] = "hit"]
  /\ UNCHANGED <<hits, flusher, saved, ending>>

RecordHit(r) ==
  /\ recorder[r] = "hit"
  /\ \E n \in 0 .. 1 : /\ hits' = hits + n
                       /\ recorded' = Pair(recorded.requests, recorded.hits + n)
  /\ recorder' = [recorder EXCEPT ![r] = "idle"]
  /\ UNCHANGED <<requests, flusher, saved, ending>>

-----------------------------------------------------------------------------
\* A flush that takes the requests before the hits.
BugTakeOrder == <<"requests", "hits">>

TakeOrder == <<"hits", "requests">>

Taken(counter, pc) ==
  /\ flusher' = IF counter = "hits" THEN Flush(pc, flusher.requests, hits)
                ELSE Flush(pc, requests, flusher.hits)
  /\ requests' = IF counter = "requests" THEN 0 ELSE requests
  /\ hits' = IF counter = "hits" THEN 0 ELSE hits

\* FlushCacheMetrics by the thread, or by StopMetricsFlushWorker after its join:
\* two exchanges,
FlushFirst ==
  /\ flusher.pc = "idle" /\ ending # "done"
  /\ Taken(TakeOrder[1], "second")
  /\ UNCHANGED <<recorder, saved, recorded, ending>>

FlushSecond ==
  /\ flusher.pc = "second"
  /\ Taken(TakeOrder[2], "persist")
  /\ UNCHANGED <<recorder, saved, recorded, ending>>

\* a row, unless there is nothing to write,
Persist ==
  /\ flusher.pc = "persist"
  /\ saved' = Pair(saved.requests + flusher.requests, saved.hits + flusher.hits)
  /\ flusher' = NoFlush
  /\ ending' = IF ending = "last" THEN "done" ELSE ending
  /\ UNCHANGED <<requests, hits, recorder, recorded>>

AfterFailure(f) == Flush("back", f.requests, f.hits)

\* or, when the insert fails, the counters get back what was taken.
PersistFails ==
  /\ flusher.pc = "persist" /\ (flusher.requests # 0 \/ flusher.hits # 0)
  /\ flusher' = AfterFailure(flusher)
  /\ UNCHANGED <<requests, hits, recorder, saved, recorded, ending>>

GiveBackRequests ==
  /\ flusher.pc = "back"
  /\ requests' = requests + flusher.requests
  /\ flusher' = Flush("backHits", 0, flusher.hits)
  /\ UNCHANGED <<hits, recorder, saved, recorded, ending>>

GiveBackHits ==
  /\ flusher.pc = "backHits"
  /\ hits' = hits + flusher.hits
  /\ flusher' = NoFlush
  /\ ending' = IF ending = "last" THEN "done" ELSE ending
  /\ UNCHANGED <<requests, recorder, saved, recorded>>

\* StopMetricsFlushWorker, called when the executor has stopped: it joins the
\* thread and flushes once more.
StopMetrics ==
  /\ ending = "no" /\ flusher.pc = "idle"
  /\ \A r \in Recorders : recorder[r] = "idle"
  /\ ending' = "last"
  /\ UNCHANGED <<requests, hits, recorder, flusher, saved, recorded>>

MetricsNext ==
  \/ \E r \in Recorders : RecordRequest(r) \/ RecordHit(r)
  \/ FlushFirst \/ FlushSecond \/ Persist \/ PersistFails \/ GiveBackRequests \/ GiveBackHits
  \/ StopMetrics

MetricsSpec == MetricsInit /\ [][MetricsNext]_metricsVars

-----------------------------------------------------------------------------
\* Nothing recorded is lost or written twice, however flushes, failed inserts
\* and the last flush of StopMetricsFlushWorker mix with the recorders.
NoRequestLost == saved.requests + requests + flusher.requests = recorded.requests

\* The rows never claim more hits than requests: hits are added after and taken
\* before the request they belong to.
HitsWithinRequests == saved.hits <= saved.requests
=============================================================================
