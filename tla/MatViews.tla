------------------------------- MODULE MatViews ------------------------------
(***************************************************************************)
(* materialized_views.rs and the part of mongodb.rs that it drives: sensor *)
(* data is inserted at its native resolution, a message announces the data *)
(* set, and a task keeps views of coarser resolution up to date with a     *)
(* limited number of parallel jobs, each building one resolution from the  *)
(* next finer one. The database is external: a document of a view is the   *)
(* set of native points it accounts for, an aggregation is one step.       *)
(***************************************************************************)
EXTENDS Naturals, Sequences, FiniteSets, FiniteSetsExt

CONSTANTS
  DataSets,
  MaxPoint,                               \* the latest time of a native sample
  seconds_per_sample,                     \* of each resolution that is built, finest first
  THRESHOLD_RECEIVE_IDLE, THRESHOLD_REPROCESS, THRESHOLD_STALE,
  max_parallel_tasks, JobCap,
  StartTime, InsertUntil, MaxNow,             \* the clock
  MaxInserts, MaxFailures, MaxClears

Points == 0 .. MaxPoint
NLevels == Len(seconds_per_sample)
Levels == 1 .. NLevels                    \* seconds, minutes, hours

(* A sample of a coarser resolution covers whole samples of the finer one. *)
ASSUME MatAssumption ==
  /\ MaxPoint \in Nat /\ seconds_per_sample \in Seq(Nat \ {0}) /\ seconds_per_sample # <<>>
  /\ \A l \in 1 .. NLevels - 1 : seconds_per_sample[l + 1] % seconds_per_sample[l] = 0
  /\ StartTime \in Nat

Far == MaxNow + 1                         \* a delay of ten minutes

VARIABLES
  now,
  native,      \* per data set: its points
  views,       \* per data set and level: bucket -> the points it accounts for
  unsent,      \* per data set: messages insert_sensordata has still to send
  jobs,        \* the channel of MatViewMsg
  queue,       \* state_map
  tasks,       \* the spawned jobs
  feedback,    \* the channel of finished jobs
  lpc, delay, wakeAt,
  purge,       \* delete_old_sensor_data: the cutoff and the next level
  cutoff, lateFor, missed,   \* history
  inserts, failures, clears

matVars == <<now, native, views, unsent, jobs, queue, tasks, feedback, lpc, delay, wakeAt,
             purge, cutoff, lateFor, missed, inserts, failures, clears>>

Bucket(l, p) == p - (p % seconds_per_sample[l])
Unknown == [known |-> FALSE, start |-> 0, processed |-> 0, received |-> 0, in_progress |-> FALSE]
Documents(ds, l) == {b \in DOMAIN views[ds][l] : views[ds][l][b] # {}}
Empty == [b \in Points |-> {}]

MatInit ==
  /\ now = StartTime
  /\ native = [ds \in DataSets |-> {}] /\ views = [ds \in DataSets |-> [l \in Levels |-> Empty]]
  /\ unsent = [ds \in DataSets |-> 0] /\ jobs = <<>> /\ feedback = <<>>
  /\ queue = [ds \in DataSets |-> Unknown] /\ tasks = {}
  /\ lpc = "select" /\ delay = Far /\ wakeAt = Far
  /\ purge = [level |-> NLevels + 1, cutoff |-> 0] /\ cutoff = 0
  /\ lateFor = [ds \in DataSets |-> {}] /\ missed = {}
  /\ inserts = 0 /\ failures = 0 /\ clears = 0

(* find_latest_timestamp_for_dataset_and_resolution *)
LatestTimestamp(ds, l) == IF Documents(ds, l) = {} THEN 0 ELSE Max(Documents(ds, l))

(* insert_sensordata: the points of a batch, then one message per data set. *)
InsertSensordata(ds, p) ==
  /\ inserts < MaxInserts /\ inserts' = inserts + 1 /\ now <= InsertUntil
  /\ p \notin native[ds] /\ p >= cutoff
  /\ native' = [native EXCEPT ![ds] = @ \cup {p}]
  /\ unsent' = [unsent EXCEPT ![ds] = @ + 1]
  /\ lateFor' = IF \E l \in Levels : Bucket(l, p) < LatestTimestamp(ds, l)
             THEN [lateFor EXCEPT ![ds] = @ \cup {p}] ELSE lateFor
  /\ UNCHANGED <<now, views, jobs, queue, tasks, feedback, lpc, delay, wakeAt, purge, cutoff,
                 missed, failures, clears>>

SendJob(ds) ==
  /\ unsent[ds] > 0 /\ Len(jobs) < JobCap
  /\ unsent' = [unsent EXCEPT ![ds] = @ - 1] /\ jobs' = Append(jobs, ds)
  /\ UNCHANGED <<now, native, views, queue, tasks, feedback, lpc, delay, wakeAt, purge, cutoff,
                 lateFor, missed, inserts, failures, clears>>

-----------------------------------------------------------------------------
(* MatViewState and MatViewQueue *)

(* Mutant: a set is up to date as soon as it was processed after the last message arrived *)
(* or at any time before.                                                                 *)
AlreadyUpToDateOnce(s) == s.processed > 0

AlreadyUpToDate(s) == s.received + THRESHOLD_RECEIVE_IDLE <= s.processed

(* MatViewState::process_at, for a state that is neither busy nor up to date *)
Deadline(s) ==
  Max({Min({s.received + THRESHOLD_RECEIVE_IDLE, s.start + THRESHOLD_REPROCESS}),
       s.processed + THRESHOLD_REPROCESS})

(* Mutant: a set that is being processed is looked at again. *)
WaitingAlsoBusy == {ds \in DataSets : queue[ds].known /\ ~AlreadyUpToDate(queue[ds])}

WaitingSets == {ds \in DataSets : queue[ds].known /\ ~queue[ds].in_progress /\ ~AlreadyUpToDate(queue[ds])}

Stale == {ds \in DataSets : /\ queue[ds].known /\ ~queue[ds].in_progress
                            /\ AlreadyUpToDate(queue[ds])
                            /\ now - queue[ds].received > THRESHOLD_STALE}

WithoutStale == [ds \in DataSets |-> IF ds \in Stale THEN Unknown ELSE queue[ds]]

(* update_last_received *)
LastReceived(s) ==
  IF ~s.known
  THEN [known |-> TRUE, start |-> now, processed |-> 0, received |-> now, in_progress |-> FALSE]
  ELSE [s EXCEPT !.start = IF ~s.in_progress /\ AlreadyUpToDate(s) THEN now ELSE @, !.received = now]

-----------------------------------------------------------------------------
(* materialized_views_task *)

ReceiveJob ==
  /\ lpc = "select" /\ jobs # <<>>
  /\ jobs' = Tail(jobs) /\ lpc' = "fill"
  /\ queue' = [queue EXCEPT ![Head(jobs)] = LastReceived(@)]
  /\ UNCHANGED <<now, native, views, unsent, tasks, feedback, delay, wakeAt, purge, cutoff,
                 lateFor, missed, inserts, failures, clears>>

(* mark_done *)
ReceiveFeedback ==
  /\ lpc = "select" /\ feedback # <<>>
  /\ feedback' = Tail(feedback) /\ lpc' = "fill"
  /\ queue' = [queue EXCEPT ![Head(feedback)].in_progress = FALSE]
  /\ UNCHANGED <<now, native, views, unsent, jobs, tasks, delay, wakeAt, purge, cutoff,
                 lateFor, missed, inserts, failures, clears>>

Sleep ==
  /\ lpc = "select" /\ now >= wakeAt /\ lpc' = "fill"
  /\ UNCHANGED <<now, native, views, unsent, jobs, queue, tasks, feedback, delay, wakeAt, purge,
                 cutoff, lateFor, missed, inserts, failures, clears>>

(* StopViews: a shutdown ends the loop; the jobs that run are waited for. *)
StopViews ==
  /\ lpc = "select" /\ inserts = MaxInserts /\ clears = MaxClears /\ lpc' = "exit"
  /\ UNCHANGED <<now, native, views, unsent, jobs, queue, tasks, feedback, delay, wakeAt, purge,
                 cutoff, lateFor, missed, inserts, failures, clears>>

Permits == max_parallel_tasks - Cardinality({t \in tasks : t.step # "report"})

BackToSelect(d) ==
  /\ lpc' = "select" /\ delay' = d /\ wakeAt' = IF d = Far THEN Far ELSE now + d
  /\ UNCHANGED <<now, native, views, unsent, jobs, tasks, feedback, purge, cutoff,
                 lateFor, missed, inserts, failures, clears>>

NoPermit == /\ lpc = "fill" /\ Permits = 0 /\ BackToSelect(delay) /\ UNCHANGED queue

(* next_to_process found nothing that is due. *)
NotReady ==
  /\ lpc = "fill" /\ Permits > 0
  /\ \A ds \in WaitingSets : Deadline(queue[ds]) > now
  /\ queue' = WithoutStale
  /\ BackToSelect(IF WaitingSets = {} THEN Far ELSE Min({Deadline(queue[ds]) : ds \in WaitingSets}) - now)

(* next_to_process, one of those with the earliest deadline; the job is spawned. *)
Spawn(ds) ==
  /\ lpc = "fill" /\ Permits > 0 /\ ds \in WaitingSets /\ Deadline(queue[ds]) <= now
  /\ \A other \in WaitingSets : Deadline(queue[ds]) <= Deadline(queue[other])
  /\ queue' = [WithoutStale EXCEPT ![ds].in_progress = TRUE, ![ds].processed = now]
  /\ tasks' = tasks \cup {[ds |-> ds, step |-> "build", level |-> 1, failed |-> FALSE,
                           n |-> Cardinality({t \in tasks : t.ds = ds})]}
  /\ UNCHANGED <<now, native, views, unsent, jobs, feedback, lpc, delay, wakeAt, purge, cutoff,
                 lateFor, missed, inserts, failures, clears>>

-----------------------------------------------------------------------------
(* update_materialized_views, in a job *)

(* build_materialized_view_average: the documents of the source from the given time on, *)
(* grouped, replace those of the destination.                                           *)
Source(ds, l, from) ==
  IF l = 1 THEN [p \in Points |-> IF p \in native[ds] /\ p >= from THEN {p} ELSE {}]
  ELSE [b \in Points |-> IF b >= from THEN views[ds][l - 1][b] ELSE {}]

(* Mutant: only documents after the newest view are read. *)
MergedAfter(ds, l) ==
  LET from == LatestTimestamp(ds, l)
      src == Source(ds, l, from + 1)
      found(b) == UNION {src[s] : s \in {x \in Points : Bucket(l, x) = b}}
  IN  [b \in Points |-> IF found(b) # {} THEN found(b) ELSE views[ds][l][b]]

Merged(ds, l) ==
  LET from == LatestTimestamp(ds, l)
      src == Source(ds, l, from)
      found(b) == UNION {src[s] : s \in {x \in Points : Bucket(l, x) = b}}
  IN  [b \in Points |-> IF found(b) # {} THEN found(b) ELSE views[ds][l][b]]

BuildView(t) ==
  /\ t.step = "build"
  /\ views' = [views EXCEPT ![t.ds][t.level] = Merged(t.ds, t.level)]
  /\ tasks' = (tasks \ {t}) \cup
                {[t EXCEPT !.step = IF t.level = NLevels THEN "drop" ELSE @,
                           !.level = IF t.level = NLevels THEN @ ELSE @ + 1]}
  /\ UNCHANGED <<now, native, unsent, jobs, queue, feedback, lpc, delay, wakeAt, purge, cutoff,
                 lateFor, missed, inserts, failures, clears>>

(* An error is logged: the coarser views are not built, nobody tries again. *)
BuildFails(t) ==
  /\ t.step = "build" /\ failures < MaxFailures /\ failures' = failures + 1
  /\ tasks' = (tasks \ {t}) \cup {[t EXCEPT !.step = "drop", !.failed = TRUE]}
  /\ UNCHANGED <<now, native, views, unsent, jobs, queue, feedback, lpc, delay, wakeAt, purge, cutoff,
                 lateFor, missed, inserts, clears>>

DropPermit(t) ==
  /\ t.step = "drop"
  /\ tasks' = (tasks \ {t}) \cup {[t EXCEPT !.step = "report"]}
  /\ missed' = IF t.failed THEN missed \cup {t.ds} ELSE missed \ {t.ds}
  /\ UNCHANGED <<now, native, views, unsent, jobs, queue, feedback, lpc, delay, wakeAt, purge, cutoff,
                 lateFor, inserts, failures, clears>>

(* Mutant: the finished job tells nobody. *)
SendFeedbackLost(t) ==
  /\ t.step = "report" /\ tasks' = tasks \ {t}
  /\ UNCHANGED <<now, native, views, unsent, jobs, queue, feedback, lpc, delay, wakeAt, purge, cutoff,
                 lateFor, missed, inserts, failures, clears>>

SendFeedback(t) ==
  /\ t.step = "report" /\ Len(feedback) < max_parallel_tasks
  /\ tasks' = tasks \ {t} /\ feedback' = IF lpc = "exit" THEN feedback ELSE Append(feedback, t.ds)
  /\ UNCHANGED <<now, native, views, unsent, jobs, queue, lpc, delay, wakeAt, purge, cutoff,
                 lateFor, missed, inserts, failures, clears>>

-----------------------------------------------------------------------------
(* Maintenance, from other tasks of the server *)

(* clear_materialized_views, and the trigger_building_resolutions that follows it *)
ClearMaterializedViews(ds, l, from) ==
  /\ clears < MaxClears /\ clears' = clears + 1 /\ now <= InsertUntil
  /\ views' = [views EXCEPT ![ds][l] = [b \in Points |-> IF b >= from THEN {} ELSE @[b]]]
  /\ unsent' = [unsent EXCEPT ![ds] = @ + 1]
  /\ UNCHANGED <<now, native, jobs, queue, tasks, feedback, lpc, delay, wakeAt, purge, cutoff,
                 lateFor, missed, inserts, failures>>

(* delete_old_sensor_data: the native collection first, then each of the views. *)
DeleteOldStart(c) ==
  /\ clears < MaxClears /\ clears' = clears + 1 /\ purge.level = NLevels + 1
  /\ purge' = [level |-> 1, cutoff |-> c] /\ cutoff' = IF c > cutoff THEN c ELSE cutoff
  /\ native' = [ds \in DataSets |-> {p \in native[ds] : p >= c}]
  /\ UNCHANGED <<now, views, unsent, jobs, queue, tasks, feedback, lpc, delay, wakeAt,
                 lateFor, missed, inserts, failures>>

DeleteOldLevel ==
  /\ purge.level <= NLevels /\ purge' = [purge EXCEPT !.level = @ + 1]
  /\ views' = [ds \in DataSets |-> [views[ds] EXCEPT ![purge.level] =
                 [b \in Points |-> IF b < purge.cutoff THEN {} ELSE @[b]]]]
  /\ UNCHANGED <<now, native, unsent, jobs, queue, tasks, feedback, lpc, delay, wakeAt, cutoff,
                 lateFor, missed, inserts, failures, clears>>

(* Time passes freely while data comes in; after that only when nothing but the sleep of *)
(* the task is left to do, so that the clock need not run on for ever.                   *)
Tick ==
  /\ now < MaxNow
  /\ \/ now < InsertUntil
     \/ /\ lpc = "select" /\ wakeAt # Far /\ wakeAt > now
        /\ jobs = <<>> /\ feedback = <<>> /\ tasks = {} /\ \A ds \in DataSets : unsent[ds] = 0
  /\ now' = now + 1
  /\ UNCHANGED <<native, views, unsent, jobs, queue, tasks, feedback, lpc, delay, wakeAt, purge,
                 cutoff, lateFor, missed, inserts, failures, clears>>

MatTask == \/ ReceiveJob \/ ReceiveFeedback \/ Sleep \/ NoPermit \/ NotReady
           \/ \E ds \in DataSets : Spawn(ds)
MatJob == \E t \in tasks : BuildView(t) \/ DropPermit(t) \/ SendFeedback(t)
MatSend == \E ds \in DataSets : SendJob(ds)

MatNext ==
  \/ MatTask \/ MatJob \/ MatSend \/ Tick \/ StopViews \/ DeleteOldLevel
  \/ \E t \in tasks : BuildFails(t)
  \/ \E ds \in DataSets, p \in Points : InsertSensordata(ds, p)
  \/ \E ds \in DataSets, l \in Levels, p \in Points : ClearMaterializedViews(ds, l, p)
  \/ \E c \in Points \ {0} : DeleteOldStart(c)

MatFairness ==
  /\ WF_matVars(MatTask) /\ WF_matVars(MatJob) /\ WF_matVars(MatSend) /\ WF_matVars(Tick)

MatSpec == MatInit /\ [][MatNext]_matVars /\ MatFairness

-----------------------------------------------------------------------------

(* Points a view can be expected to hold: not older than a view that was already there,  *)
(* and not in a bucket that began before the cutoff.                                     *)
Expected(ds, l) == {p \in native[ds] \ lateFor[ds] : Bucket(l, p) >= cutoff}

HeldByView(ds, l, p) == p \in views[ds][l][Bucket(l, p)]

(* update_materialized_views, "$gte": a view is rebuilt from its newest bucket on, so      *)
(* every older bucket must be complete by then, at every resolution, although data keeps   *)
(* arriving, jobs fail half way and views are cleared between two builds of a job.         *)
ClosedBucketsComplete ==
  \A ds \in DataSets, l \in Levels : \A p \in Expected(ds, l) :
    Bucket(l, p) < LatestTimestamp(ds, l) => HeldByView(ds, l, p)

(* MatViewState.in_progress: two jobs never build the views of one data set at once, *)
(* although a job gives its permit back before it reports that it is done.           *)
OneJobPerDataSet ==
  \A t, u \in tasks : (t.ds = u.ds /\ t.step = "build" /\ u.step = "build") => t = u

(* In the end (liveness) of process_at and the select loop, when no data comes any    *)
(* more, every view comes to hold every point it can be expected to, unless the last  *)
(* job of the data set failed or the server shuts down: no message that arrives while *)
(* its set is being processed is lost.                                                *)
ViewsCatchUp ==
  \/ lpc = "exit"
  \/ \A ds \in DataSets \ missed, l \in Levels : \A p \in Expected(ds, l) : HeldByView(ds, l, p)

=============================================================================
