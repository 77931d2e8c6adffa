------------------------------ MODULE ServerCore -----------------------------
(***************************************************************************)
(* sensor-link-server-core: two calls of the server.                       *)
(*                                                                         *)
(* timeseries.rs: a series of samples is reduced to aligned time buckets,  *)
(* either to a number of points or to a given width. Samples are their     *)
(* timestamps; the mean, minimum, maximum and percentage of a bucket are   *)
(* functions of the range of samples in it.                                *)
(*                                                                         *)
(* firmware.rs, recommend_firmware on the firmware store: the others are   *)
(* unrecommended, then the firmware is recommended, in two updates.        *)
(* Requests may overlap, fail half-way, and firmwares of the same device   *)
(* type may be removed meanwhile.                                          *)
(***************************************************************************)
EXTENDS Integers, Sequences, FiniteSets, FiniteSetsExt

-----------------------------------------------------------------------------
(* Time series.                                                             *)

CONSTANTS
  BucketWidths,         \* BucketWidth::ALL, ascending
  MAX_NUM_SAMPLES,
  Series,               \* the series of timestamps that a query may find
  MaxPointsSet,         \* the numbers of points asked for
  WidthSet              \* the widths asked for

(* A series has one sample at a time, and its samples are in order. *)
ASSUME CoreAssumption ==
  /\ BucketWidths \in Seq(Nat \ {0}) /\ Len(BucketWidths) > 0
  /\ MAX_NUM_SAMPLES \in Nat \ {0} /\ MaxPointsSet \subseteq Nat \ {0} /\ WidthSet \subseteq Nat \ {0}
  /\ Series \subseteq Seq(Nat)
  /\ \A s \in Series : \A i, j \in 1..Len(s) : i < j => s[i] < s[j]

VARIABLES
  stamps,       \* the timestamps, ascending
  method,       \* [points] or [width]
  dsPhase,        \* "start" | "loop" | "done"
  width,        \* bucket_width_ms
  start_idx, last_idx,
  buckets       \* the samples of the result: [ts, from, to], from and to included

downsampleVars == <<stamps, method, dsPhase, width, start_idx, last_idx, buckets>>

DownsampleInit ==
  /\ stamps \in Series
  /\ method \in [points : MaxPointsSet, width : {0}] \cup [points : {0}, width : WidthSet]
  /\ dsPhase = "start" /\ width = 0 /\ start_idx = 1 /\ last_idx = 0 /\ buckets = <<>>

ByPoints == method.points > 0
TimeRange == stamps[Len(stamps)] - stamps[1]
CeilDiv(a, b) == (a + b - 1) \div b

(* Mutant: the number of intervals is taken for the number of points. *)
IdealWidthOfPoints(points) == CeilDiv(TimeRange, points)

IdealWidth(points) == CeilDiv(TimeRange, points - 1)

MinInterval == Min({stamps[i + 1] - stamps[i] : i \in 1..(Len(stamps) - 1)})

(* BucketWidth::largest, find_next_width *)
Largest == BucketWidths[Len(BucketWidths)]
FindNextWidth(w) ==
  LET fit == {i \in 1..Len(BucketWidths) : BucketWidths[i] >= w}
  IN  IF fit = {} THEN Largest ELSE BucketWidths[Min(fit)]

(* calc_bucket_width *)
CalcBucketWidth(points) ==
  IF Len(stamps) <= 1 THEN Head(BucketWidths)
  ELSE IF points = 1 THEN TimeRange
  ELSE FindNextWidth(Max({IdealWidth(points), MinInterval}))

(* The width and the number of points it gives: a width that gives too many is adjusted. *)
Chosen ==
  LET n == TimeRange \div method.width
  IN  IF ByPoints THEN [width |-> CalcBucketWidth(method.points), points |-> method.points]
      ELSE IF n > MAX_NUM_SAMPLES
           THEN [width |-> TimeRange \div MAX_NUM_SAMPLES, points |-> MAX_NUM_SAMPLES]
           ELSE [width |-> method.width, points |-> n]

(* The first sample whose remainder is below that of the one before it; the first sample of *)
(* all is compared with 0.                                                                  *)
Wraps(i) == stamps[i] % method.width < (IF i = 1 THEN 0 ELSE stamps[i - 1] % method.width)
FirstFull ==
  LET S == {i \in 1..Len(stamps) : Wraps(i)} IN IF S = {} THEN 1 ELSE Min(S)

(* The last sample whose remainder is above that of the one after it. *)
LastFull ==
  LET S == {i \in 1..(Len(stamps) - 1) : stamps[i] % method.width > stamps[i + 1] % method.width}
  IN  IF S = {} THEN Len(stamps) ELSE Max(S)

StartDownsample ==
  /\ dsPhase = "start"
  /\ IF stamps = <<>> \/ Len(stamps) <= Chosen.points
     THEN dsPhase' = "done" /\ buckets' = [i \in 1..Len(stamps) |-> [ts |-> stamps[i], from |-> i, to |-> i]]
          /\ UNCHANGED <<width, start_idx, last_idx>>
     ELSE /\ dsPhase' = "loop" /\ width' = Chosen.width /\ UNCHANGED buckets
          /\ start_idx' = IF ByPoints THEN 1 ELSE FirstFull
          /\ last_idx' = IF ByPoints THEN Len(stamps) + 1 ELSE LastFull
  /\ UNCHANGED <<stamps, method>>

(* Mutant: the bucket is taken to be centred at its timestamp. *)
EndIdxCentred(ts) ==
  LET after == {i \in 1..Len(stamps) : stamps[i] > ts + (width \div 2) /\ i > start_idx}
  IN  IF after = {} THEN Len(stamps) + 1 ELSE Min(after)

(* Bucket::new: the first sample after the end of the bucket *)
EndIdx(ts) ==
  LET after == {i \in 1..Len(stamps) : stamps[i] > ts + width}
  IN  IF after = {} THEN Len(stamps) + 1 ELSE Min(after)

(* Mutant: the next bucket skips the sample that ended this one. *)
TakeBucketSkipping ==
  /\ dsPhase = "loop" /\ start_idx < last_idx
  /\ LET ts == stamps[start_idx] - (stamps[start_idx] % width) IN
       /\ buckets' = Append(buckets, [ts |-> ts, from |-> start_idx, to |-> EndIdx(ts) - 1])
       /\ start_idx' = EndIdx(ts) + 1
  /\ UNCHANGED <<stamps, method, dsPhase, width, last_idx>>

TakeBucket ==
  /\ dsPhase = "loop" /\ start_idx < last_idx
  /\ LET ts == stamps[start_idx] - (stamps[start_idx] % width) IN
       /\ buckets' = Append(buckets, [ts |-> ts, from |-> start_idx, to |-> EndIdx(ts) - 1])
       /\ start_idx' = EndIdx(ts)
  /\ UNCHANGED <<stamps, method, dsPhase, width, last_idx>>

FinishDownsample ==
  /\ dsPhase = "loop" /\ start_idx >= last_idx /\ dsPhase' = "done"
  /\ UNCHANGED <<stamps, method, width, start_idx, last_idx, buckets>>

DownsampleNext == StartDownsample \/ TakeBucket \/ FinishDownsample

DownsampleSpec == DownsampleInit /\ [][DownsampleNext]_downsampleVars /\ WF_downsampleVars(DownsampleNext)

-----------------------------------------------------------------------------

(* The buckets cut a run of consecutive samples into non-empty pieces: no sample is counted *)
(* twice or left out between two buckets, and with a number of points none at all is.       *)
BucketsPartition ==
  dsPhase = "done" =>
    /\ \A i \in 1..Len(buckets) :
         /\ buckets[i].from <= buckets[i].to
         /\ i > 1 => buckets[i].from = buckets[i - 1].to + 1
    /\ (ByPoints /\ stamps # <<>>) => buckets[1].from = 1 /\ buckets[Len(buckets)].to = Len(stamps)

(* calc_bucket_width, "large enough to ensure we don't exceed max_num_samples": it holds,  *)
(* alignment included, as long as the widest predefined bucket is wide enough; one point    *)
(* over the whole range may need a second bucket.                                           *)
NotTooMany ==
  (dsPhase = "done" /\ ByPoints /\ Len(stamps) > 1) =>
    \/ Len(buckets) <= Max({method.points, 2})
    \/ method.points > 1 /\ TimeRange > (method.points - 1) * Largest

(* Buckets do not overlap in time: each starts where an earlier one has ended, so the       *)
(* result is in order and no two of its samples have the same time.                         *)
BucketsInOrder ==
  dsPhase = "done" => \A i \in 2..Len(buckets) : buckets[i].ts > buckets[i - 1].ts

-----------------------------------------------------------------------------
(* Recommended firmware.                                                    *)

CONSTANTS Firmwares, MaxRecommends, MaxRecFaults    \* ids; bounds

VARIABLES
  kept,         \* the stored firmwares
  recommended,  \* those that are recommended
  recpc,        \* requests: firmware -> "no" | "second"
  broken,       \* history: a request failed half-way, or a firmware was removed
  recommends, recFaults

recVars == <<kept, recommended, recpc, broken, recommends, recFaults>>

RecInit ==
  /\ kept = Firmwares /\ recommended = {} /\ recpc = [f \in Firmwares |-> "no"]
  /\ broken = FALSE /\ recommends = 0 /\ recFaults = 0

(* unrecommend_other_firmwares_for_same_device_type *)
RecommendFirst(f) ==
  /\ recpc[f] = "no" /\ recommends < MaxRecommends /\ f \in kept
  /\ recommended' = recommended \cap {f}
  /\ recpc' = [recpc EXCEPT ![f] = "second"] /\ recommends' = recommends + 1
  /\ UNCHANGED <<kept, broken, recFaults>>

(* Mutant: the others are unrecommended again at the end. *)
RecommendSecondLast(f) ==
  /\ recpc[f] = "second" /\ recpc' = [recpc EXCEPT ![f] = "no"]
  /\ recommended' = recommended \cap {f}
  /\ UNCHANGED <<kept, broken, recommends, recFaults>>

RecommendSecond(f) ==
  /\ recpc[f] = "second" /\ recpc' = [recpc EXCEPT ![f] = "no"]
  /\ recommended' = recommended \cup ({f} \cap kept)
  /\ UNCHANGED <<kept, broken, recommends, recFaults>>

(* The second update fails: the request ends with an error. *)
RecommendFails(f) ==
  /\ recpc[f] = "second" /\ recFaults < MaxRecFaults /\ recFaults' = recFaults + 1
  /\ recpc' = [recpc EXCEPT ![f] = "no"] /\ broken' = TRUE
  /\ UNCHANGED <<kept, recommended, recommends>>

RemoveFirmware(f) ==
  /\ f \in kept /\ recFaults < MaxRecFaults /\ recFaults' = recFaults + 1
  /\ kept' = kept \ {f} /\ recommended' = recommended \ {f} /\ broken' = TRUE
  /\ UNCHANGED <<recpc, recommends>>

RecNext == \E f \in Firmwares : RecommendFirst(f) \/ RecommendSecond(f) \/ RecommendFails(f) \/ RemoveFirmware(f)
RecSpec == RecInit /\ [][RecNext]_recVars

-----------------------------------------------------------------------------

(* recommend_firmware: however requests overlap, one that has completed leaves a recommended *)
(* firmware behind, unless a later request failed half-way or the firmware was removed.      *)
SomeRecommended ==
  (recommends > 0 /\ ~broken /\ \A f \in Firmwares : recpc[f] = "no") => recommended # {}

-----------------------------------------------------------------------------

(* timeseries.rs: the buckets hold every point once and in order, and not too many of them;   *)
(* firmware recommendations: once a build was recommended, one always is.                     *)
SeriesAreWhole == BucketsPartition /\ NotTooMany /\ BucketsInOrder /\ SomeRecommended

=============================================================================
