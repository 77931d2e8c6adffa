---------------------------- MODULE CombinedTime -----------------------------
(***************************************************************************)
(* drivers/time.rs: the wall clock, an accurate clock interpolated by a    *)
(* fast one. Any context may ask for the time; the correction that maps    *)
(* the fast clock to the accurate one is updated on the way, between       *)
(* reading both clocks and taking the write lock other contexts may run.   *)
(* The two clocks are external; the double buffer is in DoubleBuffer.tla.  *)
(***************************************************************************)
EXTENDS Integers, FiniteSets

CONSTANTS
  Contexts,
  SLOPE_RESOLUTION, UPDATE_INTERVAL, UPDATE_INTERVAL_MIN,
  max_deviation,
  Tick,          \* time that passes in a step
  FastTicks,     \* what the fast clock may count meanwhile: zero when it is stopped
  AdjustTo,      \* adjust_us: the accurate clock may be set ahead by this, or back
  MaxTime, MaxAdjusts, MaxReads

VARIABLES
  accurate, fast,
  correction,    \* TimeCorrection
  pending,       \* per context: what clock_status returned, until the update is done
  returned,      \* history: the last timestamp and what the accurate clock said then
  adjusts, reads

timeVars == <<accurate, fast, correction, pending, returned, adjusts, reads>>

Trunc(a, b) == IF a >= 0 THEN a \div b ELSE -((-a) \div b)
Size(a) == IF a < 0 THEN -a ELSE a

Idle == [busy |-> FALSE, time |-> 0, offset |-> 0]

TimeInit ==
  /\ accurate = 0 /\ fast \in {0, 3 * max_deviation}
  /\ correction = [is_initialized |-> FALSE, offset |-> 0, last_corrected |-> 0, slope |-> 0,
                   error |-> 0]
  /\ pending = [c \in Contexts |-> Idle]
  /\ returned = [time |-> 0, accurate |-> 0] /\ adjusts = 0 /\ reads = 0

(* TimeCorrection::correct *)
Correct(raw) ==
  LET now == raw + correction.offset
  IN  IF now >= correction.last_corrected
      THEN now + Trunc((now - correction.last_corrected) * correction.slope, SLOPE_RESOLUTION)
      ELSE now

Deviation == Correct(fast) - accurate

(* timestamp_us: clock_status reads the clocks, the time is what is returned at the end. *)
ReadClocks(c) ==
  /\ ~pending[c].busy /\ reads < MaxReads /\ reads' = reads + 1
  /\ pending' = [pending EXCEPT ![c] =
                   [busy |-> TRUE, time |-> accurate, offset |-> Deviation]]
  /\ UNCHANGED <<accurate, fast, correction, returned, adjusts>>

(* TimeCorrection::should_update *)
ShouldUpdate(time, offset) ==
  \/ ~correction.is_initialized
  \/ Size(offset) >= max_deviation
  \/ time + offset - correction.last_corrected >= UPDATE_INTERVAL_MIN

(* TimeCorrection::update_slope: what does not fit in i32 is not applied. *)
UpdatedSlope(since, error) ==
  IF since > 0 THEN correction.slope + Trunc((correction.error - error) * SLOPE_RESOLUTION, since)
  ELSE correction.slope

(* Mutant: a large error is added instead of subtracted. *)
UpdatedAdding(time, offset) ==
  IF ~correction.is_initialized
  THEN [correction EXCEPT !.offset = -offset, !.last_corrected = time + offset, !.is_initialized = TRUE]
  ELSE [correction EXCEPT !.offset = @ + offset, !.last_corrected = time + offset, !.error = 0]

(* TimeCorrection::update *)
Updated(time, offset) ==
  LET t_now == time + offset
      since == t_now - correction.last_corrected
  IN  CASE ~correction.is_initialized ->
             [correction EXCEPT !.offset = -offset, !.last_corrected = t_now,
                                !.is_initialized = TRUE]
        [] correction.is_initialized /\ Size(offset) >= max_deviation ->
             [correction EXCEPT !.offset = @ - offset, !.last_corrected = t_now, !.error = 0]
        [] correction.is_initialized /\ Size(offset) < max_deviation
             /\ (since > UPDATE_INTERVAL \/ Size(correction.error - offset) >= max_deviation \div 4) ->
             [correction EXCEPT !.slope = UpdatedSlope(since, offset), !.last_corrected = t_now,
                                !.error = offset]
        [] OTHER -> correction

(* Mutant: the fast clock is trusted however far off it is. *)
TimestampAnyOffset(time, offset) == time + offset

(* What timestamp_us returns for a status: FastClock or LimitedResolution. *)
Timestamp(time, offset) == IF Size(offset) < max_deviation THEN time + offset ELSE time

Fresh(c) == pending[c].busy /\ pending[c].time = accurate /\ pending[c].offset = Deviation

(* update_time_correction, and the return of timestamp_us *)
UpdateTimeCorrection(c) ==
  /\ pending[c].busy
  /\ pending' = [pending EXCEPT ![c] = Idle]
  /\ returned' = [time |-> Timestamp(pending[c].time, pending[c].offset), accurate |-> pending[c].time]
  /\ correction' = IF ShouldUpdate(pending[c].time, pending[c].offset)
                   THEN Updated(pending[c].time, pending[c].offset) ELSE correction
  /\ UNCHANGED <<accurate, fast, adjusts, reads>>

(* External: time passes. *)
Pass(ticks) ==
  /\ accurate < MaxTime
  /\ accurate' = accurate + Tick /\ fast' = fast + ticks
  /\ UNCHANGED <<correction, pending, returned, adjusts, reads>>

(* adjust_us: the accurate clock is set. *)
Adjust(by) ==
  /\ adjusts < MaxAdjusts /\ adjusts' = adjusts + 1
  /\ accurate' = accurate + by
  /\ UNCHANGED <<fast, correction, pending, returned, reads>>

TimeNext ==
  \/ \E c \in Contexts : ReadClocks(c) \/ UpdateTimeCorrection(c)
  \/ \E ticks \in FastTicks : Pass(ticks)
  \/ \E by \in {AdjustTo, -AdjustTo} : Adjust(by)

TimeSpec == TimeInit /\ [][TimeNext]_timeVars

-----------------------------------------------------------------------------

(* with_high_resolution_clock: "If the interpolated time deviates more than             *)
(* max_deviation_us from the accurate clock, the accurate clock takes over": no         *)
(* timestamp is further than that from the accurate clock, also right after the         *)
(* accurate clock was set or while the fast clock stands still.                         *)
TimestampIsClose == Size(returned.time - returned.accurate) < max_deviation

(* TimeCorrection::update, "immediately jump time by adjusting the offset": a jump keeps  *)
(* the slope but starts it anew, so it misses the accurate clock by what the slope had    *)
(* contributed since the last correction, and by no more: without a slope it lands on it, *)
(* whatever other contexts did before. (Each of the two divisions may round off one.)     *)
JumpMissesBySlopeOnly ==
  \A c \in Contexts :
       (/\ Fresh(c) /\ UpdateTimeCorrection(c) /\ correction.is_initialized
        /\ Size(Deviation) >= max_deviation)
       => LET since == Size(Correct(fast) - correction.last_corrected)
          IN  Size(Deviation') * SLOPE_RESOLUTION
                <= Size(correction.slope) * (since + 2 * Size(Deviation)) + 2 * SLOPE_RESOLUTION

=============================================================================
