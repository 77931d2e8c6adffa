----------------------------- MODULE ClockDrift ------------------------------
(***************************************************************************)
(* logic/time_adjust.rs: the estimate of the drift of the local clock from *)
(* network time and from temperature. The unit of the rates is 1/Unit, not *)
(* one in 10^9; f32 is exact here, and time differences stay below         *)
(* i32::MAX. The crystal and the server are external: the crystal runs     *)
(* (1 + drift)(1 + temperature error) too fast.                            *)
(***************************************************************************)
EXTENDS Integers, Sequences, FiniteSets

CONSTANTS
  Unit,                \* 1_000_000_000 in the code
  UPDATE_INTERVAL_MIN, \* NETWORK_TIME_UPDATE_INTERVAL_MIN_US
  UNCERTAINTY_THRESHOLD_MIN,
  MIN_INITIAL_UNCERTAINTY,
  CORRECTION_ERROR_MAX,
  Drifts,              \* how large the drift may be, in either direction
  TempErrors,          \* what the temperature error may be
  TempUncertainty,
  Latencies,           \* latency_estimate_us, and the largest latency
  Steps,               \* how much time may pass between two network times
  JumpSize,            \* by how much the server clock may jump
  MaxUpdates, MaxTempUpdates, MaxJumps  \* bounds on network times, temperatures and jumps

VARIABLES
  estimate_pre_temp, estimate_at, temp, network, \* ClockDriftEstimate
  drift, temperature,  \* the crystal: its errors
  t, raw,              \* true time, and what the crystal has counted
  server,              \* offset of the clock of the server
  last,                \* result of the last update_network_time
  spoiled,             \* history: an estimate was made over a jump of the server clock
  at,                  \* history: offset of the server when the network reference was taken
  updates, tempUpdates, jumps

estimator == <<estimate_pre_temp, estimate_at, temp, network>>
world == <<drift, temperature, t, raw, server>>
driftVars == <<estimator, world, last, spoiled, at, updates, tempUpdates, jumps>>

(* Division of integers truncates. *)
Quot(a, b) == IF a >= 0 THEN a \div b ELSE -((-a) \div b)
AtMost(a, b) == IF a < b THEN a ELSE b
AtLeast(a, b) == IF a > b THEN a ELSE b
Magnitude(a) == IF a < 0 THEN -a ELSE a
Clamp(e) == AtLeast(-CORRECTION_ERROR_MAX, AtMost(e, CORRECTION_ERROR_MAX))

slope_correct(dt, correction) == Quot(dt * correction, Unit)
forward_slope_convert(dt, correction) == dt + slope_correct(dt, correction)

(* Mutant: one round instead of rounds until nothing changes. *)
reverse_slope_once(dt, correction) == dt + slope_correct(dt, correction)

(* reverse_slope_convert: at most 16 rounds. *)
reverse_slope_convert(dt, correction) ==
  LET adj[n \in 0..16] == IF n = 0 THEN dt ELSE slope_correct(adj[n - 1], correction)
      sum[n \in 0..16] == adj[n] + (IF n = 0 THEN 0 ELSE sum[n - 1])
  IN  sum[16]

NoTemp == [raw |-> 0, corrected |-> 0, error |-> 0, uncertainty |-> 0, set |-> FALSE]
NoRef == [t_network |-> 0, latency |-> 0, t_local |-> 0, error |-> 0, uncertainty |-> 0, max_temp |-> 0,
          set |-> FALSE]
NoAt == [temp |-> 0, drift |-> 0, set |-> FALSE]

(* ClockDriftEstimate::new: some uncertainty is assumed in any case. *)
DriftInit ==
  /\ drift \in Drifts \cup {-d : d \in Drifts} /\ temperature = 0 /\ t = 0 /\ raw = 0 /\ server = 0
  /\ \E u \in {0, CORRECTION_ERROR_MAX} :
       /\ Magnitude(drift) <= AtLeast(u, MIN_INITIAL_UNCERTAINTY)
       /\ estimate_pre_temp = [error |-> 0, uncertainty |-> AtLeast(u, MIN_INITIAL_UNCERTAINTY)]
  /\ estimate_at = NoAt /\ temp = NoTemp /\ network = NoRef
  /\ last = "none" /\ spoiled = FALSE /\ at = 0
  /\ updates = 0 /\ tempUpdates = 0 /\ jumps = 0

(* convert_raw_to_temp_corrected, and its inverse; without a correction they are one. *)
RawToTemp(r) == temp.corrected + reverse_slope_convert(r - temp.raw, -temp.error)
TempToRaw(c) == temp.raw + forward_slope_convert(c - temp.corrected, temp.error)

(* The reference point is taken when it is first needed. *)
EstimateAt(c, d) == IF estimate_at.set THEN estimate_at ELSE [temp |-> c, drift |-> d, set |-> TRUE]

(* convert_temp_corrected_to_drift_corrected, convert_drift_corrected_to_temp_corrected *)
TempToDrift(c) ==
  EstimateAt(c, c).drift
    + reverse_slope_convert(c - EstimateAt(c, c).temp, -estimate_pre_temp.error)
DriftToTemp(d) ==
  EstimateAt(d, d).temp
    + forward_slope_convert(d - EstimateAt(d, d).drift, estimate_pre_temp.error)

(* What the corrected clock of the device shows: Timestamp::OffsetAdjusted. *)
Clock(r) == TempToDrift(RawToTemp(r))

(* Mutant: the error is weighed the wrong way around. *)
WeighedAverageSwapped(a, b) ==
  LET aa == a.uncertainty * a.uncertainty
      bb == b.uncertainty * b.uncertainty
  IN  [error |-> Clamp(Quot(aa * a.error + bb * b.error, aa + bb)),
       uncertainty |-> AtMost(Quot(bb * a.uncertainty + aa * b.uncertainty, aa + bb),
                              CORRECTION_ERROR_MAX)]

(* weighed_average: the fraction of each is the share of the other's squared uncertainty. *)
WeighedAverage(a, b) ==
  LET aa == a.uncertainty * a.uncertainty
      bb == b.uncertainty * b.uncertainty
  IN  [error |-> Clamp(Quot(bb * a.error + aa * b.error, aa + bb)),
       uncertainty |-> AtMost(Quot(bb * a.uncertainty + aa * b.uncertainty, aa + bb),
                              CORRECTION_ERROR_MAX)]

NewRef(c, now, latency, estimate, max_temp) ==
  [t_network |-> now, latency |-> latency, t_local |-> c, error |-> estimate.error,
   uncertainty |-> estimate.uncertainty, max_temp |-> max_temp, set |-> TRUE]

(* update_network_time at temp-corrected time c and drift-corrected time d: the latency *)
(* of one of the two network times may have been zero, that of the other the estimate.  *)
UpdateNetworkTime(c, d, now, latency) ==
  LET local_dt == c - network.t_local
      network_dt == now - network.t_network
      max_latency == AtLeast(latency, network.latency)
      dt_minimum == network_dt - max_latency
      uncertainty == Quot(max_latency * Unit, dt_minimum)
      error == Quot((local_dt - network_dt) * Unit, network_dt)
      initial == [error |-> network.error, uncertainty |-> network.uncertainty]
      averaged == WeighedAverage(initial, [error |-> error,
                                           uncertainty |-> uncertainty + network.max_temp])
  IN  CASE ~network.set ->
             /\ last' = "NoPreviousData"
             /\ network' = NewRef(c, now, latency, estimate_pre_temp, temp.uncertainty)
             /\ estimate_at' = EstimateAt(c, d) /\ UNCHANGED estimate_pre_temp
        [] network.set /\ AtMost(dt_minimum, local_dt) <= UPDATE_INTERVAL_MIN ->
             /\ last' = "PreviousDataTooRecent" /\ estimate_at' = EstimateAt(c, d)
             /\ UNCHANGED <<network, estimate_pre_temp>>
        [] network.set /\ AtMost(dt_minimum, local_dt) > UPDATE_INTERVAL_MIN
             /\ uncertainty >= CORRECTION_ERROR_MAX ->
             /\ last' = "UncertaintyTooLarge" /\ estimate_at' = EstimateAt(c, d)
             /\ UNCHANGED <<network, estimate_pre_temp>>
        [] network.set /\ AtMost(dt_minimum, local_dt) > UPDATE_INTERVAL_MIN
             /\ uncertainty < CORRECTION_ERROR_MAX /\ error >= CORRECTION_ERROR_MAX ->
             /\ last' = "ErrorTooLarge" /\ estimate_at' = EstimateAt(c, d)
             /\ network' = NewRef(c, now, latency, estimate_pre_temp, network.max_temp)
             /\ UNCHANGED estimate_pre_temp
        [] OTHER ->
             /\ last' = "Ok"
             /\ estimate_pre_temp' = averaged
             /\ estimate_at' = [temp |-> c, drift |-> d, set |-> TRUE]
             /\ network' = IF uncertainty < AtMost(network.max_temp, UNCERTAINTY_THRESHOLD_MIN)
                           THEN NewRef(c, now, latency, averaged, network.max_temp) ELSE network

(* Time passes, the server sends its time and the client receives it a little later: *)
(* TryFrom<ClientEvent> passes the time that the corrected clock shows.              *)
NetworkTime(dt, estimated, latency, jump) ==
  /\ updates < MaxUpdates /\ updates' = updates + 1
  /\ jumps' = IF jump = 0 THEN jumps ELSE jumps + 1
  /\ jumps' <= MaxJumps
  /\ server' = server + jump
  /\ t' = t + dt
  /\ raw' = raw + Quot(Quot(dt * (Unit + drift), Unit) * (Unit + temperature), Unit)
  /\ \E received \in {raw' + Quot(Quot(latency * (Unit + drift), Unit) * (Unit + temperature), Unit)} :
     \E d \in {Clock(received)} :
       UpdateNetworkTime(DriftToTemp(d), d, t' + server', estimated)
  /\ spoiled' = (spoiled \/ (last' = "Ok" /\ server' # at))
  /\ at' = IF network' # network THEN server' ELSE at
  /\ UNCHANGED <<temp, drift, temperature, tempUpdates>>

(* The range that two temperature errors span, with their uncertainties. *)
TempSpan(e) ==
  AtLeast(temp.error + temp.uncertainty, e + TempUncertainty)
    - AtMost(temp.error - temp.uncertainty, e - TempUncertainty)

(* update_temp_correction *)
UpdateTempCorrection(e) ==
  /\ tempUpdates < MaxTempUpdates /\ tempUpdates' = tempUpdates + 1
  /\ temperature' = e
  /\ temp' = [raw |-> raw, corrected |-> RawToTemp(raw), error |-> e,
              uncertainty |-> TempUncertainty, set |-> TRUE]
  /\ network' = IF network.set /\ temp'.corrected > network.t_local
                THEN [network EXCEPT !.max_temp =
                        AtLeast(@, IF temp.set THEN TempSpan(e) ELSE TempUncertainty)]
                ELSE network
  /\ UNCHANGED <<estimate_pre_temp, estimate_at, drift, t, raw, server, last, spoiled, at,
                 updates, jumps>>

DriftNext ==
  \/ \E dt \in Steps, estimated \in Latencies, jump \in {0, JumpSize, -JumpSize} :
       \E latency \in {0, estimated} : NetworkTime(dt, estimated, latency, jump)
  \/ \E e \in TempErrors : UpdateTempCorrection(e)

DriftSpec == DriftInit /\ [][DriftNext]_driftVars

-----------------------------------------------------------------------------

(* One unit of time of rounding at both ends of the shortest interval. *)
Rounding == 1 + (4 * Unit) \div UPDATE_INTERVAL_MIN

(* update_network_time, weighed_average: the true drift of the crystal stays within the  *)
(* uncertainty of the estimate, whatever the latencies, the temperature changes and the  *)
(* order of updates, as long as no estimate is made over a jump of the server clock.     *)
EstimateIsSound ==
  spoiled \/ Magnitude(estimate_pre_temp.error - drift) <= estimate_pre_temp.uncertainty + Rounding

(* "Reset state so we can recover later, assuming there was a discontinuity in time":    *)
(* where a jump of the server clock is larger than any interval between updates, ahead   *)
(* or back, no estimate is made over it.                                                 *)
JumpsAreReset == ~spoiled

(* Each round truncates once. *)
Inverts ==
  /\ \A c \in {RawToTemp(raw), RawToTemp(raw) + UPDATE_INTERVAL_MIN} :
       Magnitude(DriftToTemp(TempToDrift(c)) - c) <= 8
  /\ Magnitude(TempToRaw(RawToTemp(raw + UPDATE_INTERVAL_MIN)) - (raw + UPDATE_INTERVAL_MIN)) <= 8

(* The conversions of ClockErrorEstimate are inverse to each other up to rounding, at     *)
(* the time that is converted next, although one of them is computed in rounds.          *)
ConversionsInvert ==
  \/ spoiled
  \/ Inverts

=============================================================================
