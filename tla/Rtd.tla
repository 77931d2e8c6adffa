--------------------------------- MODULE Rtd ---------------------------------
(***************************************************************************)
(* drivers/rtd.rs on drivers/ads124s08.rs: temperature sensors read by an  *)
(* ADC whose conversions are started by a SYNC signal of its own. A        *)
(* channel is a sequence of register writes, each read back and verified,  *)
(* then a wait for DRDY and a transfer. The ADC (external) converts under  *)
(* the registers it has when a conversion starts, and restarts when the    *)
(* input is written; any transfer may fail.                                *)
(***************************************************************************)
EXTENDS Integers, Sequences

CONSTANTS
  Sensors,          \* SupportedSensor: "PT100", "PT1000"
  MaxReads,         \* bound on calls
  MaxSyncs,         \* bound on SYNC pulses
  MaxSpiFaults      \* bound on failing transfers

VARIABLES
  spi,              \* "suspended" | "resumed"
  aregs,            \* the ADC's registers: sys, ref, input
  input_configured,
  conv,             \* the registers the running conversion began with, or NoConv
  sample,           \* those of the last finished one, and what it measured
  drdy,             \* the trigger of DRDY, not yet taken
  sensor,           \* external: what is connected: a sensor, "none", "other"
  ch_state,         \* ChannelState: a sensor, "Disconnected", "Fault"
  rtdpc,            \* the call: "off" | "idle" | "enable" | "autodetect" | "read" | "dummy" | "diagnostics"
  steps,            \* what it has still to do
  reading,          \* the last temperature: registers and sensor it came from, or NoReading
  cutShort,         \* history: an autodetect or a diagnostics has failed
  reads, syncs, spiFaults

rtdVars == <<spi, aregs, input_configured, conv, sample, drdy, sensor, ch_state, rtdpc, steps, reading,
             cutShort, reads, syncs, spiFaults>>

NoConv == [sys |-> "", ref |-> "", input |-> ""]
NoReading == [sys |-> "", ref |-> "", input |-> "", as |-> "", of |-> ""]
AfterReset == [sys |-> "default", ref |-> "default", input |-> "default"]

Wr(reg, val) == [do |-> "write", reg |-> reg, val |-> val]
Xfer(do) == [do |-> do, reg |-> "", val |-> ""]

(* reset_all_config: SYS, the reference; GPIOCON is left out. *)
ResetAllConfig == <<Wr("sys", "normal"), Wr("ref", "default")>>

EnableSteps == <<Xfer("detect")>> \o ResetAllConfig

(* Mutant: the burnout source is left on. *)
AutodetectStepsBiased ==
  <<Wr("input", "inverted"), Wr("sys", "burnout"), Wr("ref", "internal"), Xfer("read")>>

(* The input is written first, and its DRDY cleared, then the burnout source and the *)
(* reference.                                                                        *)
AutodetectSteps ==
  <<Wr("input", "inverted"), Wr("sys", "burnout"), Wr("ref", "internal"), Xfer("read"),
    Wr("sys", "normal")>>

ReadSteps == <<Wr("ref", "ref0"), Wr("input", "rtd"), Xfer("read")>>

DummySteps == <<Wr("ref", "off"), Wr("input", "dummy"), Xfer("read")>>

(* The three monitors, each with a read_now. *)
DiagnosticsSteps ==
  ResetAllConfig
    \o <<Wr("input", "dummy"), Wr("sys", "analog"), Xfer("now"), Wr("sys", "digital"), Xfer("now"),
         Wr("sys", "temperature"), Xfer("now")>>
    \o ResetAllConfig

RtdInit ==
  /\ spi = "suspended" /\ aregs = AfterReset /\ input_configured = FALSE
  /\ conv = NoConv /\ sample = [NoReading EXCEPT !.of = "none"] /\ drdy = FALSE
  /\ sensor = "none" /\ ch_state = "Disconnected"
  /\ rtdpc = "off" /\ steps = <<>> /\ reading = NoReading /\ cutShort = FALSE
  /\ reads = 0 /\ syncs = 0 /\ spiFaults = 0

-----------------------------------------------------------------------------
(* External: a SYNC pulse starts a conversion, dropping one that runs. *)
Sync ==
  /\ spi = "resumed" /\ syncs < MaxSyncs /\ syncs' = syncs + 1
  /\ conv' = aregs
  /\ UNCHANGED <<spi, aregs, input_configured, sample, drdy, sensor, ch_state, rtdpc, steps, reading,
                 cutShort, reads, spiFaults>>

(* It ends: DRDY falls. *)
Converted ==
  /\ conv # NoConv /\ conv' = NoConv
  /\ sample' = [sys |-> conv.sys, ref |-> conv.ref, input |-> conv.input, as |-> "", of |-> sensor]
  /\ drdy' = TRUE
  /\ UNCHANGED <<spi, aregs, input_configured, sensor, ch_state, rtdpc, steps, reading, cutShort, reads,
                 syncs, spiFaults>>

(* A sensor is plugged or unplugged. *)
Plug ==
  /\ syncs < MaxSyncs /\ syncs' = syncs + 1
  /\ sensor' \in (Sensors \cup {"none", "other"}) \ {sensor}
  /\ UNCHANGED <<spi, aregs, input_configured, conv, sample, drdy, ch_state, rtdpc, steps, reading,
                 cutShort, reads, spiFaults>>

-----------------------------------------------------------------------------
Call(name, todo) ==
  /\ reads < MaxReads /\ reads' = reads + 1
  /\ rtdpc' = name /\ steps' = todo

(* Ads1x4s08::enable releases the reset; disable holds it. *)
Enable ==
  /\ rtdpc = "off" /\ Call("enable", EnableSteps)
  /\ spi' = "resumed" /\ aregs' = AfterReset /\ input_configured' = FALSE
  /\ conv' = NoConv /\ drdy' = FALSE
  /\ UNCHANGED <<sample, sensor, ch_state, reading, cutShort, syncs, spiFaults>>

Disable ==
  /\ rtdpc = "idle" /\ rtdpc' = "off" /\ spi' = "suspended" /\ conv' = NoConv
  /\ UNCHANGED <<aregs, input_configured, sample, drdy, sensor, ch_state, steps, reading, cutShort,
                 reads, syncs, spiFaults>>

Autodetect ==
  /\ rtdpc = "idle" /\ Call("autodetect", AutodetectSteps)
  /\ UNCHANGED <<spi, aregs, input_configured, conv, sample, drdy, sensor, ch_state, reading, cutShort,
                 syncs, spiFaults>>

(* RTD::read: a channel without a sensor takes its time slot with a dummy read. *)
ReadChannel ==
  /\ rtdpc = "idle"
  /\ IF ch_state \in Sensors THEN Call("read", ReadSteps) ELSE Call("dummy", DummySteps)
  /\ reading' = NoReading
  /\ UNCHANGED <<spi, aregs, input_configured, conv, sample, drdy, sensor, ch_state, cutShort, syncs,
                 spiFaults>>

Diagnostics ==
  /\ rtdpc = "idle" /\ Call("diagnostics", DiagnosticsSteps)
  /\ input_configured' = FALSE
  /\ UNCHANGED <<spi, aregs, conv, sample, drdy, sensor, ch_state, reading, cutShort, syncs, spiFaults>>

-----------------------------------------------------------------------------
Do(kind) == steps # <<>> /\ Head(steps).do = kind

Proceed ==
  /\ steps' = Tail(steps)
  /\ rtdpc' = IF Tail(steps) = <<>> THEN "idle" ELSE rtdpc

GiveUp ==
  /\ steps' = <<>> /\ rtdpc' = IF rtdpc = "enable" THEN "off" ELSE "idle"
  /\ cutShort' = (cutShort \/ rtdpc \in {"autodetect", "diagnostics"})

(* Mutant: DRDY is not cleared. *)
ClearReadyNot(reg) == drdy

(* configure_input takes the trigger: "if it was already ready, it was for a previous *)
(* configuration"; the other registers leave it.                                     *)
ClearReady(reg) == drdy /\ reg # "input"

(* write_reg_and_verify. A write of the input restarts a running conversion. *)
WriteAndVerify ==
  /\ Do("write")
  /\ LET w == Head(steps) IN
     /\ aregs' = [aregs EXCEPT ![w.reg] = w.val]
     /\ conv' = IF w.reg = "input" /\ conv # NoConv THEN [aregs EXCEPT !.input = w.val] ELSE conv
     /\ input_configured' = (input_configured \/ w.reg = "input")
     /\ drdy' = ClearReady(w.reg)
  /\ Proceed
  /\ UNCHANGED <<spi, sample, sensor, ch_state, reading, cutShort, reads, syncs, spiFaults>>

(* sensor_detect_after_reset *)
Detect ==
  /\ Do("detect") /\ Proceed
  /\ UNCHANGED <<spi, aregs, input_configured, conv, sample, drdy, sensor, ch_state, reading, cutShort,
                 reads, syncs, spiFaults>>

(* try_from_resistance, and the sign of the voltage under the burnout current. *)
Detected(of) ==
  CASE of = "none" -> "Disconnected" [] of \in Sensors -> of [] OTHER -> "Fault"

(* Mutant: the reference's status is not looked at. *)
ReferenceLostNever(of) == FALSE

(* RefStatus::Below0V3: the sensor is in series with the reference. *)
ReferenceLost(of) == of = "none"

(* read_while_tx_full_duplex, with what its caller makes of the sample. *)
TakeSample ==
  /\ Do("read") /\ input_configured /\ drdy
  /\ drdy' = FALSE
  /\ CASE rtdpc = "autodetect" -> ch_state' = Detected(sample.of) /\ reading' = reading
       [] rtdpc = "read" /\ ReferenceLost(sample.of) -> ch_state' = "Disconnected" /\ reading' = NoReading
       [] rtdpc = "read" /\ ~ReferenceLost(sample.of) ->
            /\ reading' = [sample EXCEPT !.as = ch_state] /\ ch_state' = ch_state
       [] OTHER -> UNCHANGED <<ch_state, reading>>
  /\ Proceed
  /\ UNCHANGED <<spi, aregs, input_configured, conv, sample, sensor, cutShort, reads, syncs, spiFaults>>

(* read_now starts a conversion and waits for an edge, or for a while. *)
ReadNow ==
  /\ Do("now") /\ Proceed /\ drdy' = FALSE /\ conv' = NoConv
  /\ UNCHANGED <<spi, aregs, input_configured, sample, sensor, ch_state, reading, cutShort, reads,
                 syncs, spiFaults>>

(* A bus error, a register that reads back differently, a CRC mismatch, an overrange or a *)
(* chip that is not ready ends the call at once; a write may have reached the chip.       *)
TransferFails ==
  /\ steps # <<>> /\ spiFaults < MaxSpiFaults /\ spiFaults' = spiFaults + 1
  /\ Head(steps).do = "read" => input_configured /\ drdy
  /\ drdy' = (drdy /\ Head(steps).do # "read")
  /\ aregs' \in {aregs} \cup IF Do("write") THEN {[aregs EXCEPT ![Head(steps).reg] = Head(steps).val]} ELSE {}
  /\ GiveUp
  /\ UNCHANGED <<spi, input_configured, conv, sample, sensor, ch_state, reading, reads, syncs>>

AdcStep == WriteAndVerify \/ Detect \/ TakeSample \/ ReadNow \/ TransferFails

RtdCall == Enable \/ Disable \/ Autodetect \/ ReadChannel \/ Diagnostics

RtdNext == Sync \/ Converted \/ Plug \/ RtdCall \/ AdcStep

RtdSpec == RtdInit /\ [][RtdNext]_rtdVars

-----------------------------------------------------------------------------
(* A temperature comes from a conversion made under read's own reference and input, however  *)
(* the SYNC pulses fall between its transfers: never from a sample of the previous call's    *)
(* configuration whose DRDY was still pending.                                               *)
TemperatureIsOfConfig ==
  reading # NoReading => reading.ref = "ref0" /\ reading.input = "rtd"

(* A temperature is only ever reported of an input that has something connected: a sensor    *)
(* unplugged since the last autodetect is noticed by the reference, in the same reading.     *)
NoTemperatureOfNothing == reading.of # "none"

(* "Recommended to leave them off during normal measurements for optimal acuracy"           *)
(* (configure_burnout_source): no temperature is measured with the burnout source, or a      *)
(* monitor of the diagnostics, switched on.                                                  *)
TemperatureIsUnbiased == reading # NoReading => reading.sys = "normal"

(* What does hold: only after an autodetect or a diagnostics that failed half-way.           *)
BiasedOnlyAfterFailure == reading # NoReading /\ ~cutShort => reading.sys = "normal"

=============================================================================
