------------------------------- MODULE Charger -------------------------------
(***************************************************************************)
(* drivers/bq25672.rs: the battery charger behind an I2C bus and an        *)
(* interrupt line. The chip (external) latches events in flag registers    *)
(* that a read clears, and pulses /INT for each event it does not mask.    *)
(* Any access of the bus may fail; an operation is its sequence of         *)
(* register accesses, and ends at the first that fails.                    *)
(***************************************************************************)
EXTENDS Trigger, Sequences

CONSTANTS
  MaxEvents,        \* bound on the chip's events
  MaxBusFaults,     \* bound on failing accesses
  MaxOps            \* bound on operations

VARIABLES
  flags,            \* the events latched in the chip's flag registers
  cregs,            \* the configuration registers that operations write
  adc,              \* the one-shot conversion: "off" | "busy"
  selected_source,  \* Option<PowerSource>, its voltage left out
  ce,               \* the ~CE pin: "low" charges
  bus,              \* the I2C peripheral: "suspended" | "resumed"
  cop,              \* the operation under way, or "none"
  todo,             \* the accesses it has still to make
  significant,      \* await_change: a flag that counts was read
  wait,             \* "" | "begin" | "register" | "look" | "parked"
  configured,       \* the last configure returned Ok
  ibatFault,        \* a write of EN_IBAT has failed since it was last switched off
  nEvents, nFaults, nOps

chargerVars == <<latched, unmasked, ready, woken, flags, cregs, adc, selected_source, ce, bus, cop, todo,
                 significant, wait, configured, ibatFault, nEvents, nFaults, nOps>>

(* The flag registers, in the order await_change reads them, and the events they hold. *)
FlagRegs == <<"Flag0", "Flag1", "Flag2", "Flag3", "FaultFlag0", "FaultFlag1">>

EventsOf == [r \in {FlagRegs[i] : i \in 1..6} |->
  CASE r = "Flag0" -> {"dpm", "power"}
    [] r = "Flag1" -> {"ico"}
    [] r = "Flag2" -> {"adc"}
    [] r = "Flag3" -> {"temperature"}
    [] r = "FaultFlag0" -> {"overvoltage"}
    [] r = "FaultFlag1" -> {"shutdown"}]

Events == UNION {EventsOf[r] : r \in DOMAIN EventsOf}

(* CHARGER_MASK_0 and CHARGER_MASK_1, which configure also writes to the chip, and          *)
(* CHARGER_MASK_3_TS, which only await_change applies, while running on the battery.        *)
ChargerMask == {"dpm", "ico"}

Insignificant ==
  ChargerMask \cup IF selected_source = "BatteryOnly" THEN {"temperature"} ELSE {}

ConfigRegs == {"MinSystemVoltage", "ChargeVoltageLimit", "ChargeCurrentLimit", "TerminationControl",
               "TimerControl", "Control0", "Control1", "Control2", "Control5", "ADCDisable0",
               "ADCDisable1", "Mask0", "Mask1"}

Defaults == [r \in ConfigRegs \cup {"Control4", "InputVoltageLimit"} |-> "default"]

WriteReg(r, v) == [write |-> TRUE, reg |-> r, val |-> v]
ReadReg(r) == [write |-> FALSE, reg |-> r, val |-> ""]

(* set_battery_current_measurement *)
IbatOn == WriteReg("Control5", "ibat")
IbatOff == WriteReg("Control5", "set")

(* Mutant: the reset comes after the charge limits. *)
ConfigureResetsLate ==
  <<ReadReg("PartInformation"), ReadReg("ReChargeControl"), WriteReg("MinSystemVoltage", "set"),
    WriteReg("ChargeVoltageLimit", "set"), WriteReg("ChargeCurrentLimit", "set"),
    WriteReg("TerminationControl", "reset"), WriteReg("TerminationControl", "set"),
    WriteReg("TimerControl", "set"), WriteReg("Control0", "set"), WriteReg("Control1", "set"),
    WriteReg("Control2", "set"), IbatOff, WriteReg("ADCDisable0", "set"),
    WriteReg("ADCDisable1", "set"), WriteReg("Mask0", "set"), WriteReg("Mask1", "set")>>

(* reset_to_defaults, verify_chip and n_cells_in_series, then every register. *)
ConfigureAccesses ==
  <<WriteReg("TerminationControl", "reset"), ReadReg("PartInformation"), ReadReg("ReChargeControl"),
    WriteReg("MinSystemVoltage", "set"), WriteReg("ChargeVoltageLimit", "set"),
    WriteReg("ChargeCurrentLimit", "set"), WriteReg("TerminationControl", "set"),
    WriteReg("TimerControl", "set"), WriteReg("Control0", "set"), WriteReg("Control1", "set"),
    WriteReg("Control2", "set"), IbatOff, WriteReg("ADCDisable0", "set"),
    WriteReg("ADCDisable1", "set"), WriteReg("Mask0", "set"), WriteReg("Mask1", "set")>>

FlagAccesses == [i \in 1..6 |-> ReadReg(FlagRegs[i])]

SelectAccesses(source) ==
     (IF source = "BatteryOnly" THEN <<>> ELSE <<WriteReg("InputVoltageLimit", source)>>)
  \o <<WriteReg("Control0", "set")>>
  \o (IF source = "BatteryOnly" THEN <<>> ELSE <<WriteReg("Control4", source)>>)

MeasureAccesses == <<IbatOn, WriteReg("ADCControl", "start"), ReadReg("Flag2")>>

(* The six results, then EN_IBAT off. *)
ResultAccesses ==
  <<ReadReg("ADCIbus"), ReadReg("ADCIbat"), ReadReg("ADCVac1"), ReadReg("ADCVac2"), ReadReg("ADCVbat"),
    ReadReg("ADCVsys"), IbatOff>>

(* charger_status, battery_temperature, input_limits and faults: reads that clear nothing. *)
StatusAccesses ==
  {<<ReadReg("Status0"), ReadReg("Status1"), ReadReg("Status2"), ReadReg("Status3")>>,
   <<ReadReg("Status2"), ReadReg("Status4")>>,
   <<ReadReg("InputCurrentOptimalLimit"), ReadReg("InputVoltageLimit"), ReadReg("InputCurrentLimit")>>,
   <<ReadReg("Fault0"), ReadReg("Fault1")>>}

ChargerInit ==
  /\ TriggerInit
  /\ flags = {} /\ cregs = Defaults /\ adc = "off" /\ selected_source = "None"
  /\ ce = "low" /\ bus = "suspended"
  /\ cop = "none" /\ todo = <<>> /\ significant = FALSE /\ wait = ""
  /\ configured = FALSE /\ ibatFault = FALSE
  /\ nEvents = 0 /\ nFaults = 0 /\ nOps = 0

-----------------------------------------------------------------------------
(* External: the chip latches an event, and pulses /INT unless its mask register says no. *)
Latch(e) ==
  /\ flags' = flags \cup {e}
  /\ IF e \in ChargerMask /\ cregs["Mask0"] = "set" /\ cregs["Mask1"] = "set"
     THEN UNCHANGED triggerVars
     ELSE Edge

ChipEvent ==
  \E e \in Events \ {"adc"} :
    /\ nEvents < MaxEvents /\ nEvents' = nEvents + 1
    /\ Latch(e)
    /\ UNCHANGED <<cregs, adc, selected_source, ce, bus, cop, todo, significant, wait, configured,
                   ibatFault, nFaults, nOps>>

ConversionDone ==
  /\ adc = "busy" /\ adc' = "off"
  /\ Latch("adc")
  /\ UNCHANGED <<cregs, selected_source, ce, bus, cop, todo, significant, wait, configured,
                 ibatFault, nEvents, nFaults, nOps>>

ChargerIsr ==
  /\ Isr(FALSE)
  /\ UNCHANGED <<flags, cregs, adc, selected_source, ce, bus, cop, todo, significant, wait,
                 configured, ibatFault, nEvents, nFaults, nOps>>

-----------------------------------------------------------------------------
(* acquire resumes the bus; dropping its guard suspends it, however the operation ends. *)
Begin(name, accesses) ==
  /\ cop = "none" /\ nOps < MaxOps /\ nOps' = nOps + 1
  /\ cop' = name /\ todo' = accesses /\ bus' = "resumed"
  /\ UNCHANGED <<latched, unmasked, ready, woken, flags, cregs, adc, wait, ibatFault, nEvents, nFaults>>

Configure ==
  /\ Begin("configure", ConfigureAccesses)
  /\ ce' = "high" /\ configured' = FALSE
  /\ UNCHANGED <<selected_source, significant>>

(* Mutant: the flags are looked at after the wait only. *)
AwaitChangeWaitsFirst ==
  /\ cop = "none" /\ nOps < MaxOps /\ nOps' = nOps + 1
  /\ cop' = "await_change" /\ todo' = <<>> /\ wait' = "begin" /\ significant' = FALSE
  /\ UNCHANGED <<latched, unmasked, ready, woken, flags, cregs, adc, selected_source, ce, bus, configured,
                 ibatFault, nEvents, nFaults>>

AwaitChargerChange ==
  /\ Begin("await_change", FlagAccesses)
  /\ significant' = FALSE
  /\ UNCHANGED <<selected_source, ce, configured>>

SelectSource ==
  \E source \in {"BatteryOnly", "Adapter", "USB"} :
    /\ Begin("select_source", SelectAccesses(source))
    /\ selected_source' = source
    /\ UNCHANGED <<ce, significant, configured>>

MeasurePower ==
  /\ Begin("measure_power", MeasureAccesses)
  /\ UNCHANGED <<selected_source, ce, significant, configured>>

SetWatchdog ==
  \E config \in {"set", "enabled"} :
    /\ Begin("set_watchdog", <<WriteReg("Control1", config)>>)
    /\ UNCHANGED <<selected_source, ce, significant, configured>>

ReadStatus ==
  \E accesses \in StatusAccesses :
    /\ Begin("status", accesses)
    /\ UNCHANGED <<selected_source, ce, significant, configured>>

(* enable_charging and disable_charging: the pin alone. *)
SetCharging ==
  /\ cop = "none" /\ nOps < MaxOps /\ nOps' = nOps + 1
  /\ ce' \in {"low", "high"} \ {ce}
  /\ UNCHANGED <<latched, unmasked, ready, woken, flags, cregs, adc, selected_source, bus, cop, todo,
                 significant, wait, configured, ibatFault, nEvents, nFaults>>

-----------------------------------------------------------------------------
(* The operation returns. *)
Returns(ok) ==
  /\ cop' = "none" /\ todo' = <<>> /\ bus' = "suspended" /\ wait' = "" /\ significant' = FALSE
  /\ configured' = IF cop = "configure" THEN ok ELSE configured

Continue(rest) ==
  /\ todo' = rest
  /\ UNCHANGED <<cop, bus, wait, significant, configured>>

(* What a read of the register clears. *)
Cleared(r) == IF r \in DOMAIN EventsOf THEN EventsOf[r] ELSE {}

(* A write reaches the chip. *)
Written(a) ==
  IF a.val = "reset" THEN Defaults
  ELSE IF a.reg \in DOMAIN cregs THEN [cregs EXCEPT ![a.reg] = a.val] ELSE cregs

(* Mutant: a measurement that fails returns at once. *)
FailedAtOnce(a) == Returns(FALSE)

(* An access failed. measure_power still switches EN_IBAT off when what it wraps failed. *)
Failed(a) ==
  IF cop = "measure_power" /\ a.reg # "Control5"
  THEN Continue(<<IbatOff>>)
  ELSE Returns(FALSE)

(* The write that failed may have reached the chip. *)
BusFault ==
  /\ todo # <<>> /\ nFaults < MaxBusFaults /\ nFaults' = nFaults + 1
  /\ Failed(Head(todo))
  /\ cregs' \in {cregs} \cup IF Head(todo).write THEN {Written(Head(todo))} ELSE {}
  /\ ibatFault' = (ibatFault \/ (Head(todo).write /\ Head(todo).reg = "Control5"))
  /\ UNCHANGED <<latched, unmasked, ready, woken, flags, adc, selected_source, ce, nEvents, nOps>>

(* A write; one that is the operation's last returns Ok. *)
WriteAccess ==
  /\ todo # <<>> /\ Head(todo).write
  /\ cregs' = Written(Head(todo))
  /\ adc' = IF Head(todo).reg = "ADCControl" THEN "busy" ELSE adc
  /\ ibatFault' = (ibatFault /\ Head(todo) # IbatOff /\ Head(todo).val # "reset")
  /\ IF Len(todo) = 1 THEN Returns(TRUE) ELSE Continue(Tail(todo))
  /\ UNCHANGED <<latched, unmasked, ready, woken, flags, selected_source, ce, nEvents, nFaults, nOps>>

(* A read of configure, of a status or of a result; the chip or the number of cells may be wrong. *)
ReadAccess ==
  /\ todo # <<>> /\ ~Head(todo).write /\ Cleared(Head(todo).reg) = {}
  /\ \/ IF Len(todo) = 1 THEN Returns(TRUE) ELSE Continue(Tail(todo))
     \/ cop = "configure" /\ Returns(FALSE)
  /\ UNCHANGED <<latched, unmasked, ready, woken, flags, cregs, adc, selected_source, ce, ibatFault,
                 nEvents, nFaults, nOps>>

(* A flag register, read and cleared by await_change; after the last one the bus is released *)
(* and the change reported or awaited.                                                       *)
ReadFlags ==
  /\ cop = "await_change" /\ todo # <<>>
  /\ LET found == flags \cap Cleared(Head(todo).reg)
         counts == significant \/ found \ Insignificant # {} IN
     /\ flags' = flags \ found
     /\ CASE Len(todo) > 1 -> /\ significant' = counts /\ todo' = Tail(todo)
                              /\ UNCHANGED <<cop, bus, wait, configured>>
          [] Len(todo) = 1 /\ counts -> Returns(TRUE)
          [] OTHER -> /\ todo' = <<>> /\ bus' = "suspended" /\ wait' = "begin"
                      /\ UNCHANGED <<cop, significant, configured>>
  /\ UNCHANGED <<latched, unmasked, ready, woken, cregs, adc, selected_source, ce, ibatFault, nEvents,
                 nFaults, nOps>>

(* await_flag: the read takes every flag of the register with it. *)
ReadAdcDone ==
  /\ cop = "measure_power" /\ todo # <<>> /\ Head(todo) = ReadReg("Flag2")
  /\ flags' = flags \ Cleared("Flag2")
  /\ IF "adc" \in flags
     THEN Continue(ResultAccesses)
     ELSE todo' = <<>> /\ wait' = "begin" /\ UNCHANGED <<cop, bus, significant, configured>>
  /\ UNCHANGED <<latched, unmasked, ready, woken, cregs, adc, selected_source, ce, ibatFault, nEvents,
                 nFaults, nOps>>

(* wait_untill_any_edge, of either; an edge goes back to reading the flags. *)
Resumed ==
  /\ wait' = ""
  /\ todo' = IF cop = "await_change" THEN FlagAccesses ELSE <<ReadReg("Flag2")>>
  /\ bus' = "resumed"

WaitBegins ==
  /\ wait = "begin" /\ BeginWait
  /\ IF ReturnsAtOnce THEN Resumed ELSE wait' = "register" /\ UNCHANGED <<todo, bus>>
  /\ UNCHANGED <<flags, cregs, adc, selected_source, ce, cop, significant, configured, ibatFault,
                 nEvents, nFaults, nOps>>

WaitRegisters ==
  /\ wait = "register" \/ (wait = "parked" /\ woken)
  /\ Register /\ wait' = "look"
  /\ UNCHANGED <<flags, cregs, adc, selected_source, ce, bus, cop, todo, significant, configured,
                 ibatFault, nEvents, nFaults, nOps>>

WaitLooks ==
  /\ wait = "look" /\ TakeReady
  /\ IF EdgeSeen THEN Resumed ELSE wait' = "parked" /\ UNCHANGED <<todo, bus>>
  /\ UNCHANGED <<flags, cregs, adc, selected_source, ce, cop, significant, configured, ibatFault,
                 nEvents, nFaults, nOps>>

(* with_timeout: any wait may time out; measure_power goes on to switch EN_IBAT off. *)
WaitTimesOut ==
  /\ wait = "parked"
  /\ IF cop = "measure_power"
     THEN wait' = "" /\ todo' = <<IbatOff>> /\ UNCHANGED <<cop, bus, significant, configured>>
     ELSE Returns(FALSE)
  /\ UNCHANGED <<latched, unmasked, ready, woken, flags, cregs, adc, selected_source, ce, ibatFault,
                 nEvents, nFaults, nOps>>

Operation == Configure \/ AwaitChargerChange \/ SelectSource \/ MeasurePower \/ SetWatchdog \/ ReadStatus \/ SetCharging

ChargerTask ==
  \/ BusFault \/ WriteAccess \/ ReadAccess \/ ReadFlags \/ ReadAdcDone
  \/ WaitBegins \/ WaitRegisters \/ WaitLooks \/ WaitTimesOut

ChargerNext == ChipEvent \/ ConversionDone \/ ChargerIsr \/ Operation \/ ChargerTask

ChargerSpec == ChargerInit /\ [][ChargerNext]_chargerVars

-----------------------------------------------------------------------------
(* await_change never sleeps over an event ("Check flags BEFORE waiting: a prior /INT pulse *)
(* may have been consumed by await_flag ... leaving the event's flag latched but no wake    *)
(* pending"): while it is parked and neither an edge nor a wake-up is on its way, no event   *)
(* that it would report is latched in the chip, whichever wait took that event's edge.       *)
NoEventSleptOver ==
  cop = "await_change" /\ wait = "parked" /\ ~woken /\ ~ready /\ ~(latched /\ unmasked)
    => flags \subseteq Insignificant

(* "If measurement is not used, disable to conserve power": between operations EN_IBAT is    *)
(* off, after a measurement that failed half-way or timed out as well, unless a write of  *)
(* EN_IBAT itself was the access that failed.                                                *)
IbatOffWhenUnused ==
  cop = "none" /\ ~ibatFault => cregs["Control5"] # "ibat"

(* A configure that returned Ok left every setting in place: the reset it begins with took   *)
(* none of them back, and no later operation but set_watchdog changed one.                   *)
ConfiguredIsWhole ==
  configured /\ cop = "none" => \A r \in ConfigRegs \ {"Control1"} : cregs[r] = "set" \/ (r = "Control5" /\ ibatFault)

=============================================================================
