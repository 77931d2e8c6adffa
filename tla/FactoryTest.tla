----------------------------- MODULE FactoryTest -----------------------------
(***************************************************************************)
(* factory-test/modem-test: the self-test of the jig and of the modem in   *)
(* its slot. The sequence runs the steps one by one, each bounded by its   *)
(* timeout; the deadline task has a higher priority and can interrupt it   *)
(* anywhere; a panic sets a flag that survives the reset. Every verdict is *)
(* kept in atomics that both tasks write without a lock.                   *)
(***************************************************************************)
EXTENDS Integers, Sequences

CONSTANTS
  MaxRuns           \* bound on boots

VARIABLES
  seq,              \* the sequence: "boot" | "begin" | "store" | "check" | "after" | "park" |
                    \* "publish" | "zones" | "phase" | "done" | "reset"
  at,               \* the step it is at, an index of Steps
  passing, verdict, \* what publish_verdict has read: the zones that run, the verdict to store
  reported, failed, \* REPORTED and FAILED
  zone_phase, zone_fault,
  PHASE,            \* "Running" | "Pass" | "Fail"
  deadline,         \* the deadline task: "waiting" | "fired"
  powered,          \* the switched supplies that are on, a subset of {"5V5", "Modem"}
  baseline,         \* rails returned a baseline current
  panicked,         \* Stat::Panic in a backup register
  truth,            \* external: how every check that ran came out
  boots

factoryVars == <<seq, at, passing, verdict, reported, failed, zone_phase, zone_fault, PHASE, deadline, powered,
                 baseline, panicked, truth, boots>>

Steps == <<"Boot", "Charger", "Rails", "Temperature", "ModemRail", "ModemAt", "ModemSim", "ModemCurrent">>
LastStep == 8
Zones == {"Board", "Modem"}
ZoneOf(i) == IF i <= 4 THEN "Board" ELSE "Modem"
Step == Steps[at]

(* Step::default_fault *)
DefaultFault(i) ==
  CASE Steps[i] = "Boot" -> "Mcu" [] Steps[i] = "ModemRail" -> "NoCurrent"
    [] Steps[i] = "ModemAt" -> "NoResponse" [] Steps[i] = "ModemSim" -> "Sim"
    [] Steps[i] = "ModemCurrent" -> "Overcurrent" [] OTHER -> Steps[i]

(* What a check may find: it passes, fails, waits beyond its timeout, or never yields. *)
Returned == {"good", "bad"}
Outcomes == Returned \cup {"hangs", "stuck"}

(* The statics after a reset. *)
FreshStatics ==
  /\ reported' = {} /\ failed' = {} /\ passing' = {} /\ verdict' = "Running"
  /\ zone_phase' = [z \in Zones |-> "Idle"] /\ zone_fault' = [z \in Zones |-> "none"]
  /\ PHASE' = "Running" /\ deadline' = "waiting" /\ baseline' = FALSE
  /\ truth' = [i \in 1..LastStep |-> "none"] /\ at' = 1

FactoryInit ==
  /\ seq = "boot" /\ at = 1 /\ passing = {} /\ verdict = "Running"
  /\ reported = {} /\ failed = {}
  /\ zone_phase = [z \in Zones |-> "Idle"] /\ zone_fault = [z \in Zones |-> "none"]
  /\ PHASE = "Running" /\ deadline = "waiting"
  /\ powered = {} /\ baseline = FALSE /\ panicked = FALSE
  /\ truth = [i \in 1..LastStep |-> "none"] /\ boots = 1

-----------------------------------------------------------------------------
(* result.rs *)

(* arm_fault: the first fault wins. *)
Armed(z, f) == IF zone_fault[z] = "none" THEN [zone_fault EXCEPT ![z] = f] ELSE zone_fault

(* fail *)
Fails(z, f) ==
  /\ zone_fault' = Armed(z, f)
  /\ zone_phase' = [zone_phase EXCEPT ![z] = "Fail"]

(* anything_failed *)
AnythingFailed(phases) == failed # {} \/ \E z \in Zones : phases[z] = "Fail"

(* fail_unreported: the steps it fails. *)
Unreported == (1..LastStep) \ reported

-----------------------------------------------------------------------------
(* The sequence: a boot after a panic only reports it, and runs no step. *)
AfterPanic ==
  /\ seq = "boot" /\ panicked /\ panicked' = FALSE
  /\ Fails("Board", "Firmware")
  /\ seq' = "publish"
  /\ UNCHANGED <<at, passing, verdict, reported, failed, PHASE, deadline, powered, baseline, truth, boots>>

BootTest ==
  /\ seq = "boot" /\ ~panicked
  /\ seq' = "begin"
  /\ UNCHANGED <<at, passing, verdict, reported, failed, zone_phase, zone_fault, PHASE, deadline, powered,
                 baseline, panicked, truth, boots>>

(* run: set_zone_phase looks whether the zone has failed and then stores. power_on comes *)
(* before the first of the modem's steps.                                                *)
BeginStep ==
  /\ seq = "begin"
  /\ seq' = IF zone_phase[ZoneOf(at)] = "Fail" THEN "check" ELSE "store"
  /\ powered' = IF Step = "ModemRail" THEN powered \cup {"Modem"} ELSE powered
  /\ UNCHANGED <<at, passing, verdict, reported, failed, zone_phase, zone_fault, PHASE, deadline, baseline,
                 panicked, truth, boots>>

StoreRunning ==
  /\ seq = "store" /\ seq' = "check"
  /\ zone_phase' = [zone_phase EXCEPT ![ZoneOf(at)] = "Running"]
  /\ UNCHANGED <<at, passing, verdict, reported, failed, zone_fault, PHASE, deadline, powered, baseline,
                 panicked, truth, boots>>

(* What the checks do to the board and to the verdict before they return, are dropped at  *)
(* their timeout, or stop yielding. boot awaits nothing.                                  *)
BootCheck(o) ==
  /\ Step = "Boot" /\ o \in {"good", "bad"}
  /\ UNCHANGED <<powered, zone_phase, zone_fault>>

ChargerCheck(o) == Step = "Charger" /\ UNCHANGED <<powered, zone_phase, zone_fault>>

(* The 5V5 rail is on while it is tested, which a timeout may interrupt. *)
RailsCheck(o) ==
  /\ Step = "Rails"
  /\ \/ powered' = powered
     \/ o \notin Returned /\ powered' = powered \cup {"5V5"}
  /\ UNCHANGED <<zone_phase, zone_fault>>

TemperatureCheck(o) == Step = "Temperature" /\ UNCHANGED <<powered, zone_phase, zone_fault>>

(* rail: too much current arms a fault, and the module is tested all the same. *)
RailCheck(o) ==
  /\ Step = "ModemRail"
  /\ \/ zone_fault' = zone_fault
     \/ o = "good" /\ zone_fault' = Armed("Modem", "Overcurrent")
  /\ UNCHANGED <<powered, zone_phase>>

(* at: a model that is not supported fails the zone, and one more command follows. *)
AtCheck(o) ==
  /\ Step = "ModemAt"
  /\ \/ UNCHANGED <<zone_phase, zone_fault>>
     \/ o # "good" /\ Fails("Modem", "Model")
  /\ UNCHANGED powered

SimCheck(o) == Step = "ModemSim" /\ UNCHANGED <<powered, zone_phase, zone_fault>>

(* current: the module's supply is cut, unless the step is dropped before that. *)
CurrentCheck(o) ==
  /\ Step = "ModemCurrent"
  /\ \/ powered' = powered \ {"Modem"}
     \/ o \notin Returned /\ powered' = powered
  /\ UNCHANGED <<zone_phase, zone_fault>>

(* The check runs, with_timeout_ms around it. *)
Check ==
  /\ seq = "check" /\ truth[at] = "none"
  /\ \E o \in Outcomes :
       /\ truth' = [truth EXCEPT ![at] = o]
       /\ seq' = IF o = "stuck" THEN "check" ELSE "after"
       /\ \/ BootCheck(o) \/ ChargerCheck(o) \/ RailsCheck(o) \/ TemperatureCheck(o)
          \/ RailCheck(o) \/ AtCheck(o) \/ SimCheck(o) \/ CurrentCheck(o)
  /\ UNCHANGED <<at, passing, verdict, reported, failed, PHASE, deadline, baseline, panicked, boots>>

(* Mutant: a step that timed out has passed. *)
PassedIfNotBad(outcome) == outcome # "bad"

(* Outcome::passed, and timed_out. *)
Passed(outcome) == outcome = "good"

(* Mutant: the zone has failed, the jig's verdict is not looked at. *)
MayPowerAlways == baseline

(* A jig that failed its self-test cannot judge a module, and should not power one. *)
MayPower == baseline /\ zone_phase'["Board"] # "Fail"

(* Where the sequence goes from a step: modem_steps returns early on an empty slot, and *)
(* skips the SIM of a module that did not answer.                                       *)
After(ok) ==
  CASE Step = "Temperature" -> IF MayPower THEN 5 ELSE LastStep + 1
    [] Step = "ModemRail" -> IF ok THEN 6 ELSE LastStep + 1
    [] Step = "ModemAt" -> IF ok THEN 7 ELSE 8
    [] OTHER -> at + 1

(* run, once the check has returned: record, then a code for a failure that has none. *)
Record ==
  /\ seq = "after"
  /\ LET ok == Passed(truth[at])
         z == ZoneOf(at) IN
     /\ reported' = reported \cup {at}
     /\ failed' = IF ok THEN failed ELSE failed \cup {at}
     /\ IF ok THEN UNCHANGED <<zone_phase, zone_fault>> ELSE Fails(z, DefaultFault(at))
     /\ baseline' = (baseline \/ (Step = "Rails" /\ ok))
     /\ at' = After(ok)
     /\ seq' = IF After(ok) > LastStep THEN "park" ELSE "begin"
     /\ powered' = IF Step = "ModemRail" /\ ~ok THEN powered \ {"Modem"} ELSE powered
  /\ UNCHANGED <<passing, verdict, PHASE, deadline, panicked, truth, boots>>

(* Mutant: the outputs are left as the steps left them. *)
ParkNothing ==
  /\ seq = "park" /\ seq' = "publish"
  /\ UNCHANGED <<at, passing, verdict, reported, failed, zone_phase, zone_fault, PHASE, deadline, powered, baseline,
                 panicked, truth, boots>>

(* park_all_outputs *)
Park ==
  /\ seq = "park" /\ seq' = "publish" /\ powered' = {}
  /\ UNCHANGED <<at, passing, verdict, reported, failed, zone_phase, zone_fault, PHASE, deadline, baseline,
                 panicked, truth, boots>>

(* publish_verdict: it looks for the zones that run, stores their PHASE, looks for failures, *)
(* and stores the verdict.                                                                   *)
Publish ==
  /\ seq = "publish"
  /\ IF PHASE # "Running"
     THEN seq' = "done" /\ passing' = {}
     ELSE seq' = "zones" /\ passing' = {z \in Zones : zone_phase[z] = "Running"}
  /\ UNCHANGED <<at, verdict, reported, failed, zone_phase, zone_fault, PHASE, deadline, powered,
                 baseline, panicked, truth, boots>>

PassZones ==
  /\ seq = "zones" /\ seq' = "phase"
  /\ zone_phase' = [z \in Zones |-> IF z \in passing THEN "Pass" ELSE zone_phase[z]]
  /\ verdict' = IF AnythingFailed(zone_phase') THEN "Fail" ELSE "Pass"
  /\ passing' = {}
  /\ UNCHANGED <<at, reported, failed, zone_fault, PHASE, deadline, powered, baseline, panicked, truth, boots>>

SetPhase ==
  /\ seq = "phase" /\ seq' = "done"
  /\ PHASE' = verdict /\ verdict' = "Running"
  /\ UNCHANGED <<at, passing, reported, failed, zone_phase, zone_fault, deadline, powered, baseline,
                 panicked, truth, boots>>

Sequence ==
  \/ AfterPanic \/ BootTest \/ BeginStep \/ StoreRunning \/ Check \/ Record
  \/ Park \/ Publish \/ PassZones \/ SetPhase

(* Mutant: the deadline names no cause. *)
ExpireUnnamed ==
  /\ deadline = "waiting" /\ seq # "reset" /\ deadline' = "fired"
  /\ IF PHASE # "Running"
     THEN UNCHANGED <<powered, reported, failed, zone_phase, PHASE>>
     ELSE /\ powered' = {} /\ reported' = 1..LastStep /\ failed' = failed \cup Unreported
          /\ zone_phase' = [z \in Zones |-> "Fail"] /\ PHASE' = "Fail"
  /\ UNCHANGED <<seq, at, passing, verdict, zone_fault, baseline, panicked, truth, boots>>

(* deadline: park, fail the steps that have not reported, and blame the jig. *)
Expire ==
  /\ deadline = "waiting" /\ seq # "reset" /\ deadline' = "fired"
  /\ IF PHASE # "Running"
     THEN UNCHANGED <<powered, reported, failed, zone_phase, zone_fault, PHASE>>
     ELSE /\ powered' = {}
          /\ reported' = 1..LastStep /\ failed' = failed \cup Unreported
          /\ zone_phase' = [z \in Zones |->
                CASE z = "Board" \/ (\E i \in Unreported : ZoneOf(i) = z) -> "Fail"
                  [] OTHER -> IF zone_phase[z] = "Running" THEN "Pass" ELSE zone_phase[z]]
          /\ zone_fault' = Armed("Board", "Firmware")
          /\ PHASE' = "Fail"
  /\ UNCHANGED <<seq, at, passing, verdict, baseline, panicked, truth, boots>>

(* Mutant: a panic resets and nothing else. *)
PanicUnrecorded ==
  /\ seq \in {"check", "begin", "after"} /\ seq' = "reset"
  /\ UNCHANGED <<at, passing, verdict, reported, failed, zone_phase, zone_fault, PHASE, deadline, powered, baseline,
                 panicked, truth, boots>>

(* A panic in a step: the flag is set, and the board resets, which releases its outputs. *)
Panic ==
  /\ seq \in {"check", "begin", "after"} /\ seq' = "reset" /\ panicked' = TRUE
  /\ UNCHANGED <<at, passing, verdict, reported, failed, zone_phase, zone_fault, PHASE, deadline, powered, baseline,
                 truth, boots>>

ResetBoard ==
  /\ seq = "reset" /\ seq' = "boot" /\ powered' = {}
  /\ FreshStatics
  /\ UNCHANGED <<panicked, boots>>

(* The operator starts the next run. *)
PowerCycle ==
  /\ seq = "done" /\ boots < MaxRuns /\ boots' = boots + 1
  /\ seq' = "boot" /\ powered' = {} /\ FreshStatics
  /\ UNCHANGED panicked

FactoryNext == Sequence \/ Expire \/ Panic \/ ResetBoard \/ PowerCycle

(* The executor runs the sequence, the timer ends, a reset starts again; nothing makes a *)
(* panic happen.                                                                          *)
FactoryFairness == WF_factoryVars(Sequence) /\ WF_factoryVars(Expire) /\ WF_factoryVars(ResetBoard)

FactorySpec == FactoryInit /\ [][FactoryNext]_factoryVars /\ FactoryFairness

-----------------------------------------------------------------------------
(* A pass is earned: no run is published as passed unless every step ran and every check     *)
(* found what it should, neither a timeout nor a deadline in between; and a run that no       *)
(* deadline cut short and in which all of them did is passed, an armed fault notwithstanding. *)
PassIsEarned ==
  /\ PHASE = "Pass" => \A i \in 1..LastStep : truth[i] = "good"
  /\ seq = "done" /\ deadline = "waiting" /\ (\A i \in 1..LastStep : truth[i] = "good") => PHASE = "Pass"

(* "A jig that failed its self-test cannot judge a module, and should not power one": the    *)
(* modem's supply is on only while every check of the jig has passed.                        *)
BadJigPowersNothing ==
  "Modem" \in powered => \A i \in 1..4 : truth[i] = "good"

(* "so the board sits inert while the operator reads the LEDs": when the sequence has ended  *)
(* every supply is off, though a step dropped at its timeout left one on.                    *)
InertAtTheEnd == seq \in {"publish", "zones", "phase", "done"} => powered = {}

(* "no failure goes without a code": a failed verdict comes with a fault to blink, of one    *)
(* zone or the other, whichever task published it.                                           *)
FailureHasACode == PHASE = "Fail" => \E z \in Zones : zone_fault[z] # "none"

(* "A verdict the operator can read always exists", in the end (liveness): whatever hangs,   *)
(* never yields or panics, some boot publishes a verdict.                                    *)
VerdictShown == PHASE # "Running"

(* The factory test: a pass is earned by every check, a jig that failed powers no module, the  *)
(* board is inert when its test has ended, and every failure comes with a code.                *)
FactoryIsFair == PassIsEarned /\ BadJigPowersNothing /\ InertAtTheEnd /\ FailureHasACode

=============================================================================
