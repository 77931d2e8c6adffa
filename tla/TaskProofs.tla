----------------------------- MODULE TaskProofs -----------------------------
(***************************************************************************)
(* Tasks that run beside one another, for every value of their constants:  *)
(* the UART and its users, the modem driver, the factory test, the         *)
(* server's MQTT client, supervisor, views, exports, downsampled series    *)
(* and notifications, and the provisioning tool.                           *)
(***************************************************************************)
EXTENDS Uart, ModemStart, FactoryTest, ServerTasks, Provision, DataExport, Mail, ServerCore,
        FiniteSetTheorems, SequenceTheorems, WellFoundedInduction, TLAPS

-----------------------------------------------------------------------------
(* What the operations on sequences do to places. *)

LEMMA TailFacts ==
  ASSUME NEW S, NEW s \in Seq(S), s # <<>>
  PROVE  /\ Head(s) \in S /\ Head(s) = s[1] /\ 1 \in DOMAIN s
         /\ Tail(s) \in Seq(S) /\ Len(s) \in Nat \ {0} /\ Len(Tail(s)) = Len(s) - 1
         /\ DOMAIN s = 1 .. Len(s) /\ DOMAIN Tail(s) = 1 .. Len(s) - 1
         /\ \A n \in DOMAIN Tail(s) : n + 1 \in DOMAIN s /\ n + 1 > 1 /\ Tail(s)[n] = s[n + 1]
         /\ \A n \in DOMAIN s : n = 1 \/ (n - 1 \in DOMAIN Tail(s) /\ Tail(s)[n - 1] = s[n])
<1>1. /\ Head(s) \in S /\ Head(s) = s[1] /\ Tail(s) \in Seq(S) /\ Len(s) \in Nat \ {0}
      /\ Len(Tail(s)) = Len(s) - 1 /\ DOMAIN s = 1 .. Len(s)
      /\ \A n \in 1 .. Len(s) - 1 : Tail(s)[n] = s[n + 1]
  OBVIOUS
<1>2. DOMAIN Tail(s) = 1 .. Len(s) - 1
  BY <1>1
<1>3. QED BY <1>1, <1>2

LEMMA AppendFacts ==
  ASSUME NEW S, NEW s \in Seq(S), NEW x \in S
  PROVE  /\ Append(s, x) \in Seq(S) /\ Len(s) \in Nat /\ Len(Append(s, x)) = Len(s) + 1
         /\ DOMAIN s = 1 .. Len(s) /\ DOMAIN Append(s, x) = 1 .. Len(s) + 1
         /\ Append(s, x)[Len(s) + 1] = x
         /\ \A n \in DOMAIN s : n \in DOMAIN Append(s, x) /\ n <= Len(s) /\ Append(s, x)[n] = s[n]
         /\ \A n \in DOMAIN Append(s, x) : n = Len(s) + 1 \/ n \in DOMAIN s
<1>1. /\ Append(s, x) \in Seq(S) /\ Len(s) \in Nat /\ Len(Append(s, x)) = Len(s) + 1
      /\ DOMAIN s = 1 .. Len(s) /\ Append(s, x)[Len(s) + 1] = x
      /\ \A n \in 1 .. Len(s) : Append(s, x)[n] = s[n]
  OBVIOUS
<1>2. DOMAIN Append(s, x) = 1 .. Len(s) + 1
  BY <1>1
<1>3. QED BY <1>1, <1>2

-----------------------------------------------------------------------------
(* uartasync.rs *)

(* The state of the writer. *)
Writers == [pc : {"idle", "write", "flags", "flush", "tc"}, left : Int, reg : BOOLEAN,
            woken : BOOLEAN, res : {"none", "Ok", "Suspended", "Aborted"}]

(* A request to abort that a transfer can still see was made during that write. *)
AbortWasAsked == wr.pc \in {"write", "flags"} /\ abort => asked

(* The peripheral is off while suspended, and else runs at the rate asked for last. *)
RateFollows ==
  IF suspended = "Suspended" THEN brr = 0 ELSE brr = target /\ actual = target

(* The inductive invariant of the UART.                                                       *)
UartInv == wr \in Writers /\ AbortWasAsked /\ AbortIsMeant /\ RateFollows

LEMMA WokenKeeps ==
  ASSUME wr \in Writers
  PROVE  Woken(wr) \in Writers /\ Woken(wr).pc = wr.pc /\ Woken(wr).res = wr.res
BY DEF Woken, Writers

LEMMA WriterDoneKeeps ==
  ASSUME NEW res \in {"none", "Ok", "Suspended", "Aborted"}
  PROVE  WriterDone(res) \in Writers /\ WriterDone(res).pc = "idle" /\ WriterDone(res).res = res
BY DEF WriterDone, Writers

LEMMA ControlKept == UartInv /\ (Suspend \/ Resume \/ SetBaudRate) => UartInv'
<1> SUFFICES ASSUME UartInv, Suspend \/ Resume \/ SetBaudRate PROVE UartInv'
  OBVIOUS
<1>1. /\ wr' \in Writers /\ wr'.pc = wr.pc /\ wr'.res = wr.res
      /\ (asked' \/ UNCHANGED <<abort, asked>>)
  BY WokenKeeps DEF UartInv, Suspend, Resume, SetBaudRate
<1>2. RateFollows'
  BY DEF UartInv, RateFollows, Suspend, Resume, SetBaudRate
<1>3. QED
  BY <1>1, <1>2 DEF UartInv, AbortWasAsked, AbortIsMeant

LEMMA HandlerKept == UartInv /\ (HardwareStep \/ ByteArrives) => UartInv'
<1> SUFFICES ASSUME UartInv, HardwareStep \/ ByteArrives PROVE UartInv'
  OBVIOUS
<1>1. /\ wr' \in Writers /\ wr'.pc = wr.pc /\ wr'.res = wr.res
      /\ UNCHANGED <<abort, asked, brr, target, actual>>
      /\ (suspended = "Suspended") <=> (suspended' = "Suspended")
  BY WokenKeeps DEF UartInv, HardwareStep, UartIsr, TxDmaIsr, TransferEnds, LineDrains, ByteArrives
<1>2. QED
  BY <1>1 DEF UartInv, AbortWasAsked, AbortIsMeant, RateFollows

LEMMA BeginKeeps ==
  ASSUME NEW w \in Writers, Begin(w)
  PROVE  wr' \in Writers /\ wr'.pc = "write" /\ wr'.res = w.res /\ abort' = FALSE
BY DEF Begin, Writers

LEMMA StartedWrite ==
  ASSUME NEW w \in Writers, NEW n \in Int
  PROVE  /\ [w EXCEPT !.left = n, !.res = "none"] \in Writers
         /\ [w EXCEPT !.left = n, !.res = "none"].res = "none"
BY DEF Writers

LEMMA WriterKept == UartInv /\ (Write \/ Flush \/ WriterStep) => UartInv'
<1> SUFFICES ASSUME UartInv, Write \/ Flush \/ WriterStep PROVE UartInv'
  OBVIOUS
<1>0. wr \in Writers /\ RateFollows
  BY DEF UartInv
<1>1. CASE Write
  <2>1. UNCHANGED <<suspended, target, actual, brr>>
    BY <1>1 DEF Write
  <2>2. wr' \in Writers /\ wr'.res # "Aborted" /\ (wr'.pc = "write" => abort' = FALSE) /\ wr'.pc \in {"idle", "write"}
    <3>1. CASE suspended = "Suspended"
      BY <3>1, <1>1, WriterDoneKeeps DEF Write
    <3>2. CASE suspended # "Suspended"
      <4>1. PICK n \in 1 .. MaxChunks : Begin([wr EXCEPT !.left = n, !.res = "none"])
        BY <3>2, <1>1 DEF Write
      <4>2. /\ [wr EXCEPT !.left = n, !.res = "none"] \in Writers
            /\ [wr EXCEPT !.left = n, !.res = "none"].res = "none"
        <5>1. n \in Int
          BY UartAssumption
        <5>2. QED BY <1>0, <5>1, StartedWrite
      <4>3. QED BY <4>1, <4>2, BeginKeeps
    <3>3. QED BY <3>1, <3>2
  <2>3. QED
    BY <1>0, <2>1, <2>2 DEF UartInv, AbortWasAsked, AbortIsMeant, RateFollows
<1>2. CASE Flush
  <2>1. UNCHANGED <<suspended, target, actual, brr, abort, asked>>
    BY <1>2 DEF Flush
  <2>2. wr' \in Writers /\ wr'.res # "Aborted" /\ wr'.pc \in {"idle", "flush"}
    BY ZenonT(30), <1>0, <1>2, WriterDoneKeeps DEF Flush, Writers
  <2>3. QED
    BY <1>0, <2>1, <2>2 DEF UartInv, AbortWasAsked, AbortIsMeant, RateFollows
<1>3. CASE PollRegister
  <2>1. UNCHANGED <<suspended, target, actual, brr, abort, asked>>
    BY <1>3 DEF PollRegister
  <2>2. /\ wr' \in Writers /\ (wr'.res = "Aborted" => wr.res = "Aborted")
        /\ wr'.pc \in {"write", "flags"} => wr.pc \in {"write", "flags"}
    <3>1. CASE wr' = WriterDone("Suspended")
      BY <3>1, WriterDoneKeeps
    <3>2. CASE wr' = [wr EXCEPT !.pc = IF @ = "write" THEN "flags" ELSE "tc", !.woken = FALSE, !.reg = TRUE]
      BY <1>0, <1>3, <3>2 DEF PollRegister, Writers
    <3>3. QED BY <1>3, <3>1, <3>2 DEF PollRegister
  <2>3. QED
    BY <1>0, <2>1, <2>2 DEF UartInv, AbortWasAsked, AbortIsMeant, RateFollows
<1>4. CASE PollTransfer
  <2>1. UNCHANGED <<suspended, target, actual, brr, asked>> /\ wr.pc = "flags"
    BY <1>4 DEF PollTransfer
  <2>2. /\ wr' \in Writers /\ (wr'.res = "Aborted" => wr.res = "Aborted" \/ abort)
        /\ wr'.pc = "idle" \/ ~abort' \/ abort' = abort
    <3>1. /\ [wr EXCEPT !.left = @ - 1] \in Writers /\ [wr EXCEPT !.left = @ - 1].res = wr.res
          /\ [wr EXCEPT !.pc = "write"] \in Writers /\ [wr EXCEPT !.pc = "write"].res = wr.res
      BY <1>0 DEF Writers
    <3>2. CASE wr' = WriterDone("Ok")
      BY <3>2, WriterDoneKeeps
    <3>3. CASE Begin([wr EXCEPT !.left = @ - 1])
      BY <3>1, <3>3, BeginKeeps
    <3>4. CASE wr' = WriterDone("Aborted") /\ abort
      BY <3>4, WriterDoneKeeps
    <3>5. CASE wr' = [wr EXCEPT !.pc = "write"] /\ UNCHANGED abort
      BY <3>1, <3>5
    <3>6. QED BY <1>4, <3>2, <3>3, <3>4, <3>5 DEF PollTransfer
  <2>3. QED
    BY <1>0, <2>1, <2>2 DEF UartInv, AbortWasAsked, AbortIsMeant, RateFollows
<1>5. CASE PollTc
  <2>1. UNCHANGED <<suspended, target, actual, brr, abort, asked>>
    BY <1>5 DEF PollTc
  <2>2. /\ wr' \in Writers /\ (wr'.res = "Aborted" => wr.res = "Aborted")
        /\ wr'.pc \in {"idle", "flush"}
    BY <1>0, <1>5, WriterDoneKeeps DEF PollTc, Writers
  <2>3. QED
    BY <1>0, <2>1, <2>2 DEF UartInv, AbortWasAsked, AbortIsMeant, RateFollows
<1>6. QED
  BY <1>1, <1>2, <1>3, <1>4, <1>5 DEF WriterStep

(* uartasync.rs, with the writer, the control side and the interrupt handlers in any order: a *)
(* write is aborted only by a request made while it went on, and the peripheral runs at the   *)
(* rate that was asked for last whenever it is not suspended.                                 *)
THEOREM UartStaysSafe == UartSpec => []UartIsSafe
<1>1. UartInit => UartInv
  BY DEF UartInit, UartInv, Writers, AbortWasAsked, AbortIsMeant, RateFollows
<1>2. UartInv /\ [UartNext]_uartVars => UartInv'
  <2> SUFFICES ASSUME UartInv, [UartNext]_uartVars PROVE UartInv'
    OBVIOUS
  <2>1. CASE Read \/ ReaderStep \/ UNCHANGED uartVars
    BY <2>1 DEF UartInv, AbortWasAsked, AbortIsMeant, RateFollows, Read, ReaderStep, ReadRegister, TryRead, uartVars
  <2>2. QED
    BY <2>1, ControlKept, HandlerKept, WriterKept DEF UartNext
<1>3. UartInv => UartIsSafe
  BY DEF UartInv, UartIsSafe, RateFollows, RateIsTarget
<1>4. QED
  BY <1>1, <1>2, <1>3, PTL DEF UartSpec

-----------------------------------------------------------------------------
(* The factory test *)

(* The two halves of the test sequence, and what the truth about the module is.               *)
Running == seq \in {"begin", "store", "check", "after"}
Ending == seq \in {"park", "publish", "zones", "phase", "done"}
AllGood == \A i \in 1 .. LastStep : truth[i] = "good"
BadAt(i) == truth[i] \in {"bad", "hangs", "stuck"}

FaultCodes == {"none", "Firmware", "Mcu", "Charger", "Rails", "Temperature", "NoCurrent", "NoResponse",
               "Sim", "Overcurrent", "Model"}

FactoryTypeOK ==
  /\ Running \/ Ending \/ seq \in {"boot", "reset"}
  /\ at \in 1 .. LastStep + 1 /\ (Running => at <= LastStep)
  /\ passing \in SUBSET Zones /\ reported \in SUBSET (1 .. LastStep) /\ failed \in SUBSET (1 .. LastStep)
  /\ zone_phase \in [Zones -> {"Idle", "Running", "Pass", "Fail"}] /\ zone_fault \in [Zones -> FaultCodes]
  /\ PHASE \in {"Running", "Pass", "Fail"} /\ verdict \in {"Running", "Pass", "Fail"}
  /\ deadline \in {"waiting", "fired"} /\ baseline \in BOOLEAN /\ panicked \in BOOLEAN
  /\ powered \in SUBSET {"5V5", "Modem"}
  /\ truth \in [1 .. LastStep -> Outcomes \cup {"none"}]
  /\ seq = "after" => truth[at] \in Outcomes

(* After a reset everything is as it was, unless the deadline has struck. *)
FreshAtBoot ==
  seq = "boot" =>
    /\ powered = {} /\ at = 1 /\ \A i \in 1 .. LastStep : truth[i] = "none"
    /\ deadline = "waiting" => reported = {}
    /\ failed # {} \/ zone_phase["Board"] # "Fail"

(* While the steps run, a step behind that is not good was reported as failed, and so was *)
(* a deadline.                                                                            *)
StepsTold ==
  Running =>
    /\ deadline = "waiting" => \A i \in reported : i < at
    /\ \/ failed # {}
       \/ /\ \A i \in 1 .. LastStep : i < at => truth[i] = "good"
          /\ (at > 3 => baseline) /\ zone_phase["Board"] # "Fail"

(* When the verdict is made, everything was good, or it shows in a step or a zone that has *)
(* failed and that is not about to be passed.                                              *)
EndTold ==
  seq \in {"park", "publish", "zones"} =>
    \/ failed # {} \/ AllGood
    \/ zone_phase["Board"] = "Fail" /\ (seq = "zones" => "Board" \notin passing)

(* A verdict and what is shown of it are earned.                                              *)
VerdictsEarned == (verdict = "Pass" \/ PHASE = "Pass") => AllGood

(* Without a deadline, what has failed was a check that found something, or a panic. *)
FailuresReal ==
  deadline = "waiting" =>
    /\ \A i \in failed : BadAt(i)
    /\ (\E z \in Zones : zone_phase[z] = "Fail") =>
         (\E i \in 1 .. LastStep : BadAt(i)) \/ (Ending /\ truth[1] = "none")

(* What is shown follows the verdict.                                                         *)
PublishedRight ==
  deadline = "waiting" =>
    /\ seq # "done" => PHASE = "Running"
    /\ seq = "phase" /\ AllGood => verdict = "Pass"
    /\ seq = "done" /\ AllGood => PHASE = "Pass"

(* The jig comes first: the steps of the modem begin only when all its own were good. *)
JigFirst ==
  /\ BadJigPowersNothing
  /\ Running /\ at > 4 => \A i \in 1 .. 4 : truth[i] = "good"
  /\ Running /\ at <= 4 => \/ \A i \in 1 .. LastStep : i < at => truth[i] = "good"
                           \/ zone_phase["Board"] = "Fail" /\ seq # "store"

(* A failure, wherever it is noted, has a code in some zone.                                  *)
Coded ==
  (failed # {} \/ verdict = "Fail" \/ PHASE = "Fail" \/ \E z \in Zones : zone_phase[z] = "Fail")
    => \E z \in Zones : zone_fault[z] # "none"

FactoryInv ==
  /\ FactoryTypeOK /\ FreshAtBoot /\ StepsTold /\ EndTold /\ VerdictsEarned /\ FailuresReal
  /\ PublishedRight /\ JigFirst /\ Coded /\ InertAtTheEnd
LEMMA ArmedType ==
  ASSUME zone_fault \in [Zones -> FaultCodes], NEW z \in Zones, NEW f \in FaultCodes, f # "none"
  PROVE  /\ Armed(z, f) \in [Zones -> FaultCodes] /\ Armed(z, f)[z] # "none"
         /\ \A y \in Zones : zone_fault[y] # "none" => Armed(z, f)[y] # "none"
BY DEF Armed

LEMMA FreshType ==
  ASSUME FreshStatics
  PROVE  /\ at' = 1 /\ passing' = {} /\ reported' = {} /\ failed' = {}
         /\ zone_phase' \in [Zones -> {"Idle", "Running", "Pass", "Fail"}]
         /\ \A z \in Zones : zone_phase'[z] = "Idle"
         /\ zone_fault' \in [Zones -> FaultCodes] /\ PHASE' = "Running" /\ verdict' = "Running"
         /\ deadline' = "waiting" /\ baseline' = FALSE
         /\ truth' \in [1 .. LastStep -> Outcomes \cup {"none"}]
         /\ \A i \in 1 .. LastStep : truth'[i] = "none"
<1>1. /\ zone_phase' = [z \in Zones |-> "Idle"] /\ zone_fault' = [z \in Zones |-> "none"]
      /\ truth' = [i \in 1 .. LastStep |-> "none"]
  BY DEF FreshStatics
<1>2. zone_fault' \in [Zones -> FaultCodes]
  BY <1>1 DEF FaultCodes
<1>3. QED
  BY <1>1, <1>2 DEF FreshStatics

LEMMA AfterPanicKept == FactoryInv /\ AfterPanic => FactoryInv'
<1> SUFFICES ASSUME FactoryInv, AfterPanic PROVE FactoryInv'
  OBVIOUS
<1> USE DEF FactoryInv, FactoryTypeOK, FreshAtBoot, StepsTold, EndTold, VerdictsEarned, FailuresReal,
  PublishedRight, JigFirst, BadJigPowersNothing, Coded, InertAtTheEnd, Running, Ending, AllGood, BadAt,
  LastStep, Zones, Outcomes, Returned
<1>0. /\ zone_fault' \in [Zones -> FaultCodes] /\ zone_fault'["Board"] # "none"
      /\ zone_phase' = [zone_phase EXCEPT !["Board"] = "Fail"]
  BY ArmedType DEF AfterPanic, Fails, FaultCodes
<1>1. FactoryTypeOK'
  BY <1>0 DEF AfterPanic
<1>2. FreshAtBoot' /\ StepsTold' /\ EndTold' /\ VerdictsEarned'
  BY <1>0 DEF AfterPanic
<1>3. FailuresReal' /\ PublishedRight' /\ JigFirst' /\ Coded' /\ InertAtTheEnd'
  BY <1>0 DEF AfterPanic
<1>4. QED BY <1>1, <1>2, <1>3

LEMMA BootTestKept == FactoryInv /\ BootTest => FactoryInv'
<1> SUFFICES ASSUME FactoryInv, BootTest PROVE FactoryInv'
  OBVIOUS
<1> USE DEF FactoryInv, FactoryTypeOK, FreshAtBoot, StepsTold, EndTold, VerdictsEarned, FailuresReal,
  PublishedRight, JigFirst, BadJigPowersNothing, Coded, InertAtTheEnd, Running, Ending, AllGood, BadAt,
  LastStep, Zones, Outcomes, Returned
<1>1. FactoryTypeOK'
  BY DEF BootTest
<1>2. FreshAtBoot' /\ StepsTold' /\ EndTold' /\ VerdictsEarned'
  BY DEF BootTest
<1>3. FailuresReal' /\ PublishedRight' /\ JigFirst' /\ Coded' /\ InertAtTheEnd'
  BY DEF BootTest
<1>4. QED BY <1>1, <1>2, <1>3

LEMMA BeginStepKept == FactoryInv /\ BeginStep => FactoryInv'
<1> SUFFICES ASSUME FactoryInv, BeginStep PROVE FactoryInv'
  OBVIOUS
<1> USE DEF FactoryInv, FactoryTypeOK, FreshAtBoot, StepsTold, EndTold, VerdictsEarned, FailuresReal,
  PublishedRight, JigFirst, BadJigPowersNothing, Coded, InertAtTheEnd, Running, Ending, AllGood, BadAt,
  LastStep, Zones, Outcomes, Returned
<1>1. FactoryTypeOK'
  BY DEF BeginStep, ZoneOf, Step, Steps
<1>2. FreshAtBoot' /\ StepsTold' /\ EndTold' /\ VerdictsEarned'
  BY DEF BeginStep, ZoneOf, Step, Steps
<1>3. FailuresReal' /\ PublishedRight' /\ JigFirst' /\ Coded' /\ InertAtTheEnd'
  BY DEF BeginStep, ZoneOf, Step, Steps
<1>4. QED BY <1>1, <1>2, <1>3

LEMMA StoreRunningKept == FactoryInv /\ StoreRunning => FactoryInv'
<1> SUFFICES ASSUME FactoryInv, StoreRunning PROVE FactoryInv'
  OBVIOUS
<1> USE DEF FactoryInv, FactoryTypeOK, FreshAtBoot, StepsTold, EndTold, VerdictsEarned, FailuresReal,
  PublishedRight, JigFirst, BadJigPowersNothing, Coded, InertAtTheEnd, Running, Ending, AllGood, BadAt,
  LastStep, Zones, Outcomes, Returned
<1>1. FactoryTypeOK'
  BY DEF StoreRunning, ZoneOf
<1>2. FreshAtBoot' /\ StepsTold' /\ EndTold' /\ VerdictsEarned'
  BY DEF StoreRunning, ZoneOf
<1>3. FailuresReal' /\ PublishedRight' /\ JigFirst' /\ Coded' /\ InertAtTheEnd'
  BY DEF StoreRunning, ZoneOf
<1>4. QED BY <1>1, <1>2, <1>3

LEMMA ParkKept == FactoryInv /\ Park => FactoryInv'
<1> SUFFICES ASSUME FactoryInv, Park PROVE FactoryInv'
  OBVIOUS
<1> USE DEF FactoryInv, FactoryTypeOK, FreshAtBoot, StepsTold, EndTold, VerdictsEarned, FailuresReal,
  PublishedRight, JigFirst, BadJigPowersNothing, Coded, InertAtTheEnd, Running, Ending, AllGood, BadAt,
  LastStep, Zones, Outcomes, Returned
<1>1. FactoryTypeOK'
  BY DEF Park
<1>2. FreshAtBoot' /\ StepsTold' /\ EndTold' /\ VerdictsEarned'
  BY DEF Park
<1>3. FailuresReal' /\ PublishedRight' /\ JigFirst' /\ Coded' /\ InertAtTheEnd'
  BY DEF Park
<1>4. QED BY <1>1, <1>2, <1>3

LEMMA PublishKept == FactoryInv /\ Publish => FactoryInv'
<1> SUFFICES ASSUME FactoryInv, Publish PROVE FactoryInv'
  OBVIOUS
<1> USE DEF FactoryInv, FactoryTypeOK, FreshAtBoot, StepsTold, EndTold, VerdictsEarned, FailuresReal,
  PublishedRight, JigFirst, BadJigPowersNothing, Coded, InertAtTheEnd, Running, Ending, AllGood, BadAt,
  LastStep, Zones, Outcomes, Returned
<1>1. FactoryTypeOK'
  BY DEF Publish
<1>2. FreshAtBoot' /\ StepsTold' /\ EndTold' /\ VerdictsEarned'
  BY DEF Publish
<1>3. FailuresReal' /\ PublishedRight' /\ JigFirst' /\ Coded' /\ InertAtTheEnd'
  BY DEF Publish
<1>4. QED BY <1>1, <1>2, <1>3

LEMMA PassZonesKept == FactoryInv /\ PassZones => FactoryInv'
<1> SUFFICES ASSUME FactoryInv, PassZones PROVE FactoryInv'
  OBVIOUS
<1> USE DEF FactoryInv, FactoryTypeOK, FreshAtBoot, StepsTold, EndTold, VerdictsEarned, FailuresReal,
  PublishedRight, JigFirst, BadJigPowersNothing, Coded, InertAtTheEnd, Running, Ending, AllGood, BadAt,
  LastStep, Zones, Outcomes, Returned
<1>1. FactoryTypeOK'
  BY DEF PassZones, AnythingFailed
<1>2. FreshAtBoot' /\ StepsTold' /\ EndTold' /\ VerdictsEarned'
  BY DEF PassZones, AnythingFailed
<1>3. PublishedRight'
  <2> SUFFICES ASSUME deadline = "waiting", AllGood PROVE verdict' = "Pass"
    BY DEF PassZones
  <2>1. failed = {} /\ \A z \in Zones : zone_phase[z] # "Fail"
    <3>1. \A i \in 1 .. LastStep : ~BadAt(i)
      OBVIOUS
    <3>2. QED BY <3>1
  <2>2. QED BY <2>1 DEF PassZones, AnythingFailed
<1>4. FailuresReal' /\ JigFirst' /\ Coded' /\ InertAtTheEnd'
  BY DEF PassZones, AnythingFailed
<1>5. QED BY <1>1, <1>2, <1>3, <1>4

LEMMA SetPhaseKept == FactoryInv /\ SetPhase => FactoryInv'
<1> SUFFICES ASSUME FactoryInv, SetPhase PROVE FactoryInv'
  OBVIOUS
<1> USE DEF FactoryInv, FactoryTypeOK, FreshAtBoot, StepsTold, EndTold, VerdictsEarned, FailuresReal,
  PublishedRight, JigFirst, BadJigPowersNothing, Coded, InertAtTheEnd, Running, Ending, AllGood, BadAt,
  LastStep, Zones, Outcomes, Returned
<1>1. FactoryTypeOK'
  BY DEF SetPhase
<1>2. FreshAtBoot' /\ StepsTold' /\ EndTold' /\ VerdictsEarned'
  BY DEF SetPhase
<1>3. FailuresReal' /\ PublishedRight' /\ JigFirst' /\ Coded' /\ InertAtTheEnd'
  BY DEF SetPhase
<1>4. QED BY <1>1, <1>2, <1>3

LEMMA PanicKept == FactoryInv /\ Panic => FactoryInv'
<1> SUFFICES ASSUME FactoryInv, Panic PROVE FactoryInv'
  OBVIOUS
<1> USE DEF FactoryInv, FactoryTypeOK, FreshAtBoot, StepsTold, EndTold, VerdictsEarned, FailuresReal,
  PublishedRight, JigFirst, BadJigPowersNothing, Coded, InertAtTheEnd, Running, Ending, AllGood, BadAt,
  LastStep, Zones, Outcomes, Returned
<1>1. FactoryTypeOK'
  BY DEF Panic
<1>2. FreshAtBoot' /\ StepsTold' /\ EndTold' /\ VerdictsEarned'
  BY DEF Panic
<1>3. FailuresReal' /\ PublishedRight' /\ JigFirst' /\ Coded' /\ InertAtTheEnd'
  BY DEF Panic
<1>4. QED BY <1>1, <1>2, <1>3

LEMMA ResetBoardKept == FactoryInv /\ ResetBoard => FactoryInv'
<1> SUFFICES ASSUME FactoryInv, ResetBoard PROVE FactoryInv'
  OBVIOUS
<1> USE DEF FactoryInv, FactoryTypeOK, FreshAtBoot, StepsTold, EndTold, VerdictsEarned, FailuresReal,
  PublishedRight, JigFirst, BadJigPowersNothing, Coded, InertAtTheEnd, Running, Ending, AllGood, BadAt,
  LastStep, Zones, Outcomes, Returned
<1>1. FactoryTypeOK'
  BY FreshType DEF ResetBoard
<1>2. FreshAtBoot' /\ StepsTold' /\ EndTold' /\ VerdictsEarned'
  BY FreshType DEF ResetBoard
<1>3. FailuresReal' /\ PublishedRight' /\ JigFirst' /\ Coded' /\ InertAtTheEnd'
  BY FreshType DEF ResetBoard
<1>4. QED BY <1>1, <1>2, <1>3

LEMMA PowerCycleKept == FactoryInv /\ PowerCycle => FactoryInv'
<1> SUFFICES ASSUME FactoryInv, PowerCycle PROVE FactoryInv'
  OBVIOUS
<1> USE DEF FactoryInv, FactoryTypeOK, FreshAtBoot, StepsTold, EndTold, VerdictsEarned, FailuresReal,
  PublishedRight, JigFirst, BadJigPowersNothing, Coded, InertAtTheEnd, Running, Ending, AllGood, BadAt,
  LastStep, Zones, Outcomes, Returned
<1>1. FactoryTypeOK'
  BY FreshType DEF PowerCycle
<1>2. FreshAtBoot' /\ StepsTold' /\ EndTold' /\ VerdictsEarned'
  BY FreshType DEF PowerCycle
<1>3. FailuresReal' /\ PublishedRight' /\ JigFirst' /\ Coded' /\ InertAtTheEnd'
  BY FreshType DEF PowerCycle
<1>4. QED BY <1>1, <1>2, <1>3

LEMMA ExpireKept == FactoryInv /\ Expire => FactoryInv'
<1> SUFFICES ASSUME FactoryInv, Expire PROVE FactoryInv'
  OBVIOUS
<1> USE DEF FactoryInv, FactoryTypeOK, FreshAtBoot, StepsTold, EndTold, VerdictsEarned, FailuresReal,
  PublishedRight, JigFirst, BadJigPowersNothing, Coded, InertAtTheEnd, Running, Ending, AllGood, BadAt,
  LastStep, Zones, Outcomes, Returned
<1>1. CASE PHASE # "Running"
  BY <1>1 DEF Expire
<1>2. CASE PHASE = "Running"
  <2>1. /\ zone_fault' \in [Zones -> FaultCodes] /\ zone_fault'["Board"] # "none"
        /\ zone_phase' \in [Zones -> {"Idle", "Running", "Pass", "Fail"}] /\ zone_phase'["Board"] = "Fail"
        /\ reported' = 1 .. LastStep /\ failed' = failed \cup Unreported /\ failed' \in SUBSET (1 .. LastStep)
        /\ powered' = {} /\ PHASE' = "Fail" /\ deadline = "waiting" /\ deadline' = "fired"
        /\ UNCHANGED <<seq, at, passing, verdict, baseline, panicked, truth, boots>>
    <3>1. zone_fault' \in [Zones -> FaultCodes] /\ zone_fault'["Board"] # "none"
      BY <1>2, ArmedType DEF Expire, FaultCodes
    <3>2. zone_phase' \in [Zones -> {"Idle", "Running", "Pass", "Fail"}] /\ zone_phase'["Board"] = "Fail"
      BY <1>2 DEF Expire
    <3>3. QED
      BY <1>2, <3>1, <3>2 DEF Expire, Unreported
  <2>2. (Running \/ seq = "boot") => failed' # {}
    <3>1. Running \/ seq = "boot" => at \in 1 .. LastStep /\ at \notin reported
      BY <2>1
    <3>2. QED BY <2>1, <3>1 DEF Unreported
  <2>3. FactoryTypeOK' /\ FreshAtBoot' /\ StepsTold'
    BY <2>1, <2>2
  <2>4. EndTold' /\ VerdictsEarned' /\ FailuresReal' /\ PublishedRight' /\ JigFirst' /\ Coded' /\ InertAtTheEnd'
    BY <2>1
  <2>5. QED BY <2>3, <2>4
<1>3. QED BY <1>1, <1>2

LEMMA StepIs ==
  ASSUME at \in 1 .. LastStep
  PROVE  /\ Step = "Boot" <=> at = 1
         /\ Step = "Charger" <=> at = 2
         /\ Step = "Rails" <=> at = 3
         /\ Step = "Temperature" <=> at = 4
         /\ Step = "ModemRail" <=> at = 5
         /\ Step = "ModemAt" <=> at = 6
         /\ Step = "ModemSim" <=> at = 7
         /\ Step = "ModemCurrent" <=> at = 8
         /\ DefaultFault(at) \in FaultCodes /\ DefaultFault(at) # "none" /\ ZoneOf(at) \in Zones
         /\ ZoneOf(at) = "Board" <=> at <= 4
BY DEF Step, Steps, LastStep, DefaultFault, FaultCodes, ZoneOf, Zones

LEMMA CheckKept == FactoryInv /\ Check => FactoryInv'
<1> SUFFICES ASSUME FactoryInv, Check PROVE FactoryInv'
  OBVIOUS
<1> USE DEF FactoryInv, FactoryTypeOK, FreshAtBoot, StepsTold, EndTold, VerdictsEarned, FailuresReal,
  PublishedRight, JigFirst, BadJigPowersNothing, Coded, InertAtTheEnd, Running, Ending, AllGood, BadAt,
  LastStep, Zones, Outcomes, Returned
<1>1. PICK o \in Outcomes :
        /\ truth' = [truth EXCEPT ![at] = o] /\ seq' = IF o = "stuck" THEN "check" ELSE "after"
        /\ \/ BootCheck(o) \/ ChargerCheck(o) \/ RailsCheck(o) \/ TemperatureCheck(o)
           \/ RailCheck(o) \/ AtCheck(o) \/ SimCheck(o) \/ CurrentCheck(o)
  BY DEF Check
<1>2. /\ seq = "check" /\ truth[at] = "none" /\ at \in 1 .. LastStep
      /\ UNCHANGED <<at, passing, verdict, reported, failed, PHASE, deadline, baseline, panicked, boots>>
  BY DEF Check
<1>3. /\ powered' \in SUBSET {"5V5", "Modem"} /\ ("Modem" \in powered' => "Modem" \in powered)
      /\ zone_fault' \in [Zones -> FaultCodes] /\ (\A z \in Zones : zone_fault[z] # "none" => zone_fault'[z] # "none")
      /\ \/ zone_phase' = zone_phase
         \/ /\ o # "good" /\ zone_phase' = [zone_phase EXCEPT !["Modem"] = "Fail"]
            /\ zone_fault'["Modem"] # "none"
  <2>1. CASE BootCheck(o) \/ ChargerCheck(o) \/ RailsCheck(o) \/ TemperatureCheck(o) \/ SimCheck(o) \/ CurrentCheck(o)
    BY <2>1 DEF BootCheck, ChargerCheck, RailsCheck, TemperatureCheck, SimCheck, CurrentCheck
  <2>2. CASE RailCheck(o)
    BY <2>2, ArmedType DEF RailCheck, FaultCodes
  <2>3. CASE AtCheck(o)
    BY <2>3, ArmedType DEF AtCheck, Fails, FaultCodes
  <2>4. QED BY <1>1, <2>1, <2>2, <2>3
<1>4. /\ truth' \in [1 .. LastStep -> Outcomes \cup {"none"}] /\ truth'[at] = o
      /\ \A i \in 1 .. LastStep : i # at => truth'[i] = truth[i]
      /\ \A i \in 1 .. LastStep : truth[i] # "none" => truth'[i] = truth[i]
      /\ zone_phase' \in [Zones -> {"Idle", "Running", "Pass", "Fail"}] /\ zone_phase'["Board"] = zone_phase["Board"]
      /\ seq' \in {"check", "after"}
  BY <1>1, <1>2, <1>3
<1>5. FactoryTypeOK' /\ FreshAtBoot' /\ EndTold' /\ InertAtTheEnd'
  BY <1>1, <1>2, <1>3, <1>4
<1>6. StepsTold'
  BY <1>2, <1>4
<1>7. VerdictsEarned' /\ PublishedRight'
  BY <1>2, <1>4
<1>8. FailuresReal'
  <2>1. o # "good" => BadAt(at)'
    BY <1>2, <1>4
  <2>2. \A i \in 1 .. LastStep : BadAt(i) => BadAt(i)'
    BY <1>4
  <2>3. QED BY <1>2, <1>3, <2>1, <2>2
<1>9. JigFirst'
  BY <1>2, <1>3, <1>4
<1>10. Coded'
  BY <1>2, <1>3
<1>11. QED BY <1>5, <1>6, <1>7, <1>8, <1>9, <1>10

LEMMA RecordKept == FactoryInv /\ Record => FactoryInv'
<1> SUFFICES ASSUME FactoryInv, Record PROVE FactoryInv'
  OBVIOUS
<1> USE DEF FactoryInv, FactoryTypeOK, FreshAtBoot, StepsTold, EndTold, VerdictsEarned, FailuresReal,
  PublishedRight, JigFirst, BadJigPowersNothing, Coded, InertAtTheEnd, Running, Ending, AllGood, BadAt,
  LastStep, Zones, Outcomes, Returned
<1> DEFINE ok == truth[at] = "good"
<1>1. /\ seq = "after" /\ at \in 1 .. LastStep /\ truth[at] \in Outcomes
      /\ reported' = reported \cup {at} /\ failed' = IF ok THEN failed ELSE failed \cup {at}
      /\ IF ok THEN UNCHANGED <<zone_phase, zone_fault>> ELSE Fails(ZoneOf(at), DefaultFault(at))
      /\ baseline' = (baseline \/ (at = 3 /\ ok))
      /\ at' = After(ok) /\ seq' = IF After(ok) > LastStep THEN "park" ELSE "begin"
      /\ powered' = IF at = 5 /\ ~ok THEN powered \ {"Modem"} ELSE powered
      /\ UNCHANGED <<passing, verdict, PHASE, deadline, panicked, truth, boots>>
  BY StepIs DEF Record, Passed
<1>2. After(ok) = CASE at = 4 -> (IF baseline /\ zone_phase'["Board"] # "Fail" THEN 5 ELSE 9)
                    [] at = 5 -> (IF ok THEN 6 ELSE 9)
                    [] at = 6 -> (IF ok THEN 7 ELSE 8)
                    [] OTHER -> at + 1
  BY <1>1, StepIs DEF After, MayPower
<1>3. /\ zone_fault' \in [Zones -> FaultCodes] /\ (\A z \in Zones : zone_fault[z] # "none" => zone_fault'[z] # "none")
      /\ zone_phase' = IF ok THEN zone_phase ELSE [zone_phase EXCEPT ![ZoneOf(at)] = "Fail"]
      /\ ~ok => zone_fault'[ZoneOf(at)] # "none"
      /\ ZoneOf(at) \in Zones /\ (ZoneOf(at) = "Board" <=> at <= 4)
  BY <1>1, StepIs, ArmedType DEF Fails
<1>4. /\ zone_phase' \in [Zones -> {"Idle", "Running", "Pass", "Fail"}] /\ seq' \in {"park", "begin"}
      /\ at' \in 2 .. LastStep + 1 /\ at < at' /\ (seq' = "begin" <=> at' <= LastStep)
      /\ ok => zone_phase' = zone_phase /\ failed' = failed
      /\ ~ok => failed' # {} /\ BadAt(at)
  BY <1>1, <1>2, <1>3
<1>5. FactoryTypeOK' /\ FreshAtBoot' /\ VerdictsEarned' /\ PublishedRight' /\ InertAtTheEnd'
  BY <1>1, <1>3, <1>4
<1>6. StepsTold' /\ EndTold'
  <2>1. CASE ok /\ failed = {}
    <3>1. /\ \A i \in 1 .. LastStep : i <= at => truth[i] = "good"
          /\ (at > 3 => baseline) /\ zone_phase'["Board"] # "Fail" /\ failed' = {} /\ at' = at + 1
      BY <2>1, <1>1, <1>2, <1>4
    <3>2. StepsTold'
      <4>1. at' > 3 => baseline'
        <5>1. (baseline => baseline') /\ (at = 3 => baseline')
          BY <2>1, <1>1, Zenon
        <5>2. at' > 3 => at = 3 \/ at > 3
          BY <3>1, <1>1
        <5>3. QED BY <5>1, <5>2, <3>1
      <4>2. \A i \in 1 .. LastStep : i < at' => truth'[i] = "good"
        BY <3>1, <1>1
      <4>3. deadline' = "waiting" => \A i \in reported' : i < at'
        BY <1>1, <1>4
      <4>4. QED BY <3>1, <4>1, <4>2, <4>3
    <3>3. EndTold'
      <4>1. seq' = "park" => at = LastStep
        BY <3>1, <1>1, <1>4
      <4>2. QED BY <4>1, <3>1, <1>1, <1>4
    <3>4. QED BY <3>2, <3>3
  <2>2. CASE failed' # {}
    BY <2>2, <1>1, <1>4
  <2>3. QED BY <2>1, <2>2, <1>1, <1>4
<1>7. FailuresReal'
  BY <1>1, <1>3, <1>4
<1>8. JigFirst'
  <2>1. "Modem" \in powered' => "Modem" \in powered
    BY <1>1
  <2>2. CASE at <= 3
    BY <2>1, <2>2, <1>1, <1>2, <1>3, <1>4
  <2>3. CASE at = 4
    BY <2>1, <2>3, <1>1, <1>2, <1>3, <1>4
  <2>4. CASE at > 4
    BY <2>1, <2>4, <1>1, <1>4
  <2>5. QED BY <2>2, <2>3, <2>4, <1>1
<1>9. Coded'
  BY <1>1, <1>3, <1>4
<1>10. QED BY <1>5, <1>6, <1>7, <1>8, <1>9

(* The firmware of the factory test, with the deadline striking between any two steps and a   *)
(* panic that resets the board: Pass is shown only for a module of which every step was good, *)
(* and is shown for one if no deadline struck; a jig that failed powers no module; every      *)
(* supply is off at the end; and a failure has a code.                                        *)
THEOREM FactoryStaysFair == FactorySpec => []FactoryIsFair
<1>1. FactoryInit => FactoryInv
  <2> SUFFICES ASSUME FactoryInit PROVE FactoryInv
    OBVIOUS
  <2>1. FactoryTypeOK
    <3>1. /\ zone_phase \in [Zones -> {"Idle", "Running", "Pass", "Fail"}] /\ zone_fault \in [Zones -> FaultCodes]
          /\ truth \in [1 .. LastStep -> Outcomes \cup {"none"}]
      BY DEF FactoryInit, FaultCodes
    <3>2. /\ seq = "boot" /\ at = 1 /\ passing = {} /\ verdict = "Running" /\ reported = {} /\ failed = {}
          /\ PHASE = "Running" /\ deadline = "waiting" /\ powered = {} /\ baseline = FALSE /\ panicked = FALSE
      BY DEF FactoryInit
    <3>3. at \in 1 .. LastStep + 1 /\ ~Running /\ seq # "after"
      BY <3>2 DEF LastStep, Running
    <3>4. QED BY <3>1, <3>2, <3>3 DEF FactoryTypeOK
  <2>2. QED
    BY <2>1 DEF FactoryInit, FactoryInv, FreshAtBoot, StepsTold, EndTold, VerdictsEarned, FailuresReal,
      PublishedRight, JigFirst, BadJigPowersNothing, Coded, InertAtTheEnd, Running, Zones
<1>2. FactoryInv /\ [FactoryNext]_factoryVars => FactoryInv'
  <2> SUFFICES ASSUME FactoryInv, [FactoryNext]_factoryVars PROVE FactoryInv'
    OBVIOUS
  <2>1. CASE UNCHANGED factoryVars
    BY <2>1 DEF factoryVars, FactoryInv, FactoryTypeOK, FreshAtBoot, StepsTold, EndTold, VerdictsEarned,
      FailuresReal, PublishedRight, JigFirst, BadJigPowersNothing, Coded, InertAtTheEnd, Running, Ending,
      AllGood, BadAt
  <2>2. QED
    BY <2>1, AfterPanicKept, BootTestKept, BeginStepKept, StoreRunningKept, CheckKept, RecordKept, ParkKept,
      PublishKept, PassZonesKept, SetPhaseKept, ExpireKept, PanicKept, ResetBoardKept, PowerCycleKept
      DEF FactoryNext, Sequence
<1>3. FactoryInv => FactoryIsFair
  BY DEF FactoryInv, FactoryIsFair, PassIsEarned, VerdictsEarned, PublishedRight, AllGood, JigFirst,
    Coded, FailureHasACode
<1>4. QED
  BY <1>1, <1>2, <1>3, PTL DEF FactorySpec

-----------------------------------------------------------------------------
(* The tasks of the server *)

(***************************************************************************)
(* The status that the broker retains                                      *)
(***************************************************************************)

AllRequests == MqttTopics \cup {"ok", "offline", "disconnect", "message"}

(* The requests to the broker, and the topics still to subscribe to.                          *)
StatusTypeOK == reqs \in Seq(AllRequests) /\ todo \in SUBSET MqttTopics

(* Once the first n - 1 requests are carried out, the server is not shown as online: it is *)
(* not now, or one of them says so, and none after that takes it back.                     *)
Settled(n) ==
  \E j \in 0 .. n - 1 :
    /\ j = 0 => retained # "ok"
    /\ j > 0 => reqs[j] = "offline"
    /\ \A k \in j + 1 .. n - 1 : reqs[k] # "ok"

StatusInv ==
  /\ StatusTypeOK
  /\ ~conn => retained # "ok"
  /\ \A i \in DOMAIN reqs : reqs[i] = "disconnect" => Settled(i)
  /\ tpc = "disconnect" => Settled(Len(reqs) + 1)
  /\ tpc = "done" => epc = "done" /\ ~conn

(* What is asked for later does not matter to what was asked for before. *)
LEMMA RequestKeeps ==
  ASSUME StatusInv, NEW r \in AllRequests, reqs' = Append(reqs, r), UNCHANGED retained
  PROVE  /\ reqs' \in Seq(AllRequests) /\ Len(reqs') = Len(reqs) + 1 /\ Len(reqs) \in Nat
         /\ DOMAIN reqs' = 1 .. Len(reqs) + 1 /\ DOMAIN reqs = 1 .. Len(reqs)
         /\ reqs'[Len(reqs) + 1] = r
         /\ \A n \in 1 .. Len(reqs) : reqs'[n] = reqs[n]
         /\ \A n \in 1 .. Len(reqs) + 1 : Settled(n) => Settled(n)'
<1>1. /\ reqs' \in Seq(AllRequests) /\ Len(reqs') = Len(reqs) + 1 /\ Len(reqs) \in Nat
      /\ DOMAIN reqs' = 1 .. Len(reqs) + 1 /\ DOMAIN reqs = 1 .. Len(reqs)
      /\ reqs'[Len(reqs) + 1] = r
      /\ \A n \in 1 .. Len(reqs) : reqs'[n] = reqs[n]
  BY AppendFacts DEF StatusInv, StatusTypeOK
<1>2. ASSUME NEW n \in 1 .. Len(reqs) + 1, Settled(n) PROVE Settled(n)'
  <2>1. PICK j \in 0 .. n - 1 : /\ j = 0 => retained # "ok"
                                /\ j > 0 => reqs[j] = "offline"
                                /\ \A k \in j + 1 .. n - 1 : reqs[k] # "ok"
    BY <1>2 DEF Settled
  <2>2. /\ j = 0 => retained' # "ok"
        /\ j > 0 => reqs'[j] = "offline"
        /\ \A k \in j + 1 .. n - 1 : reqs'[k] # "ok"
    BY <1>1, <2>1
  <2>3. QED BY <2>2 DEF Settled
<1>3. QED BY <1>1, <1>2

LEMMA OtherRequestKept ==
  ASSUME StatusInv, NEW r \in AllRequests \ {"disconnect"}, reqs' = Append(reqs, r),
         UNCHANGED <<retained, conn, epc>>, todo' \in SUBSET MqttTopics, tpc' \notin {"disconnect", "done"}
  PROVE  StatusInv'
<1>1. \A i \in DOMAIN reqs' : reqs'[i] = "disconnect" => Settled(i)'
  <2> SUFFICES ASSUME NEW i \in DOMAIN reqs', reqs'[i] = "disconnect" PROVE Settled(i)'
    OBVIOUS
  <2>1. i \in DOMAIN reqs /\ reqs[i] = "disconnect" /\ i \in 1 .. Len(reqs) + 1
    BY RequestKeeps
  <2>2. QED BY <2>1, RequestKeeps DEF StatusInv
<1>2. QED
  BY <1>1, RequestKeeps DEF StatusInv, StatusTypeOK

LEMMA SettledKeeps ==
  ASSUME NEW n, UNCHANGED reqs, retained' = retained \/ retained' # "ok", Settled(n)
  PROVE  Settled(n)'
<1>1. PICK j \in 0 .. n - 1 : /\ j = 0 => retained # "ok"
                              /\ j > 0 => reqs[j] = "offline"
                              /\ \A k \in j + 1 .. n - 1 : reqs[k] # "ok"
  BY DEF Settled
<1>2. QED BY <1>1 DEF Settled

(* A step that asks for nothing and that does not announce the server. *)
LEMMA QuietKept ==
  ASSUME StatusInv, UNCHANGED reqs, todo' \in SUBSET MqttTopics,
         retained' = retained \/ retained' # "ok", conn' = conn \/ conn' \/ retained' # "ok",
         tpc' = tpc \/ tpc' \notin {"disconnect", "done"},
         tpc = "done" => UNCHANGED <<epc, conn>>
  PROVE  StatusInv'
<1>1. /\ ~conn' => retained' # "ok"
      /\ reqs' \in Seq(AllRequests) /\ todo' \in SUBSET MqttTopics
      /\ tpc' = "done" => epc' = "done" /\ ~conn'
  BY DEF StatusInv, StatusTypeOK
<1>2. \A i \in DOMAIN reqs' : reqs'[i] = "disconnect" => Settled(i)'
  BY SettledKeeps DEF StatusInv
<1>3. tpc' = "disconnect" => Settled(Len(reqs) + 1)'
  <2> SUFFICES ASSUME tpc' = "disconnect" PROVE Settled(Len(reqs) + 1)'
    OBVIOUS
  <2>1. tpc = "disconnect"
    OBVIOUS
  <2> DEFINE n == Len(reqs) + 1
  <2>2. Settled(n) /\ n' = n
    BY <2>1 DEF StatusInv
  <2> HIDE DEF n
  <2>3. Settled(n)'
    BY <2>2, SettledKeeps DEF Settled
  <2>4. QED BY <2>3 DEF n
<1>4. QED BY <1>1, <1>2, <1>3 DEF StatusInv, StatusTypeOK

LEMMA PerformKept == StatusInv /\ Perform => StatusInv'
<1> SUFFICES ASSUME StatusInv, Perform PROVE StatusInv'
  OBVIOUS
<1> DEFINE r == reqs[1]
<1>1. /\ Head(reqs) = r /\ 1 \in DOMAIN reqs /\ reqs' = Tail(reqs) /\ reqs' \in Seq(AllRequests)
      /\ Len(reqs) \in Nat \ {0} /\ Len(reqs') = Len(reqs) - 1
      /\ DOMAIN reqs = 1 .. Len(reqs) /\ DOMAIN reqs' = 1 .. Len(reqs) - 1
      /\ \A n \in 1 .. Len(reqs) - 1 : reqs'[n] = reqs[n + 1]
  BY TailFacts DEF StatusInv, StatusTypeOK, Perform
<1>2. /\ conn /\ epc = "poll" /\ UNCHANGED <<tpc, todo>>
      /\ retained' = IF r \in {"ok", "offline"} THEN r ELSE retained
      /\ conn' = (r # "disconnect")
  BY <1>1 DEF Perform, taskVars, StatusInv, PollError
<1>3. \A n \in 2 .. Len(reqs) + 1 : Settled(n) => Settled(n - 1)'
  <2> SUFFICES ASSUME NEW n \in 2 .. Len(reqs) + 1, Settled(n) PROVE Settled(n - 1)'
    OBVIOUS
  <2>1. PICK j \in 0 .. n - 1 : /\ j = 0 => retained # "ok"
                                /\ j > 0 => reqs[j] = "offline"
                                /\ \A k \in j + 1 .. n - 1 : reqs[k] # "ok"
    BY DEF Settled
  <2>2. CASE j <= 1
    <3>1. retained' # "ok"
      BY <1>1, <1>2, <2>1, <2>2
    <3>2. \A k \in 1 .. n - 2 : reqs'[k] # "ok"
      BY <1>1, <2>1, <2>2
    <3>3. \A k \in 0 + 1 .. (n - 1) - 1 : reqs'[k] # "ok"
      BY <3>2
    <3>4. 0 \in 0 .. (n - 1) - 1
      OBVIOUS
    <3>5. QED BY <3>1, <3>3, <3>4 DEF Settled
  <2>3. CASE j > 1
    <3>1. reqs'[j - 1] = "offline" /\ j - 1 > 0
      BY <1>1, <2>1, <2>3
    <3>2. \A k \in (j - 1) + 1 .. (n - 1) - 1 : reqs'[k] # "ok"
      BY <1>1, <2>1, <2>3
    <3>3. j - 1 \in 0 .. (n - 1) - 1
      BY <2>3
    <3>4. QED BY <3>1, <3>2, <3>3 DEF Settled
  <2>4. QED BY <2>2, <2>3
<1>4. ~conn' => retained' # "ok"
  <2> SUFFICES ASSUME r = "disconnect" PROVE retained # "ok"
    BY <1>2
  <2>1. Settled(1)
    BY <1>1 DEF StatusInv
  <2>2. QED BY <2>1 DEF Settled
<1>5. \A i \in DOMAIN reqs' : reqs'[i] = "disconnect" => Settled(i)'
  <2> SUFFICES ASSUME NEW i \in DOMAIN reqs', reqs'[i] = "disconnect" PROVE Settled(i)'
    OBVIOUS
  <2>1. i + 1 \in DOMAIN reqs /\ reqs[i + 1] = "disconnect" /\ i + 1 \in 2 .. Len(reqs) + 1 /\ (i + 1) - 1 = i
    BY <1>1
  <2>2. Settled(i + 1)
    BY <2>1 DEF StatusInv
  <2>3. Settled((i + 1) - 1)'
    BY <2>1, <2>2, <1>3
  <2>4. QED BY <2>1, <2>3
<1>6. tpc' = "disconnect" => Settled(Len(reqs) + 1)'
  <2> SUFFICES ASSUME tpc = "disconnect" PROVE Settled(Len(reqs) + 1)'
    BY <1>2
  <2>1. PICK n \in Nat : n = Len(reqs) + 1
    BY <1>1
  <2>2. Settled(n) /\ n \in 2 .. Len(reqs) + 1 /\ n - 1 = Len(reqs') + 1
    BY <1>1, <2>1 DEF StatusInv
  <2>3. Settled(n - 1)'
    BY <2>2, <1>3
  <2>4. QED BY <2>2, <2>3
<1>7. QED
  BY <1>1, <1>2, <1>4, <1>5, <1>6 DEF StatusInv, StatusTypeOK

LEMMA GoodbyeKept == StatusInv /\ Goodbye => StatusInv'
<1> SUFFICES ASSUME StatusInv, Goodbye PROVE StatusInv'
  OBVIOUS
<1>0. UNCHANGED <<conn, retained, epc, todo>> /\ StatusTypeOK
  BY DEF Goodbye, TaskRest, brokerVars, loopVars, StatusInv
<1>1. CASE tpc = "goodbye"
  <2>1. reqs' = Append(reqs, "offline") /\ tpc' = "disconnect" /\ "offline" \in AllRequests
    BY <1>1 DEF Goodbye, Request, LastRequests, AllRequests
  <2>2. \A i \in DOMAIN reqs' : reqs'[i] = "disconnect" => Settled(i)'
    <3> SUFFICES ASSUME NEW i \in DOMAIN reqs', reqs'[i] = "disconnect" PROVE Settled(i)'
      OBVIOUS
    <3>1. i \in DOMAIN reqs /\ reqs[i] = "disconnect" /\ i \in 1 .. Len(reqs) + 1
      BY <1>0, <2>1, RequestKeeps
    <3>2. QED BY <3>1, <1>0, <2>1, RequestKeeps DEF StatusInv
  <2>3. Settled(Len(reqs) + 1)'
    <3>1. Len(reqs') = Len(reqs) + 1 /\ Len(reqs) \in Nat /\ reqs'[Len(reqs) + 1] = "offline"
      BY <1>0, <2>1, RequestKeeps
    <3>2. QED BY <3>1 DEF Settled
  <2>4. QED
    BY <1>0, <2>1, <2>2, <2>3, RequestKeeps DEF StatusInv, StatusTypeOK
<1>2. CASE tpc = "disconnect"
  <2>1. reqs' = Append(reqs, "disconnect") /\ tpc' = "stop" /\ "disconnect" \in AllRequests
    BY <1>2 DEF Goodbye, Request, LastRequests, AllRequests
  <2>2. \A i \in DOMAIN reqs' : reqs'[i] = "disconnect" => Settled(i)'
    <3> SUFFICES ASSUME NEW i \in DOMAIN reqs', reqs'[i] = "disconnect" PROVE Settled(i)'
      OBVIOUS
    <3>1. CASE i \in DOMAIN reqs
      BY <3>1, <1>0, <2>1, RequestKeeps DEF StatusInv
    <3>2. CASE i = Len(reqs) + 1
      <4>1. Settled(i) /\ i \in 1 .. Len(reqs) + 1
        BY <3>2, <1>0, <1>2, <2>1, RequestKeeps DEF StatusInv
      <4>2. QED BY <4>1, <1>0, <2>1, RequestKeeps
    <3>3. QED BY <3>1, <3>2, <1>0, <2>1, RequestKeeps
  <2>3. QED
    BY <1>0, <2>1, <2>2, RequestKeeps DEF StatusInv, StatusTypeOK
<1>3. QED BY <1>1, <1>2 DEF Goodbye

LEMMA StatusKept == StatusInv /\ [MqttNext]_mqttVars => StatusInv'
<1> SUFFICES ASSUME StatusInv, [MqttNext]_mqttVars PROVE StatusInv'
  OBVIOUS
<1>0. StatusTypeOK /\ (tpc = "done" => epc = "done" /\ ~conn)
  BY DEF StatusInv
<1>1. CASE ConnAck \/ Incoming \/ Drop \/ ConnectError
  <2>1. UNCHANGED <<reqs, todo, tpc>> /\ epc = "poll"
    BY <1>1 DEF ConnAck, Incoming, Drop, ConnectError, taskVars
  <2>2. /\ retained' = retained \/ retained' # "ok"
        /\ conn' = conn \/ conn' \/ retained' # "ok"
    BY <1>1 DEF ConnAck, Incoming, Drop, ConnectError, brokerVars
  <2>3. QED BY <1>0, <2>1, <2>2, QuietKept DEF StatusTypeOK
<1>2. CASE Forward \/ LoopShutdown \/ DevicePublish \/ LoseSession \/ Consume \/ AskToStop \/ StopLoop
           \/ UNCHANGED mqttVars
  <2>1. UNCHANGED <<reqs, todo, tpc, retained, conn>> /\ (epc = "done" => epc' = epc)
    BY <1>2 DEF Forward, LoopShutdown, DevicePublish, LoseSession, Consume, AskToStop, StopLoop,
      taskVars, brokerVars, loopVars, TaskRest, mqttVars
  <2>2. QED BY <1>0, <2>1, QuietKept DEF StatusTypeOK
<1>3. CASE Connected \/ SeeStop
  <2>1. UNCHANGED <<reqs, retained, conn, epc>> /\ todo' \in SUBSET MqttTopics /\ tpc' \notin {"disconnect", "done"}
        /\ tpc = "loop"
    BY <1>0, <1>3 DEF Connected, SeeStop, TaskRest, brokerVars, loopVars, StatusTypeOK
  <2>2. QED BY <1>0, <2>1, QuietKept
<1>4. CASE Subscribe
  <2>1. UNCHANGED <<retained, conn, epc>> /\ tpc \in {"subscribe", "resubscribe"}
    BY <1>4 DEF Subscribe, TaskRest, brokerVars, loopVars
  <2>2. CASE todo = {}
    BY <1>0, <1>4, <2>1, <2>2, QuietKept DEF Subscribe, StatusTypeOK
  <2>3. CASE todo # {}
    <3>1. PICK t \in todo : reqs' = Append(reqs, t) /\ todo' = todo \ {t} /\ tpc' = tpc
      BY <1>4, <2>3 DEF Subscribe, Request
    <3>2. t \in AllRequests \ {"disconnect"}
      BY <1>0, MqttAssumption DEF StatusTypeOK, AllRequests
    <3>3. QED BY <1>0, <2>1, <3>1, <3>2, OtherRequestKept DEF StatusTypeOK
  <2>4. QED BY <2>2, <2>3
<1>5. CASE Announce \/ Speak
  <2>1. PICK r \in {"ok", "message"} : reqs' = Append(reqs, r)
    BY <1>5 DEF Announce, Speak, Request
  <2>2. UNCHANGED <<retained, conn, epc, todo>> /\ tpc' = "loop"
    BY <1>5 DEF Announce, Speak, TaskRest, brokerVars, loopVars
  <2>3. r \in AllRequests \ {"disconnect"}
    BY DEF AllRequests
  <2>4. QED BY <1>0, <2>1, <2>2, <2>3, OtherRequestKept DEF StatusTypeOK
<1>6. CASE Exit
  <2>1. UNCHANGED <<reqs, todo>> /\ ~conn' /\ epc' = "done" /\ tpc' = "done" /\ retained' # "ok"
        /\ (retained' = retained \/ retained' # "ok")
    BY <1>6 DEF Exit, StatusInv
  <2>2. \A i \in DOMAIN reqs' : reqs'[i] = "disconnect" => Settled(i)'
    BY <2>1, SettledKeeps DEF StatusInv
  <2>3. QED
    BY <1>0, <2>1, <2>2 DEF StatusInv, StatusTypeOK
<1>7. QED
  BY <1>1, <1>2, <1>3, <1>4, <1>5, <1>6, PerformKept, GoodbyeKept DEF MqttNext, EventLoop, MqttTask

(***************************************************************************)
(* The messages of the devices                                             *)
(***************************************************************************)

(* The message in the hands of the event loop.                                                *)
Held == IF holding = 0 THEN 0 ELSE 1

(* While the broker keeps the session, what was forwarded, what is in hand and what the *)
(* broker still holds are the messages in their order.                                  *)
MessagesNumbered ==
  /\ \A i \in DOMAIN forwarded : forwarded[i] = i
  /\ holding # 0 => holding = Len(forwarded) + 1
  /\ \A i \in DOMAIN inbox : inbox[i] = Len(forwarded) + Held + i
  /\ produced = Len(forwarded) + Held + Len(inbox)

ForwardInv ==
  /\ forwarded \in Seq(Nat) /\ inbox \in Seq(Nat) /\ holding \in Nat /\ produced \in Nat
  /\ lostSession \in BOOLEAN
  /\ epc = "poll" => holding = 0
  /\ lostSession \/ (MessagesNumbered /\ (epc = "handle" => holding # 0))

LEMMA ForwardKept == ForwardInv /\ [MqttNext]_mqttVars => ForwardInv'
<1> SUFFICES ASSUME ForwardInv, [MqttNext]_mqttVars PROVE ForwardInv'
  OBVIOUS
<1>0. forwarded \in Seq(Nat) /\ inbox \in Seq(Nat) /\ holding \in Nat /\ produced \in Nat
      /\ Held \in Nat /\ Len(inbox) \in Nat /\ Len(forwarded) \in Nat /\ lostSession \in BOOLEAN
  BY DEF ForwardInv, Held
<1>1. CASE /\ UNCHANGED <<forwarded, inbox, holding, produced, lostSession>>
           /\ epc' \in {"poll", "handle"} => epc' = epc
  BY <1>1 DEF ForwardInv, MessagesNumbered, Held
<1>2. CASE DevicePublish
  <2>1. /\ produced' = produced + 1 /\ inbox' = Append(inbox, produced + 1)
        /\ UNCHANGED <<forwarded, holding, epc, lostSession>> /\ Held' = Held
    BY <1>2 DEF DevicePublish, loopVars, Held
  <2>2. /\ inbox' \in Seq(Nat) /\ Len(inbox') = Len(inbox) + 1
        /\ DOMAIN inbox' = 1 .. Len(inbox) + 1 /\ DOMAIN inbox = 1 .. Len(inbox)
        /\ inbox'[Len(inbox) + 1] = produced + 1 /\ \A i \in DOMAIN inbox : inbox'[i] = inbox[i]
    BY <1>0, <2>1, AppendFacts
  <2>3. MessagesNumbered => MessagesNumbered'
    BY <1>0, <2>1, <2>2 DEF MessagesNumbered
  <2>4. QED
    BY <1>0, <2>1, <2>2, <2>3 DEF ForwardInv
<1>3. CASE LoseSession
  BY <1>0, <1>3 DEF ForwardInv, LoseSession, loopVars
<1>4. CASE Incoming
  <2>1. /\ holding' = Head(inbox) /\ inbox' = Tail(inbox) /\ epc' = "handle" /\ epc = "poll"
        /\ UNCHANGED <<forwarded, produced, lostSession>> /\ inbox # <<>> /\ holding = 0
    BY <1>4 DEF Incoming, ForwardInv
  <2>2. /\ holding' = inbox[1] /\ holding' \in Nat /\ 1 \in DOMAIN inbox /\ inbox' \in Seq(Nat)
        /\ Len(inbox') = Len(inbox) - 1
        /\ \A i \in DOMAIN inbox' : i \in Int /\ i + 1 \in DOMAIN inbox /\ inbox'[i] = inbox[i + 1]
    BY <1>0, <2>1, TailFacts
  <2>3. MessagesNumbered => MessagesNumbered'
    <3> SUFFICES ASSUME MessagesNumbered PROVE MessagesNumbered'
      OBVIOUS
    <3>1. Held = 0 /\ holding' = Len(forwarded) + 1 /\ Held' = 1
      <4>1. Held = 0 /\ Len(forwarded) \in Nat
        BY <1>0, <2>1 DEF Held
      <4>2. inbox[1] = Len(forwarded) + Held + 1
        BY <2>2 DEF MessagesNumbered
      <4>3. holding' = Len(forwarded) + 1
        BY <2>2, <4>1, <4>2
      <4>4. holding' # 0
        BY <4>1, <4>3
      <4>5. QED BY <4>1, <4>3, <4>4 DEF Held
    <3>2. QED BY <1>0, <2>1, <2>2, <3>1 DEF MessagesNumbered
  <2>4. MessagesNumbered => holding' # 0
    BY <1>0, <2>1, <2>2 DEF MessagesNumbered, Held
  <2>5. QED
    BY <1>0, <2>1, <2>2, <2>3, <2>4 DEF ForwardInv
<1>5. CASE Forward
  <2>1. /\ forwarded' = Append(forwarded, holding) /\ holding' = 0 /\ epc = "handle" /\ epc' = "poll"
        /\ UNCHANGED <<inbox, produced, lostSession>>
    BY <1>5 DEF Forward, brokerVars
  <2>2. /\ forwarded' \in Seq(Nat) /\ Len(forwarded') = Len(forwarded) + 1
        /\ DOMAIN forwarded' = 1 .. Len(forwarded) + 1 /\ DOMAIN forwarded = 1 .. Len(forwarded)
        /\ forwarded'[Len(forwarded) + 1] = holding
        /\ \A i \in DOMAIN forwarded : forwarded'[i] = forwarded[i]
    BY <1>0, <2>1, AppendFacts
  <2>3. MessagesNumbered /\ holding # 0 => MessagesNumbered'
    <3> SUFFICES ASSUME MessagesNumbered, holding # 0 PROVE MessagesNumbered'
      OBVIOUS
    <3>1. Held = 1 /\ Held' = 0
      BY <2>1 DEF Held
    <3>2. QED BY <1>0, <2>1, <2>2, <3>1 DEF MessagesNumbered
  <2>4. lostSession \/ (MessagesNumbered /\ holding # 0)
    BY <2>1 DEF ForwardInv
  <2>5. QED
    BY <1>0, <2>1, <2>2, <2>3, <2>4 DEF ForwardInv
<1>6. CASE ~(DevicePublish \/ LoseSession \/ Incoming \/ Forward)
  <2>1. /\ UNCHANGED <<forwarded, inbox, holding, produced, lostSession>>
        /\ epc' \in {"poll", "handle"} => epc' = epc
    BY <1>6 DEF MqttNext, EventLoop, MqttTask, ConnAck, Perform, LoopShutdown, Subscribe, Announce,
      Connected, SeeStop, Goodbye, StopLoop, Exit, Drop, ConnectError, Consume, Speak, AskToStop,
      PollError, TaskRest, brokerVars, loopVars, mqttVars
  <2>2. QED BY <1>1, <2>1
<1>7. QED BY <1>2, <1>3, <1>4, <1>5, <1>6

LEMMA NumberedIsInOrder ==
  ASSUME ForwardInv, MessagesNumbered
  PROVE  forwarded \o (IF holding = 0 THEN <<>> ELSE <<holding>>) \o inbox = [i \in 1 .. produced |-> i]
<1> DEFINE h == IF holding = 0 THEN <<>> ELSE <<holding>>
           a == forwarded \o h
           whole == a \o inbox
<1>1. /\ forwarded \in Seq(Nat) /\ inbox \in Seq(Nat) /\ holding \in Nat /\ produced \in Nat
      /\ Held \in {0, 1} /\ Len(inbox) \in Nat /\ Len(forwarded) \in Nat
  BY DEF ForwardInv, Held
<1>2. h \in Seq(Nat) /\ Len(h) = Held /\ \A i \in 1 .. Held : h[i] = Len(forwarded) + i
  <2>1. CASE holding = 0
    BY <2>1 DEF Held
  <2>2. CASE holding # 0
    BY <2>2, <1>1 DEF Held, MessagesNumbered
  <2>3. QED BY <2>1, <2>2
<1> HIDE DEF h
<1>3. a \in Seq(Nat) /\ Len(a) = Len(forwarded) + Held /\ \A i \in 1 .. Len(a) : a[i] = i
  <2>1. /\ a \in Seq(Nat) /\ Len(a) = Len(forwarded) + Len(h)
        /\ \A i \in 1 .. Len(forwarded) + Len(h) :
             a[i] = IF i <= Len(forwarded) THEN forwarded[i] ELSE h[i - Len(forwarded)]
    BY <1>1, <1>2, ConcatProperties
  <2>2. \A i \in 1 .. Len(forwarded) : forwarded[i] = i
    BY <1>1 DEF MessagesNumbered
  <2> HIDE DEF a
  <2>3. ASSUME NEW i \in 1 .. Len(a) PROVE a[i] = i
    <3>1. CASE i <= Len(forwarded)
      <4>1. i \in 1 .. Len(forwarded) /\ i \in 1 .. Len(forwarded) + Len(h)
        BY <3>1, <1>1, <1>2, <2>1
      <4>2. QED BY <4>1, <3>1, <2>1, <2>2
    <3>2. CASE i > Len(forwarded)
      <4>1. i - Len(forwarded) \in 1 .. Held
        BY <3>2, <1>1, <1>2, <2>1
      <4>2. h[i - Len(forwarded)] = Len(forwarded) + (i - Len(forwarded))
        BY <4>1, <1>2
      <4>3. QED BY <4>2, <3>2, <1>1, <1>2, <2>1
    <3>3. QED BY <3>1, <3>2, <1>1, <2>1
  <2>4. QED BY <1>2, <2>1, <2>3
<1> HIDE DEF a
<1>4. whole \in Seq(Nat) /\ Len(whole) = produced /\ \A i \in 1 .. Len(whole) : whole[i] = i
  <2>1. /\ whole \in Seq(Nat) /\ Len(whole) = Len(a) + Len(inbox)
        /\ \A i \in 1 .. Len(a) + Len(inbox) :
             whole[i] = IF i <= Len(a) THEN a[i] ELSE inbox[i - Len(a)]
    BY <1>1, <1>3, ConcatProperties
  <2>2. (\A i \in 1 .. Len(inbox) : inbox[i] = Len(a) + i) /\ produced = Len(a) + Len(inbox)
    BY <1>1, <1>3 DEF MessagesNumbered
  <2> HIDE DEF whole
  <2>3. QED BY SMTT(30), <1>1, <1>3, <2>1, <2>2
<1> HIDE DEF whole
<1>5. whole = [i \in 1 .. produced |-> i]
  BY <1>4
<1>6. QED BY <1>5 DEF whole, a, h

(***************************************************************************)
(* The supervisor                                                          *)
(***************************************************************************)

(* Exit comes after the end of the task, and Ok of the handle after exit.                     *)
SupInv == (sup = "exit" => ~Alive) /\ (handle = "ok" => sup = "exit")

LEMMA SupKept == SupInv /\ [SupNext]_supVars => SupInv'
BY DEF SupInv, Alive, supVars, SupNext, SupStep, Work, SeeRequest, TimedOut, StopByItself, Shutdown,
  ShutdownRequested, TaskEnded, Respawn, Joined

(* client.rs of sensor-link-mqtt and lib.rs of task-supervisor: a server that has ended is    *)
(* not retained as online, the messages of the devices are forwarded once and in their order  *)
(* while the broker keeps the session, and a shutdown that returned Ok has left no task that  *)
(* runs or will be started again.                                                             *)
THEOREM ServerStaysSafe == MqttSpec /\ SupSpec => []ServerIsSafe
<1>1. MqttInit => StatusInv /\ ForwardInv
  <2> SUFFICES ASSUME MqttInit PROVE StatusInv /\ ForwardInv
    OBVIOUS
  <2>1. StatusInv
    BY DEF MqttInit, StatusInv, StatusTypeOK
  <2>2. ForwardInv
    <3>1. /\ forwarded = <<>> /\ inbox = <<>> /\ holding = 0 /\ produced = 0 /\ Held = 0
          /\ lostSession = FALSE /\ epc = "poll"
      BY DEF MqttInit, Held
    <3>2. MessagesNumbered
      BY <3>1 DEF MessagesNumbered
    <3>3. forwarded \in Seq(Nat) /\ inbox \in Seq(Nat)
      BY <3>1
    <3>4. QED BY <3>1, <3>2, <3>3 DEF ForwardInv
  <2>3. QED BY <2>1, <2>2
<1>2. SupInit => SupInv
  BY DEF SupInit, SupInv
<1>3. StatusInv => OfflineIsShown
  BY DEF StatusInv, OfflineIsShown
<1>4. ForwardInv => ForwardedInOrder
  BY NumberedIsInOrder DEF ForwardInv, ForwardedInOrder
<1>5. SupInv => StoppedForGood
  BY DEF SupInv, StoppedForGood
<1>6. OfflineIsShown /\ ForwardedInOrder /\ StoppedForGood => ServerIsSafe
  BY DEF ServerIsSafe
<1>7. QED
  BY <1>1, <1>2, <1>3, <1>4, <1>5, <1>6, StatusKept, ForwardKept, SupKept, PTL DEF MqttSpec, SupSpec

-----------------------------------------------------------------------------
(* The provisioning tool *)

(* The messages between screen and worker.                                                    *)
Jobs == [uid : Uids, reprovision : BOOLEAN]
StepOutcomes == {"Ok", "Unverified", "Fail"}
Question(s, j) == [ev |-> "Failed", step |-> s, job |-> j, outcome |-> ""]
Finished(s, j, o) == [ev |-> "Finished", step |-> s, job |-> j, outcome |-> o]
Command(c, j) == [cmd |-> c, job |-> j]

(* The screen and the worker take turns: at any time one of them has to act, or one message *)
(* is on its way (after a check that failed, two).                                          *)
Waiting == phase \in {"idle", "confirm"} /\ cmds = <<>> /\ evs = <<>> /\ wpc = "idle"
Ordered == phase = "running" /\ cmds = <<Command("Provision", job)>> /\ evs = <<>> /\ wpc = "idle"
Working == phase = "running" /\ cmds = <<>> /\ evs = <<>> /\ wpc \in {"run", "verify"} /\ work = job
Asking == /\ phase = "running" /\ cmds = <<>> /\ wpc = "ask" /\ work = job
          /\ evs = <<Question(step, work)>>
Asked == phase = "failed" /\ cmds = <<>> /\ evs = <<>> /\ wpc = "ask" /\ work = job
Replied == /\ phase = "running" /\ evs = <<>> /\ wpc = "ask" /\ work = job
            /\ \E c \in {"Retry", "Skip"} : cmds = <<Command(c, job)>>
Reporting == /\ phase = "running" /\ cmds = <<>> /\ wpc = "idle" /\ work = job
             /\ \E o \in StepOutcomes, c \in {STEP_RTT, STEP_RTT + 1} :
                  /\ evs \in {<<Finished(step, work, o)>>, <<Question(c, work), Finished(step, work, o)>>}
                  /\ o # "Fail" => ContainsUid(work.uid)

Turns == Waiting \/ Ordered \/ Working \/ Asking \/ Asked \/ Replied \/ Reporting

(* A device carries the certificate of its last row. *)
Logged(u) ==
  /\ device[u] # NoCert
  /\ \E i \in 1 .. Len(log) : /\ log[i].uid = u /\ log[i].cert = device[u]
                              /\ \A j \in i + 1 .. Len(log) : log[j].uid # u

ProvTypeOK ==
  /\ phase \in {"idle", "confirm", "running", "failed"} /\ wpc \in {"idle", "run", "ask", "verify"}
  /\ job \in Jobs /\ work \in Jobs
  /\ step \in 0 .. STEP_RTT /\ cert \in Nat /\ issuedCount \in Nat
  /\ device \in [Uids -> Nat] /\ log \in Seq([uid : Uids, cert : Nat])
  /\ last \in [Uids -> StepOutcomes \cup {"none"}] /\ ever \in SUBSET Nat /\ stepFaults \in Nat

(* How far the worker has come with the certificate. *)
WorkDone ==
  /\ wpc \in {"run", "ask"} => step < STEP_RTT /\ (step > CertStep => cert # NoCert)
                                /\ (step = STEP_LOG => device[work.uid] = cert /\ cert \in ever)
  /\ wpc = "verify" => step = STEP_RTT /\ Logged(work.uid)

(* All devices but the one at hand are as they were reported. *)
OthersLogged ==
  \A u \in Uids : (wpc = "idle" \/ u # work.uid) /\ last[u] \in {"Ok", "Unverified"} => Logged(u)

(* A device that is counted and not as failed is in the log, so it is never new again. *)
CountsTold ==
  /\ counts \in [ok : Nat, unverified : SUBSET Uids, failed : SUBSET Uids] /\ fresh \in SUBSET Uids
  /\ IsFiniteSet(counts.unverified) /\ IsFiniteSet(counts.failed) /\ IsFiniteSet(fresh)
  /\ counts.unverified \cup counts.failed \subseteq fresh
  /\ CountedOnce
  /\ \A u \in fresh \ counts.failed : ContainsUid(u)

(* A job for a new device that has been counted before is one that had failed.                *)
NewIsNew ==
  phase # "idle" /\ ~job.reprovision /\ job.uid \in fresh => job.uid \in counts.failed

(* The inductive invariant of the provisioning tool.                                          *)
ProvInv ==
  ProvTypeOK /\ Turns /\ WorkDone /\ OthersLogged /\ RowsAreReal /\ CountsTold /\ NewIsNew

LEMMA Messages ==
  ASSUME NEW x, NEW y
  PROVE  /\ <<x>> # <<>> /\ Head(<<x>>) = x /\ Tail(<<x>>) = <<>> /\ Len(<<x>>) = 1 /\ <<x>>[1] = x
         /\ <<x, y>> # <<>> /\ Head(<<x, y>>) = x /\ Tail(<<x, y>>) = <<y>>
         /\ Append(<<>>, x) = <<x>> /\ Append(<<x>>, y) = <<x, y>>
<1>1. Len(<<x>>) = 1 /\ <<x>>[1] = x /\ Len(<<>>) = 0
  OBVIOUS
<1>2. <<x>> # <<>> /\ Head(<<x>>) = x /\ Tail(<<x>>) = <<>>
  BY <1>1
<1>3. <<x, y>> # <<>> /\ Head(<<x, y>>) = x /\ Tail(<<x, y>>) = <<y>>
  OBVIOUS
<1>4. Append(<<>>, x) = <<x>>
  OBVIOUS
<1>5. Append(<<x>>, y) = <<x, y>>
  <2>1. <<x>> \in Seq({x, y}) /\ <<x, y>> \in Seq({x, y}) /\ y \in {x, y}
    OBVIOUS
  <2> DEFINE s == Append(<<x>>, y)
             t == <<x, y>>
  <2>2. /\ s \in Seq({x, y}) /\ Len(s) = Len(<<x>>) + 1 /\ s[Len(<<x>>) + 1] = y
        /\ \A i \in 1 .. Len(<<x>>) : s[i] = <<x>>[i]
    BY <2>1, AppendProperties
  <2>3. Len(t) = 2 /\ t[1] = x /\ t[2] = y
    OBVIOUS
  <2>4. Len(s) = Len(t) /\ \A i \in 1 .. Len(s) : s[i] = t[i]
    BY <2>2, <2>3, <1>1
  <2>5. t \in Seq({x, y})
    BY <2>1
  <2> HIDE DEF s, t
  <2>6. s = t
    BY <2>2, <2>4, <2>5, SeqEqual
  <2>7. QED BY <2>6 DEF s, t
<1>6. QED BY <1>1, <1>2, <1>3, <1>4, <1>5

LEMMA MessagesSay ==
  /\ \A s, j : Question(s, j).ev = "Failed" /\ Question(s, j).step = s
  /\ \A s, j, o : Finished(s, j, o).ev = "Finished" /\ Finished(s, j, o).job = j /\ Finished(s, j, o).outcome = o
  /\ \A c, j : Command(c, j).cmd = c /\ Command(c, j).job = j
BY DEF Question, Finished, Command

LEMMA LastRowIs ==
  ASSUME NEW u, Logged(u), log \in Seq([uid : Uids, cert : Nat])
  PROVE  ContainsUid(u) /\ LastRow(u).cert = device[u]
<1> DEFINE P(i) == log[i].uid = u /\ \A j \in (i + 1) .. Len(log) : log[j].uid # u
           k == CHOOSE i \in 1 .. Len(log) : P(i)
<1>1. PICK i \in 1 .. Len(log) : P(i) /\ log[i].cert = device[u]
  BY DEF Logged
<1>2. k \in 1 .. Len(log) /\ P(k)
  BY <1>1
<1>3. LastRow(u) = log[k]
  BY DEF LastRow
<1> HIDE DEF k
<1>4. k = i
  BY <1>1, <1>2
<1>5. QED BY <1>1, <1>3, <1>4 DEF ContainsUid

(* The log only grows: rows of other devices change nothing for this one. *)
LEMMA RowAdded ==
  ASSUME ProvTypeOK, NEW r \in [uid : Uids, cert : Nat], log' = Append(log, r)
  PROVE  /\ log' \in Seq([uid : Uids, cert : Nat]) /\ Len(log') = Len(log) + 1 /\ Len(log) \in Nat
         /\ log'[Len(log) + 1] = r /\ \A i \in 1 .. Len(log) : log'[i] = log[i]
         /\ \A u : ContainsUid(u) => ContainsUid(u)'
         /\ \A u : u # r.uid /\ device'[u] = device[u] /\ Logged(u) => Logged(u)'
<1>1. /\ log' \in Seq([uid : Uids, cert : Nat]) /\ Len(log') = Len(log) + 1 /\ Len(log) \in Nat
      /\ log'[Len(log) + 1] = r /\ \A i \in 1 .. Len(log) : log'[i] = log[i]
  BY DEF ProvTypeOK
<1>2. \A u : ContainsUid(u) => ContainsUid(u)'
  BY <1>1 DEF ContainsUid
<1>3. ASSUME NEW u, u # r.uid, device'[u] = device[u], Logged(u) PROVE Logged(u)'
  <2>1. PICK i \in 1 .. Len(log) : /\ log[i].uid = u /\ log[i].cert = device[u]
                                   /\ \A j \in i + 1 .. Len(log) : log[j].uid # u
    BY <1>3 DEF Logged
  <2>2. \A j \in i + 1 .. Len(log) + 1 : log'[j].uid # u
    <3> SUFFICES ASSUME NEW j \in i + 1 .. Len(log) + 1 PROVE log'[j].uid # u
      OBVIOUS
    <3>1. CASE j = Len(log) + 1
      BY <3>1, <1>1, <1>3
    <3>2. CASE j # Len(log) + 1
      <4>1. j \in 1 .. Len(log) /\ j \in i + 1 .. Len(log)
        <5>1. Len(log) \in Nat /\ i \in Nat /\ i >= 1
          BY <1>1, <2>1
        <5>2. QED BY <3>2, <5>1
      <4>2. QED BY <4>1, <1>1, <2>1
    <3>3. QED BY <3>1, <3>2
  <2>3. log'[i].uid = u /\ log'[i].cert = device'[u] /\ i \in 1 .. Len(log')
    BY <2>1, <1>1, <1>3
  <2>4. QED BY <2>2, <2>3, <1>1, <1>3 DEF Logged
<1>4. QED BY <1>1, <1>2, <1>3

LEMMA ProvInitKept == ProvInit => ProvInv
<1> SUFFICES ASSUME ProvInit PROVE ProvInv
  OBVIOUS
<1>1. job \in Jobs /\ work = job
  BY ProvAssumption DEF ProvInit, Jobs
<1>2. log \in Seq([uid : Uids, cert : Nat]) /\ \A i \in 1 .. Len(log) : log[i].cert = NoCert
  BY ProvAssumption DEF ProvInit, NoCert
<1>3. device \in [Uids -> Nat] /\ last \in [Uids -> StepOutcomes \cup {"none"}] /\ \A u \in Uids : last[u] = "none"
  BY DEF ProvInit, NoCert
<1>4. ProvTypeOK
  BY <1>1, <1>2, <1>3 DEF ProvInit, ProvTypeOK, NoCert, STEP_RTT
<1>5. Turns /\ WorkDone /\ OthersLogged /\ RowsAreReal /\ NewIsNew
  BY <1>2, <1>3 DEF ProvInit, Turns, Waiting, WorkDone, OthersLogged, RowsAreReal, NewIsNew
<1>6. CountsTold
  <2>1. counts = [ok |-> 0, unverified |-> {}, failed |-> {}] /\ fresh = {}
    BY DEF ProvInit
  <2>2. IsFiniteSet({}) /\ Cardinality({}) = 0
    BY FS_EmptySet
  <2>3. QED BY <2>1, <2>2 DEF CountsTold, CountedOnce
<1>7. QED BY <1>4, <1>5, <1>6 DEF ProvInv
(* Nothing of the worker changes, and the counters neither: only whose turn it is. *)
LEMMA TurnKept ==
  ASSUME ProvInv, UNCHANGED worker, UNCHANGED <<counts, fresh>>, Turns', NewIsNew',
         phase' \in {"idle", "confirm", "running", "failed"}, job' \in Jobs
  PROVE  ProvInv'
<1> USE DEF worker
<1>1. ProvTypeOK'
  BY DEF ProvInv, ProvTypeOK
<1>2. \A u : (Logged(u) => Logged(u)') /\ (ContainsUid(u) => ContainsUid(u)')
  BY DEF Logged, ContainsUid
<1>3. WorkDone' /\ OthersLogged'
  BY <1>2 DEF ProvInv, WorkDone, OthersLogged
<1>4. RowsAreReal'
  BY DEF ProvInv, RowsAreReal
<1>5. CountsTold'
  BY <1>2 DEF ProvInv, CountsTold, CountedOnce
<1>6. QED BY <1>1, <1>3, <1>4, <1>5 DEF ProvInv

LEMMA PrepareStartKept == ASSUME ProvInv, NEW uid \in Uids, PrepareStart(uid) PROVE ProvInv'
<1>1. Waiting
  BY DEF ProvInv, Turns, Waiting, Ordered, Working, Asking, Asked, Replied, Reporting, PrepareStart
<1>2. Waiting' /\ job' \in Jobs /\ phase' = "confirm"
  <2>1. ContainsUid(uid) \in BOOLEAN
    BY DEF ContainsUid
  <2>2. job' \in Jobs
    BY <2>1 DEF PrepareStart, Jobs
  <2>3. QED BY <2>2, <1>1 DEF Waiting, PrepareStart, worker
<1>3. NewIsNew'
  <2>1. job'.uid = uid /\ job'.reprovision = ContainsUid(uid)
    BY DEF PrepareStart
  <2>2. QED BY <2>1 DEF NewIsNew, PrepareStart, ProvInv, CountsTold
<1>4. UNCHANGED worker /\ UNCHANGED <<counts, fresh>>
  BY DEF PrepareStart
<1>5. Turns'
  BY <1>2 DEF Turns
<1>6. QED BY <1>2, <1>3, <1>4, <1>5, TurnKept

LEMMA ConfirmKept == ASSUME ProvInv, Confirm PROVE ProvInv'
<1>1. Waiting
  BY DEF ProvInv, Turns, Waiting, Ordered, Working, Asking, Asked, Replied, Reporting, Confirm
<1>2. cmds' = <<Command("Provision", job)>>
  BY <1>1, Messages DEF Waiting, Confirm, Command
<1>3. Ordered' /\ job' \in Jobs /\ phase' = "running"
  BY <1>1, <1>2 DEF Waiting, Ordered, Confirm, worker, Command, ProvInv, ProvTypeOK
<1>4. NewIsNew' /\ Turns'
  BY <1>3 DEF NewIsNew, Confirm, ProvInv, Turns
<1>5. UNCHANGED worker /\ UNCHANGED <<counts, fresh>>
  BY DEF Confirm
<1>6. QED BY <1>3, <1>4, <1>5, TurnKept

LEMMA CancelKept == ASSUME ProvInv, Cancel PROVE ProvInv'
<1>1. Waiting
  BY DEF ProvInv, Turns, Waiting, Ordered, Working, Asking, Asked, Replied, Reporting, Cancel
<1>2. Waiting' /\ job' \in Jobs /\ phase' = "idle"
  BY <1>1 DEF Waiting, Cancel, worker, ProvInv, ProvTypeOK
<1>3. NewIsNew' /\ Turns'
  BY <1>2 DEF NewIsNew, Turns
<1>4. UNCHANGED worker /\ UNCHANGED <<counts, fresh>>
  BY DEF Cancel
<1>5. QED BY <1>2, <1>3, <1>4, TurnKept

LEMMA AnswerKept == ASSUME ProvInv, NEW c \in {"Retry", "Skip"}, Answer(c) PROVE ProvInv'
<1>1. Asked
  BY DEF ProvInv, Turns, Waiting, Ordered, Working, Asking, Asked, Replied, Reporting, Answer
<1>2. cmds' = <<Command(c, job)>>
  BY <1>1, Messages DEF Asked, Answer, Command
<1>3. Replied' /\ job' \in Jobs /\ phase' = "running"
  BY <1>1, <1>2 DEF Asked, Replied, Answer, worker, Command, ProvInv, ProvTypeOK
<1>4. NewIsNew' /\ Turns'
  BY <1>1, <1>3 DEF NewIsNew, Answer, Asked, ProvInv, Turns
<1>5. UNCHANGED worker /\ UNCHANGED <<counts, fresh>>
  BY DEF Answer
<1>6. QED BY <1>3, <1>4, <1>5, TurnKept

(* Counts::record keeps every device of the session in one counter. *)
LEMMA RowKept ==
  ASSUME ProvInv, phase # "idle", NEW o \in StepOutcomes, o # "Fail" => ContainsUid(job.uid), log' = log,
         counts' = Recorded(job.uid, o, job.reprovision),
         fresh' = IF job.reprovision THEN fresh ELSE fresh \cup {job.uid}
  PROVE  CountsTold'
<1> DEFINE u == job.uid
           U == counts.unverified
           F == counts.failed
<1>0. /\ U \in SUBSET Uids /\ F \in SUBSET Uids /\ counts.ok \in Nat /\ u \in Uids /\ fresh \in SUBSET Uids
      /\ IsFiniteSet(U) /\ IsFiniteSet(F) /\ IsFiniteSet(fresh) /\ U \cup F \subseteq fresh /\ U \cap F = {}
      /\ counts.ok + Cardinality(U) + Cardinality(F) = Cardinality(fresh)
      /\ job.reprovision \in BOOLEAN
  BY DEF ProvInv, CountsTold, CountedOnce, ProvTypeOK, Jobs
<1>1. \A S \in {U, F, fresh} :
        /\ Cardinality(S) \in Nat
        /\ IsFiniteSet(S \cup {u}) /\ IsFiniteSet(S \ {u})
        /\ u \in S => S \cup {u} = S /\ Cardinality(S \ {u}) + 1 = Cardinality(S) /\ Cardinality(S \ {u}) \in Nat /\ Cardinality(S \cup {u}) = Cardinality(S)
        /\ u \notin S => S \ {u} = S /\ Cardinality(S \cup {u}) = Cardinality(S) + 1 /\ Cardinality(S \ {u}) = Cardinality(S)
  <2> SUFFICES ASSUME NEW S \in {U, F, fresh}
               PROVE  /\ Cardinality(S) \in Nat
                      /\ IsFiniteSet(S \cup {u}) /\ IsFiniteSet(S \ {u})
                      /\ u \in S => S \cup {u} = S /\ Cardinality(S \ {u}) + 1 = Cardinality(S) /\ Cardinality(S \ {u}) \in Nat /\ Cardinality(S \cup {u}) = Cardinality(S)
                      /\ u \notin S => S \ {u} = S /\ Cardinality(S \cup {u}) = Cardinality(S) + 1 /\ Cardinality(S \ {u}) = Cardinality(S)
    OBVIOUS
  <2>1. IsFiniteSet(S)
    BY <1>0
  <2>2. Cardinality(S) \in Nat
    BY <2>1, FS_CardinalityType
  <2>3. IsFiniteSet(S \cup {u}) /\ (u \notin S => Cardinality(S \cup {u}) = Cardinality(S) + 1)
    BY <2>1, FS_AddElement
  <2>4. IsFiniteSet(S \ {u}) /\ Cardinality(S \ {u}) \in Nat /\ (u \in S => Cardinality(S \ {u}) + 1 = Cardinality(S))
    <3>1. IsFiniteSet(S \ {u}) /\ (u \in S => Cardinality(S \ {u}) = Cardinality(S) - 1)
      BY <2>1, FS_RemoveElement
    <3>2. Cardinality(S \ {u}) \in Nat
      BY <3>1, FS_CardinalityType
    <3>3. QED BY <3>1, <3>2, <2>2
  <2>5. u \in S => S \cup {u} = S
    OBVIOUS
  <2>6. u \notin S => S \ {u} = S
    OBVIOUS
  <2>7. (u \in S => Cardinality(S \cup {u}) = Cardinality(S)) /\ (u \notin S => Cardinality(S \ {u}) = Cardinality(S))
    BY <2>5, <2>6, Zenon
  <2>8. QED BY <2>2, <2>3, <2>4, <2>5, <2>6, <2>7
<1>12. /\ counts.ok \in Nat /\ Cardinality(U) \in Nat /\ Cardinality(F) \in Nat /\ Cardinality(fresh) \in Nat
       /\ counts.ok + Cardinality(U) + Cardinality(F) = Cardinality(fresh)
  BY <1>0, <1>1
<1>2. u \in fresh /\ ~job.reprovision => u \in F
  BY DEF ProvInv, NewIsNew
<1>3. \A v : ContainsUid(v)' <=> ContainsUid(v)
  BY DEF ContainsUid
<1>4. \A v \in fresh \ F : ContainsUid(v)
  BY DEF ProvInv, CountsTold
<1>5. SUFFICES /\ counts' \in [ok : Nat, unverified : SUBSET Uids, failed : SUBSET Uids] /\ fresh' \in SUBSET Uids
               /\ IsFiniteSet(counts'.unverified) /\ IsFiniteSet(counts'.failed) /\ IsFiniteSet(fresh')
               /\ counts'.unverified \cup counts'.failed \subseteq fresh'
               /\ counts'.unverified \cap counts'.failed = {}
               /\ counts'.ok + Cardinality(counts'.unverified) + Cardinality(counts'.failed) = Cardinality(fresh')
               /\ \A v \in fresh' \ counts'.failed : ContainsUid(v)
  BY <1>3 DEF CountsTold, CountedOnce
<1>6. counts \in [ok : Nat, unverified : SUBSET Uids, failed : SUBSET Uids]
  BY DEF ProvInv, CountsTold
<1>7. fresh' = IF job.reprovision THEN fresh ELSE fresh \cup {u}
  OBVIOUS
<1>8. CASE o = "Ok"
  <2>1. counts' = [ok |-> IF ~job.reprovision \/ u \in U \cup F THEN counts.ok + 1 ELSE counts.ok,
                   unverified |-> U \ {u}, failed |-> F \ {u}]
    BY <1>8 DEF Recorded
  <2>2. ContainsUid(u)
    BY <1>8
  <2> HIDE DEF U, F, u
  <2>3. /\ counts'.ok = (IF ~job.reprovision \/ u \in U \cup F THEN counts.ok + 1 ELSE counts.ok)
        /\ counts'.unverified = U \ {u} /\ counts'.failed = F \ {u}
        /\ counts' \in [ok : Nat, unverified : SUBSET Uids, failed : SUBSET Uids]
    BY <2>1, <1>0
  <2>4. fresh' \in SUBSET Uids /\ IsFiniteSet(U \ {u}) /\ IsFiniteSet(F \ {u}) /\ IsFiniteSet(fresh')
    BY <1>0, <1>1, <1>7
  <2>5. (U \ {u}) \cup (F \ {u}) \subseteq fresh' /\ (U \ {u}) \cap (F \ {u}) = {}
    BY <1>0, <1>7
  <2>6. counts'.ok + Cardinality(U \ {u}) + Cardinality(F \ {u}) = Cardinality(fresh')
    <3>1. CASE u \in F
      <4>1. u \notin U /\ fresh' = fresh /\ Cardinality(U \ {u}) = Cardinality(U) /\ counts'.ok = counts.ok + 1
        BY <3>1, <1>0, <1>7, <2>3, <1>1
      <4>2. Cardinality(F \ {u}) + 1 = Cardinality(F) /\ Cardinality(F \ {u}) \in Nat
        BY <3>1, <1>1
      <4>3. \A n \in Nat : n + 1 = Cardinality(F) => (counts.ok + 1) + Cardinality(U) + n = Cardinality(fresh)
        BY <1>12
      <4>4. QED BY <4>1, <4>2, <4>3
    <3>2. CASE u \in U
      <4>1. u \notin F /\ fresh' = fresh /\ Cardinality(F \ {u}) = Cardinality(F) /\ counts'.ok = counts.ok + 1
        BY <3>2, <1>0, <1>7, <2>3, <1>1
      <4>2. Cardinality(U \ {u}) + 1 = Cardinality(U) /\ Cardinality(U \ {u}) \in Nat
        BY <3>2, <1>1
      <4>3. \A n \in Nat : n + 1 = Cardinality(U) => (counts.ok + 1) + n + Cardinality(F) = Cardinality(fresh)
        BY <1>12
      <4>4. QED BY <4>1, <4>2, <4>3
    <3>3. CASE u \notin U \cup F
      <4>1. Cardinality(U \ {u}) = Cardinality(U) /\ Cardinality(F \ {u}) = Cardinality(F)
        BY <3>3, <1>1
      <4>2. CASE job.reprovision
        BY <4>1, <4>2, <3>3, <1>7, <2>3, <1>0
      <4>3. CASE ~job.reprovision
        <5>1. u \notin fresh /\ fresh' = fresh \cup {u} /\ counts'.ok = counts.ok + 1
          BY <4>3, <3>3, <1>2, <1>7, <2>3
        <5>2. Cardinality(fresh') = Cardinality(fresh) + 1
          BY <5>1, <1>1
        <5>3. QED BY <5>1, <5>2, <4>1, <1>12
      <4>4. QED BY <4>2, <4>3, <1>0
    <3>4. QED BY <3>1, <3>2, <3>3
  <2>7. \A v \in fresh' \ (F \ {u}) : ContainsUid(v)
    BY <2>2, <1>4, <1>7
  <2>8. QED BY <2>3, <2>4, <2>5, <2>6, <2>7
<1>9. CASE o = "Unverified"
  <2>1. counts' = [counts EXCEPT !.failed = F \ {u},
                                 !.unverified = IF u \in F \/ ~job.reprovision THEN U \cup {u} ELSE U]
    BY <1>9 DEF Recorded
  <2>2. ContainsUid(u)
    BY <1>9
  <2>3. /\ counts'.ok = counts.ok /\ counts'.failed = F \ {u}
        /\ counts'.unverified = (IF u \in F \/ ~job.reprovision THEN U \cup {u} ELSE U)
        /\ counts' \in [ok : Nat, unverified : SUBSET Uids, failed : SUBSET Uids]
    BY ZenonT(30), <2>1, <1>0, <1>6
  <2> HIDE DEF U, F, u
  <2>4. fresh' \in SUBSET Uids /\ IsFiniteSet(counts'.unverified) /\ IsFiniteSet(F \ {u}) /\ IsFiniteSet(fresh')
    BY <1>0, <1>1, <1>7, <2>3
  <2>5. counts'.unverified \cup (F \ {u}) \subseteq fresh' /\ counts'.unverified \cap (F \ {u}) = {}
    BY <1>0, <1>7, <2>3
  <2>6. counts'.ok + Cardinality(counts'.unverified) + Cardinality(F \ {u}) = Cardinality(fresh')
    <3>1. CASE u \in F
      <4>1. u \notin U /\ fresh' = fresh /\ counts'.unverified = U \cup {u} /\ counts'.ok = counts.ok
        BY <3>1, <1>0, <1>7, <2>3, <1>1
      <4>2. Cardinality(F \ {u}) + 1 = Cardinality(F) /\ Cardinality(F \ {u}) \in Nat /\ Cardinality(counts'.unverified) = Cardinality(U) + 1
        BY <3>1, <4>1, <1>1
      <4>3. \A n \in Nat : n + 1 = Cardinality(F) => counts.ok + (Cardinality(U) + 1) + n = Cardinality(fresh)
        BY <1>12
      <4>4. QED BY <4>1, <4>2, <4>3
    <3>2. CASE u \notin F /\ job.reprovision
      <4>1. fresh' = fresh /\ counts'.unverified = U /\ Cardinality(F \ {u}) = Cardinality(F)
        BY <3>2, <1>7, <2>3, <1>1
      <4>2. QED BY <4>1, <2>3, <1>0
    <3>3. CASE u \notin F /\ ~job.reprovision
      <4>1. u \notin fresh /\ u \notin U /\ fresh' = fresh \cup {u} /\ counts'.unverified = U \cup {u} /\ Cardinality(F \ {u}) = Cardinality(F)
        BY <3>3, <1>0, <1>2, <1>7, <2>3, <1>1
      <4>2. Cardinality(fresh') = Cardinality(fresh) + 1 /\ Cardinality(counts'.unverified) = Cardinality(U) + 1
        BY <4>1, <1>1
      <4>3. QED BY <4>1, <4>2, <2>3, <1>12
    <3>4. QED BY <3>1, <3>2, <3>3, <1>0
  <2>7. \A v \in fresh' \ (F \ {u}) : ContainsUid(v)
    BY <2>2, <1>4, <1>7
  <2>8. QED BY <2>3, <2>4, <2>5, <2>6, <2>7
<1>10. CASE o = "Fail"
  <2>1. counts' = [counts EXCEPT !.failed = IF job.reprovision THEN F ELSE F \cup {u}]
    BY <1>10 DEF Recorded
  <2>2. /\ counts'.ok = counts.ok /\ counts'.unverified = U
        /\ counts'.failed = (IF job.reprovision THEN F ELSE F \cup {u})
        /\ counts' \in [ok : Nat, unverified : SUBSET Uids, failed : SUBSET Uids]
    BY <2>1, <1>0, <1>6
  <2> HIDE DEF U, F, u
  <2>3. CASE job.reprovision
    BY <2>2, <2>3, <1>0, <1>4, <1>7
  <2>4. CASE ~job.reprovision
    <3>1. counts'.failed = F \cup {u} /\ fresh' = fresh \cup {u}
      BY <2>2, <2>4, <1>7
    <3>2. fresh' \in SUBSET Uids /\ IsFiniteSet(counts'.failed) /\ IsFiniteSet(fresh')
      BY <3>1, <1>0, <1>1
    <3>3. U \cup counts'.failed \subseteq fresh' /\ \A v \in fresh' \ counts'.failed : ContainsUid(v)
      BY <3>1, <1>0, <1>4
    <3>4. CASE u \in F
      <4>1. F \cup {u} = F /\ fresh \cup {u} = fresh
        BY <3>4, <1>0
      <4>2. QED BY <4>1, <3>1, <3>2, <3>3, <2>2, <1>0
    <3>5. CASE u \notin F
      <4>1. u \notin fresh /\ u \notin U
        BY <3>5, <2>4, <1>0, <1>2
      <4>2. Cardinality(counts'.failed) = Cardinality(F) + 1 /\ Cardinality(fresh') = Cardinality(fresh) + 1
        BY <3>1, <3>5, <4>1, <1>1
      <4>3. counts'.unverified \cap counts'.failed = {}
        BY <3>1, <4>1, <2>2, <1>0
      <4>4. counts'.ok + Cardinality(counts'.unverified) + Cardinality(counts'.failed) = Cardinality(fresh')
        BY <4>2, <2>2, <1>0, <1>1
      <4>5. QED BY <4>3, <4>4, <3>2, <3>3, <2>2, <1>0
    <3>6. QED BY <3>4, <3>5
  <2>5. QED BY <2>3, <2>4, <1>0
<1>11. QED BY <1>8, <1>9, <1>10 DEF StepOutcomes
LEMMA HandleEventKept == ASSUME ProvInv, HandleEvent PROVE ProvInv'
<1> USE DEF worker
<1>1. Asking \/ Reporting
  BY DEF ProvInv, Turns, Waiting, Ordered, Working, Asking, Asked, Replied, Reporting, HandleEvent
<1>2. evs # <<>> /\ evs' = Tail(evs) /\ UNCHANGED <<job, cmds>> /\ UNCHANGED worker
  BY DEF HandleEvent
<1>3. CASE Head(evs).ev = "Failed" /\ UNCHANGED <<counts, fresh>> /\ Turns' /\ phase' \in {"running", "failed"} /\ phase = "running"
  <2>1. NewIsNew' /\ job' \in Jobs
    BY <1>2, <1>3 DEF NewIsNew, ProvInv, ProvTypeOK
  <2>2. QED BY <1>2, <1>3, <2>1, TurnKept
<1>4. CASE Asking
  <2>1. Head(evs) = Question(step, work) /\ Tail(evs) = <<>>
    BY <1>4, Messages DEF Asking
  <2>2. Head(evs).ev = "Failed" /\ Head(evs).step = step
    BY <2>1, MessagesSay
  <2>3. Asks(step)
    BY <1>4 DEF Asks, Asking, ProvInv, WorkDone
  <2>4. phase' = "failed" /\ UNCHANGED <<counts, fresh>>
    BY <2>2, <2>3 DEF HandleEvent
  <2>5. Asked'
    BY <1>2, <1>4, <2>1, <2>4 DEF Asking, Asked
  <2>6. Turns' /\ phase = "running"
    BY <2>5, <1>4 DEF Turns, Asking
  <2>7. QED BY <1>3, <2>2, <2>4, <2>6
<1>5. CASE Reporting
  <2>1. PICK o \in StepOutcomes, c \in {STEP_RTT, STEP_RTT + 1} :
          /\ evs \in {<<Finished(step, work, o)>>, <<Question(c, work), Finished(step, work, o)>>}
          /\ o # "Fail" => ContainsUid(work.uid)
    BY <1>5 DEF Reporting
  <2>2. phase = "running" /\ cmds = <<>> /\ wpc = "idle" /\ work = job
    BY <1>5 DEF Reporting
  <2>3. CASE evs = <<Question(c, work), Finished(step, work, o)>>
    <3>1. Head(evs) = Question(c, work) /\ Tail(evs) = <<Finished(step, work, o)>>
      BY <2>3, Messages
    <3>2. Head(evs).ev = "Failed" /\ Head(evs).step = c
      BY <3>1, MessagesSay
    <3>3. ~Asks(c)
      BY DEF Asks, STEP_RTT
    <3>4. phase' = "running" /\ UNCHANGED <<counts, fresh>>
      BY <2>2, <3>2, <3>3 DEF HandleEvent
    <3>5. o # "Fail" => ContainsUid(work.uid)'
      BY <2>1, <1>2 DEF ContainsUid
    <3>6. evs' = <<Finished(step, work, o)'>>
      BY <1>2, <3>1 DEF Finished
    <3>7. Reporting'
      BY <1>2, <2>2, <3>4, <3>5, <3>6 DEF Reporting
    <3>8. Turns'
      BY <3>7 DEF Turns
    <3>9. QED BY <1>3, <3>2, <3>4, <3>8, <2>2
  <2>4. CASE evs = <<Finished(step, work, o)>>
    <3>1. Head(evs) = Finished(step, work, o) /\ Tail(evs) = <<>>
      BY <2>4, Messages
    <3>2. Head(evs).ev = "Finished" /\ Head(evs).job = job /\ Head(evs).outcome = o
      BY <3>1, <2>2, MessagesSay
    <3>3. /\ phase' = "idle" /\ counts' = Recorded(job.uid, o, job.reprovision)
          /\ fresh' = IF job.reprovision THEN fresh ELSE fresh \cup {job.uid}
      BY <3>2 DEF HandleEvent
    <3>4. CountsTold'
      BY <3>3, <2>1, <2>2, <1>2, RowKept
    <3>5. Waiting' /\ NewIsNew'
      BY <3>1, <3>3, <2>2, <1>2 DEF Waiting, NewIsNew
    <3>6. ProvTypeOK'
      BY <1>2, <3>3 DEF ProvInv, ProvTypeOK
    <3>7. \A u : Logged(u) => Logged(u)'
      BY <1>2 DEF Logged
    <3>8. WorkDone' /\ OthersLogged' /\ RowsAreReal'
      BY <1>2, <3>7 DEF ProvInv, WorkDone, OthersLogged, RowsAreReal
    <3>9. QED BY <3>4, <3>5, <3>6, <3>8 DEF ProvInv, Turns
  <2>5. QED BY <2>1, <2>3, <2>4
<1>6. QED BY <1>1, <1>4, <1>5

(* The worker acts; the screen does not, and the log, the devices and the reports stay. *)
LEMMA ScreenKept ==
  ASSUME ProvInv, UNCHANGED screen, \A u : ContainsUid(u) => ContainsUid(u)'
  PROVE  CountsTold' /\ NewIsNew' /\ phase' = phase /\ job' = job
<1> USE DEF screen
<1>1. CountsTold'
  BY DEF ProvInv, CountsTold, CountedOnce
<1>2. QED BY <1>1 DEF ProvInv, NewIsNew

LEMMA TakeCommandKept == ASSUME ProvInv, TakeCommand PROVE ProvInv'
<1>0. wpc = "idle" /\ cmds # <<>> /\ cmds' = Tail(cmds) /\ UNCHANGED <<cert, issuedCount, device, log, last, ever, stepFaults, evs>>
      /\ UNCHANGED screen
  BY DEF TakeCommand
<1>1. Ordered
  BY DEF ProvInv, Turns, Waiting, Ordered, Working, Asking, Asked, Replied, Reporting, TakeCommand
<1>2. Head(cmds) = Command("Provision", job) /\ Tail(cmds) = <<>>
  BY <1>1, Messages DEF Ordered
<1>3. Head(cmds).cmd = "Provision" /\ Head(cmds).job = job
  BY <1>2 DEF Command
<1>4. wpc' = "run" /\ step' = 0 /\ work' = job
  BY <1>3 DEF TakeCommand
<1>5. \A u : (Logged(u) => Logged(u)') /\ (ContainsUid(u) => ContainsUid(u)')
  BY <1>0 DEF Logged, ContainsUid
<1>6. CountsTold' /\ NewIsNew' /\ phase' = phase /\ job' = job
  BY <1>0, <1>5, ScreenKept
<1>7. Working'
  BY <1>0, <1>1, <1>2, <1>4, <1>6 DEF Working, Ordered
<1>8. ProvTypeOK'
  BY <1>0, <1>4, <1>6 DEF ProvInv, ProvTypeOK, STEP_RTT
<1>9. WorkDone' /\ OthersLogged' /\ RowsAreReal'
  <2>1. WorkDone'
    BY <1>4 DEF WorkDone, STEP_RTT, CertStep, STEP_LOG
  <2>2. OthersLogged'
    BY <1>0, <1>5 DEF ProvInv, OthersLogged
  <2>3. QED BY <1>0, <2>1, <2>2 DEF ProvInv, RowsAreReal
<1>10. QED BY <1>6, <1>7, <1>8, <1>9 DEF ProvInv, Turns

LEMMA RunStepKept == ASSUME ProvInv, RunStep PROVE ProvInv'
<1>0. /\ wpc = "run" /\ UNCHANGED <<work, last, stepFaults, cmds, evs>> /\ UNCHANGED screen
      /\ cert' = (IF step = CertStep THEN issuedCount + 1 ELSE cert)
      /\ issuedCount' = (IF step = CertStep THEN issuedCount + 1 ELSE issuedCount)
      /\ device' = (IF step = ConfigStep THEN [device EXCEPT ![work.uid] = cert] ELSE device)
      /\ ever' = (IF step = ConfigStep THEN ever \cup {cert} ELSE ever)
      /\ log' = (IF step = STEP_LOG THEN Append(log, [uid |-> work.uid, cert |-> cert]) ELSE log)
      /\ wpc' = (IF step = STEP_LOG THEN "verify" ELSE "run")
      /\ step' = (IF step = STEP_LOG THEN STEP_RTT ELSE step + 1)
  BY DEF RunStep, StepDone, Put
<1>1. Working
  BY <1>0 DEF ProvInv, Turns, Waiting, Ordered, Working, Asking, Asked, Replied, Reporting
<1>2. /\ step \in 0 .. STEP_LOG /\ (step > CertStep => cert # NoCert)
      /\ (step = STEP_LOG => device[work.uid] = cert /\ cert \in ever)
  BY <1>0 DEF ProvInv, WorkDone, ProvTypeOK, STEP_RTT, STEP_LOG
<1>3. work.uid \in Uids /\ cert \in Nat /\ issuedCount \in Nat /\ device \in [Uids -> Nat] /\ ever \in SUBSET Nat
      /\ log \in Seq([uid : Uids, cert : Nat]) /\ work \in Jobs
  BY DEF ProvInv, ProvTypeOK, Jobs
<1> DEFINE row == [uid |-> work.uid, cert |-> cert]
<1>4. row \in [uid : Uids, cert : Nat]
  BY <1>3
<1>5. CASE step = STEP_LOG
  <2>1. log' = Append(log, row) /\ UNCHANGED <<cert, issuedCount, device, ever>> /\ wpc' = "verify" /\ step' = STEP_RTT
    BY <1>0, <1>5 DEF STEP_LOG, CertStep, ConfigStep
  <2>2. row.uid = work.uid /\ row.cert = cert
    OBVIOUS
  <2> HIDE DEF row
  <2>3. /\ log' \in Seq([uid : Uids, cert : Nat]) /\ Len(log') = Len(log) + 1 /\ Len(log) \in Nat
        /\ log'[Len(log) + 1] = row /\ \A i \in 1 .. Len(log) : log'[i] = log[i]
        /\ \A u : ContainsUid(u) => ContainsUid(u)'
        /\ \A u : u # row.uid /\ device'[u] = device[u] /\ Logged(u) => Logged(u)'
    BY <2>1, <1>4, RowAdded DEF ProvInv
  <2>4. CountsTold' /\ NewIsNew' /\ phase' = phase /\ job' = job
    BY <1>0, <2>3, ScreenKept
  <2>5. Logged(work.uid)'
    <3>1. work' = work /\ device'[work.uid] = cert /\ cert # NoCert
      BY <1>0, <1>2, <1>5, <2>1 DEF STEP_LOG, CertStep
    <3>2. Len(log) + 1 \in 1 .. Len(log') /\ \A j \in Len(log) + 1 + 1 .. Len(log') : log'[j].uid # work.uid
      BY <2>3
    <3>3. log'[Len(log) + 1].uid = work.uid /\ log'[Len(log) + 1].cert = device'[work.uid]
      BY <2>2, <2>3, <3>1
    <3>4. QED BY <3>1, <3>2, <3>3 DEF Logged
  <2>6. WorkDone' /\ OthersLogged'
    <3>1. WorkDone'
      BY <2>1, <2>5 DEF WorkDone
    <3>2. QED BY <1>0, <2>1, <2>2, <2>3, <3>1 DEF ProvInv, OthersLogged
  <2>7. RowsAreReal'
    <3> SUFFICES ASSUME NEW i \in 1 .. Len(log) + 1 PROVE log'[i].cert \in ever
      BY <2>1, <2>3 DEF RowsAreReal
    <3>1. CASE i = Len(log) + 1
      BY <3>1, <2>2, <2>3, <1>2, <1>5
    <3>2. CASE i # Len(log) + 1
      <4>1. i \in 1 .. Len(log)
        BY <3>2, <2>3
      <4>2. QED BY <4>1, <2>3 DEF ProvInv, RowsAreReal
    <3>3. QED BY <3>1, <3>2
  <2>8. ProvTypeOK'
    <3>1. wpc' \in {"idle", "run", "ask", "verify"} /\ step' \in 0 .. STEP_RTT
      BY <2>1 DEF STEP_RTT
    <3>2. /\ phase' \in {"idle", "confirm", "running", "failed"} /\ job' \in Jobs /\ work' \in Jobs
          /\ last' \in [Uids -> StepOutcomes \cup {"none"}] /\ stepFaults' \in Nat
      BY <1>0, <2>4 DEF ProvInv, ProvTypeOK
    <3>3. QED BY <2>1, <2>3, <3>1, <3>2 DEF ProvInv, ProvTypeOK
  <2>9. Working'
    BY <1>0, <1>1, <2>1, <2>4 DEF Working
  <2>10. QED BY <2>4, <2>6, <2>7, <2>8, <2>9 DEF ProvInv, Turns
<1>6. CASE step # STEP_LOG
  <2>1. log' = log /\ wpc' = "run" /\ step' = step + 1 /\ step' \in 1 .. STEP_LOG
    BY <1>0, <1>2, <1>6 DEF STEP_LOG
  <2>2. cert' \in Nat /\ issuedCount' \in Nat /\ cert' # NoCert /\ ever' \in SUBSET Nat /\ device' \in [Uids -> Nat]
        /\ ever \subseteq ever'
    BY <1>0, <1>2, <1>3 DEF CertStep, NoCert
  <2>3. \A u \in Uids : u # work.uid => device'[u] = device[u]
    BY <1>0, <1>3
  <2>4. \A u \in Uids : u # work.uid /\ Logged(u) => Logged(u)'
    BY <2>1, <2>3 DEF Logged
  <2>5. \A u : ContainsUid(u) => ContainsUid(u)'
    BY <2>1 DEF ContainsUid
  <2>6. CountsTold' /\ NewIsNew' /\ phase' = phase /\ job' = job
    BY <1>0, <2>5, ScreenKept
  <2>7. step' = STEP_LOG => device'[work.uid] = cert' /\ cert' \in ever'
    <3>1. step' = STEP_LOG => step = ConfigStep
      BY <2>1, <1>2 DEF STEP_LOG, ConfigStep
    <3>2. step = ConfigStep => device'[work.uid] = cert /\ cert' = cert /\ cert \in ever'
      BY <1>0, <1>3 DEF ConfigStep, CertStep
    <3>3. QED BY <3>1, <3>2
  <2>8. WorkDone'
    BY <1>0, <2>1, <2>2, <2>7 DEF WorkDone, STEP_RTT, STEP_LOG
  <2>9. OthersLogged'
    BY <1>0, <2>1, <2>4 DEF ProvInv, OthersLogged
  <2>10. RowsAreReal'
    BY <2>1, <2>2 DEF ProvInv, RowsAreReal
  <2>11. ProvTypeOK'
    BY <1>0, <2>1, <2>2, <2>6 DEF ProvInv, ProvTypeOK, STEP_RTT, STEP_LOG
  <2>12. Working'
    BY <1>0, <1>1, <2>1, <2>6 DEF Working
  <2>13. QED BY <2>6, <2>8, <2>9, <2>10, <2>11, <2>12 DEF ProvInv, Turns
<1>7. QED BY <1>5, <1>6

LEMMA FailStepKept == ASSUME ProvInv, FailStep PROVE ProvInv'
<1>0. /\ wpc = "run" /\ stepFaults' = stepFaults + 1 /\ wpc' = "ask" /\ evs' = Append(evs, Question(step, work))
      /\ device' = (IF step = ConfigStep THEN [device EXCEPT ![work.uid] = NoCert] ELSE device)
      /\ UNCHANGED <<step, work, cert, issuedCount, log, last, ever, cmds>> /\ UNCHANGED screen
  BY DEF FailStep, Question
<1>1. Working
  BY <1>0 DEF ProvInv, Turns, Waiting, Ordered, Working, Asking, Asked, Replied, Reporting
<1>2. evs' = <<Question(step, work)'>>
  BY <1>0, <1>1, Messages DEF Working, Question
<1>3. work.uid \in Uids /\ device \in [Uids -> Nat]
  BY DEF ProvInv, ProvTypeOK, Jobs
<1>4. device' \in [Uids -> Nat] /\ \A u \in Uids : u # work.uid => device'[u] = device[u]
  BY <1>0, <1>3 DEF NoCert
<1>5. \A u \in Uids : u # work.uid /\ Logged(u) => Logged(u)'
  BY <1>0, <1>4 DEF Logged
<1>6. \A u : ContainsUid(u) => ContainsUid(u)'
  BY <1>0 DEF ContainsUid
<1>7. CountsTold' /\ NewIsNew' /\ phase' = phase /\ job' = job
  BY <1>0, <1>6, ScreenKept
<1>8. Asking'
  BY <1>0, <1>1, <1>2, <1>7 DEF Asking, Working
<1>9. WorkDone'
  BY <1>0 DEF ProvInv, WorkDone, STEP_LOG, ConfigStep
<1>10. OthersLogged'
  BY <1>0, <1>5 DEF ProvInv, OthersLogged
<1>11. RowsAreReal' /\ ProvTypeOK'
  BY <1>0, <1>4, <1>7 DEF ProvInv, RowsAreReal, ProvTypeOK
<1>12. QED BY <1>7, <1>8, <1>9, <1>10, <1>11 DEF ProvInv, Turns

(* The end of a job: the outcome is as the device and the log are. *)
LEMMA JobEnded ==
  ASSUME ProvInv, UNCHANGED <<step, work, cert, issuedCount, device, log, ever, stepFaults>>, UNCHANGED screen,
         NEW o \in StepOutcomes, last' = [last EXCEPT ![work.uid] = o], wpc' = "idle", Reporting',
         o # "Fail" => Logged(work.uid), wpc # "idle"
  PROVE  ProvInv'
<1>1. \A u : (Logged(u) => Logged(u)') /\ (ContainsUid(u) => ContainsUid(u)')
  BY DEF Logged, ContainsUid
<1>2. CountsTold' /\ NewIsNew' /\ phase' = phase /\ job' = job
  BY <1>1, ScreenKept
<1>3. work.uid \in Uids /\ last \in [Uids -> StepOutcomes \cup {"none"}]
  BY DEF ProvInv, ProvTypeOK, Jobs
<1>4. /\ last' \in [Uids -> StepOutcomes \cup {"none"}] /\ last'[work.uid] = o
      /\ \A u \in Uids : u # work.uid => last'[u] = last[u]
  BY <1>3
<1>5. OthersLogged'
  <2> SUFFICES ASSUME NEW u \in Uids, last'[u] \in {"Ok", "Unverified"} PROVE Logged(u)'
    BY DEF OthersLogged
  <2>1. CASE u = work.uid
    BY <2>1, <1>1, <1>4
  <2>2. CASE u # work.uid
    BY <2>2, <1>1, <1>4 DEF ProvInv, OthersLogged
  <2>3. QED BY <2>1, <2>2
<1>6. ProvTypeOK' /\ RowsAreReal' /\ WorkDone'
  BY <1>2, <1>4 DEF ProvInv, ProvTypeOK, RowsAreReal, WorkDone
<1>7. QED BY <1>2, <1>5, <1>6 DEF ProvInv, Turns

LEMMA TakeAnswerKept == ASSUME ProvInv, TakeAnswer PROVE ProvInv'
<1>0. /\ wpc = "ask" /\ cmds # <<>> /\ cmds' = Tail(cmds)
      /\ UNCHANGED <<step, work, cert, issuedCount, device, log, ever, stepFaults>> /\ UNCHANGED screen
  BY DEF TakeAnswer
<1>1. Replied
  BY <1>0 DEF ProvInv, Turns, Waiting, Ordered, Working, Asking, Asked, Replied, Reporting
<1>2. PICK c \in {"Retry", "Skip"} : cmds = <<Command(c, job)>>
  BY <1>1 DEF Replied
<1>3. Head(cmds).cmd = c /\ Tail(cmds) = <<>>
  BY <1>2, Messages DEF Command
<1>4. \A u : (Logged(u) => Logged(u)') /\ (ContainsUid(u) => ContainsUid(u)')
  BY <1>0 DEF Logged, ContainsUid
<1>5. CountsTold' /\ NewIsNew' /\ phase' = phase /\ job' = job
  BY <1>0, <1>4, ScreenKept
<1>6. CASE c = "Retry"
  <2>1. wpc' = "run" /\ UNCHANGED <<evs, last>>
    BY <1>3, <1>6 DEF TakeAnswer
  <2>2. Working'
    BY <1>0, <1>1, <1>3, <1>5, <2>1 DEF Working, Replied
  <2>3. WorkDone' /\ OthersLogged'
    BY <1>0, <1>4, <2>1 DEF ProvInv, WorkDone, OthersLogged
  <2>4. RowsAreReal' /\ ProvTypeOK'
    BY <1>0, <1>5, <2>1 DEF ProvInv, RowsAreReal, ProvTypeOK
  <2>5. QED BY <1>5, <2>2, <2>3, <2>4 DEF ProvInv, Turns
<1>7. CASE c = "Skip"
  <2>1. Finish("Fail")
    BY <1>3, <1>7 DEF TakeAnswer, SkippedOutcome
  <2>2. evs' = Append(evs, Finished(step, work, "Fail")) /\ last' = [last EXCEPT ![work.uid] = "Fail"] /\ wpc' = "idle"
    BY <2>1 DEF Finish, Finished
  <2>3. evs' = <<Finished(step, work, "Fail")'>>
    BY <1>0, <1>1, <2>2, Messages DEF Replied, Finished
  <2>4. Reporting'
    BY <1>0, <1>1, <1>3, <1>5, <2>2, <2>3 DEF Reporting, Replied, StepOutcomes
  <2>5. QED BY <1>0, <2>2, <2>4, JobEnded DEF StepOutcomes
<1>8. QED BY <1>6, <1>7

LEMMA VerifyKept ==
  ASSUME ProvInv, NEW p \in BOOLEAN, NEW c \in {STEP_RTT, STEP_RTT + 1}, Verify(p, c)
  PROVE  ProvInv'
<1> DEFINE o == IF p THEN "Ok" ELSE "Unverified"
<1>0. /\ wpc = "verify" /\ wpc' = "idle"
      /\ evs' = Append(IF p THEN evs ELSE Append(evs, Question(c, work)), Finished(step, work, o))
      /\ last' = [last EXCEPT ![work.uid] = o]
      /\ UNCHANGED <<step, work, cert, issuedCount, device, log, ever, stepFaults, cmds>> /\ UNCHANGED screen
  BY DEF Verify, Question, Finished
<1>1. Working
  BY <1>0 DEF ProvInv, Turns, Waiting, Ordered, Working, Asking, Asked, Replied, Reporting
<1>2. o \in StepOutcomes /\ o # "Fail"
  BY DEF StepOutcomes
<1> HIDE DEF o
<1>3. Logged(work.uid)
  BY <1>0 DEF ProvInv, WorkDone
<1>4. ContainsUid(work.uid)'
  BY <1>0, <1>3 DEF Logged, ContainsUid
<1>5. evs = <<>>
  BY <1>1 DEF Working
<1>6. evs' = IF p THEN <<Finished(step, work, o)>> ELSE <<Question(c, work), Finished(step, work, o)>>
  BY <1>0, <1>5, Messages
<1>7. evs' \in {<<Finished(step', work', o)>>, <<Question(c, work'), Finished(step', work', o)>>}
  BY <1>0, <1>6
<1>8. Reporting'
  BY <1>0, <1>1, <1>2, <1>4, <1>7 DEF Reporting, Working, screen, Finished, Question
<1>9. QED BY <1>0, <1>2, <1>3, <1>8, JobEnded

LEMMA ProvStep == ProvInv /\ [ProvNext]_provVars => ProvInv'
<1> SUFFICES ASSUME ProvInv, [ProvNext]_provVars PROVE ProvInv'
  OBVIOUS
<1>1. CASE WorkerStep
  BY <1>1, TakeCommandKept, RunStepKept, TakeAnswerKept, VerifyKept DEF WorkerStep
<1>2. CASE UNCHANGED provVars
  <2>1. \A u : (Logged(u) <=> Logged(u)') /\ (ContainsUid(u) <=> ContainsUid(u)')
    BY <1>2 DEF provVars, Logged, ContainsUid
  <2>2. Turns'
    BY <1>2, <2>1 DEF provVars, ProvInv, Turns, Waiting, Ordered, Working, Asking, Asked, Replied, Reporting, Question, Finished, Command
  <2>3. NewIsNew' /\ phase' \in {"idle", "confirm", "running", "failed"} /\ job' \in Jobs
    BY <1>2 DEF provVars, ProvInv, NewIsNew, ProvTypeOK
  <2>4. QED BY <1>2, <2>2, <2>3, TurnKept DEF provVars, worker
<1>3. CASE ProvNext
  BY <1>1, <1>3, FailStepKept, HandleEventKept, ConfirmKept, CancelKept, PrepareStartKept, AnswerKept
     DEF ProvNext, AnswerDialog
<1>4. QED BY <1>2, <1>3

LEMMA ProvInvTrue == ProvInv => ProvisioningIsTrue
<1> SUFFICES ASSUME ProvInv PROVE ProvisioningIsTrue
  OBVIOUS
<1>1. ProvisionedIsLogged
  <2> SUFFICES ASSUME wpc = "idle", NEW u \in Uids, last[u] \in {"Ok", "Unverified"}
               PROVE  ContainsUid(u) /\ device[u] # NoCert /\ LastRow(u).cert = device[u]
    BY DEF ProvisionedIsLogged
  <2>1. Logged(u)
    BY DEF ProvInv, OthersLogged
  <2>2. QED BY <2>1, LastRowIs DEF Logged, ProvInv, ProvTypeOK
<1>2. AnswersMeetQuestions
  <2>1. cmds = <<>> \/ cmds = <<Command("Provision", job)>> \/ (wpc = "ask" /\ \E c : cmds = <<Command(c, job)>>)
    BY DEF ProvInv, Turns, Waiting, Ordered, Working, Asking, Asked, Replied, Reporting
  <2>2. CASE cmds = <<>>
    BY <2>2 DEF AnswersMeetQuestions
  <2>3. CASE cmds = <<Command("Provision", job)>>
    <3>1. Len(cmds) = 1 /\ cmds[1].cmd = "Provision"
      BY <2>3, Messages DEF Command
    <3>2. QED BY <3>1 DEF AnswersMeetQuestions
  <2>4. CASE wpc = "ask" /\ \E c : cmds = <<Command(c, job)>>
    BY <2>4, Messages DEF AnswersMeetQuestions
  <2>5. QED BY <2>1, <2>2, <2>3, <2>4
<1>3. QED BY <1>1, <1>2 DEF ProvisioningIsTrue, ProvInv, CountsTold

(* app.rs and worker.rs of the provisioning tool, with any step failing and any answers of    *)
(* the operator: a device that is reported as provisioned carries the certificate of its last *)
(* row in the log, a row is of a certificate that reached a device, a device is counted once, *)
(* and an answer meets the question that it was given for.                                    *)
THEOREM ProvisioningStaysTrue == ProvSpec => []ProvisioningIsTrue
<1>1. ProvInit => ProvInv
  BY ProvInitKept
<1>2. ProvInv /\ [ProvNext]_provVars => ProvInv'
  BY ProvStep
<1>3. ProvInv => ProvisioningIsTrue
  BY ProvInvTrue
<1>4. QED BY <1>1, <1>2, <1>3, PTL DEF ProvSpec

-----------------------------------------------------------------------------
(* quectel.rs, the download of a file *)

(* A slice is being fetched, or is read. *)
Fetching == dpc \in {"get", "result", "store", "fetched", "fetchFailed"}
Reading == dpc \in {"chunk", "read", "readFailed"}

(* What the server has at position o of the file. *)
LenAt(o) == IF o < fileLen THEN Smaller(DOWNLOAD_SLICE_LEN, fileLen - o) ELSE 0

SliceLens == 0 .. DOWNLOAD_SLICE_LEN

DownTypeOK ==
  /\ fileLen \in Nat /\ offset \in Nat /\ slice \in SliceLens /\ saved \in Nat
  /\ download \in [on : BOOLEAN, offset : Nat, len : SliceLens, read : Nat, complete : BOOLEAN]
  /\ tmp \in Seq(Nat) /\ chunk \in Seq(Nat) /\ delivered \in Seq(Seq(Nat))
  /\ urcs \in Seq(Nat \X SliceLens)
  /\ dpc = "idle" \/ Fetching \/ Reading

(* All chunks but the last have the size that the caller asked for, and the last one too as   *)
(* long as there is more to come.                                                             *)
Filled ==
  /\ \A i \in 1 .. Len(delivered) : Len(delivered[i]) \in 1 .. ChunkSize
  /\ ChunksFilled
  /\ Len(chunk) <= ChunkSize
  /\ \/ delivered = <<>> \/ dpc = "idle" \/ Len(delivered[Len(delivered)]) = ChunkSize
     \/ dpc = "chunk" /\ Remaining = 0 /\ download.complete /\ chunk = <<>>

(* What was delivered and collected is what was read: all before the slice, and of the slice  *)
(* what was read of it or, while it is fetched again, was read before.                        *)
ReadOf == IF Reading THEN download.read ELSE IF fetchFor = "again" THEN saved ELSE 0
Collected ==
  dpc # "idle" =>
    /\ chunk = Positions(Got, Len(chunk)) /\ Got + Len(chunk) <= fileLen
    /\ Got + Len(chunk) = offset + ReadOf

(* The file in the modem holds what the server has at the slice, and is read where the driver *)
(* believes it is.                                                                            *)
SliceHeld ==
  /\ Reading => download.offset = offset /\ download.complete = (download.len < DOWNLOAD_SLICE_LEN)
  /\ Fetching => tmpHandle = NoHandle
  /\ dpc \in {"chunk", "read"} => tmpHandle \in {NoHandle, download.read}
  /\ (dpc = "fetched" /\ slice > 0) \/ (Reading /\ download.len > 0) =>
       tmp = Positions(offset, LenAt(offset))

(* Reports of this download are of full slices before this one or of this slice. *)
ReportsTrue ==
  dpc # "idle" /\ ~stale =>
    /\ \A i \in 1 .. Len(urcs) : urcs[i][1] # 500 => urcs[i][2] \in {LenAt(offset), DOWNLOAD_SLICE_LEN}
    /\ dpc \in {"store", "fetched"} => slice \in {LenAt(offset), DOWNLOAD_SLICE_LEN}
    /\ Reading => download.len \in {LenAt(offset), DOWNLOAD_SLICE_LEN}

(* The caller is told of the end at the end. *)
EndTrue == EndIsTheEnd /\ (dpc # "idle" => ended # "EndOfFile")

(* The inductive invariant of the download. *)
DownInv == DownTypeOK /\ FileInOrder /\ Filled /\ Collected /\ SliceHeld /\ ReportsTrue /\ EndTrue

-----------------------------------------------------------------------------
(* The positions of a part of the file are its bytes. *)
LEMMA PositionsAre ==
  ASSUME NEW a \in Nat, NEW n \in Nat
  PROVE  /\ Positions(a, n) \in Seq(Nat) /\ Len(Positions(a, n)) = n
         /\ \A i \in 1 .. n : Positions(a, n)[i] = a + i - 1
<1>1. \A i \in 1 .. n : a + i - 1 \in Nat
  OBVIOUS
<1>2. QED BY <1>1 DEF Positions

(* Reading n more positions, from p on, of a slice at b continues what begins at a. *)
Continues(a, m, b, l, p, n) == Positions(a, m) \o SubSeq(Positions(b, l), p + 1, p + n) = Positions(a, m + n)

LEMMA PositionsJoin ==
  ASSUME NEW a \in Nat, NEW m \in Nat, NEW b \in Nat, NEW l \in Nat, NEW p \in Nat, NEW n \in Nat,
         p + n <= l, b + p = a + m
  PROVE  Continues(a, m, b, l, p, n)
<1> DEFINE s == Positions(a, m)
           t == SubSeq(Positions(b, l), p + 1, p + n)
           u == Positions(a, m + n)
<1>1. s \in Seq(Nat) /\ Len(s) = m /\ \A i \in 1 .. m : s[i] = a + i - 1
  BY PositionsAre
<1>2. m + n \in Nat /\ u \in Seq(Nat) /\ Len(u) = m + n /\ \A i \in 1 .. m + n : u[i] = a + i - 1
  <2>1. m + n \in Nat
    OBVIOUS
  <2>2. QED BY <2>1, PositionsAre
<1>3. /\ t \in Seq(Nat) /\ Len(t) = n
      /\ \A i \in 1 .. n : t[i] = b + p + i - 1
  <2>1. \A i \in 1 .. l : Positions(b, l)[i] = b + i - 1
    BY PositionsAre
  <2>2. p + 1 \in Int /\ p + n \in Int /\ \A i \in p + 1 .. p + n : Positions(b, l)[i] \in Nat
    BY <2>1
  <2>3. /\ t \in Seq(Nat) /\ Len(t) = (IF p + 1 <= p + n THEN (p + n) - (p + 1) + 1 ELSE 0)
        /\ \A i \in 1 .. (p + n) - (p + 1) + 1 : t[i] = Positions(b, l)[(p + 1) + i - 1]
    BY <2>2, SubSeqProperties
  <2>4. Len(t) = n
    BY <2>3
  <2>5. ASSUME NEW i \in 1 .. n PROVE t[i] = b + p + i - 1
    <3>1. i \in 1 .. (p + n) - (p + 1) + 1 /\ (p + 1) + i - 1 \in 1 .. l
      OBVIOUS
    <3>2. QED BY <2>1, <2>3, <3>1
  <2>6. QED BY <2>3, <2>4, <2>5
<1> HIDE DEF s, t, u
<1>4. /\ s \o t \in Seq(Nat) /\ Len(s \o t) = m + n
      /\ \A i \in 1 .. m + n : (s \o t)[i] = IF i <= m THEN s[i] ELSE t[i - m]
  <2>1. s \in Seq(Nat) /\ t \in Seq(Nat) /\ Len(s) = m /\ Len(t) = n
    BY <1>1, <1>3
  <2>2. /\ s \o t \in Seq(Nat) /\ Len(s \o t) = Len(s) + Len(t)
        /\ \A i \in 1 .. Len(s) + Len(t) : (s \o t)[i] = IF i <= Len(s) THEN s[i] ELSE t[i - Len(s)]
    BY <2>1, ConcatProperties, Zenon
  <2>3. QED BY <2>1, <2>2, Zenon
<1>5. ASSUME NEW i \in 1 .. m + n PROVE (s \o t)[i] = u[i]
  <2>1. u[i] = a + i - 1 /\ i \in Int
    BY <1>2
  <2>2. CASE i <= m
    <3>1. i \in 1 .. m
      BY <2>1, <2>2
    <3>2. s[i] = a + i - 1
      BY <1>1, <3>1
    <3>3. (s \o t)[i] = s[i]
      BY <1>4, <2>2
    <3>4. QED BY <2>1, <3>2, <3>3
  <2>3. CASE ~(i <= m)
    <3>1. i - m \in 1 .. n /\ b + p + (i - m) - 1 = a + i - 1
      BY <2>1, <2>3
    <3>2. t[i - m] = b + p + (i - m) - 1
      BY <1>3, <3>1
    <3>3. (s \o t)[i] = t[i - m]
      BY <1>4, <2>3
    <3>4. QED BY <2>1, <3>1, <3>2, <3>3
  <2>4. QED BY <2>2, <2>3
<1>6. s \o t = u
  <2>1. Len(s \o t) = Len(u) /\ \A i \in 1 .. Len(s \o t) : (s \o t)[i] = u[i]
    BY <1>2, <1>4, <1>5
  <2>2. QED BY <2>1, <1>2, <1>4, SeqEqual, Zenon
<1>7. QED BY <1>6 DEF s, t, u, Continues

(* A slice ends within the file, and is short only at its end. *)
LEMMA LenAtIs ==
  ASSUME fileLen \in Nat, NEW o \in Nat
  PROVE  /\ LenAt(o) \in SliceLens /\ (o <= fileLen => o + LenAt(o) <= fileLen)
         /\ (o <= fileLen /\ LenAt(o) < DOWNLOAD_SLICE_LEN => o + LenAt(o) = fileLen)
         /\ (o + DOWNLOAD_SLICE_LEN <= fileLen => LenAt(o) = DOWNLOAD_SLICE_LEN)
BY DownAssumption DEF LenAt, Smaller, SliceLens

LEMMA GotIsNat == ASSUME DownTypeOK PROVE Got \in Nat
<1>1. CASE delivered = <<>>
  BY <1>1 DEF Got
<1>2. CASE delivered # <<>>
  <2> DEFINE n == Len(delivered)
  <2>1. n \in Nat \ {0} /\ delivered[n] \in Seq(Nat)
    BY <1>2 DEF DownTypeOK
  <2>2. Len(delivered[n]) \in Nat
    BY <2>1
  <2>3. (n - 1) * ChunkSize \in Nat
    <3>1. n - 1 \in Nat /\ ChunkSize \in Nat
      BY <2>1, DownAssumption
    <3> HIDE DEF n
    <3>2. QED BY <3>1
  <2>4. QED BY <1>2, <2>2, <2>3 DEF Got
<1>3. QED BY <1>1, <1>2

LEMMA DownInitInv == DownInit => DownInv
<1> SUFFICES ASSUME DownInit PROVE DownInv
  OBVIOUS
<1> USE DownAssumption
<1>1. DownTypeOK
  BY DEF DownInit, DownTypeOK, SliceLens, NoDownload
<1>2. FileInOrder /\ Filled /\ Collected
  BY DEF DownInit, FileInOrder, Filled, ChunksFilled, Collected
<1>3. SliceHeld /\ ReportsTrue /\ EndTrue
  BY DEF DownInit, SliceHeld, ReportsTrue, EndTrue, EndIsTheEnd, Fetching, Reading
<1>4. QED BY <1>1, <1>2, <1>3 DEF DownInv

(* What was delivered stays as it is in most steps. *)
LEMMA SameDelivered ==
  ASSUME delivered' = delivered
  PROVE  /\ Got' = Got /\ (FileInOrder => FileInOrder') /\ (ChunksFilled => ChunksFilled')
BY DEF Got, FileInOrder, ChunksFilled

LEMMA DownloadFileInv == ASSUME DownInv, DownloadFile PROVE DownInv'
<1> USE DownAssumption
<1>0. DownTypeOK
  BY DEF DownInv
<1>1. DownTypeOK'
  <2>1. download' \in [on : BOOLEAN, offset : Nat, len : SliceLens, read : Nat, complete : BOOLEAN]
    <3>1. /\ 0 \in SliceLens
          /\ download' = NoDownload \/ download' = [NoDownload EXCEPT !.on = TRUE]
      BY DEF DownloadFile, SliceLens
    <3>2. NoDownload \in [on : BOOLEAN, offset : Nat, len : SliceLens, read : Nat, complete : BOOLEAN]
      BY <3>1 DEF NoDownload
    <3>3. QED BY <3>1, <3>2
  <2>2. /\ fileLen' \in Nat /\ delivered' = <<>> /\ chunk' = <<>> /\ urcs' = urcs /\ saved' = saved
        /\ tmp' = tmp \/ tmp' = <<>>
        /\ \/ dpc' = "idle" /\ offset' = offset /\ slice' = slice
           \/ dpc' = "get" /\ offset' = 0 /\ slice' = 0
    BY DEF DownloadFile, Fetch, fetching, reports
  <2>3. offset' \in Nat /\ slice' \in SliceLens
    BY <1>0, <2>2 DEF DownTypeOK, SliceLens
  <2>4. tmp' \in Seq(Nat) /\ chunk' \in Seq(Nat) /\ delivered' \in Seq(Seq(Nat))
    BY <1>0, <2>2, EmptySeq DEF DownTypeOK
  <2>5. QED BY <1>0, <2>1, <2>2, <2>3, <2>4 DEF DownTypeOK, Fetching, Reading
<1>2. delivered' = <<>> /\ chunk' = <<>> /\ Got' = 0
  BY DEF DownloadFile, Got
<1>3. FileInOrder' /\ Filled'
  BY <1>2 DEF FileInOrder, Filled, ChunksFilled
<1>4. Collected'
  <2>1. dpc' # "idle" => offset' = 0 /\ fetchFor' = "open" /\ dpc' = "get"
    BY DEF DownloadFile, Fetch
  <2>2. Positions(0, 0) = <<>>
    BY DEF Positions
  <2>3. QED BY <1>1, <1>2, <2>1, <2>2 DEF Collected, DownTypeOK, ReadOf, Reading
<1>5. SliceHeld' /\ EndTrue'
  BY DEF DownloadFile, Fetch, SliceHeld, EndTrue, EndIsTheEnd, Fetching, Reading
<1>6. ReportsTrue'
  <2>1. CASE ~stale'
    <3>1. \A i \in DOMAIN urcs : urcs[i][1] = 500
      BY <2>1 DEF DownloadFile
    <3>2. urcs' = urcs /\ (dpc' # "idle" => dpc' = "get")
      BY DEF DownloadFile, reports, Fetch
    <3>3. \A i \in 1 .. Len(urcs') : urcs'[i][1] = 500
      BY <3>1, <3>2, <1>0 DEF DownTypeOK
    <3>4. QED BY <3>2, <3>3 DEF ReportsTrue, Reading
  <2>2. CASE stale'
    BY <2>2 DEF ReportsTrue
  <2>3. QED BY <2>1, <2>2
<1>7. QED BY <1>1, <1>3, <1>4, <1>5, <1>6 DEF DownInv

LEMMA SendGetInv == ASSUME DownInv, SendGet PROVE DownInv'
<1> USE DownAssumption
<1>0. DownTypeOK
  BY DEF DownInv
<1>a. UNCHANGED <<slices, fetching, saved, chunk, caller>> /\ dpc = "get" /\ dpc' \in {"result", "fetchFailed"}
  BY DEF SendGet
<1>b. LenAt(offset) = RangeLen /\ RangeLen \in SliceLens
  BY <1>0, LenAtIs DEF DownTypeOK, RangeLen, LenAt
<1>c. urcs' = urcs \/ \E c \in Nat, n \in SliceLens : urcs' = Append(urcs, <<c, n>>) /\ (c # 500 => n = LenAt(offset))
  <2>1. 0 \in SliceLens /\ 206 \in Nat /\ 416 \in Nat /\ 500 \in Nat
    BY DEF SliceLens
  <2>2. \/ urcs' = urcs \/ urcs' = Append(urcs, <<500, 0>>)
        \/ urcs' = Append(urcs, <<206, RangeLen>>) \/ urcs' = Append(urcs, <<416, RangeLen>>)
    BY DEF SendGet
  <2>3. QED BY <1>b, <2>1, <2>2
<1>1. DownTypeOK'
  <2>1. urcs' \in Seq(Nat \X SliceLens)
    <3>1. ASSUME NEW c \in Nat, NEW n \in SliceLens, urcs' = Append(urcs, <<c, n>>)
          PROVE urcs' \in Seq(Nat \X SliceLens)
      <4>1. <<c, n>> \in Nat \X SliceLens
        OBVIOUS
      <4>2. QED BY <4>1, <3>1, <1>0, AppendProperties DEF DownTypeOK
    <3>2. QED BY <3>1, <1>0, <1>c DEF DownTypeOK
  <2>2. QED BY <1>0, <1>a, <2>1 DEF DownTypeOK, Fetching, Reading, slices, fetching, caller
<1>2. FileInOrder' /\ Filled' /\ Collected' /\ SliceHeld' /\ EndTrue'
  BY <1>a, SameDelivered DEF DownInv, Filled, Collected, SliceHeld, EndTrue, EndIsTheEnd, Fetching, Reading, ReadOf,
     slices, fetching, caller, Remaining, LenAt
<1>3. ReportsTrue'
  <2>1. LenAt(offset)' = LenAt(offset)
    BY <1>a DEF LenAt, fetching, caller
  <2>2. SUFFICES ASSUME ~stale', NEW i \in 1 .. Len(urcs'), urcs'[i][1] # 500
        PROVE urcs'[i][2] \in {LenAt(offset), DOWNLOAD_SLICE_LEN}
    BY <1>a, <2>1 DEF ReportsTrue, Reading
  <2>3. \A j \in 1 .. Len(urcs) : urcs[j][1] # 500 => urcs[j][2] \in {LenAt(offset), DOWNLOAD_SLICE_LEN}
    BY <1>a, <2>2 DEF DownInv, ReportsTrue, caller
  <2>4. CASE urcs' = urcs
    BY <2>2, <2>3, <2>4
  <2>5. ASSUME NEW c \in Nat, NEW n \in SliceLens, urcs' = Append(urcs, <<c, n>>), c # 500 => n = LenAt(offset)
        PROVE urcs'[i][2] \in {LenAt(offset), DOWNLOAD_SLICE_LEN}
    <3>1. /\ Len(urcs') = Len(urcs) + 1 /\ urcs'[Len(urcs) + 1] = <<c, n>>
          /\ \A j \in 1 .. Len(urcs) : urcs'[j] = urcs[j]
      BY <1>0, <2>5 DEF DownTypeOK
    <3>2. CASE i \in 1 .. Len(urcs)
      BY <2>2, <2>3, <3>1, <3>2
    <3>3. CASE i = Len(urcs) + 1
      BY <2>2, <2>5, <3>1, <3>3
    <3>4. Len(urcs) \in Nat
      BY <1>0 DEF DownTypeOK
    <3>5. QED BY <3>1, <3>2, <3>3, <3>4
  <2>6. QED BY <1>c, <2>4, <2>5
<1>4. QED BY <1>1, <1>2, <1>3 DEF DownInv

LEMMA LateReportInv == ASSUME DownInv, LateReport PROVE DownInv'
<1> USE DownAssumption
<1>0. DownTypeOK
  BY DEF DownInv
<1>a. UNCHANGED <<slices, dpc, fetching, saved, chunk, caller>> /\ urcs' = Append(urcs, <<500, 0>>)
  BY DEF LateReport
<1>1. DownTypeOK'
  <2>1. <<500, 0>> \in Nat \X SliceLens
    BY DEF SliceLens
  <2>2. QED BY <1>0, <1>a, <2>1 DEF DownTypeOK, Fetching, Reading, slices, fetching, caller
<1>2. FileInOrder' /\ Filled' /\ Collected' /\ SliceHeld' /\ EndTrue'
  BY <1>a, SameDelivered DEF DownInv, Filled, Collected, SliceHeld, EndTrue, EndIsTheEnd, Fetching, Reading, ReadOf,
     slices, fetching, caller, Remaining, LenAt
<1>3. ReportsTrue'
  <2>1. LenAt(offset)' = LenAt(offset)
    BY <1>a DEF LenAt, fetching, caller
  <2>2. \A i \in 1 .. Len(urcs') : urcs'[i][1] = 500 \/ (i \in 1 .. Len(urcs) /\ urcs'[i] = urcs[i])
    <3>1. /\ Len(urcs') = Len(urcs) + 1 /\ urcs'[Len(urcs) + 1] = <<500, 0>>
          /\ \A j \in 1 .. Len(urcs) : urcs'[j] = urcs[j]
      BY <1>0, <1>a DEF DownTypeOK
    <3>2. Len(urcs) \in Nat
      BY <1>0 DEF DownTypeOK
    <3>3. QED BY <3>1, <3>2
  <2>3. QED BY <1>a, <2>1, <2>2 DEF DownInv, ReportsTrue, Reading, slices, fetching, caller
<1>4. QED BY <1>1, <1>2, <1>3 DEF DownInv

(* Taking a report leaves the others. *)
LEMMA TailReports ==
  ASSUME DownTypeOK, urcs # <<>>
  PROVE  /\ Tail(urcs) \in Seq(Nat \X SliceLens) /\ Head(urcs) \in Nat \X SliceLens
         /\ 1 \in 1 .. Len(urcs) /\ Head(urcs) = urcs[1]
         /\ \A i \in 1 .. Len(Tail(urcs)) : i + 1 \in 1 .. Len(urcs) /\ Tail(urcs)[i] = urcs[i + 1]
<1>1. urcs \in Seq(Nat \X SliceLens)
  BY DEF DownTypeOK
<1>2. /\ Tail(urcs) \in Seq(Nat \X SliceLens) /\ Head(urcs) \in Nat \X SliceLens
      /\ Len(Tail(urcs)) = Len(urcs) - 1 /\ \A i \in 1 .. Len(Tail(urcs)) : Tail(urcs)[i] = urcs[i + 1]
  BY <1>1, HeadTailProperties, Zenon
<1>3. Len(urcs) \in Nat /\ Len(urcs) # 0 /\ Head(urcs) = urcs[1]
  BY <1>1
<1>4. QED BY <1>2, <1>3

LEMMA AwaitGetInv == ASSUME DownInv, AwaitGet PROVE DownInv'
<1> USE DownAssumption
<1>0. DownTypeOK
  BY DEF DownInv
<1>a. UNCHANGED <<slices, fetchFor, offset, saved, chunk, caller>> /\ dpc = "result" /\ urcs' = Tail(urcs) /\ urcs # <<>>
  BY DEF AwaitGet
<1>b. /\ slice' = urcs[1][2] /\ slice' \in SliceLens
      /\ \/ dpc' = "fetchFailed"
         \/ dpc' = "fetched" /\ slice' = 0 /\ urcs[1][1] # 500
         \/ dpc' = "store" /\ urcs[1][1] # 500
  <2>1. Head(urcs) = urcs[1] /\ Head(urcs) \in Nat \X SliceLens
    BY <1>0, <1>a, TailReports
  <2>2. slice' = urcs[1][2] /\ slice' \in SliceLens
    BY <2>1 DEF AwaitGet
  <2>3. dpc' = IF urcs[1][1] = 500 THEN "fetchFailed" ELSE IF urcs[1][2] = 0 THEN "fetched" ELSE "store"
    BY <2>1 DEF AwaitGet
  <2>4. QED BY <2>2, <2>3
<1>1. DownTypeOK'
  BY <1>0, <1>a, <1>b, TailReports DEF DownTypeOK, Fetching, Reading, slices, caller
<1>2. FileInOrder' /\ Filled' /\ Collected' /\ EndTrue'
  BY <1>a, <1>b, SameDelivered DEF DownInv, Filled, Collected, EndTrue, EndIsTheEnd, Reading, ReadOf, caller
<1>3. SliceHeld'
  BY <1>a, <1>b DEF DownInv, SliceHeld, Fetching, Reading, slices
<1>4. ReportsTrue'
  <2>1. LenAt(offset)' = LenAt(offset)
    BY <1>a DEF LenAt, caller
  <2>2. SUFFICES ASSUME ~stale'
        PROVE /\ \A i \in 1 .. Len(urcs') : urcs'[i][1] # 500 => urcs'[i][2] \in {LenAt(offset), DOWNLOAD_SLICE_LEN}
              /\ dpc' \in {"store", "fetched"} => slice' \in {LenAt(offset), DOWNLOAD_SLICE_LEN}
    BY <1>b, <2>1 DEF ReportsTrue, Reading
  <2>3. \A j \in 1 .. Len(urcs) : urcs[j][1] # 500 => urcs[j][2] \in {LenAt(offset), DOWNLOAD_SLICE_LEN}
    BY <1>a, <2>2 DEF DownInv, ReportsTrue, caller
  <2>4. ASSUME NEW i \in 1 .. Len(urcs'), urcs'[i][1] # 500 PROVE urcs'[i][2] \in {LenAt(offset), DOWNLOAD_SLICE_LEN}
    <3>1. i + 1 \in 1 .. Len(urcs) /\ urcs'[i] = urcs[i + 1]
      BY <1>0, <1>a, TailReports
    <3>2. QED BY <2>3, <2>4, <3>1
  <2>5. dpc' \in {"store", "fetched"} => slice' \in {LenAt(offset), DOWNLOAD_SLICE_LEN}
    <3>1. 1 \in 1 .. Len(urcs)
      BY <1>0, <1>a, TailReports
    <3>2. QED BY <1>b, <2>3, <3>1
  <2>6. QED BY <2>4, <2>5
<1>5. QED BY <1>1, <1>2, <1>3, <1>4 DEF DownInv

LEMMA StoreSliceInv == ASSUME DownInv, StoreSlice PROVE DownInv'
<1> USE DownAssumption
<1>0. DownTypeOK
  BY DEF DownInv
<1>a. UNCHANGED <<download, tmpHandle, urcs, fetching, saved, chunk, caller>> /\ dpc = "store"
  BY DEF StoreSlice, reports
<1>b. LenAt(offset) = RangeLen /\ RangeLen \in Nat /\ fileLen \in Nat /\ offset \in Nat
  <2>1. fileLen \in Nat /\ offset \in Nat /\ LenAt(offset) = RangeLen
    BY <1>0 DEF DownTypeOK, RangeLen, LenAt
  <2>2. LenAt(offset) \in Nat
    BY <2>1, LenAtIs DEF SliceLens
  <2>3. QED BY <2>1, <2>2
<1>c. \/ dpc' = "fetched" /\ tmp' = Positions(offset, LenAt(offset))
      \/ dpc' = "fetchFailed" /\ (tmp' = tmp \/ \E n \in 0 .. RangeLen : tmp' = Positions(offset, n))
  BY <1>b DEF StoreSlice
<1>d. LenAt(offset)' = LenAt(offset)
  BY <1>a DEF LenAt, fetching, caller
<1>1. DownTypeOK'
  <2>1. tmp' \in Seq(Nat)
    <3>1. \A n \in Nat : Positions(offset, n) \in Seq(Nat)
      BY <1>b, PositionsAre
    <3>2. ASSUME NEW n \in 0 .. RangeLen PROVE Positions(offset, n) \in Seq(Nat)
      BY <1>b, <3>1
    <3>3. tmp \in Seq(Nat) /\ Positions(offset, LenAt(offset)) \in Seq(Nat)
      BY <1>0, <1>b, <3>1 DEF DownTypeOK
    <3>4. QED BY <1>c, <3>2, <3>3
  <2>2. QED BY <1>0, <1>a, <1>c, <2>1 DEF DownTypeOK, Fetching, Reading, fetching, caller
<1>2. FileInOrder' /\ Filled' /\ Collected' /\ EndTrue'
  BY <1>a, <1>c, SameDelivered DEF DownInv, Filled, Collected, EndTrue, EndIsTheEnd, Reading, ReadOf, fetching, caller
<1>3. SliceHeld'
  BY <1>a, <1>c, <1>d DEF DownInv, SliceHeld, Fetching, Reading, fetching
<1>4. ReportsTrue'
  BY <1>a, <1>c, <1>d DEF DownInv, ReportsTrue, Reading, fetching, caller
<1>5. QED BY <1>1, <1>2, <1>3, <1>4 DEF DownInv

LEMMA FetchedInv == ASSUME DownInv, Fetched PROVE DownInv'
<1> USE DownAssumption
<1>0. DownTypeOK
  BY DEF DownInv
<1>a. UNCHANGED <<tmp, tmpExists, tmpHandle, urcs, fetching, saved, chunk, caller>> /\ dpc = "fetched"
  BY DEF Fetched, reports
<1>b. dpc' = (IF fetchFor = "again" THEN "read" ELSE "chunk")
  BY DEF Fetched
<1>c. /\ download' \in [on : BOOLEAN, offset : Nat, len : SliceLens, read : Nat, complete : BOOLEAN]
      /\ download'.offset = offset /\ download'.len = slice /\ download'.complete = (slice < DOWNLOAD_SLICE_LEN)
      /\ download'.read = IF fetchFor = "again" THEN saved ELSE 0
  <2> DEFINE readTo == IF fetchFor = "again" THEN saved ELSE 0
             cp == slice < DOWNLOAD_SLICE_LEN
  <2>1. readTo \in Nat /\ cp \in BOOLEAN /\ offset \in Nat /\ slice \in SliceLens
    BY <1>0 DEF DownTypeOK
  <2>2. download \in [on : BOOLEAN, offset : Nat, len : SliceLens, read : Nat, complete : BOOLEAN]
    BY <1>0 DEF DownTypeOK
  <2>3. download' = [download EXCEPT !.offset = offset, !.len = slice, !.read = readTo, !.complete = cp]
    BY DEF Fetched
  <2> HIDE DEF readTo, cp
  <2>4. /\ download' \in [on : BOOLEAN, offset : Nat, len : SliceLens, read : Nat, complete : BOOLEAN]
        /\ download'.offset = offset /\ download'.len = slice /\ download'.complete = cp /\ download'.read = readTo
    BY <2>1, <2>2, <2>3
  <2>5. QED BY <2>4 DEF readTo, cp
<1>d. LenAt(offset)' = LenAt(offset)
  BY <1>a DEF LenAt, fetching, caller
<1>1. DownTypeOK'
  BY <1>0, <1>a, <1>b, <1>c DEF DownTypeOK, Fetching, Reading, fetching, caller
<1>2. FileInOrder' /\ Filled' /\ Collected' /\ EndTrue'
  BY <1>a, <1>b, <1>c, SameDelivered DEF DownInv, Filled, Collected, EndTrue, EndIsTheEnd, Reading, ReadOf, fetching, caller
<1>3. SliceHeld'
  BY <1>a, <1>b, <1>c, <1>d DEF DownInv, SliceHeld, Fetching, Reading, fetching
<1>4. ReportsTrue'
  BY <1>a, <1>b, <1>c, <1>d DEF DownInv, ReportsTrue, Reading, fetching, caller
<1>5. QED BY <1>1, <1>2, <1>3, <1>4 DEF DownInv

LEMMA RetryFetchInv == ASSUME DownInv, RetryFetch PROVE DownInv'
<1> USE DownAssumption
<1>0. DownTypeOK
  BY DEF DownInv
<1>a. /\ UNCHANGED <<download, fetchFor, offset, slice, saved, chunk, caller>> /\ dpc = "fetchFailed" /\ dpc' = "get"
      /\ tmpHandle' = NoHandle /\ (tmp' = tmp \/ tmp' = <<>>)
      /\ urcs' = urcs \/ (urcs # <<>> /\ urcs' = Tail(urcs))
  BY DEF RetryFetch, DiscardSliceFile, reports
<1>d. LenAt(offset)' = LenAt(offset)
  BY <1>a DEF LenAt, caller
<1>1. DownTypeOK'
  <2>1. urcs' \in Seq(Nat \X SliceLens) /\ tmp' \in Seq(Nat)
    BY <1>0, <1>a, TailReports, EmptySeq DEF DownTypeOK
  <2>2. QED BY <1>0, <1>a, <2>1 DEF DownTypeOK, Fetching, Reading, caller
<1>2. FileInOrder' /\ Filled' /\ Collected' /\ EndTrue'
  BY <1>a, SameDelivered DEF DownInv, Filled, Collected, EndTrue, EndIsTheEnd, Reading, ReadOf, caller
<1>3. SliceHeld'
  BY <1>a DEF DownInv, SliceHeld, Fetching, Reading
<1>4. ReportsTrue'
  <2>1. SUFFICES ASSUME ~stale'
        PROVE \A i \in 1 .. Len(urcs') : urcs'[i][1] # 500 => urcs'[i][2] \in {LenAt(offset), DOWNLOAD_SLICE_LEN}
    BY <1>a, <1>d DEF ReportsTrue, Reading
  <2>2. \A j \in 1 .. Len(urcs) : urcs[j][1] # 500 => urcs[j][2] \in {LenAt(offset), DOWNLOAD_SLICE_LEN}
    BY <1>a, <2>1 DEF DownInv, ReportsTrue, caller
  <2>3. ASSUME NEW i \in 1 .. Len(urcs') PROVE \E j \in 1 .. Len(urcs) : urcs'[i] = urcs[j]
    BY <1>0, <1>a, TailReports
  <2>4. ASSUME NEW i \in 1 .. Len(urcs'), urcs'[i][1] # 500
        PROVE urcs'[i][2] \in {LenAt(offset), DOWNLOAD_SLICE_LEN}
    <3>1. PICK j \in 1 .. Len(urcs) : urcs'[i] = urcs[j]
      BY <2>3
    <3>2. QED BY <2>2, <2>4, <3>1
  <2>5. QED BY <2>4
<1>5. QED BY <1>1, <1>2, <1>3, <1>4 DEF DownInv

(* The end of a download: only what the caller is told matters from then on. *)
LEMMA FinishInv ==
  ASSUME DownInv, NEW result, FinishDownload(result), UNCHANGED <<urcs, fetching, saved, fileLen, delivered, stale>>,
         result = "EndOfFile" /\ ~stale => Got = fileLen
  PROVE  DownInv'
<1> USE DownAssumption
<1>0. DownTypeOK
  BY DEF DownInv
<1>a. /\ dpc' = "idle" /\ ended' = result /\ chunk' = <<>> /\ download' = NoDownload /\ (tmp' = tmp \/ tmp' = <<>>)
  BY DEF FinishDownload, DiscardSliceFile
<1>1. DownTypeOK'
  <2>1. download' \in [on : BOOLEAN, offset : Nat, len : SliceLens, read : Nat, complete : BOOLEAN]
    BY <1>a DEF NoDownload, SliceLens
  <2>2. tmp' \in Seq(Nat) /\ chunk' \in Seq(Nat)
    BY <1>0, <1>a, EmptySeq DEF DownTypeOK
  <2>3. QED BY <1>0, <1>a, <2>1, <2>2 DEF DownTypeOK, fetching
<1>2. FileInOrder' /\ Filled' /\ Collected' /\ EndTrue'
  BY <1>a, SameDelivered DEF DownInv, Filled, Collected, EndTrue, EndIsTheEnd
<1>3. SliceHeld' /\ ReportsTrue'
  BY <1>a DEF SliceHeld, ReportsTrue, Fetching, Reading
<1>4. QED BY <1>1, <1>2, <1>3 DEF DownInv

LEMMA GiveUpFetchInv == ASSUME DownInv, GiveUpFetch PROVE DownInv'
BY FinishInv DEF GiveUpFetch, reports

LEMMA GiveUpReadInv == ASSUME DownInv, GiveUpRead PROVE DownInv'
BY FinishInv DEF GiveUpRead, reports

LEMMA IgnoreReportInv == ASSUME DownInv, IgnoreReport PROVE DownInv'
<1>0. DownTypeOK
  BY DEF DownInv
<1>a. UNCHANGED <<slices, dpc, fetching, saved, chunk, caller>> /\ dpc = "idle" /\ urcs' = Tail(urcs) /\ urcs # <<>>
  BY DEF IgnoreReport
<1>1. DownTypeOK'
  BY <1>0, <1>a, TailReports DEF DownTypeOK, slices, fetching, caller
<1>2. FileInOrder' /\ Filled' /\ Collected' /\ EndTrue'
  BY <1>a, SameDelivered DEF DownInv, Filled, Collected, EndTrue, EndIsTheEnd, caller
<1>3. SliceHeld' /\ ReportsTrue'
  BY <1>a DEF SliceHeld, ReportsTrue, Fetching, Reading
<1>4. QED BY <1>1, <1>2, <1>3 DEF DownInv

(* The next slice, or the same one again, is requested. *)
LEMMA FetchInv ==
  ASSUME DownInv, NEW next \in Nat, NEW for, DiscardSliceFile, Fetch(next, for), Reading,
         UNCHANGED <<download, urcs, chunk, caller>>, saved' \in Nat,
         Got + Len(chunk) = next + (IF for = "again" THEN saved' ELSE 0),
         ~(dpc = "chunk" /\ Remaining = 0 /\ download.complete /\ chunk = <<>>),
         ~stale => LenAt(offset) = DOWNLOAD_SLICE_LEN \/ next = offset
  PROVE  DownInv'
<1> USE DownAssumption
<1>0. DownTypeOK
  BY DEF DownInv
<1>a. /\ dpc' = "get" /\ offset' = next /\ fetchFor' = for /\ slice' = 0 /\ tmpHandle' = NoHandle
      /\ tmp' = tmp \/ tmp' = <<>>
  BY DEF Fetch, DiscardSliceFile
<1>b. dpc # "idle"
  BY DEF Reading
<1>1. DownTypeOK'
  <2>1. slice' \in SliceLens /\ tmp' \in Seq(Nat)
    <3>1. slice' \in SliceLens
      BY <1>a DEF SliceLens
    <3>2. QED BY <1>0, <1>a, <3>1, EmptySeq DEF DownTypeOK
  <2>2. QED BY <1>0, <1>a, <2>1 DEF DownTypeOK, Fetching, Reading, caller
<1>2. FileInOrder' /\ Filled'
  BY <1>a, <1>b, SameDelivered DEF DownInv, Filled, caller
<1>3. Collected' /\ EndTrue'
  BY <1>a, <1>b, SameDelivered DEF DownInv, Collected, EndTrue, EndIsTheEnd, Reading, ReadOf, caller
<1>4. SliceHeld'
  BY <1>a DEF SliceHeld, Fetching, Reading
<1>5. ReportsTrue'
  <2>1. SUFFICES ASSUME ~stale', NEW i \in 1 .. Len(urcs), urcs[i][1] # 500
        PROVE urcs[i][2] \in {LenAt(offset)', DOWNLOAD_SLICE_LEN}
    BY <1>a DEF ReportsTrue, Reading
  <2>2. urcs[i][2] \in {LenAt(offset), DOWNLOAD_SLICE_LEN}
    BY <1>b, <2>1 DEF DownInv, ReportsTrue, caller
  <2>3. next = offset => LenAt(offset)' = LenAt(offset)
    BY <1>a DEF LenAt, caller
  <2>4. ~stale
    BY <2>1 DEF caller
  <2>5. QED BY <2>2, <2>3, <2>4
<1>6. QED BY <1>1, <1>2, <1>3, <1>4, <1>5 DEF DownInv

LEMMA ReadDownloadChunkInv == ASSUME DownInv, ReadDownloadChunk PROVE DownInv'
<1> USE DownAssumption
<1>0. DownTypeOK /\ Reading /\ fileLen \in Nat /\ offset \in Nat
  BY DEF DownInv, ReadDownloadChunk, Reading, DownTypeOK
<1>1. CASE Remaining = 0
  <2>1. ~download.complete /\ DiscardSliceFile /\ Fetch(download.offset + download.len, "next")
    BY <1>1 DEF ReadDownloadChunk
  <2>2. UNCHANGED <<download, urcs, chunk, caller, saved>>
    BY DEF ReadDownloadChunk, reports
  <2>3. download.offset = offset /\ download.len = DOWNLOAD_SLICE_LEN /\ download.read = DOWNLOAD_SLICE_LEN
    BY <1>0, <1>1, <2>1 DEF DownInv, SliceHeld, DownTypeOK, SliceLens, Remaining
  <2>4. Got + Len(chunk) = offset + DOWNLOAD_SLICE_LEN /\ Got + Len(chunk) <= fileLen
    BY <1>0, <2>3 DEF DownInv, Collected, ReadOf, Reading
  <2>5. LenAt(offset) = DOWNLOAD_SLICE_LEN
    BY <1>0, <2>4, LenAtIs
  <2>6. saved' \in Nat /\ download.offset + download.len \in Nat
    BY <1>0, <2>2, <2>3 DEF DownTypeOK
  <2>7. Got + Len(chunk) = (download.offset + download.len) + (IF "next" = "again" THEN saved' ELSE 0)
    BY <2>3, <2>4, <2>6
  <2>8. QED BY <1>0, <2>1, <2>2, <2>5, <2>6, <2>7, FetchInv
<1>2. CASE Remaining # 0
  <2>1. UNCHANGED <<download, tmp, tmpHandle, urcs, fetching, saved, chunk, caller>> /\ dpc = "chunk" /\ dpc' = "read"
    BY <1>2 DEF ReadDownloadChunk, reports
  <2>2. LenAt(offset)' = LenAt(offset)
    BY <2>1 DEF LenAt, fetching, caller
  <2>3. DownTypeOK'
    BY <1>0, <2>1 DEF DownTypeOK, Fetching, Reading, fetching, caller
  <2>4. FileInOrder' /\ Filled' /\ Collected' /\ EndTrue'
    BY <1>2, <2>1, SameDelivered DEF DownInv, Filled, Collected, EndTrue, EndIsTheEnd, Reading, ReadOf, fetching, caller
  <2>5. SliceHeld' /\ ReportsTrue'
    BY <2>1, <2>2 DEF DownInv, SliceHeld, ReportsTrue, Fetching, Reading, fetching, caller
  <2>6. QED BY <2>3, <2>4, <2>5 DEF DownInv
<1>3. QED BY <1>1, <1>2

LEMMA RetryReadInv == ASSUME DownInv, RetryRead PROVE DownInv'
<1> USE DownAssumption
<1>0. DownTypeOK /\ Reading /\ dpc = "readFailed" /\ fileLen \in Nat /\ offset \in Nat
  BY DEF DownInv, RetryRead, Reading, DownTypeOK
<1>1. CASE readAttempt # 1
  <2>1. DiscardSliceFile /\ Fetch(download.offset, "again") /\ saved' = download.read
    BY <1>1 DEF RetryRead
  <2>2. UNCHANGED <<download, urcs, chunk, caller>>
    BY DEF RetryRead, reports
  <2>3. download.offset = offset
    BY <1>0 DEF DownInv, SliceHeld
  <2>4. Got + Len(chunk) = offset + download.read
    BY <1>0 DEF DownInv, Collected, ReadOf, Reading
  <2>5. saved' \in Nat /\ download.offset \in Nat
    BY <1>0, <2>1 DEF DownTypeOK
  <2>6. Got + Len(chunk) = download.offset + (IF "again" = "again" THEN saved' ELSE 0)
    BY <2>1, <2>3, <2>4
  <2>7. QED BY <1>0, <2>1, <2>2, <2>3, <2>5, <2>6, FetchInv
<1>2. CASE readAttempt = 1
  <2>1. UNCHANGED <<download, tmp, urcs, fetching, saved, chunk, caller>> /\ tmpHandle' = NoHandle /\ dpc' = "read"
    BY <1>2 DEF RetryRead, reports
  <2>2. LenAt(offset)' = LenAt(offset)
    BY <2>1 DEF LenAt, fetching, caller
  <2>3. DownTypeOK'
    BY <1>0, <2>1 DEF DownTypeOK, Fetching, Reading, fetching, caller
  <2>4. FileInOrder' /\ Filled' /\ Collected' /\ EndTrue'
    BY <1>0, <2>1, SameDelivered DEF DownInv, Filled, Collected, EndTrue, EndIsTheEnd, Reading, ReadOf, fetching, caller
  <2>5. SliceHeld' /\ ReportsTrue'
    BY <1>0, <2>1, <2>2 DEF DownInv, SliceHeld, ReportsTrue, Fetching, Reading, fetching, caller
  <2>6. QED BY <2>3, <2>4, <2>5 DEF DownInv
<1>3. QED BY <1>1, <1>2

LEMMA ReadSliceInv == ASSUME DownInv, ReadSlice PROVE DownInv'
<1> USE DownAssumption
<1>0. DownTypeOK /\ Reading /\ dpc = "read" /\ fileLen \in Nat /\ offset \in Nat /\ download.read \in Nat
  BY DEF DownInv, ReadSlice, Reading, DownTypeOK
<1>a. UNCHANGED <<tmp, urcs, fetching, saved, caller>>
  BY DEF ReadSlice, reports
<1>d. LenAt(offset)' = LenAt(offset)
  BY <1>a DEF LenAt, fetching, caller
<1>1. CASE UNCHANGED <<download, chunk>> /\ dpc' = "readFailed"
  <2>1. DownTypeOK'
    BY <1>0, <1>a, <1>1 DEF DownTypeOK, Fetching, Reading, fetching, caller
  <2>2. FileInOrder' /\ Filled' /\ Collected' /\ EndTrue'
    BY <1>0, <1>a, <1>1, SameDelivered DEF DownInv, Filled, Collected, EndTrue, EndIsTheEnd, Reading, ReadOf, fetching, caller
  <2>3. SliceHeld' /\ ReportsTrue'
    BY <1>0, <1>a, <1>1, <1>d DEF DownInv, SliceHeld, ReportsTrue, Fetching, Reading, fetching, caller
  <2>4. QED BY <2>1, <2>2, <2>3 DEF DownInv
<1>2. ASSUME NEW n \in 1 .. Smaller(ChunkSize - Len(chunk), Remaining), Position + n <= Len(tmp),
             chunk' = chunk \o SubSeq(tmp, Position + 1, Position + n), tmpHandle' = Position + n,
             download' = [download EXCEPT !.read = download.read + n], dpc' = "chunk"
      PROVE  DownInv'
  <2> DEFINE d == download.read
             l == LenAt(offset)
  <2>1. /\ Len(chunk) \in Nat /\ download.len \in Nat /\ download.len <= DOWNLOAD_SLICE_LEN
        /\ download \in [on : BOOLEAN, offset : Nat, len : SliceLens, read : Nat, complete : BOOLEAN]
    BY <1>0 DEF DownTypeOK, SliceLens
  <2>2. n \in Nat /\ 1 <= n /\ Len(chunk) + n <= ChunkSize /\ d + n <= download.len
    BY SMTT(30), <1>0, <1>2, <2>1 DEF Smaller, Remaining
  <2>3. Position = d
    BY <1>0 DEF DownInv, SliceHeld, Position
  <2>4. tmp = Positions(offset, l) /\ l \in Nat /\ (offset <= fileLen => offset + l <= fileLen)
    <3>1. download.len > 0
      BY <1>0, <2>1, <2>2
    <3>2. tmp = Positions(offset, l)
      BY <1>0, <3>1 DEF DownInv, SliceHeld
    <3>3. QED BY <1>0, <3>2, LenAtIs DEF SliceLens
  <2>5. d + n <= l
    <3>1. Len(tmp) = l
      BY <1>0, <2>4, PositionsAre
    <3>2. QED BY <1>2, <2>3, <3>1
  <2>6. Got \in Nat /\ chunk = Positions(Got, Len(chunk)) /\ Got + Len(chunk) <= fileLen /\ Got + Len(chunk) = offset + d
    BY <1>0, GotIsNat DEF DownInv, Collected, ReadOf
  <2>7. chunk' = Positions(Got, Len(chunk) + n)
    <3>1. chunk' = Positions(Got, Len(chunk)) \o SubSeq(Positions(offset, l), d + 1, d + n)
      BY <1>2, <2>3, <2>4, <2>6
    <3>2. offset + d = Got + Len(chunk)
      BY <2>6
    <3> HIDE DEF d, l
    <3>3. d \in Nat
      BY <1>0 DEF d
    <3>4. Positions(Got, Len(chunk)) \o SubSeq(Positions(offset, l), d + 1, d + n) = Positions(Got, Len(chunk) + n)
      <4>1. Got \in Nat /\ Len(chunk) \in Nat /\ offset \in Nat /\ l \in Nat /\ n \in Nat
        BY <1>0, <2>1, <2>2, <2>4, <2>6
      <4>2. Continues(Got, Len(chunk), offset, l, d, n)
        BY <4>1, <2>5, <3>2, <3>3, PositionsJoin
      <4>3. QED BY <4>2 DEF Continues
    <3>5. QED BY <3>1, <3>4
  <2>8. Len(chunk') = Len(chunk) + n /\ chunk' \in Seq(Nat)
    <3>1. Len(chunk) + n \in Nat
      BY <2>1, <2>2
    <3>2. QED BY <2>6, <2>7, <3>1, PositionsAre
  <2>9. /\ download' \in [on : BOOLEAN, offset : Nat, len : SliceLens, read : Nat, complete : BOOLEAN]
        /\ download'.offset = download.offset /\ download'.len = download.len /\ download'.complete = download.complete
        /\ download'.read = d + n
    <3>1. d + n \in Nat
      BY <1>0, <2>2
    <3>2. QED BY <1>2, <2>1, <3>1
  <2>10. DownTypeOK'
    BY <1>0, <1>a, <1>2, <2>8, <2>9 DEF DownTypeOK, Fetching, Reading, fetching, caller
  <2>11. Got' = Got /\ FileInOrder' /\ ChunksFilled' /\ delivered' = delivered
    BY <1>a, SameDelivered DEF DownInv, Filled, caller
  <2>12. Filled'
    BY <1>0, <2>2, <2>8, <2>11 DEF DownInv, Filled
  <2>13. Collected'
    <3>1. offset' = offset /\ fileLen' = fileLen /\ ReadOf' = d + n
      BY <1>a, <1>2, <2>9 DEF ReadOf, Reading, fetching, caller
    <3>2. Got + (Len(chunk) + n) <= fileLen /\ Got + (Len(chunk) + n) = offset + (d + n)
      BY SMTT(30), <1>0, <2>1, <2>2, <2>4, <2>5, <2>6
    <3>3. QED BY <2>7, <2>8, <2>11, <3>1, <3>2 DEF Collected
  <2>14. SliceHeld'
    <3>1. tmpHandle' = download'.read
      BY <1>2, <2>3, <2>9
    <3>2. tmp' = Positions(offset, l) /\ offset' = offset
      BY <1>a, <2>4 DEF fetching
    <3>3. download.offset = offset /\ download.complete = (download.len < DOWNLOAD_SLICE_LEN)
      BY <1>0 DEF DownInv, SliceHeld
    <3>4. QED BY <1>2, <1>d, <2>9, <3>1, <3>2, <3>3 DEF SliceHeld, Fetching, Reading
  <2>15. ReportsTrue'
    BY <1>0, <1>a, <1>2, <1>d, <2>9 DEF DownInv, ReportsTrue, Reading, caller
  <2>16. EndTrue'
    BY <1>0, <1>a, <1>2, <2>11 DEF DownInv, EndTrue, EndIsTheEnd, caller
  <2>17. QED BY <2>10, <2>11, <2>12, <2>13, <2>14, <2>15, <2>16 DEF DownInv
<1>3. QED BY <1>1, <1>2 DEF ReadSlice

(* While there is more to come, what was delivered are full chunks. *)
LEMMA FullChunks ==
  ASSUME DownInv, dpc # "idle", chunk # <<>>
  PROVE  Got = Len(delivered) * ChunkSize
<1> USE DownAssumption
<1>1. CASE delivered = <<>>
  BY <1>1 DEF Got
<1>2. CASE delivered # <<>>
  <2> DEFINE n == Len(delivered)
  <2>1. n \in Nat /\ Len(delivered[n]) = ChunkSize /\ Got = (n - 1) * ChunkSize + Len(delivered[n])
    BY <1>2 DEF DownInv, DownTypeOK, Filled, Got
  <2>2. Got = (n - 1) * ChunkSize + ChunkSize
    BY <2>1
  <2> HIDE DEF n
  <2>3. (n - 1) * ChunkSize + ChunkSize = n * ChunkSize
    BY <2>1
  <2>4. QED BY <2>2, <2>3 DEF n
<1>3. QED BY <1>1, <1>2

LEMMA DeliverChunkInv == ASSUME DownInv, DeliverChunk PROVE DownInv'
<1> USE DownAssumption
<1>0. DownTypeOK /\ Reading /\ dpc = "chunk" /\ fileLen \in Nat /\ offset \in Nat /\ download.read \in Nat
  BY DEF DownInv, DeliverChunk, Reading, DownTypeOK
<1>a. UNCHANGED <<urcs, fetching, saved, fileLen, stale>>
  BY DEF DeliverChunk, reports
<1>1. CASE chunk = <<>>
  <2>1. FinishDownload("EndOfFile") /\ delivered' = delivered
    BY <1>1 DEF DeliverChunk
  <2>2. ~stale => Got = fileLen
    <3>1. Remaining = 0 /\ download.complete
      <4>1. Len(chunk) # ChunkSize
        BY <1>1
      <4>2. QED BY <4>1 DEF DeliverChunk
    <3>2. SUFFICES ASSUME ~stale PROVE Got = fileLen
      OBVIOUS
    <3>3. Got \in Nat /\ Got <= fileLen /\ Got = offset + download.read
      BY <1>0, <1>1, GotIsNat DEF DownInv, Collected, ReadOf
    <3>4. download.read = download.len /\ download.len \in Nat
      BY <1>0, <3>1 DEF DownTypeOK, SliceLens, Remaining
    <3>5. download.len < DOWNLOAD_SLICE_LEN
      BY <1>0, <3>1 DEF DownInv, SliceHeld
    <3>6. download.len = LenAt(offset)
      BY <1>0, <3>2, <3>4, <3>5 DEF DownInv, ReportsTrue
    <3>7. QED BY <1>0, <3>3, <3>4, <3>5, <3>6, LenAtIs
  <2>3. QED BY <1>a, <2>1, <2>2, FinishInv
<1>2. CASE chunk # <<>>
  <2> DEFINE n == Len(delivered)
  <2>1. /\ delivered' = Append(delivered, chunk) /\ chunk' = <<>> /\ UNCHANGED <<slices, dpc, ended>>
    BY <1>2 DEF DeliverChunk
  <2>2. /\ delivered \in Seq(Seq(Nat)) /\ chunk \in Seq(Nat) /\ n \in Nat /\ Len(chunk) \in Nat /\ Len(chunk) # 0
    BY <1>0, <1>2 DEF DownTypeOK
  <2>3. /\ delivered' \in Seq(Seq(Nat)) /\ delivered' # <<>> /\ Len(delivered') = n + 1
        /\ \A i \in 1 .. n : delivered'[i] = delivered[i]
        /\ delivered'[n + 1] = chunk
    <3>1. delivered \in Seq(Seq(Nat)) /\ chunk \in Seq(Nat)
      BY <2>2
    <3>2. /\ Append(delivered, chunk) \in Seq(Seq(Nat)) /\ Append(delivered, chunk) # <<>>
          /\ Len(Append(delivered, chunk)) = Len(delivered) + 1
          /\ \A i \in 1 .. Len(delivered) : Append(delivered, chunk)[i] = delivered[i]
          /\ Append(delivered, chunk)[Len(delivered) + 1] = chunk
      BY <3>1, AppendProperties
    <3>3. QED BY <2>1, <3>2
  <2>4. Got = n * ChunkSize /\ Got \in Nat
    BY <1>0, <1>2, FullChunks, GotIsNat
  <2>5. chunk = Positions(Got, Len(chunk)) /\ Got + Len(chunk) <= fileLen /\ Got + Len(chunk) = offset + download.read
    BY <1>0 DEF DownInv, Collected, ReadOf
  <2>6. (n + 1) - 1 = n
    BY <2>2
  <2>7. Got' = Got + Len(chunk)
    <3>1. Got' = (Len(delivered') - 1) * ChunkSize + Len(delivered'[Len(delivered')])
      BY <2>3 DEF Got
    <3>2. QED BY <2>3, <2>4, <2>6, <3>1
  <2>8. FileInOrder'
    <3>1. ASSUME NEW i \in 1 .. n + 1 PROVE delivered'[i] = Positions((i - 1) * ChunkSize, Len(delivered'[i]))
      <4>1. CASE i \in 1 .. n
        BY <2>3, <4>1 DEF DownInv, FileInOrder
      <4>2. CASE i = n + 1
        BY <2>3, <2>4, <2>5, <2>6, <4>2
      <4>3. QED BY <2>2, <4>1, <4>2
    <3>2. QED BY <2>3, <3>1 DEF FileInOrder
  <2>9. Len(chunk') = 0 /\ Positions(Got', 0) = <<>>
    BY <2>1 DEF Positions
  <2>10. Filled'
    <3>1. Len(chunk) \in 1 .. ChunkSize
      BY <2>2 DEF DownInv, Filled
    <3>2. \A i \in 1 .. n : Len(delivered[i]) = ChunkSize
      BY <1>0, <1>2, <2>2 DEF DownInv, Filled, ChunksFilled
    <3>3. ChunksFilled'
      BY <2>2, <2>3, <2>6, <3>2 DEF ChunksFilled
    <3>4. \A i \in 1 .. Len(delivered') : Len(delivered'[i]) \in 1 .. ChunkSize
      <4>1. ASSUME NEW i \in 1 .. n + 1 PROVE Len(delivered'[i]) \in 1 .. ChunkSize
        <5>1. CASE i \in 1 .. n
          <6>1. delivered'[i] = delivered[i] /\ Len(delivered[i]) = ChunkSize
            BY <2>3, <3>2, <5>1
          <6>2. QED BY <6>1
        <5>2. CASE i = n + 1
          BY <2>3, <3>1, <5>2
        <5>3. QED BY <2>2, <5>1, <5>2
      <4>2. QED BY <2>3, <4>1
    <3>5. Len(chunk) = ChunkSize \/ (Remaining = 0 /\ download.complete)
      BY DEF DeliverChunk
    <3>6. Remaining' = Remaining /\ download' = download /\ dpc' = "chunk"
      BY <1>0, <2>1 DEF Remaining, slices
    <3>7. QED BY <2>1, <2>3, <2>9, <3>3, <3>4, <3>5, <3>6 DEF Filled
  <2>11. DownTypeOK'
    BY <1>0, <1>a, <2>1, <2>3, EmptySeq DEF DownTypeOK, Reading, slices, fetching
  <2>12. Collected'
    <3>1. ReadOf' = download.read /\ offset' = offset /\ fileLen' = fileLen
      BY <1>0, <1>a, <2>1 DEF ReadOf, Reading, slices, fetching
    <3>2. Got' + 0 = Got + Len(chunk)
      BY <2>2, <2>4, <2>7
    <3>3. QED BY <2>1, <2>5, <2>9, <3>1, <3>2 DEF Collected
  <2>13. SliceHeld' /\ ReportsTrue' /\ EndTrue'
    <3>1. LenAt(offset)' = LenAt(offset)
      BY <1>a DEF LenAt, fetching
    <3>2. QED BY <1>0, <1>a, <2>1, <3>1 DEF DownInv, SliceHeld, ReportsTrue, EndTrue, EndIsTheEnd, Fetching, Reading, slices, fetching
  <2>14. QED BY <2>8, <2>10, <2>11, <2>12, <2>13 DEF DownInv
<1>3. QED BY <1>1, <1>2

(* read_file_chunk: every chunk that the caller gets holds the bytes that follow those before, *)
(* all chunks but the last are full, and the end is reported when the whole file was given     *)
(* out, unless a report of success was left of a download that was given up.                   *)
THEOREM DownloadsInOrder == DownSpec => [](FileInOrder /\ ChunksFilled /\ EndIsTheEnd)
<1>1. ASSUME DownInv, [DownNext]_downVars PROVE DownInv'
  <2>1. CASE UNCHANGED downVars
    <3>1. UNCHANGED <<slices, urcs, dpc, fetching, saved, chunk, caller>>
      BY <2>1 DEF downVars, reports
    <3>2. LenAt(offset)' = LenAt(offset)
      BY <3>1 DEF LenAt, fetching, caller
    <3>3. DownTypeOK'
      BY <1>1, <3>1 DEF DownInv, DownTypeOK, Fetching, Reading, slices, fetching, caller
    <3>4. FileInOrder' /\ Filled' /\ Collected' /\ EndTrue'
      BY <1>1, <3>1, SameDelivered DEF DownInv, Filled, Collected, EndTrue, EndIsTheEnd, Remaining, Reading, ReadOf,
         slices, fetching, caller
    <3>5. SliceHeld' /\ ReportsTrue'
      BY <1>1, <3>1, <3>2 DEF DownInv, SliceHeld, ReportsTrue, Fetching, Reading, slices, fetching, caller
    <3>6. QED BY <3>3, <3>4, <3>5 DEF DownInv
  <2>2. CASE DownNext
    BY <1>1, <2>2, DownloadFileInv, SendGetInv, LateReportInv, AwaitGetInv, StoreSliceInv, FetchedInv, RetryFetchInv,
       GiveUpFetchInv, ReadDownloadChunkInv, DeliverChunkInv, ReadSliceInv, RetryReadInv, GiveUpReadInv, IgnoreReportInv
       DEF DownNext, DownStep
  <2>3. QED BY <1>1, <2>1, <2>2
<1>2. DownInv => FileInOrder /\ ChunksFilled /\ EndIsTheEnd
  BY DEF DownInv, Filled, EndTrue
<1>3. QED BY <1>1, <1>2, DownInitInv, PTL DEF DownSpec

-----------------------------------------------------------------------------
(* quectel.rs, from power-on to a connection *)

(* The steps of ensure_provisioned. *)
ProvSteps == {"open", "compare", "delete", "upload"}

StartTypeOK ==
  /\ provisioning \in [file : Nat, pos : Nat] /\ open \in [file : Nat, pos : Nat]
  /\ files \in [Files -> Seq(Nat)] /\ first_boot \in BOOLEAN
  /\ spc \in ProvSteps => provisioning.file \in Files /\ first_boot
  /\ spc = "open" => provisioning.pos = 0

(* From the last AT of the negotiation on, driver and modem are at one rate. *)
RatesKept ==
  spc \in {"store", "echo", "ready", "connected"} \cup ProvSteps => on /\ uart = rate /\ ~uartSuspended

Certified(f) == IsPrefix(Reference[f], files[f])

(* The files before the one at hand are as they should be. *)
BeforeCertified == spc \in ProvSteps => \A f \in Files : f < provisioning.file => Certified(f)

(* A handle that is kept is of a file that comes no earlier than the one at hand, all before  *)
(* it are as they should be, and what was compared through it is equal if it is of that file. *)
HandleKept ==
  /\ spc = "compare" => file_handle # 0
  /\ spc \in {"delete", "upload"} => file_handle = 0
  /\ file_handle # 0 /\ open # NoFile =>
       /\ open.file \in Files /\ Reference[open.file] # <<>>
       /\ \A f \in Files : f < open.file => Certified(f)
       /\ spc \in {"open", "compare"} => provisioning.file <= open.file
       /\ open.pos = IF spc = "compare" THEN provisioning.pos ELSE 0
       /\ spc = "compare" /\ provisioning.file = open.file =>
            /\ open.pos <= Len(files[open.file]) /\ open.pos <= Len(Reference[open.file])
            /\ \A i \in 1 .. open.pos : files[open.file][i] = Reference[open.file][i]

(* The inductive invariant of the credentials. *)
CredInv == StartTypeOK /\ BeforeCertified /\ HandleKept /\ ProvisionedOnce

LEMMA ReferenceFiles ==
  /\ Files = 1 .. Len(Reference) /\ Len(Reference) \in Nat /\ 1 \in Files
  /\ \A f \in Files : Reference[f] \in Seq(Nat)
BY StartAssumption DEF Files

LEMMA PrefixBytes ==
  ASSUME NEW s \in Seq(Nat), NEW t \in Seq(Nat)
  PROVE  IsPrefix(s, t) <=> Len(s) <= Len(t) /\ \A i \in 1 .. Len(s) : s[i] = t[i]
BY DEF IsPrefix

LEMMA CredInitKept == StartInit => CredInv
BY StartAssumption, ReferenceFiles DEF StartInit, CredInv, StartTypeOK, BeforeCertified, HandleKept, ProvisionedOnce,
  ProvSteps, NoFile

LEMMA RatesStep == RatesKept /\ [StartNext]_startVars => RatesKept'
<1> SUFFICES ASSUME RatesKept, [StartNext]_startVars PROVE RatesKept'
  OBVIOUS
<1> USE DEF RatesKept, ProvSteps, Heard, Answered, rates, modem, storage
<1>1. CASE UNCHANGED startVars
  BY <1>1 DEF startVars
<1>2. CASE TurnOn \/ SetRate \/ SecondAT \/ SendBaudRate \/ CheckRate
  BY <1>2 DEF TurnOn, SetRate, SecondAT, SendBaudRate, CheckRate, NegotiationFailed
<1>3. CASE FirstAT
  BY <1>3 DEF FirstAT
<1>4. CASE StoreBaudrate
  BY <1>4 DEF StoreBaudrate
<1>5. CASE Echo
  BY <1>5 DEF Echo
<1>6. CASE OpenFile
  BY <1>6 DEF OpenFile, NextFile, ProvisioningFailed
<1>7. CASE CompareFile
  <2>1. UNCHANGED <<on, uart, rate, uartSuspended>>
    BY <1>7 DEF CompareFile
  <2>2. QED BY <1>7, <2>1 DEF CompareFile
<1>8. CASE DeleteFile
  BY <1>8 DEF DeleteFile
<1>9. CASE UploadFile
  <2>1. UNCHANGED <<on, uart, rate, uartSuspended>>
    BY <1>9 DEF UploadFile
  <2>2. QED BY <1>9, <2>1 DEF UploadFile
<1>10. CASE Connect \/ Disconnect \/ Restart
  BY <1>10 DEF Connect, Disconnect, Restart
<1>11. QED
  BY <1>1, <1>2, <1>3, <1>4, <1>5, <1>6, <1>7, <1>8, <1>9, <1>10 DEF StartNext, StartStep

LEMMA CredFrame ==
  ASSUME CredInv, UNCHANGED <<files, first_boot>>, spc \notin ProvSteps, spc' \notin ProvSteps,
         provisioning' \in {provisioning, NoFile},
         UNCHANGED file_handle \/ file_handle' = 0, UNCHANGED open \/ open' = NoFile \/ file_handle' = 0,
         open' \in [file : Nat, pos : Nat]
  PROVE  CredInv'
BY DEF CredInv, StartTypeOK, BeforeCertified, HandleKept, ProvisionedOnce, ProvSteps, NoFile, Certified, Files

LEMMA NextFileKeeps ==
  ASSUME CredInv, NextFile, spc \in ProvSteps,
         files' \in [Files -> Seq(Nat)], \A f \in Files : f # provisioning.file => files'[f] = files[f],
         IsPrefix(Reference[provisioning.file], files'[provisioning.file]),
         \/ file_handle' = 0 /\ open' \in [file : Nat, pos : Nat]
         \/ spc = "open" /\ UNCHANGED <<file_handle, open, files>> /\ Reference[provisioning.file] = <<>>
  PROVE  CredInv'
<1>1. provisioning.file \in Files /\ first_boot /\ provisioning \in [file : Nat, pos : Nat]
  BY DEF CredInv, StartTypeOK
<1>2. \A f \in Files : f <= provisioning.file => Certified(f)'
  <2> SUFFICES ASSUME NEW f \in Files, f <= provisioning.file PROVE IsPrefix(Reference[f], files'[f])
    BY DEF Certified
  <2>1. CASE f = provisioning.file
    BY <2>1
  <2>2. CASE f # provisioning.file
    <3>1. f < provisioning.file
      BY <2>2, <1>1, ReferenceFiles
    <3>2. Certified(f)
      BY <3>1 DEF CredInv, BeforeCertified
    <3>3. QED BY <3>2, <2>2 DEF Certified
  <2>3. QED BY <2>1, <2>2
<1>3. CASE provisioning.file = Len(Reference)
  <2>1. spc' = "ready" /\ provisioning' = NoFile /\ first_boot' = FALSE
    BY <1>3 DEF NextFile
  <2>2. \A f \in Files : Certified(f)'
    BY <1>2, <1>3, ReferenceFiles
  <2>3. ProvisionedOnce'
    BY <2>2 DEF ProvisionedOnce, Certified
  <2>4. StartTypeOK' /\ BeforeCertified'
    BY <2>1 DEF CredInv, StartTypeOK, BeforeCertified, ProvSteps, NoFile
  <2>5. HandleKept'
    BY <2>1, <2>2 DEF CredInv, StartTypeOK, HandleKept
  <2>6. QED BY <2>3, <2>4, <2>5 DEF CredInv
<1>4. CASE provisioning.file # Len(Reference)
  <2>1. /\ spc' = "open" /\ first_boot' = first_boot
        /\ provisioning'.file = provisioning.file + 1 /\ provisioning'.pos = 0 /\ provisioning' \in [file : Nat, pos : Nat]
    BY <1>1, <1>4 DEF NextFile
  <2>2. provisioning'.file \in Files
    BY <1>1, <1>4, <2>1, ReferenceFiles
  <2>3. BeforeCertified'
    BY <1>1, <1>2, <2>1, ReferenceFiles DEF BeforeCertified
  <2>4. StartTypeOK' /\ ProvisionedOnce'
    BY <1>1, <2>1, <2>2 DEF CredInv, StartTypeOK, ProvisionedOnce
  <2>5. HandleKept'
    <3>1. CASE file_handle' = 0
      BY <3>1, <2>1 DEF HandleKept
    <3>2. CASE spc = "open" /\ UNCHANGED <<file_handle, open, files>> /\ Reference[provisioning.file] = <<>>
      <4>1. file_handle # 0 /\ open # NoFile =>
              /\ open.file \in Files /\ Reference[open.file] # <<>> /\ provisioning.file <= open.file
              /\ open.pos = 0 /\ \A f \in Files : f < open.file => Certified(f)'
        BY <3>2, <1>1 DEF CredInv, HandleKept, Certified
      <4>2. file_handle # 0 /\ open # NoFile => provisioning.file + 1 <= open.file
        <5> SUFFICES ASSUME file_handle # 0, open # NoFile PROVE provisioning.file + 1 <= open.file
          OBVIOUS
        <5>1. provisioning.file # open.file
          BY <4>1, <3>2
        <5>2. provisioning.file \in Int /\ open.file \in Int
          BY <4>1, <1>1, ReferenceFiles
        <5>3. QED BY <4>1, <5>1, <5>2
      <4>3. NoFile' = NoFile
        BY DEF NoFile
      <4>4. QED BY <4>1, <4>2, <4>3, <3>2, <2>1 DEF HandleKept
    <3>3. QED BY <3>1, <3>2
  <2>6. QED BY <2>3, <2>4, <2>5 DEF CredInv
<1>5. QED BY <1>3, <1>4

LEMMA OpenKeeps == ASSUME CredInv, OpenFile PROVE CredInv'
<1>1. /\ provisioning.file \in Files /\ first_boot /\ provisioning \in [file : Nat, pos : Nat]
      /\ spc = "open" /\ files' = files /\ files \in [Files -> Seq(Nat)] /\ Reference[provisioning.file] \in Seq(Nat)
  BY ReferenceFiles DEF CredInv, StartTypeOK, OpenFile, ProvSteps
<1>0. NoFile \in [file : Nat, pos : Nat] /\ NoFile.file = 0
  BY DEF NoFile
<1>2. CASE Reference[provisioning.file] = <<>> /\ NextFile /\ UNCHANGED <<file_handle, open, sfaults>>
  <2>1. IsPrefix(Reference[provisioning.file], files'[provisioning.file])
    <3>1. files'[provisioning.file] \in Seq(Nat) /\ <<>> \in Seq(Nat)
      BY <1>1
    <3>2. IsPrefix(<<>>, files'[provisioning.file])
      <4>1. Len(<<>>) = 0 /\ Len(files'[provisioning.file]) \in Nat
        BY <3>1
      <4>2. SubSeq(<<>>, 1, 0) = <<>> /\ SubSeq(files'[provisioning.file], 1, 0) = <<>>
        BY SubSeqEmpty
      <4>3. QED BY <4>1, <4>2 DEF IsPrefix
    <3>3. QED BY <1>2, <3>2
  <2>2. spc \in ProvSteps
    BY <1>1 DEF ProvSteps
  <2>3. QED BY <1>1, <1>2, <2>1, <2>2, NextFileKeeps
<1>3. CASE /\ file_handle # 0 /\ spc' = "compare"
           /\ UNCHANGED <<file_handle, open, provisioning, first_boot, sfaults>>
  <2>1. StartTypeOK' /\ BeforeCertified' /\ ProvisionedOnce'
    BY <1>1, <1>3 DEF CredInv, StartTypeOK, BeforeCertified, ProvisionedOnce, ProvSteps, Certified
  <2>2. HandleKept'
    <3>1. open # NoFile =>
            /\ open.file \in Files /\ Reference[open.file] # <<>> /\ provisioning.file <= open.file
            /\ open.pos = 0 /\ \A f \in Files : f < open.file => Certified(f)'
      BY <1>1, <1>3 DEF CredInv, HandleKept, Certified
    <3>2. provisioning.pos = 0
      BY <1>1 DEF CredInv, StartTypeOK
    <3>3. QED BY <3>1, <3>2, <1>1, <1>3, ReferenceFiles DEF HandleKept
  <2>3. QED BY <2>1, <2>2 DEF CredInv
<1>4. ASSUME NEW opened \in BOOLEAN, NEW sought \in BOOLEAN,
             sought => opened, Reference[provisioning.file] # <<>>,
             file_handle' = IF opened THEN 1 ELSE 0,
             open' = IF opened THEN [file |-> provisioning.file, pos |-> 0] ELSE open,
             IF sought THEN spc' = "compare" /\ UNCHANGED <<provisioning, first_boot>>
             ELSE ProvisioningFailed
      PROVE  CredInv'
  <2>1. open' \in [file : Nat, pos : Nat] /\ first_boot' = first_boot
    <3>1. [file |-> provisioning.file, pos |-> 0] \in [file : Nat, pos : Nat]
      BY <1>1
    <3>2. open \in [file : Nat, pos : Nat]
      BY DEF CredInv, StartTypeOK
    <3>3. first_boot' = first_boot
      BY <1>4 DEF ProvisioningFailed
    <3>4. QED BY <1>4, <3>1, <3>2, <3>3
  <2>2. \A f \in Files : f < provisioning.file => Certified(f)'
    BY <1>1 DEF CredInv, BeforeCertified, ProvSteps, Certified
  <2>3. CASE sought
    <3>1. StartTypeOK' /\ BeforeCertified' /\ ProvisionedOnce'
      BY <1>1, <1>4, <2>1, <2>2, <2>3 DEF CredInv, StartTypeOK, BeforeCertified, ProvisionedOnce, ProvSteps
    <3>2. HandleKept'
      <4>1. open'.file = provisioning.file /\ open'.pos = 0 /\ file_handle' = 1
        BY <1>4, <2>3
      <4>2. provisioning.pos = 0
        BY <1>1 DEF CredInv, StartTypeOK
      <4>3. Len(files[provisioning.file]) >= 0 /\ Len(Reference[provisioning.file]) >= 0
        BY <1>1
      <4>4. QED BY <1>1, <1>4, <2>2, <2>3, <4>1, <4>2, <4>3, ReferenceFiles DEF HandleKept
    <3>3. QED BY <3>1, <3>2 DEF CredInv
  <2>4. CASE ~sought
    <3>1. spc' \in {"ready", "idle"} /\ provisioning' = NoFile
      BY <1>4, <2>4 DEF ProvisioningFailed
    <3>2. StartTypeOK' /\ BeforeCertified' /\ ProvisionedOnce'
      BY <1>0, <1>1, <3>1, <2>1 DEF CredInv, StartTypeOK, BeforeCertified, ProvisionedOnce, ProvSteps
    <3>3. HandleKept'
      <4>1. CASE opened
        <5>1. open'.file = provisioning.file /\ open'.pos = 0
          BY <4>1, <1>4
        <5>2. QED BY <1>1, <1>4, <2>2, <3>1, <5>1 DEF HandleKept
      <4>2. CASE ~opened
        BY <4>2, <1>4, <3>1 DEF HandleKept
      <4>3. QED BY <4>1, <4>2
    <3>4. QED BY <3>2, <3>3 DEF CredInv
  <2>5. QED BY <2>3, <2>4
<1>5. QED BY <1>2, <1>3, <1>4 DEF OpenFile

LEMMA CompareKeeps == ASSUME CredInv, CompareFile PROVE CredInv'
<1>1. /\ provisioning.file \in Files /\ first_boot /\ provisioning \in [file : Nat, pos : Nat]
      /\ spc = "compare" /\ files' = files /\ files \in [Files -> Seq(Nat)]
      /\ file_handle # 0 /\ open \in [file : Nat, pos : Nat] /\ spc \in ProvSteps
  BY DEF CredInv, StartTypeOK, HandleKept, CompareFile, ProvSteps
<1>0. NoFile \in [file : Nat, pos : Nat]
  BY DEF NoFile
<1> DEFINE ref == Reference[provisioning.file]
<1>2. ref \in Seq(Nat) /\ Len(ref) \in Nat
  BY <1>1, ReferenceFiles
<1>3. PICK ok \in BOOLEAN :
        /\ open = NoFile => ~ok
        /\ \E part \in {IF ok THEN ChunkRead ELSE << >>} :
            CASE Compare(part, ok) = "more" ->
                   /\ provisioning' = [provisioning EXCEPT !.pos = @ + Len(part)]
                   /\ open' = [open EXCEPT !.pos = @ + Len(part)]
                   /\ UNCHANGED <<spc, file_handle, first_boot>>
              [] Compare(part, ok) = "match" -> CloseFile /\ NextFile
              [] Compare(part, ok) = "update" ->
                   /\ CloseFile /\ spc' = "delete" /\ UNCHANGED <<provisioning, first_boot>>
  BY DEF CompareFile
<1> DEFINE part == IF ok THEN ChunkRead ELSE << >>
<1>4. /\ Compare(part, ok) \in {"more", "match", "update"}
      /\ Compare(part, ok) = "more" =>
                   /\ provisioning' = [provisioning EXCEPT !.pos = @ + Len(part)]
                   /\ open' = [open EXCEPT !.pos = @ + Len(part)]
                   /\ UNCHANGED <<spc, file_handle, first_boot>>
      /\ Compare(part, ok) = "match" => CloseFile /\ NextFile
      /\ Compare(part, ok) = "update" =>
                   /\ CloseFile /\ spc' = "delete" /\ UNCHANGED <<provisioning, first_boot>>
  <2>1. Compare(part, ok) \in {"more", "match", "update"}
    BY DEF Compare
  <2> HIDE DEF part
  <2>2. (CASE Compare(part, ok) = "more" ->
                   /\ provisioning' = [provisioning EXCEPT !.pos = @ + Len(part)]
                   /\ open' = [open EXCEPT !.pos = @ + Len(part)]
                   /\ UNCHANGED <<spc, file_handle, first_boot>>
          [] Compare(part, ok) = "match" -> CloseFile /\ NextFile
          [] Compare(part, ok) = "update" ->
                   /\ CloseFile /\ spc' = "delete" /\ UNCHANGED <<provisioning, first_boot>>)
    BY <1>3 DEF part
  <2>3. QED BY <2>1, <2>2
<1>5. CASE Compare(part, ok) = "update"
  <2>1. file_handle' = 0 /\ open' = NoFile /\ spc' = "delete" /\ UNCHANGED <<provisioning, first_boot>>
    BY <1>4, <1>5 DEF CloseFile
  <2>2. StartTypeOK' /\ BeforeCertified' /\ ProvisionedOnce'
    BY <1>0, <1>1, <2>1 DEF CredInv, StartTypeOK, BeforeCertified, ProvisionedOnce, ProvSteps, Certified
  <2>3. HandleKept'
    BY <2>1 DEF HandleKept
  <2>4. QED BY <2>2, <2>3 DEF CredInv
<1>6. Compare(part, ok) # "update" =>
        /\ ok /\ open # NoFile /\ ~(provisioning.pos + Len(part) > Len(ref))
        /\ part = SubSeq(ref, provisioning.pos + 1, provisioning.pos + Len(part))
        /\ part # << >>
        /\ Compare(part, ok) = "match" <=> provisioning.pos + Len(part) = Len(ref)
  <2> HIDE DEF part
  <2>1. QED BY <1>3 DEF Compare
<1>7. CASE Compare(part, ok) # "update"
  <2> DEFINE p == provisioning.pos
             content == files[open.file]
             hi == IF p + FileChunk < Len(content) THEN p + FileChunk ELSE Len(content)
  <2>1. /\ open.file \in Files /\ Reference[open.file] # <<>> /\ provisioning.file <= open.file
        /\ open.pos = p /\ \A f \in Files : f < open.file => Certified(f)
        /\ provisioning.file = open.file =>
             p <= Len(content) /\ p <= Len(ref) /\ \A i \in 1 .. p : content[i] = ref[i]
    BY <1>1, <1>6, <1>7 DEF CredInv, HandleKept
  <2>2. p \in Nat /\ content \in Seq(Nat) /\ Len(content) \in Nat /\ hi \in Nat /\ hi <= Len(content)
    BY <1>1, <2>1, StartAssumption
  <2>3. part = SubSeq(content, p + 1, hi)
    BY <1>6, <1>7, <2>1 DEF ChunkRead
  <2>4. \A i \in p + 1 .. hi : content[i] \in Nat
    BY SMTT(30), <2>2
  <2>5. /\ part \in Seq(Nat) /\ Len(part) = (IF p + 1 <= hi THEN hi - (p + 1) + 1 ELSE 0)
        /\ \A i \in 1 .. hi - (p + 1) + 1 : part[i] = content[(p + 1) + i - 1]
    <3> HIDE DEF part, content, hi, p
    <3>1. p + 1 \in Int /\ hi \in Int
      BY <2>2
    <3>2. QED BY <2>3, <2>4, <3>1, SubSeqProperties
  <2>6. Len(part) \in Nat \ {0} /\ Len(part) = hi - p
    <3> HIDE DEF part, content, hi, p
    <3>1. Len(part) # 0
      BY <1>6, <1>7, <2>5, EmptySeq
    <3>2. QED BY <3>1, <2>2, <2>5
  <2>7. p + Len(part) <= Len(content) /\ p + Len(part) <= Len(ref)
    <3> HIDE DEF part
    <3>1. ~(p + Len(part) > Len(ref))
      BY <1>6, <1>7
    <3>2. p + Len(part) = hi /\ p + Len(part) \in Int /\ Len(ref) \in Int
      <4> HIDE DEF hi, content, p
      <4>1. QED BY <1>2, <2>2, <2>6
    <3>3. p + Len(part) <= Len(ref)
      <4> HIDE DEF hi, content, p
      <4>1. QED BY <3>1, <3>2
    <3>4. QED BY <2>2, <3>2, <3>3
  <2>8. \A j \in p + 1 .. p + Len(part) : content[j] = ref[j]
    <3> SUFFICES ASSUME NEW j \in p + 1 .. p + Len(part) PROVE content[j] = ref[j]
      OBVIOUS
    <3> DEFINE q == p + Len(part)
    <3> HIDE DEF part, content, hi, p, ref
    <3>1. j - p \in 1 .. hi - (p + 1) + 1 /\ (p + 1) + (j - p) - 1 = j
      BY <2>2, <2>6
    <3>2. part[j - p] = content[j]
      BY <2>5, <3>1
    <3>3. q \in Int /\ p + 1 \in Int /\ \A i \in p + 1 .. q : ref[i] \in Nat
      BY <1>2, <2>2, <2>6, <2>7
    <3>4. \A i \in 1 .. q - (p + 1) + 1 : SubSeq(ref, p + 1, q)[i] = ref[(p + 1) + i - 1]
      BY <3>3, SubSeqProperties
    <3>5. j - p \in 1 .. q - (p + 1) + 1
      BY <2>2, <2>6
    <3>6. SubSeq(ref, p + 1, q)[j - p] = ref[j]
      BY <3>1, <3>4, <3>5
    <3>7. part = SubSeq(ref, p + 1, q)
      BY <1>6, <1>7 DEF p, ref
    <3>8. QED BY <3>2, <3>6, <3>7
  <2>9. provisioning.file = open.file => \A i \in 1 .. p + Len(part) : content[i] = ref[i]
    BY <2>1, <2>2, <2>6, <2>8
  <2>10. CASE Compare(part, ok) = "more"
    <3>1. /\ provisioning'.file = provisioning.file /\ provisioning'.pos = p + Len(part)
          /\ open'.file = open.file /\ open'.pos = p + Len(part)
          /\ spc' = "compare" /\ file_handle' = file_handle /\ first_boot' = first_boot
          /\ provisioning' \in [file : Nat, pos : Nat] /\ open' \in [file : Nat, pos : Nat]
      <4> HIDE DEF part
      <4>1. p + Len(part) \in Nat
        BY <2>2, <2>6
      <4>2. /\ provisioning' = [provisioning EXCEPT !.pos = p + Len(part)]
            /\ open' = [open EXCEPT !.pos = p + Len(part)]
            /\ spc' = spc /\ file_handle' = file_handle /\ first_boot' = first_boot
        BY <1>4, <2>1, <2>10
      <4>3. QED BY <1>1, <4>1, <4>2
    <3>2. StartTypeOK' /\ BeforeCertified' /\ ProvisionedOnce'
      BY <1>1, <3>1 DEF CredInv, StartTypeOK, BeforeCertified, ProvisionedOnce, ProvSteps, Certified
    <3>3. \A f \in Files : f < open'.file => Certified(f)'
      BY <1>1, <2>1, <3>1 DEF Certified
    <3>4. HandleKept'
      <4> DEFINE n == p + Len(part)
      <4>1. provisioning'.file = open'.file =>
              /\ open'.pos <= Len(files'[open'.file]) /\ open'.pos <= Len(Reference[open'.file])
              /\ \A i \in 1 .. open'.pos : files'[open'.file][i] = Reference[open'.file][i]
        <5> HIDE DEF part
        <5>1. QED BY <1>1, <2>7, <2>9, <3>1
      <4>2. open'.file \in Files /\ Reference[open'.file] # <<>> /\ provisioning'.file <= open'.file
        BY <2>1, <3>1
      <4>3. open'.pos = provisioning'.pos
        BY <3>1
      <4>4. QED BY <1>1, <3>1, <3>3, <4>1, <4>2, <4>3 DEF HandleKept
    <3>5. QED BY <3>2, <3>4 DEF CredInv
  <2>11. CASE Compare(part, ok) = "match"
    <3>1. file_handle' = 0 /\ open' = NoFile /\ NextFile
      BY <1>4, <2>11 DEF CloseFile
    <3>2. p + Len(part) = Len(ref)
      BY <1>6, <1>7, <2>11
    <3>3. IsPrefix(ref, files[provisioning.file])
      <4>1. CASE provisioning.file = open.file
        <5> HIDE DEF part
        <5>1. Len(ref) <= Len(content) /\ \A i \in 1 .. Len(ref) : ref[i] = content[i]
          BY <2>7, <2>9, <3>2, <4>1
        <5>2. QED BY <1>2, <2>2, <4>1, <5>1, PrefixBytes
      <4>2. CASE provisioning.file # open.file
        <5>1. provisioning.file < open.file
          BY <1>1, <2>1, <4>2, ReferenceFiles
        <5>2. QED BY <1>1, <2>1, <5>1 DEF Certified
      <4>3. QED BY <4>1, <4>2
    <3>4. QED BY <1>0, <1>1, <3>1, <3>3, NextFileKeeps
  <2>12. QED BY <1>4, <1>7, <2>10, <2>11
<1>8. QED BY <1>5, <1>7

LEMMA DeleteKeeps == ASSUME CredInv, DeleteFile PROVE CredInv'
<1>1. /\ provisioning.file \in Files /\ first_boot /\ provisioning \in [file : Nat, pos : Nat]
      /\ files \in [Files -> Seq(Nat)] /\ file_handle = 0 /\ file_handle' = 0 /\ spc' = "upload" /\ spc = "delete"
      /\ UNCHANGED <<provisioning, first_boot, open>>
  BY DEF CredInv, StartTypeOK, HandleKept, DeleteFile, ProvSteps
<1>2. /\ files' \in [Files -> Seq(Nat)]
      /\ \A f \in Files : f # provisioning.file => files'[f] = files[f]
  BY <1>1 DEF DeleteFile
<1>3. BeforeCertified'
  <2>1. \A f \in Files : f < provisioning.file => Certified(f) /\ f # provisioning.file
    BY <1>1, ReferenceFiles DEF CredInv, BeforeCertified, ProvSteps
  <2>2. QED BY <1>1, <1>2, <2>1 DEF BeforeCertified, Certified
<1>4. StartTypeOK' /\ ProvisionedOnce' /\ HandleKept'
  BY <1>1, <1>2 DEF CredInv, StartTypeOK, ProvisionedOnce, HandleKept, ProvSteps
<1>5. QED BY <1>3, <1>4 DEF CredInv

LEMMA UploadKeeps == ASSUME CredInv, UploadFile PROVE CredInv'
<1> DEFINE ref == Reference[provisioning.file]
<1>1. /\ provisioning.file \in Files /\ first_boot /\ provisioning \in [file : Nat, pos : Nat]
      /\ files \in [Files -> Seq(Nat)] /\ file_handle = 0 /\ file_handle' = 0 /\ spc = "upload" /\ spc \in ProvSteps
      /\ open' = open /\ open \in [file : Nat, pos : Nat]
  BY DEF CredInv, StartTypeOK, HandleKept, UploadFile, ProvSteps
<1>2. ref \in Seq(Nat)
  BY <1>1, ReferenceFiles
<1>3. CASE files' = [files EXCEPT ![provisioning.file] = ref] /\ NextFile
  <2>1. IsPrefix(ref, ref)
    <3>1. Len(ref) \in Nat
      BY <1>2
    <3>2. QED BY <1>2, <3>1, PrefixBytes
  <2>2. files' \in [Files -> Seq(Nat)] /\ files'[provisioning.file] = ref
    BY <1>1, <1>2, <1>3
  <2>3. \A f \in Files : f # provisioning.file => files'[f] = files[f]
    BY <1>1, <1>3
  <2>4. QED BY <1>1, <1>3, <2>1, <2>2, <2>3, NextFileKeeps
<1>4. ASSUME ProvisioningFailed,
             \E n \in 0..Len(ref) :
                files' = IF files[provisioning.file] = << >>
                         THEN [files EXCEPT ![provisioning.file] = SubSeq(ref, 1, n)] ELSE files
      PROVE  CredInv'
  <2>1. PICK n \in 0..Len(ref) :
                files' = IF files[provisioning.file] = << >>
                         THEN [files EXCEPT ![provisioning.file] = SubSeq(ref, 1, n)] ELSE files
    BY <1>4
  <2>2. SubSeq(ref, 1, n) \in Seq(Nat)
    BY <1>2, SubSeqProperties
  <2>3. files' \in [Files -> Seq(Nat)]
    BY <1>1, <2>1, <2>2
  <2>4. spc' \in {"ready", "idle"} /\ provisioning' = NoFile /\ first_boot' = first_boot
    BY <1>4 DEF ProvisioningFailed
  <2>5. QED BY <1>1, <2>3, <2>4 DEF CredInv, StartTypeOK, BeforeCertified, HandleKept, ProvisionedOnce, ProvSteps, NoFile
<1>5. QED BY <1>3, <1>4 DEF UploadFile

LEMMA CredStep == CredInv /\ [StartNext]_startVars => CredInv'
<1> SUFFICES ASSUME CredInv, [StartNext]_startVars PROVE CredInv'
  OBVIOUS
<1> USE DEF rates, modem, storage
<1>0. open \in [file : Nat, pos : Nat] /\ NoFile \in [file : Nat, pos : Nat]
  BY DEF CredInv, StartTypeOK, NoFile
<1>1. CASE UNCHANGED startVars
  <2>1. UNCHANGED <<files, file_handle, open, first_boot, spc, provisioning>>
    BY <1>1 DEF startVars
  <2>2. QED BY <2>1 DEF CredInv, StartTypeOK, BeforeCertified, HandleKept, ProvisionedOnce, Certified
<1>2. CASE TurnOn \/ SetRate \/ FirstAT \/ SecondAT \/ SendBaudRate \/ CheckRate \/ StoreBaudrate \/ Connect
  <2>1. /\ UNCHANGED <<files, file_handle, open, first_boot, provisioning>>
        /\ spc \notin ProvSteps /\ spc' \notin ProvSteps
    BY <1>2 DEF TurnOn, SetRate, FirstAT, SecondAT, SendBaudRate, CheckRate, StoreBaudrate, Connect,
      NegotiationFailed, ProvSteps
  <2>2. QED BY <1>0, <2>1, CredFrame
<1>3. CASE Echo
  <2>1. /\ UNCHANGED <<files, file_handle, open, first_boot>> /\ spc = "echo"
        /\ \/ spc' \in {"idle", "ready"} /\ provisioning' = NoFile
           \/ spc' = "open" /\ first_boot /\ provisioning' = [file |-> 1, pos |-> 0]
    BY <1>3 DEF Echo, CredInv, StartTypeOK
  <2>2. CASE spc' \in {"idle", "ready"} /\ provisioning' = NoFile
    BY <1>0, <2>1, <2>2, CredFrame DEF ProvSteps
  <2>3. CASE spc' = "open" /\ first_boot /\ provisioning' = [file |-> 1, pos |-> 0]
    <3>1. provisioning'.file = 1 /\ provisioning'.pos = 0 /\ provisioning' \in [file : Nat, pos : Nat]
      BY <2>3
    <3>2. StartTypeOK' /\ ProvisionedOnce'
      BY <2>1, <2>3, <3>1, ReferenceFiles DEF CredInv, StartTypeOK, ProvisionedOnce
    <3>3. BeforeCertified'
      BY <3>1, ReferenceFiles DEF BeforeCertified
    <3>4. HandleKept'
      BY <2>1, <2>3, <3>1, ReferenceFiles DEF CredInv, HandleKept, Certified
    <3>5. QED BY <3>2, <3>3, <3>4 DEF CredInv
  <2>4. QED BY <2>1, <2>2, <2>3
<1>4. CASE OpenFile
  BY <1>4, OpenKeeps
<1>5. CASE CompareFile
  BY <1>5, CompareKeeps
<1>6. CASE DeleteFile
  BY <1>6, DeleteKeeps
<1>7. CASE UploadFile
  BY <1>7, UploadKeeps
<1>8. CASE Disconnect
  <2>1. /\ UNCHANGED <<files, file_handle, first_boot, provisioning>> /\ open' = NoFile
        /\ spc \notin ProvSteps /\ spc' \notin ProvSteps
    BY <1>8 DEF Disconnect, ProvSteps
  <2>2. QED BY <1>0, <2>1, CredFrame
<1>9. CASE Restart
  <2>1. /\ files' = files /\ file_handle' = 0 /\ first_boot' = TRUE /\ provisioning' = NoFile
        /\ spc' = "idle" /\ open' \in {open, NoFile}
    BY <1>9 DEF Restart
  <2>2. QED BY <1>0, <2>1 DEF CredInv, StartTypeOK, BeforeCertified, HandleKept, ProvisionedOnce, ProvSteps
<1>10. QED
  BY <1>1, <1>2, <1>3, <1>4, <1>5, <1>6, <1>7, <1>8, <1>9 DEF StartNext, StartStep

(* initialize: driver and modem are at one rate when it goes on after the negotiation, and the *)
(* credential files are no longer checked only once each begins with its reference.            *)
THEOREM ModemStartsRight == StartSpec => [](RatesAgree /\ ProvisionedOnce)
<1>1. StartInit => RatesKept
  BY DEF StartInit, RatesKept, ProvSteps
<1>2. RatesKept /\ CredInv => RatesAgree /\ ProvisionedOnce
  BY DEF RatesKept, RatesAgree, CredInv
<1>3. QED BY <1>1, <1>2, CredInitKept, RatesStep, CredStep, PTL DEF StartSpec

(* quectel.rs, for every file, slice, part, number of attempts, credentials and any commands  *)
(* that fail: the chunks of a download hold the bytes of the file in order, all but the last   *)
(* are full, and the end is reported at the end; initialize goes on only with driver and modem *)
(* at one rate, and every credential file was checked before the check is skipped.             *)
THEOREM ModemStaysSafe == DownSpec /\ StartSpec => []ModemIsSafe
BY DownloadsInOrder, ModemStartsRight, PTL DEF ModemIsSafe

-----------------------------------------------------------------------------
(* materialized_views.rs: the start of a sample of a resolution. *)

LEMMA Remainder ==
  ASSUME NEW w \in Nat \ {0}, NEW a \in Nat
  PROVE  \E q \in Int, r \in 0 .. w - 1 : r = a % w /\ a = w * q + r
<1>1. PICK q \in Int, r \in Int : q = a \div w /\ r = a % w /\ r \in 0 .. w - 1
  OBVIOUS
<1>2. a = q * w + r
  BY <1>1
<1>3. q * w = w * q
  BY <1>1
<1> QED
  BY <1>1, <1>2, <1>3

LEMMA Apart ==
  ASSUME NEW w \in Nat \ {0}, NEW e \in Int, NEW f \in Int, e > f
  PROVE  w * e - w * f >= w
<1>1. PICK d \in Int : d = e - f /\ d >= 1
  OBVIOUS
<1>2. w * d >= w
  BY <1>1
<1>3. w * d = w * e - w * f
  BY <1>1
<1> QED
  BY <1>2, <1>3

(* The remainder is the only one. *)
LEMMA RemainderUnique ==
  ASSUME NEW w \in Nat \ {0}, NEW q \in Int, NEW r \in 0 .. w - 1, NEW a \in Nat, a = w * q + r
  PROVE  a % w = r
<1>1. PICK e \in Int, f \in 0 .. w - 1 : f = a % w /\ a = w * e + f
  BY Remainder
<1>2. PICK x \in Int, y \in Int : x = w * e /\ y = w * q
  OBVIOUS
<1>3. e > q => x - y >= w
  BY <1>2, Apart
<1>4. q > e => y - x >= w
  BY <1>2, Apart
<1>5. x + f = y + r
  BY <1>1, <1>2
<1>6. e = q
  BY <1>3, <1>4, <1>5
<1> QED
  BY <1>1, <1>2, <1>5, <1>6

(* Rounding down keeps the order. *)
LEMMA FloorMonotone ==
  ASSUME NEW w \in Nat \ {0}, NEW a \in Nat, NEW b \in Nat, a <= b
  PROVE  a - (a % w) <= b - (b % w)
<1>1. PICK e \in Int, f \in 0 .. w - 1 : f = a % w /\ a = w * e + f
  BY Remainder
<1>2. PICK q \in Int, r \in 0 .. w - 1 : r = b % w /\ b = w * q + r
  BY Remainder
<1>3. PICK x \in Int, y \in Int : x = w * e /\ y = w * q
  OBVIOUS
<1>4. e > q => x - y >= w
  BY <1>3, Apart
<1>5. q > e => y - x >= w
  BY <1>3, Apart
<1>6. a = x + f /\ b = y + r
  BY <1>1, <1>2, <1>3
<1>7. e <= q
  BY <1>4, <1>6
<1>8. x <= y
  BY <1>3, <1>5, <1>7
<1> QED
  BY <1>1, <1>2, <1>6, <1>8

(* Rounding down to a multiple of the finer step first makes no difference. *)
LEMMA FloorNested ==
  ASSUME NEW w \in Nat \ {0}, NEW v \in Nat \ {0}, v % w = 0, NEW a \in Nat
  PROVE  (a - (a % w)) - ((a - (a % w)) % v) = a - (a % v)
<1>1. PICK q \in Int, r \in 0 .. w - 1 : r = a % w /\ a = w * q + r
  BY Remainder
<1>2. PICK e \in Int, f \in 0 .. v - 1 : f = a % v /\ a = v * e + f
  BY Remainder
<1>3. PICK k \in Int : v = w * k
  <2>1. PICK k \in Int, z \in 0 .. w - 1 : z = v % w /\ v = w * k + z
    BY Remainder
  <2>2. PICK x \in Int : x = w * k
    OBVIOUS
  <2>3. z = 0
    BY <2>1
  <2>4. v = x
    BY <2>1, <2>2, <2>3
  <2> QED BY <2>2, <2>4
<1>4. PICK m \in Int, n \in Int : n = k * e /\ m = q - n
  OBVIOUS
<1>5. PICK x \in Int, y \in Int, z \in Int : x = w * q /\ y = v * e /\ z = w * m
  OBVIOUS
<1>6. y = w * n
  BY <1>3, <1>4, <1>5
<1>7. z = x - y
  BY <1>4, <1>5, <1>6
<1>8. a = x + r /\ a = y + f
  BY <1>1, <1>2, <1>5
<1>9. z >= 0
  <2>1. 0 > m => w * 0 - w * m >= w
    BY Apart
  <2>2. m < 0 => z <= 0 - w
    BY <1>5, <2>1
  <2>3. z > 0 - w
    BY <1>7, <1>8
  <2>4. m >= 0
    BY <2>2, <2>3
  <2> QED BY <2>4, <1>5
<1>10. PICK b \in Nat : b = a - r /\ b = y + z /\ z \in 0 .. v - 1
  <2>1. z = f - r
    BY <1>7, <1>8
  <2>2. z \in 0 .. v - 1
    BY <1>9, <2>1
  <2>3. a - r \in Nat
    <3>1. q < 0 => x <= 0 - w
      <4>1. 0 > q => w * 0 - w * q >= w
        BY Apart
      <4> QED BY <1>5, <4>1
    <3>2. x > 0 - w
      BY <1>8
    <3>3. q >= 0
      BY <3>1, <3>2
    <3>4. x >= 0
      BY <1>5, <3>3
    <3> QED BY <1>8, <3>4
  <2>4. a - r = y + z
    BY <2>1, <1>8
  <2> QED BY <2>2, <2>3, <2>4
<1>11. b = v * e + z
  BY <1>10, <1>5
<1>12. b % v = z
  <2>1. z \in 0 .. v - 1
    BY <1>10
  <2> QED BY <1>11, <2>1, RemainderUnique
<1>13. b = a - (a % w) /\ b - z = a - (a % v)
  <2>1. b - z = y /\ a - f = y
    BY <1>8, <1>10
  <2> QED BY <1>1, <1>2, <1>10, <2>1
<1> QED
  BY <1>12, <1>13

(* What is known of the resolutions. *)
LEMMA Widths ==
  /\ NLevels \in Nat
  /\ \A l \in Levels : /\ seconds_per_sample[l] \in Nat \ {0} /\ l \in Nat /\ l >= 1
                       /\ l # 1 => /\ l - 1 \in Levels /\ seconds_per_sample[l - 1] \in Nat \ {0}
                                   /\ seconds_per_sample[l] % seconds_per_sample[l - 1] = 0
<1>1. NLevels \in Nat /\ \A l \in 1 .. NLevels : seconds_per_sample[l] \in Nat \ {0}
  BY MatAssumption DEF NLevels
<1>2. \A l \in 1 .. NLevels : l # 1 => l - 1 \in 1 .. NLevels - 1 /\ l - 1 \in 1 .. NLevels /\ (l - 1) + 1 = l
  BY <1>1
<1>3. \A l \in 1 .. NLevels : l # 1 => seconds_per_sample[l] % seconds_per_sample[l - 1] = 0
  BY <1>1, <1>2, MatAssumption
<1> QED
  BY <1>1, <1>2, <1>3 DEF Levels

(* A bucket begins at or before the points in it, keeps their order, and is the bucket of its *)
(* own beginning.                                                                             *)
LEMMA BucketFacts ==
  ASSUME NEW l \in Levels, NEW p \in Points
  PROVE  /\ Bucket(l, p) \in Points /\ Bucket(l, p) <= p /\ Bucket(l, Bucket(l, p)) = Bucket(l, p)
         /\ \A x \in Points : x <= p => Bucket(l, x) <= Bucket(l, p)
<1>0. MaxPoint \in Nat
  BY MatAssumption
<1>1. PICK w \in Nat \ {0} : w = seconds_per_sample[l]
  BY Widths
<1>2. PICK q \in Int, r \in 0 .. w - 1 : r = p % w /\ p = w * q + r
  BY Remainder, <1>0 DEF Points
<1>3. p % w \in 0 .. p
  <2>1. PICK x \in Int : x = w * q
    OBVIOUS
  <2>2. q < 0 => x <= 0 - w
    <3>1. 0 > q => w * 0 - w * q >= w
      BY Apart
    <3> QED BY <2>1, <3>1
  <2>3. x > 0 - w
    BY <1>2, <2>1, <1>0 DEF Points
  <2>4. q >= 0
    BY <2>2, <2>3
  <2>5. x >= 0
    BY <2>1, <2>4
  <2> QED BY <1>2, <2>1, <2>5, <1>0 DEF Points
<1>4. Bucket(l, p) \in Points /\ Bucket(l, p) <= p
  BY <1>0, <1>1, <1>3 DEF Bucket, Points
<1>5. w % w = 0
  BY RemainderUnique
<1>6. Bucket(l, Bucket(l, p)) = Bucket(l, p)
  BY <1>0, <1>1, <1>5, FloorNested DEF Bucket, Points
<1>7. \A x \in Points : x <= p => Bucket(l, x) <= Bucket(l, p)
  BY <1>0, <1>1, FloorMonotone DEF Bucket, Points
<1> QED BY <1>4, <1>6, <1>7

(* The buckets of a finer resolution lie in one bucket of the coarser. *)
LEMMA BucketNested ==
  ASSUME NEW l \in Levels, l # 1, NEW p \in Points
  PROVE  /\ Bucket(l, Bucket(l - 1, p)) = Bucket(l, p)
         /\ Bucket(l, p) <= Bucket(l - 1, p)
<1>0. MaxPoint \in Nat
  BY MatAssumption
<1>1. PICK w \in Nat \ {0}, v \in Nat \ {0} :
        w = seconds_per_sample[l - 1] /\ v = seconds_per_sample[l] /\ v % w = 0 /\ l - 1 \in Levels
  BY Widths
<1>2. Bucket(l, Bucket(l - 1, p)) = Bucket(l, p)
  <2>1. p \in Nat
    BY <1>0 DEF Points
  <2>2. (p - (p % w)) - ((p - (p % w)) % v) = p - (p % v)
    BY <1>1, <2>1, FloorNested
  <2> QED BY <1>1, <2>2 DEF Bucket
<1>3. Bucket(l - 1, p) \in Points
  BY <1>1, BucketFacts
<1> QED BY <1>2, <1>3, BucketFacts

(* A set of points that is not empty has a latest one. *)
LEMMA LatestPoint ==
  ASSUME NEW S, S # {}, S \subseteq Points
  PROVE  Max(S) \in S /\ \A p \in S : p <= Max(S)
<1>0. MaxPoint \in Nat
  BY MatAssumption
<1> DEFINE R == {ss \in Nat \X Nat : ss[1] < ss[2]}
           T == {MaxPoint - p : p \in S}
<1>1. IsWellFoundedOn(R, Nat)
  BY NatLessThanWellFounded DEF OpToRel
<1>2. T # {} /\ T \subseteq Nat
  <2>1. PICK x \in S : TRUE
    OBVIOUS
  <2>2. MaxPoint - x \in T
    BY <2>1
  <2> QED BY <1>0, <2>2 DEF Points
<1> HIDE DEF R, T
<1>3. PICK m \in T : \A n \in T : ~ (<<n, m>> \in R)
  BY <1>1, <1>2, WFMin
<1>4. \A n \in T : ~ (n < m)
  BY <1>2, <1>3 DEF R
<1>5. PICK x \in S : m = MaxPoint - x
  BY DEF T
<1>6. \A p \in S : ~ (MaxPoint - p < MaxPoint - x)
  BY <1>4, <1>5 DEF T
<1>7. \A p \in S : x >= p
  BY <1>0, <1>6 DEF Points
<1>8. \A p \in S : Max(S) >= p /\ Max(S) \in S
  BY <1>7 DEF Max
<1> QED BY <1>0, <1>8 DEF Points

-----------------------------------------------------------------------------
(* One view: which bucket is its newest, and what a rebuild makes of it. *)

ViewSet == [Points -> SUBSET Points]

Newest(V) == IF {b \in DOMAIN V : V[b] # {}} = {} THEN 0 ELSE Max({b \in DOMAIN V : V[b] # {}})

(* A point is accounted for in its own bucket only. *)
InPlace(l, V) == \A b \in Points : \A p \in V[b] : Bucket(l, p) = b

(* Of the points E, those before the newest bucket are accounted for. *)
ClosedHold(l, V, E) == \A p \in E : Bucket(l, p) < Newest(V) => p \in V[Bucket(l, p)]

Grouped(l, src, b) == UNION {src[s] : s \in {x \in Points : Bucket(l, x) = b}}

Replaced(l, src, V) ==
  [b \in Points |-> IF Grouped(l, src, b) # {} THEN Grouped(l, src, b) ELSE V[b]]

LEMMA NewestFacts ==
  ASSUME NEW V \in ViewSet
  PROVE  /\ Newest(V) \in Points
         /\ \A b \in Points : V[b] # {} => b <= Newest(V)
         /\ Newest(V) # 0 => V[Newest(V)] # {}
<1>0. 0 \in Points
  BY MatAssumption DEF Points
<1> DEFINE S == {b \in DOMAIN V : V[b] # {}}
<1>1. S \subseteq Points /\ \A b \in Points : V[b] # {} <=> b \in S
  BY DEF ViewSet
<1>2. Newest(V) = IF S = {} THEN 0 ELSE Max(S)
  BY DEF Newest
<1>3. S # {} => Max(S) \in S /\ \A p \in S : p <= Max(S)
  BY <1>1, LatestPoint
<1> HIDE DEF S
<1> QED BY <1>0, <1>1, <1>2, <1>3

(* The newest bucket is the beginning of a bucket. *)
LEMMA NewestIsBucket ==
  ASSUME NEW l \in Levels, NEW V \in ViewSet, InPlace(l, V)
  PROVE  Bucket(l, Newest(V)) = Newest(V)
<1>0. Newest(V) \in Points
  BY NewestFacts
<1>1. CASE Newest(V) = 0
  BY <1>0, <1>1, BucketFacts, MatAssumption DEF Points
<1>2. CASE Newest(V) # 0
  <2>1. PICK p : p \in V[Newest(V)]
    BY <1>2, NewestFacts
  <2>2. p \in Points /\ Bucket(l, p) = Newest(V)
    BY <1>0, <2>1 DEF ViewSet, InPlace
  <2> QED BY <2>2, BucketFacts
<1> QED BY <1>1, <1>2

(* A rebuild from the newest bucket on keeps what is closed and closes more only where the   *)
(* source has the points: those that come before a bucket the source has documents for.      *)
LEMMA ReplaceComplete ==
  ASSUME NEW l \in Levels, NEW V \in ViewSet, NEW src \in ViewSet, NEW E, E \subseteq Points,
         InPlace(l, V), ClosedHold(l, V, E),
         \A s \in Points : src[s] # {} => s >= Newest(V),
         \A s \in Points : \A p \in src[s] : Bucket(l, p) = Bucket(l, s),
         \A p \in E, s \in Points :
           (Bucket(l, p) >= Newest(V) /\ src[s] # {} /\ Bucket(l, s) > Bucket(l, p))
             => \E x \in Points : p \in src[x]
  PROVE  /\ Replaced(l, src, V) \in ViewSet
         /\ InPlace(l, Replaced(l, src, V))
         /\ ClosedHold(l, Replaced(l, src, V), E)
<1> DEFINE W == Replaced(l, src, V)
           G(b) == Grouped(l, src, b)
<1>0. MaxPoint \in Nat /\ Newest(V) \in Points
  BY MatAssumption, NewestFacts
<1>1. \A b \in Points : \A p \in G(b) : \E s \in Points : p \in src[s] /\ Bucket(l, s) = b
  BY DEF Grouped
<1>2. \A s \in Points : Bucket(l, s) \in Points /\ \A p \in src[s] : p \in G(Bucket(l, s))
  BY BucketFacts DEF Grouped
<1>3. \A b \in Points : G(b) \subseteq Points /\ \A p \in G(b) : Bucket(l, p) = b
  BY <1>1 DEF ViewSet
<1>4. W \in ViewSet /\ \A b \in Points : W[b] = IF G(b) # {} THEN G(b) ELSE V[b]
  BY <1>3 DEF ViewSet, Replaced
<1>5. InPlace(l, W)
  BY <1>3, <1>4 DEF InPlace
<1> HIDE DEF W, G
<1>6. \A b \in Points : G(b) # {} => b >= Newest(V)
  <2> SUFFICES ASSUME NEW b \in Points, G(b) # {} PROVE b >= Newest(V)
    OBVIOUS
  <2>1. PICK s \in Points : src[s] # {} /\ Bucket(l, s) = b
    BY <1>1
  <2>2. s >= Newest(V) /\ Bucket(l, Newest(V)) = Newest(V)
    BY <2>1, NewestIsBucket
  <2> QED BY <1>0, <2>1, <2>2, BucketFacts DEF Points
<1>7. ClosedHold(l, W, E)
  <2> SUFFICES ASSUME NEW p \in E, Bucket(l, p) < Newest(W) PROVE p \in W[Bucket(l, p)]
    BY DEF ClosedHold
  <2>1. p \in Points /\ Bucket(l, p) \in Points /\ Newest(W) \in Points
    BY <1>4, BucketFacts, NewestFacts
  <2>2. CASE Bucket(l, p) < Newest(V)
    <3>1. p \in V[Bucket(l, p)]
      BY <2>2 DEF ClosedHold
    <3>2. G(Bucket(l, p)) = {}
      BY <1>0, <1>6, <2>1, <2>2 DEF Points
    <3> QED BY <1>4, <2>1, <3>1, <3>2
  <2>3. CASE Bucket(l, p) >= Newest(V)
    <3>1. Newest(W) # 0 /\ Newest(W) > Newest(V)
      BY <1>0, <2>1, <2>3 DEF Points
    <3>2. W[Newest(W)] # {} /\ V[Newest(W)] = {}
      BY <1>0, <1>4, <2>1, <3>1, NewestFacts DEF Points
    <3>3. G(Newest(W)) # {}
      BY <1>4, <2>1, <3>2
    <3>4. PICK s \in Points : src[s] # {} /\ Bucket(l, s) = Newest(W)
      BY <1>1, <2>1, <3>3
    <3>5. PICK x \in Points : p \in src[x]
      BY <2>1, <2>3, <3>4 DEF Points
    <3>6. p \in G(Bucket(l, p))
      BY <1>2, <3>5
    <3> QED BY <1>4, <2>1, <3>6
  <2> QED BY <1>0, <2>1, <2>2, <2>3 DEF Points
<1> QED BY <1>4, <1>5, <1>7 DEF W

(* Buckets that are removed at one end. *)
LEMMA ClearComplete ==
  ASSUME NEW l \in Levels, NEW V \in ViewSet, NEW W \in ViewSet, NEW E, E \subseteq Points,
         InPlace(l, V), ClosedHold(l, V, E), \A b \in Points : W[b] = V[b] \/ W[b] = {},
         \A p \in E : Bucket(l, p) < Newest(W) => W[Bucket(l, p)] = V[Bucket(l, p)]
  PROVE  InPlace(l, W) /\ ClosedHold(l, W, E)
<1>0. MaxPoint \in Nat /\ Newest(V) \in Points /\ Newest(W) \in Points
  BY MatAssumption, NewestFacts
<1>1. Newest(W) <= Newest(V)
  BY <1>0, NewestFacts DEF Points
<1>2. \A p \in E : Bucket(l, p) \in Points
  BY BucketFacts
<1>3. InPlace(l, W)
  BY DEF InPlace
<1>4. ClosedHold(l, W, E)
  BY <1>0, <1>1, <1>2 DEF ClosedHold, Points
<1> QED BY <1>3, <1>4

-----------------------------------------------------------------------------
(* The views of every data set. *)

PurgeKnown == purge \in [level : Nat \ {0}, cutoff : Nat] /\ cutoff \in Nat /\ purge.cutoff <= cutoff

ViewsComplete ==
  /\ native \in [DataSets -> SUBSET Points] /\ lateFor \in [DataSets -> SUBSET Points]
  /\ views \in [DataSets -> [Levels -> ViewSet]] /\ cutoff \in Nat
  /\ \A ds \in DataSets, l \in Levels :
       InPlace(l, views[ds][l]) /\ ClosedHold(l, views[ds][l], Expected(ds, l))

(* Both in terms of one view. *)
LEMMA LatestIsNewest ==
  \A ds \in DataSets, l \in Levels : LatestTimestamp(ds, l) = Newest(views[ds][l])
BY DEF LatestTimestamp, Newest, Documents

LEMMA ViewsCompleteSays == ViewsComplete => ClosedBucketsComplete
BY LatestIsNewest DEF ViewsComplete, ClosedBucketsComplete, ClosedHold, HeldByView

LEMMA ExpectedPoints ==
  ASSUME ViewsComplete, NEW ds \in DataSets, NEW l \in Levels
  PROVE  Expected(ds, l) \subseteq Points
BY DEF ViewsComplete, Expected

LEMMA InsertComplete ==
  ASSUME ViewsComplete, NEW d \in DataSets, NEW p \in Points, InsertSensordata(d, p)
  PROVE  ViewsComplete'
<1>1. /\ native' \in [DataSets -> SUBSET Points] /\ lateFor' \in [DataSets -> SUBSET Points]
      /\ views' = views /\ cutoff' = cutoff
  BY DEF ViewsComplete, InsertSensordata
<1>2. ASSUME NEW ds \in DataSets, NEW l \in Levels
      PROVE  ClosedHold(l, views[ds][l], Expected(ds, l)')
  <2>1. ClosedHold(l, views[ds][l], Expected(ds, l))
    BY DEF ViewsComplete
  <2>2. \A x \in Expected(ds, l)' :
          x \in Expected(ds, l) \/ ~ (Bucket(l, x) < Newest(views[ds][l]))
    <3> SUFFICES ASSUME NEW x \in Expected(ds, l)' PROVE x \in Expected(ds, l) \/ ~ (Bucket(l, x) < Newest(views[ds][l]))
      OBVIOUS
    <3>1. x \in native'[ds] /\ x \notin lateFor'[ds] /\ Bucket(l, x) >= cutoff
      BY <1>1 DEF Expected
    <3>2. CASE x \in native[ds]
      <4>1. x \notin lateFor[ds]
        BY <3>1 DEF InsertSensordata
      <4> QED BY <3>1, <3>2, <4>1 DEF Expected
    <3>3. CASE x \notin native[ds]
      <4>1. x = p /\ ds = d
        BY <3>1, <3>3 DEF InsertSensordata, ViewsComplete
      <4>2. ~ \E m \in Levels : Bucket(m, p) < LatestTimestamp(d, m)
        BY <3>1, <4>1 DEF InsertSensordata, ViewsComplete
      <4> QED BY <4>1, <4>2, LatestIsNewest
    <3> QED BY <3>2, <3>3
  <2> QED BY <2>1, <2>2 DEF ClosedHold
<1> QED BY <1>1, <1>2 DEF ViewsComplete

(* A view that is built from the next finer one, or from the native points. *)
LEMMA MergedComplete ==
  ASSUME ViewsComplete, NEW ds \in DataSets, NEW l \in Levels
  PROVE  /\ Merged(ds, l) \in ViewSet /\ InPlace(l, Merged(ds, l))
         /\ ClosedHold(l, Merged(ds, l), Expected(ds, l))
<1> DEFINE V == views[ds][l]
           E == Expected(ds, l)
           src == Source(ds, l, Newest(V))
<1>0. MaxPoint \in Nat /\ l \in Nat /\ (l # 1 => l - 1 \in Levels)
  BY MatAssumption, Widths
<1>1. V \in ViewSet /\ InPlace(l, V) /\ ClosedHold(l, V, E) /\ E \subseteq Points /\ Newest(V) \in Points
  BY ExpectedPoints, NewestFacts DEF ViewsComplete
<1>2. Merged(ds, l) = Replaced(l, src, V)
  BY LatestIsNewest DEF Merged, Replaced, Grouped
<1>3. \A p \in E : p \in native[ds] /\ p \in Points /\ Bucket(l, p) \in Points /\ Bucket(l, p) <= p
  BY <1>1, BucketFacts DEF Expected
<1>4. CASE l = 1
  <2>1. src = [p \in Points |-> IF p \in native[ds] /\ p >= Newest(V) THEN {p} ELSE {}]
    BY <1>4 DEF Source
  <2> HIDE DEF src, V, E
  <2>2. src \in ViewSet /\ \A s \in Points : src[s] # {} => s >= Newest(V)
    BY <2>1 DEF ViewSet
  <2>3. \A s \in Points : \A p \in src[s] : p = s
    BY <2>1
  <2>4. \A p \in E : Bucket(l, p) >= Newest(V) => p \in src[p]
    BY <1>0, <1>1, <1>3, <2>1 DEF Points
  <2>5. /\ \A s \in Points : \A p \in src[s] : Bucket(l, p) = Bucket(l, s)
        /\ \A p \in E : Bucket(l, p) >= Newest(V) => \E x \in Points : p \in src[x]
    BY <1>3, <2>3, <2>4
  <2> QED BY <1>1, <1>2, <2>2, <2>5, ReplaceComplete DEF E
<1>5. CASE l # 1
  <2> DEFINE F == views[ds][l - 1]
  <2>1. src = [b \in Points |-> IF b >= Newest(V) THEN F[b] ELSE {}]
    BY <1>5 DEF Source
  <2>2. F \in ViewSet /\ InPlace(l - 1, F) /\ ClosedHold(l - 1, F, Expected(ds, l - 1))
    BY <1>0, <1>5 DEF ViewsComplete
  <2>3. \A p \in E : p \in Expected(ds, l - 1)
    <3> SUFFICES ASSUME NEW p \in E PROVE p \in Expected(ds, l - 1)
      OBVIOUS
    <3>1. Bucket(l, p) <= Bucket(l - 1, p) /\ Bucket(l - 1, p) \in Points
      BY <1>0, <1>3, <1>5, BucketNested, BucketFacts
    <3>2. Bucket(l, p) >= cutoff /\ cutoff \in Nat
      BY DEF Expected, ViewsComplete
    <3>3. Bucket(l - 1, p) >= cutoff
      BY <1>0, <1>3, <3>1, <3>2 DEF Points
    <3> QED BY <3>3 DEF Expected
  <2> HIDE DEF src, V, E, F
  <2>4. src \in ViewSet /\ \A s \in Points : src[s] # {} => s >= Newest(V)
    BY <2>1, <2>2 DEF ViewSet
  <2>5. \A s \in Points : \A p \in src[s] : Bucket(l, p) = Bucket(l, s)
    <3> SUFFICES ASSUME NEW s \in Points, NEW p \in src[s] PROVE Bucket(l, p) = Bucket(l, s)
      OBVIOUS
    <3>1. p \in F[s] /\ p \in Points
      BY <2>1, <2>2 DEF ViewSet
    <3>2. Bucket(l - 1, p) = s
      BY <2>2, <3>1 DEF InPlace
    <3> QED BY <1>5, <3>1, <3>2, BucketNested
  <2>6. ASSUME NEW p \in E, NEW s \in Points,
               Bucket(l, p) >= Newest(V), src[s] # {}, Bucket(l, s) > Bucket(l, p)
        PROVE  \E x \in Points : p \in src[x]
    <3>1. F[s] # {}
      BY <2>1, <2>6
    <3>2. p < s
      BY <1>0, <1>3, <2>6, BucketFacts DEF Points
    <3>3. Bucket(l - 1, p) \in Points /\ Bucket(l - 1, p) <= p /\ Bucket(l, p) <= Bucket(l - 1, p)
      BY <1>0, <1>3, <1>5, BucketNested, BucketFacts
    <3>4. s <= Newest(F) /\ Newest(F) \in Points
      BY <2>2, <3>1, NewestFacts
    <3>5. p \in F[Bucket(l - 1, p)]
      <4>1. Bucket(l - 1, p) < Newest(F)
        BY <1>0, <1>3, <3>2, <3>3, <3>4 DEF Points
      <4> QED BY <2>2, <2>3, <4>1 DEF ClosedHold
    <3>6. Bucket(l - 1, p) >= Newest(V)
      BY <1>0, <1>1, <1>3, <2>6, <3>3 DEF Points
    <3>7. p \in src[Bucket(l - 1, p)]
      BY <2>1, <3>3, <3>5, <3>6
    <3> QED BY <3>3, <3>7
  <2> QED BY <1>1, <1>2, <2>4, <2>5, <2>6, ReplaceComplete DEF E
<1> QED BY <1>4, <1>5

LEMMA BuildComplete ==
  ASSUME ViewsComplete, NEW t, t.ds \in DataSets, t.level \in Levels, BuildView(t)
  PROVE  ViewsComplete'
<1>1. views' = [views EXCEPT ![t.ds][t.level] = Merged(t.ds, t.level)] /\ UNCHANGED <<native, lateFor, cutoff>>
  BY DEF BuildView
<1>2. views' \in [DataSets -> [Levels -> ViewSet]]
  BY <1>1, MergedComplete DEF ViewsComplete
<1>3. ASSUME NEW ds \in DataSets, NEW l \in Levels
      PROVE  views'[ds][l] = IF ds = t.ds /\ l = t.level THEN Merged(ds, l) ELSE views[ds][l]
  BY <1>1 DEF ViewsComplete
<1>4. ASSUME NEW ds \in DataSets, NEW l \in Levels
      PROVE  Expected(ds, l)' = Expected(ds, l)
  BY <1>1 DEF Expected
<1>5. ASSUME NEW ds \in DataSets, NEW l \in Levels
      PROVE  InPlace(l, views'[ds][l]) /\ ClosedHold(l, views'[ds][l], Expected(ds, l))
  BY <1>3, MergedComplete DEF ViewsComplete
<1> QED BY <1>1, <1>2, <1>4, <1>5 DEF ViewsComplete

LEMMA ClearedComplete ==
  ASSUME ViewsComplete, NEW d \in DataSets, NEW k \in Levels, NEW from \in Points,
         ClearMaterializedViews(d, k, from)
  PROVE  ViewsComplete'
<1>0. MaxPoint \in Nat
  BY MatAssumption
<1> DEFINE W == [b \in Points |-> IF b >= from THEN {} ELSE views[d][k][b]]
<1>1. views' = [views EXCEPT ![d][k] = W] /\ UNCHANGED <<native, lateFor, cutoff>>
  BY DEF ClearMaterializedViews, ViewsComplete
<1>2. W \in ViewSet
  BY DEF ViewsComplete, ViewSet
<1>3. views' \in [DataSets -> [Levels -> ViewSet]]
  BY <1>1, <1>2 DEF ViewsComplete
<1>4. InPlace(k, W) /\ ClosedHold(k, W, Expected(d, k))
  <2> DEFINE V == views[d][k]
  <2>1. V \in ViewSet /\ InPlace(k, V) /\ ClosedHold(k, V, Expected(d, k)) /\ Expected(d, k) \subseteq Points
    BY ExpectedPoints DEF ViewsComplete
  <2>2. /\ \A b \in Points : W[b] = V[b] \/ W[b] = {}
        /\ \A b \in Points : b < from => W[b] = V[b]
        /\ \A b \in Points : W[b] # {} => b < from
    BY <1>0 DEF Points
  <2> HIDE DEF W, V
  <2>3. \A p \in Expected(d, k) : Bucket(k, p) < Newest(W) => W[Bucket(k, p)] = V[Bucket(k, p)]
    <3> SUFFICES ASSUME NEW p \in Expected(d, k), Bucket(k, p) < Newest(W)
                 PROVE  W[Bucket(k, p)] = V[Bucket(k, p)]
      OBVIOUS
    <3>1. Bucket(k, p) \in Points /\ Newest(W) \in Points
      BY <1>2, <2>1, BucketFacts, NewestFacts
    <3>2. Newest(W) < from
      <4>1. Newest(W) # 0
        BY <1>0, <3>1 DEF Points
      <4> QED BY <1>2, <2>2, <3>1, <4>1, NewestFacts
    <3> QED BY <1>0, <2>2, <3>1, <3>2 DEF Points
  <2> QED BY <1>2, <2>1, <2>2, <2>3, ClearComplete
<1>5. ASSUME NEW ds \in DataSets, NEW l \in Levels
      PROVE  views'[ds][l] = IF ds = d /\ l = k THEN W ELSE views[ds][l]
  BY <1>1 DEF ViewsComplete
<1> HIDE DEF W
<1>6. ASSUME NEW ds \in DataSets, NEW l \in Levels
      PROVE  Expected(ds, l)' = Expected(ds, l)
  BY <1>1 DEF Expected
<1>7. ASSUME NEW ds \in DataSets, NEW l \in Levels
      PROVE  InPlace(l, views'[ds][l]) /\ ClosedHold(l, views'[ds][l], Expected(ds, l))
  BY <1>4, <1>5 DEF ViewsComplete
<1> QED BY <1>1, <1>3, <1>6, <1>7 DEF ViewsComplete

(* The native points go first: fewer points are expected from then on. *)
LEMMA DeleteStartComplete ==
  ASSUME ViewsComplete, PurgeKnown, NEW c \in Points, DeleteOldStart(c)
  PROVE  ViewsComplete' /\ PurgeKnown'
<1>0. MaxPoint \in Nat /\ cutoff \in Nat /\ c \in Nat
  BY MatAssumption DEF PurgeKnown, Points
<1>1. /\ views' = views /\ lateFor' = lateFor /\ cutoff' \in Nat /\ cutoff' >= cutoff /\ c <= cutoff'
      /\ native' = [ds \in DataSets |-> {p \in native[ds] : p >= c}] /\ purge' = [level |-> 1, cutoff |-> c]
  BY <1>0 DEF DeleteOldStart
<1>2. native' \in [DataSets -> SUBSET Points] /\ \A ds \in DataSets : native'[ds] \subseteq native[ds]
  BY <1>1 DEF ViewsComplete
<1>3. ASSUME NEW ds \in DataSets, NEW l \in Levels
      PROVE  Expected(ds, l)' \subseteq Expected(ds, l)
  <2> SUFFICES ASSUME NEW p \in Expected(ds, l)' PROVE p \in Expected(ds, l)
    OBVIOUS
  <2>1. p \in native'[ds] /\ p \notin lateFor[ds] /\ Bucket(l, p) >= cutoff'
    BY <1>1 DEF Expected
  <2>2. p \in native[ds] /\ p \in Points
    BY <1>2, <2>1
  <2>3. Bucket(l, p) \in Nat
    BY <1>0, <2>2, BucketFacts DEF Points
  <2> QED BY <1>0, <1>1, <2>1, <2>2, <2>3 DEF Expected
<1>4. ASSUME NEW ds \in DataSets, NEW l \in Levels
      PROVE  ClosedHold(l, views[ds][l], Expected(ds, l)')
  BY <1>3 DEF ViewsComplete, ClosedHold
<1>5. ViewsComplete'
  BY <1>1, <1>2, <1>4 DEF ViewsComplete
<1>6. PurgeKnown'
  BY <1>0, <1>1 DEF PurgeKnown
<1> QED BY <1>5, <1>6

LEMMA DeleteLevelComplete ==
  ASSUME ViewsComplete, PurgeKnown, DeleteOldLevel
  PROVE  ViewsComplete' /\ PurgeKnown'
<1>0. MaxPoint \in Nat /\ cutoff \in Nat /\ purge.level \in Levels /\ purge.cutoff \in Nat /\ NLevels \in Nat
  BY MatAssumption, Widths DEF PurgeKnown, DeleteOldLevel, Levels
<1> DEFINE k == purge.level
           W(ds) == [b \in Points |-> IF b < purge.cutoff THEN {} ELSE views[ds][k][b]]
<1>1. /\ views' = [ds \in DataSets |-> [views[ds] EXCEPT ![k] = W(ds)]]
      /\ UNCHANGED <<native, lateFor, cutoff>> /\ purge' = [purge EXCEPT !.level = @ + 1]
  BY <1>0 DEF DeleteOldLevel, ViewsComplete
<1>2. \A ds \in DataSets : W(ds) \in ViewSet
  BY <1>0 DEF ViewsComplete, ViewSet
<1>3. views' \in [DataSets -> [Levels -> ViewSet]]
  BY <1>0, <1>1, <1>2 DEF ViewsComplete
<1>4. ASSUME NEW d \in DataSets
      PROVE  InPlace(k, W(d)) /\ ClosedHold(k, W(d), Expected(d, k))
  <2> DEFINE V == views[d][k]
             U == W(d)
  <2>1. V \in ViewSet /\ InPlace(k, V) /\ ClosedHold(k, V, Expected(d, k)) /\ Expected(d, k) \subseteq Points
    BY <1>0, ExpectedPoints DEF ViewsComplete
  <2>2. /\ \A b \in Points : U[b] = V[b] \/ U[b] = {}
        /\ \A b \in Points : b >= purge.cutoff => U[b] = V[b]
    BY <1>0 DEF Points
  <2>2a. U \in ViewSet
    BY <1>2
  <2> HIDE DEF W, V, U
  <2>3. \A p \in Expected(d, k) : U[Bucket(k, p)] = V[Bucket(k, p)]
    <3> SUFFICES ASSUME NEW p \in Expected(d, k) PROVE U[Bucket(k, p)] = V[Bucket(k, p)]
      OBVIOUS
    <3>1. Bucket(k, p) \in Points /\ Bucket(k, p) >= cutoff
      BY <1>0, <2>1, BucketFacts DEF Expected
    <3>2. Bucket(k, p) >= purge.cutoff
      BY <1>0, <3>1 DEF PurgeKnown, Points
    <3> QED BY <2>2, <3>1, <3>2
  <2>4. InPlace(k, U) /\ ClosedHold(k, U, Expected(d, k))
    BY <1>0, <2>1, <2>2, <2>2a, <2>3, ClearComplete
  <2> QED BY <2>4 DEF U
<1>5. ASSUME NEW ds \in DataSets, NEW l \in Levels
      PROVE  views'[ds][l] = IF l = k THEN W(ds) ELSE views[ds][l]
  BY <1>0, <1>1 DEF ViewsComplete
<1> HIDE DEF W
<1>6. ASSUME NEW ds \in DataSets, NEW l \in Levels
      PROVE  Expected(ds, l)' = Expected(ds, l)
  BY <1>1 DEF Expected
<1>7. ASSUME NEW ds \in DataSets, NEW l \in Levels
      PROVE  InPlace(l, views'[ds][l]) /\ ClosedHold(l, views'[ds][l], Expected(ds, l))
  BY <1>4, <1>5 DEF ViewsComplete
<1>8. ViewsComplete'
  BY <1>1, <1>3, <1>6, <1>7 DEF ViewsComplete
<1>9. PurgeKnown'
  BY <1>0, <1>1 DEF PurgeKnown
<1> QED BY <1>8, <1>9

-----------------------------------------------------------------------------
(* The queue and the jobs. *)

QueueStates ==
  [known : BOOLEAN, start : Nat, processed : Nat, received : Nat, in_progress : BOOLEAN]
ViewJobs ==
  [ds : DataSets, step : {"build", "drop", "report"}, level : Levels, failed : BOOLEAN, n : {0}]

Busy(ds) == queue[ds].known /\ queue[ds].in_progress

(* A data set that is being processed has one job, or one message that the job is done. *)
JobsApart ==
  /\ now \in Nat /\ queue \in [DataSets -> QueueStates] /\ jobs \in Seq(DataSets)
  /\ tasks \subseteq ViewJobs /\ feedback \in Seq(DataSets)
  /\ \A t \in tasks : Busy(t.ds)
  /\ \A t, u \in tasks : t.ds = u.ds => t = u
  /\ \A i \in DOMAIN feedback : Busy(feedback[i]) /\ \A t \in tasks : t.ds # feedback[i]
  /\ \A i, j \in DOMAIN feedback : feedback[i] = feedback[j] => i = j

LEMMA JobsApartSays == JobsApart => OneJobPerDataSet
BY DEF JobsApart, OneJobPerDataSet

(* Whatever leaves the jobs alone and the busy data sets busy. *)
LEMMA QueueKept ==
  ASSUME JobsApart, now' \in Nat, queue' \in [DataSets -> QueueStates], jobs' \in Seq(DataSets),
         UNCHANGED <<tasks, feedback>>, \A ds \in DataSets : Busy(ds) => Busy(ds)'
  PROVE  JobsApart'
<1>1. \A t \in tasks : t.ds \in DataSets
  BY DEF JobsApart, ViewJobs
<1>2. \A i \in DOMAIN feedback : feedback[i] \in DataSets
  BY DEF JobsApart
<1>3. \A t \in tasks : Busy(t.ds)'
  BY <1>1 DEF JobsApart
<1>4. \A i \in DOMAIN feedback : Busy(feedback[i])'
  BY <1>2 DEF JobsApart
<1> QED BY <1>3, <1>4 DEF JobsApart, Busy

LEMMA StaleKept ==
  ASSUME JobsApart
  PROVE  /\ WithoutStale \in [DataSets -> QueueStates]
         /\ \A ds \in DataSets : ds \notin Stale => WithoutStale[ds] = queue[ds]
         /\ \A ds \in DataSets : Busy(ds) \/ ds \in WaitingSets => ds \notin Stale
<1>1. Unknown \in QueueStates
  BY DEF Unknown, QueueStates
<1>2. \A ds \in DataSets : queue[ds] \in QueueStates
  BY DEF JobsApart
<1>3. WithoutStale \in [DataSets -> QueueStates]
  BY <1>1, <1>2 DEF WithoutStale
<1>4. \A ds \in DataSets : ds \notin Stale => WithoutStale[ds] = queue[ds]
  BY DEF WithoutStale
<1>5. \A ds \in DataSets : Busy(ds) \/ ds \in WaitingSets => ds \notin Stale
  BY DEF Busy, WaitingSets, Stale
<1> QED BY <1>3, <1>4, <1>5

LEMMA ReceivedKept ==
  ASSUME NEW s \in QueueStates, now \in Nat
  PROVE  /\ LastReceived(s) \in QueueStates
         /\ s.known /\ s.in_progress => LastReceived(s).known /\ LastReceived(s).in_progress
BY DEF LastReceived, QueueStates

(* One job moves on. *)
LEMMA JobKept ==
  ASSUME JobsApart, NEW t \in tasks, NEW u \in ViewJobs, u.ds = t.ds, tasks' = (tasks \ {t}) \cup {u},
         UNCHANGED <<now, queue, jobs, feedback>>
  PROVE  JobsApart'
<1>1. tasks' \subseteq ViewJobs
  BY DEF JobsApart
<1>2. \A x \in tasks' : Busy(x.ds)
  BY DEF JobsApart
<1>3. \A x, y \in tasks' : x.ds = y.ds => x = y
  BY DEF JobsApart
<1>4. \A i \in DOMAIN feedback : \A x \in tasks' : x.ds # feedback[i]
  BY DEF JobsApart
<1> QED BY <1>1, <1>2, <1>3, <1>4 DEF JobsApart, Busy

LEMMA SpawnKept ==
  ASSUME JobsApart, NEW ds \in DataSets, Spawn(ds)
  PROVE  JobsApart'
<1>0. ds \in WaitingSets /\ ~Busy(ds)
  BY DEF Spawn, WaitingSets, Busy
<1>1. {t \in tasks : t.ds = ds} = {}
  BY <1>0 DEF JobsApart
<1>2. Cardinality({t \in tasks : t.ds = ds}) = 0
  BY <1>1, FS_EmptySet
<1>3. PICK u \in ViewJobs : u.ds = ds /\ tasks' = tasks \cup {u}
  <2>1. 1 \in Levels
    BY MatAssumption DEF Levels, NLevels
  <2>2. [ds |-> ds, step |-> "build", level |-> 1, failed |-> FALSE, n |-> 0] \in ViewJobs
    BY <2>1 DEF ViewJobs
  <2> QED BY <1>2, <2>2 DEF Spawn
<1>4. UNCHANGED <<now, jobs, feedback>>
  BY DEF Spawn
<1>5. queue' = [WithoutStale EXCEPT ![ds].in_progress = TRUE, ![ds].processed = now]
  BY DEF Spawn
<1>6. WithoutStale[ds] = queue[ds] /\ queue[ds] \in QueueStates /\ queue[ds].known
  BY <1>0, StaleKept DEF JobsApart, WaitingSets
<1>7. queue' \in [DataSets -> QueueStates] /\ Busy(ds)'
      /\ \A x \in DataSets : x # ds => queue'[x] = WithoutStale[x]
  BY <1>5, <1>6, StaleKept DEF JobsApart, QueueStates, Busy
<1>8. \A x \in DataSets : Busy(x) => Busy(x)'
  BY <1>0, <1>7, StaleKept DEF Busy
<1>9. \A t \in tasks : t.ds \in DataSets /\ t.ds # ds
  BY <1>1 DEF JobsApart, ViewJobs
<1>10. \A i \in DOMAIN feedback : feedback[i] \in DataSets /\ feedback[i] # ds
  BY <1>0 DEF JobsApart
<1>11. \A t \in tasks' : Busy(t.ds)'
  BY <1>3, <1>7, <1>8, <1>9 DEF JobsApart
<1>12. \A t, u_1 \in tasks' : t.ds = u_1.ds => t = u_1
  BY <1>3, <1>9 DEF JobsApart
<1>13. \A i \in DOMAIN feedback : Busy(feedback[i])' /\ \A t \in tasks' : t.ds # feedback[i]
  BY <1>3, <1>4, <1>8, <1>10 DEF JobsApart
<1> QED BY <1>3, <1>4, <1>7, <1>11, <1>12, <1>13 DEF JobsApart

(* mark_done: nothing else is known of the data set. *)
LEMMA DoneKept ==
  ASSUME JobsApart, ReceiveFeedback
  PROVE  JobsApart'
<1>1. feedback \in Seq(DataSets) /\ feedback # <<>> /\ feedback' = Tail(feedback) /\ UNCHANGED <<now, jobs, tasks>>
  BY DEF JobsApart, ReceiveFeedback
<1>2. /\ Head(feedback) \in DataSets /\ Head(feedback) = feedback[1] /\ 1 \in DOMAIN feedback
      /\ feedback' \in Seq(DataSets)
      /\ \A i \in DOMAIN feedback' : i + 1 \in DOMAIN feedback /\ i + 1 > 1 /\ feedback'[i] = feedback[i + 1]
      /\ DOMAIN feedback' \subseteq Nat
  BY <1>1, TailFacts
<1> DEFINE d == Head(feedback)
<1>3. queue' \in [DataSets -> QueueStates] /\ \A ds \in DataSets : ds # d => queue'[ds] = queue[ds]
  <2>1. queue[d] \in QueueStates /\ queue \in [DataSets -> QueueStates]
    BY <1>2 DEF JobsApart
  <2>2. [queue[d] EXCEPT !.in_progress = FALSE] \in QueueStates
    BY <2>1 DEF QueueStates
  <2>3. queue' = [queue EXCEPT ![d] = [queue[d] EXCEPT !.in_progress = FALSE]]
    BY DEF ReceiveFeedback
  <2> QED BY <1>2, <2>1, <2>2, <2>3
<1>4. \A t \in tasks : t.ds \in DataSets /\ t.ds # d
  BY <1>2 DEF JobsApart, ViewJobs
<1>5. \A i \in DOMAIN feedback' : feedback'[i] \in DataSets /\ feedback'[i] # d
  BY <1>2 DEF JobsApart
<1>6. \A t \in tasks : Busy(t.ds)'
  BY <1>3, <1>4 DEF JobsApart, Busy
<1>7. \A i \in DOMAIN feedback' : /\ queue'[feedback'[i]].known /\ queue'[feedback'[i]].in_progress
                                  /\ \A t \in tasks : t.ds # feedback'[i]
  <2> SUFFICES ASSUME NEW i \in DOMAIN feedback'
               PROVE  /\ queue'[feedback'[i]].known /\ queue'[feedback'[i]].in_progress
                      /\ \A t \in tasks : t.ds # feedback'[i]
    OBVIOUS
  <2>1. Busy(feedback[i + 1]) /\ (\A t \in tasks : t.ds # feedback[i + 1]) /\ feedback'[i] = feedback[i + 1]
    BY <1>2 DEF JobsApart
  <2> QED BY <1>3, <1>5, <2>1 DEF Busy
<1>8. \A i, j \in DOMAIN feedback' : feedback'[i] = feedback'[j] => i = j
  BY <1>2 DEF JobsApart
<1> QED BY <1>1, <1>2, <1>3, <1>6, <1>7, <1>8 DEF JobsApart, Busy

LEMMA ReportKept ==
  ASSUME JobsApart, NEW t \in tasks, SendFeedback(t)
  PROVE  JobsApart'
<1>1. tasks' = tasks \ {t} /\ UNCHANGED <<now, queue, jobs>> /\ t \in ViewJobs /\ t.ds \in DataSets
  BY DEF SendFeedback, JobsApart, ViewJobs
<1>2. \A u \in tasks' : u \in tasks /\ u.ds # t.ds
  BY <1>1 DEF JobsApart
<1>3. CASE feedback' = feedback
  BY <1>1, <1>2, <1>3 DEF JobsApart, Busy
<1>4. CASE feedback' = Append(feedback, t.ds)
  <2>1. /\ feedback' \in Seq(DataSets) /\ Len(feedback) \in Nat
        /\ feedback'[Len(feedback) + 1] = t.ds
        /\ \A i \in DOMAIN feedback : i <= Len(feedback) /\ feedback'[i] = feedback[i]
        /\ \A i \in DOMAIN feedback' : i = Len(feedback) + 1 \/ i \in DOMAIN feedback
    BY <1>1, <1>4, AppendFacts DEF JobsApart
  <2>2. \A i \in DOMAIN feedback : feedback[i] # t.ds
    BY DEF JobsApart
  <2>3. \A i \in DOMAIN feedback' : Busy(feedback'[i]) /\ \A u \in tasks' : u.ds # feedback'[i]
    BY <1>2, <2>1 DEF JobsApart
  <2>4. \A i, j \in DOMAIN feedback' : feedback'[i] = feedback'[j] => i = j
    BY <2>1, <2>2 DEF JobsApart
  <2> QED BY <1>1, <1>2, <2>1, <2>3, <2>4 DEF JobsApart, Busy
<1> QED BY <1>3, <1>4 DEF SendFeedback

-----------------------------------------------------------------------------
(* The inductive invariant of the views. *)
MatInv == ViewsComplete /\ PurgeKnown /\ JobsApart

LEMMA MatInitHolds == MatInit => MatInv
<1> SUFFICES ASSUME MatInit PROVE MatInv
  OBVIOUS
<1>0. NLevels \in Nat /\ MaxPoint \in Nat /\ StartTime \in Nat
  BY MatAssumption, Widths
<1>1. Empty \in ViewSet /\ \A b \in Points : Empty[b] = {}
  BY DEF Empty, ViewSet
<1>2. views \in [DataSets -> [Levels -> ViewSet]]
  BY <1>1 DEF MatInit
<1>3. \A ds \in DataSets, l \in Levels : views[ds][l] = Empty /\ native[ds] = {}
  BY DEF MatInit
<1>4. \A ds \in DataSets, l \in Levels : InPlace(l, views[ds][l]) /\ ClosedHold(l, views[ds][l], Expected(ds, l))
  BY <1>1, <1>3 DEF InPlace, ClosedHold, Expected
<1>5. ViewsComplete
  BY <1>2, <1>4 DEF MatInit, ViewsComplete
<1>6. PurgeKnown
  BY <1>0 DEF MatInit, PurgeKnown
<1>7. Unknown \in QueueStates
  BY DEF Unknown, QueueStates
<1>8. /\ now \in Nat /\ queue \in [DataSets -> QueueStates] /\ tasks = {} /\ jobs = <<>> /\ feedback = <<>>
  BY <1>0, <1>7 DEF MatInit
<1>9. JobsApart
  BY <1>8 DEF JobsApart
<1> QED BY <1>5, <1>6, <1>9 DEF MatInv

(* Steps that do not touch the collections. *)
LEMMA CollectionsKept ==
  ASSUME MatInv, UNCHANGED <<native, views, lateFor, cutoff, purge>>
  PROVE  ViewsComplete' /\ PurgeKnown'
<1>1. \A ds \in DataSets, l \in Levels : Expected(ds, l)' = Expected(ds, l)
  BY DEF Expected
<1> QED BY <1>1 DEF MatInv, ViewsComplete, PurgeKnown

(* Steps that do not touch the queue. *)
LEMMA JobsKept ==
  ASSUME MatInv, UNCHANGED <<queue, tasks, feedback>>, now' \in Nat, jobs' \in Seq(DataSets)
  PROVE  JobsApart'
<1>1. queue' \in [DataSets -> QueueStates] /\ \A ds \in DataSets : Busy(ds) => Busy(ds)'
  BY DEF MatInv, JobsApart, Busy
<1> QED BY <1>1, QueueKept DEF MatInv

LEMMA MatTaskKeeps == MatInv /\ MatTask => MatInv'
<1> SUFFICES ASSUME MatInv, MatTask PROVE MatInv'
  OBVIOUS
<1>0. now \in Nat /\ jobs \in Seq(DataSets) /\ JobsApart
  BY DEF MatInv, JobsApart
<1>1. UNCHANGED <<native, views, lateFor, cutoff, purge, now>>
  BY DEF MatTask, ReceiveJob, ReceiveFeedback, Sleep, NoPermit, NotReady, BackToSelect, Spawn
<1>2. JobsApart'
  <2>1. CASE ReceiveJob
    <3>1. Head(jobs) \in DataSets /\ jobs' \in Seq(DataSets)
      BY <1>0, <2>1, TailFacts DEF ReceiveJob
    <3>2. queue' = [queue EXCEPT ![Head(jobs)] = LastReceived(queue[Head(jobs)])] /\ UNCHANGED <<tasks, feedback>>
      BY <2>1 DEF ReceiveJob
    <3>3. queue[Head(jobs)] \in QueueStates /\ queue \in [DataSets -> QueueStates]
      BY <1>0, <3>1 DEF JobsApart
    <3>4. queue' \in [DataSets -> QueueStates] /\ \A ds \in DataSets : Busy(ds) => Busy(ds)'
      BY <1>0, <3>1, <3>2, <3>3, ReceivedKept DEF Busy
    <3> QED BY <1>0, <1>1, <3>1, <3>2, <3>4, QueueKept
  <2>2. CASE ReceiveFeedback
    BY <1>0, <2>2, DoneKept
  <2>3. CASE Sleep \/ NoPermit
    BY <1>0, <1>1, <2>3, JobsKept DEF Sleep, NoPermit, BackToSelect
  <2>4. CASE NotReady
    <3>1. queue' = WithoutStale /\ UNCHANGED <<jobs, tasks, feedback>>
      BY <2>4 DEF NotReady, BackToSelect
    <3>2. queue' \in [DataSets -> QueueStates] /\ \A ds \in DataSets : Busy(ds) => Busy(ds)'
      BY <1>0, <3>1, StaleKept DEF Busy
    <3> QED BY <1>0, <1>1, <3>1, <3>2, QueueKept
  <2>5. ASSUME NEW ds \in DataSets, Spawn(ds) PROVE JobsApart'
    BY <1>0, <2>5, SpawnKept
  <2> QED BY <2>1, <2>2, <2>3, <2>4, <2>5 DEF MatTask
<1> QED BY <1>1, <1>2, CollectionsKept DEF MatInv

LEMMA MatJobKeeps ==
  ASSUME MatInv, NEW t \in tasks, BuildView(t) \/ DropPermit(t) \/ SendFeedback(t) \/ BuildFails(t)
  PROVE  MatInv'
<1>0. JobsApart /\ ViewsComplete /\ PurgeKnown /\ t \in ViewJobs
  BY DEF MatInv, JobsApart
<1>1. t.ds \in DataSets /\ t.level \in Levels
  BY <1>0 DEF ViewJobs
<1>2. CASE BuildView(t)
  <2>1. ViewsComplete'
    BY <1>0, <1>1, <1>2, BuildComplete
  <2>2. PurgeKnown'
    BY <1>0, <1>2 DEF BuildView, PurgeKnown
  <2>3. PICK u : u = [t EXCEPT !.step = IF t.level = NLevels THEN "drop" ELSE @,
                               !.level = IF t.level = NLevels THEN @ ELSE @ + 1]
    OBVIOUS
  <2>4. t.level # NLevels => t.level + 1 \in Levels
    BY <1>1, Widths DEF Levels
  <2>5. u \in ViewJobs /\ u.ds = t.ds
    BY <1>0, <1>1, <2>3, <2>4 DEF ViewJobs
  <2>6. tasks' = (tasks \ {t}) \cup {u} /\ UNCHANGED <<now, queue, jobs, feedback>>
    BY <1>2, <2>3 DEF BuildView
  <2>7. JobsApart'
    BY <1>0, <2>5, <2>6, JobKept
  <2> QED BY <2>1, <2>2, <2>7 DEF MatInv
<1>3. CASE BuildFails(t)
  <2>1. PICK u : u = [t EXCEPT !.step = "drop", !.failed = TRUE]
    OBVIOUS
  <2>2. u \in ViewJobs /\ u.ds = t.ds
    BY <1>0, <2>1 DEF ViewJobs
  <2>3. /\ tasks' = (tasks \ {t}) \cup {u} /\ UNCHANGED <<now, queue, jobs, feedback>>
        /\ UNCHANGED <<native, views, lateFor, cutoff, purge>>
    BY <1>3, <2>1 DEF BuildFails
  <2> QED BY <1>0, <2>2, <2>3, JobKept, CollectionsKept DEF MatInv
<1>4. CASE DropPermit(t)
  <2>1. PICK u : u = [t EXCEPT !.step = "report"]
    OBVIOUS
  <2>2. u \in ViewJobs /\ u.ds = t.ds
    BY <1>0, <2>1 DEF ViewJobs
  <2>3. /\ tasks' = (tasks \ {t}) \cup {u} /\ UNCHANGED <<now, queue, jobs, feedback>>
        /\ UNCHANGED <<native, views, lateFor, cutoff, purge>>
    BY <1>4, <2>1 DEF DropPermit
  <2> QED BY <1>0, <2>2, <2>3, JobKept, CollectionsKept DEF MatInv
<1>5. CASE SendFeedback(t)
  <2>1. UNCHANGED <<native, views, lateFor, cutoff, purge>>
    BY <1>5 DEF SendFeedback
  <2> QED BY <1>0, <1>5, <2>1, ReportKept, CollectionsKept DEF MatInv
<1> QED BY <1>2, <1>3, <1>4, <1>5

LEMMA MatStepKeeps == MatInv /\ [MatNext]_matVars => MatInv'
<1> SUFFICES ASSUME MatInv, [MatNext]_matVars PROVE MatInv'
  OBVIOUS
<1>0. now \in Nat /\ jobs \in Seq(DataSets) /\ ViewsComplete /\ PurgeKnown
  BY DEF MatInv, JobsApart
<1>1. CASE MatTask
  BY <1>1, MatTaskKeeps
<1>2. CASE MatJob \/ \E t \in tasks : BuildFails(t)
  BY <1>2, MatJobKeeps DEF MatJob
<1>3. CASE MatSend \/ Tick \/ StopViews \/ UNCHANGED matVars
  <2>1. UNCHANGED <<native, views, lateFor, cutoff, purge, queue, tasks, feedback>>
    BY <1>3 DEF MatSend, SendJob, Tick, StopViews, matVars
  <2>2. now' \in Nat /\ jobs' \in Seq(DataSets)
    BY <1>0, <1>3, AppendFacts DEF MatSend, SendJob, Tick, StopViews, matVars
  <2> QED BY <2>1, <2>2, JobsKept, CollectionsKept DEF MatInv
<1>4. CASE DeleteOldLevel
  <2>1. UNCHANGED <<now, jobs, queue, tasks, feedback>>
    BY <1>4 DEF DeleteOldLevel
  <2> QED BY <1>0, <1>4, <2>1, DeleteLevelComplete, JobsKept DEF MatInv
<1>5. ASSUME NEW ds \in DataSets, NEW p \in Points, InsertSensordata(ds, p) PROVE MatInv'
  <2>1. UNCHANGED <<now, jobs, queue, tasks, feedback, purge, cutoff>>
    BY <1>5 DEF InsertSensordata
  <2>2. ViewsComplete' /\ PurgeKnown'
    BY <1>0, <1>5, <2>1, InsertComplete DEF PurgeKnown
  <2> QED BY <1>0, <2>1, <2>2, JobsKept DEF MatInv
<1>6. ASSUME NEW ds \in DataSets, NEW l \in Levels, NEW p \in Points, ClearMaterializedViews(ds, l, p) PROVE MatInv'
  <2>1. UNCHANGED <<now, jobs, queue, tasks, feedback, purge, cutoff>>
    BY <1>6 DEF ClearMaterializedViews
  <2>2. ViewsComplete' /\ PurgeKnown'
    BY <1>0, <1>6, <2>1, ClearedComplete DEF PurgeKnown
  <2> QED BY <1>0, <2>1, <2>2, JobsKept DEF MatInv
<1>7. ASSUME NEW c \in Points \ {0}, DeleteOldStart(c) PROVE MatInv'
  <2>1. UNCHANGED <<now, jobs, queue, tasks, feedback>>
    BY <1>7 DEF DeleteOldStart
  <2> QED BY <1>0, <1>7, <2>1, DeleteStartComplete, JobsKept DEF MatInv
<1> QED BY <1>1, <1>2, <1>3, <1>4, <1>5, <1>6, <1>7 DEF MatNext

(* update_materialized_views and the task that drives it: for every set of resolutions, data    *)
(* sets and points, a bucket before the newest of its view holds every point that it can be     *)
(* expected to, and a data set has one job that builds, although points arrive, jobs fail half  *)
(* way, views are cleared and old data is deleted between any two steps.                        *)
THEOREM ViewsStayComplete == MatSpec => [](ClosedBucketsComplete /\ OneJobPerDataSet)
<1>1. MatInv => ClosedBucketsComplete /\ OneJobPerDataSet
  BY ViewsCompleteSays, JobsApartSays DEF MatInv
<1> QED
  BY <1>1, MatInitHolds, MatStepKeeps, PTL DEF MatSpec

-----------------------------------------------------------------------------
(* mongodb.rs, write_data_export: what the rows show of the first channel. *)

Rows == [Channels -> Times \cup {"NaN"}]

Cursors ==
  [from : Nat, chunk_duration : Nat, todo : SUBSET Channels, channel : Channels, count : Nat,
   batch : [Channels -> Seq(Times)]]

Querying == xpc \in {"count", "find", "write"}
Writing == xpc \in {"chunk", "size"} \/ Querying

Shown(t) == \E i \in 1 .. Len(rows) : rows[i][FirstChannel] = t

ExportTypes ==
  /\ samples \in [Channels -> SUBSET Times] /\ before \in SUBSET Times
  /\ cursor \in Cursors /\ rows \in Seq(Rows)
  /\ xpc \in {"idle", "chunk", "count", "find", "write", "size"}

(* The samples up to the place that the export has come to are in the rows, in order, and the *)
(* rows have nothing else.                                                                    *)
RowsComplete ==
  /\ cursor.from <= Until
  /\ Querying => cursor.from < Until
  /\ xpc = "size" => cursor.from = Until
  /\ \A t \in before : t \in samples[FirstChannel] /\ t >= From /\ t <= Until
  /\ \A i \in 1 .. Len(rows) : rows[i][FirstChannel] \in Times
  /\ cursor.from < Until => \A i \in 1 .. Len(rows) : rows[i][FirstChannel] < cursor.from
  /\ \A i, j \in 1 .. Len(rows) : i < j => rows[i][FirstChannel] < rows[j][FirstChannel]
  /\ ~cut => \A t \in before : (t < cursor.from \/ cursor.from = Until) => Shown(t)

(* A batch of the first channel has the samples of its chunk, in order. *)
BatchComplete(b) ==
  /\ \A i \in 1 .. Len(b) : InRange(b[i])
  /\ \A i, j \in 1 .. Len(b) : i < j => b[i] < b[j]
  /\ ~cut => \A t \in before : InRange(t) => \E i \in 1 .. Len(b) : b[i] = t

QueryState ==
  /\ xpc \in {"count", "find"} => cursor.channel \in cursor.todo
  /\ xpc = "write" => cursor.todo = {}
  /\ FirstChannel \notin cursor.todo => BatchComplete(cursor.batch[FirstChannel])

ExportInv ==
  /\ ExportTypes
  /\ Writing => RowsComplete
  /\ Querying => QueryState

LEMMA ExportInvSays == ExportInv => ExportHasAll
<1> SUFFICES ASSUME ExportInv, xpc = "size", ~cut
             PROVE  LET times == [i \in 1 .. Len(rows) |-> rows[i][FirstChannel]]
                    IN  /\ before \subseteq {times[i] : i \in 1 .. Len(rows)}
                        /\ \A i \in 1 .. (Len(rows) - 1) : times[i] < times[i + 1]
  BY DEF ExportHasAll
<1> DEFINE times == [i \in 1 .. Len(rows) |-> rows[i][FirstChannel]]
<1>0. RowsComplete /\ Len(rows) \in Nat
  BY DEF ExportInv, ExportTypes, Writing
<1>1. \A i \in 1 .. Len(rows) : times[i] = rows[i][FirstChannel]
  OBVIOUS
<1>2. \A t \in before : Shown(t)
  BY <1>0 DEF RowsComplete
<1>3. before \subseteq {times[i] : i \in 1 .. Len(rows)}
  BY <1>1, <1>2 DEF Shown
<1>4. \A i \in 1 .. (Len(rows) - 1) : i \in 1 .. Len(rows) /\ i + 1 \in 1 .. Len(rows) /\ i < i + 1
  BY <1>0
<1>5. \A i \in 1 .. (Len(rows) - 1) : times[i] < times[i + 1]
  BY <1>0, <1>1, <1>4 DEF RowsComplete
<1> QED BY <1>3, <1>5

LEMMA TimesAreNumbers == From \in Nat /\ Until \in Nat /\ \A t \in Times : t \in Nat
BY ExportAssumption

LEMMA NoCursorType == NoCursor \in Cursors
<1>1. <<>> \in Seq(Times)
  OBVIOUS
<1> QED BY <1>1, ExportAssumption DEF NoCursor, Cursors

LEMMA ExportInitHolds == ExportInit => ExportInv
<1> SUFFICES ASSUME ExportInit PROVE ExportInv
  OBVIOUS
<1>1. samples \in [Channels -> SUBSET Times]
  BY DEF ExportInit
<1>2. ExportTypes
  BY <1>1, NoCursorType DEF ExportInit, ExportTypes
<1> QED BY <1>2 DEF ExportInit, ExportInv, Writing, Querying

(* Steps that leave the writer alone. *)
LEMMA SamplesUploaded ==
  ASSUME ExportInv, NEW t \in Times, Upload(t)
  PROVE  ExportInv'
<1>1. UNCHANGED <<cut, xpc, cursor, rows, before>>
  BY DEF Upload
<1>2. samples' \in [Channels -> SUBSET Times] /\ samples[FirstChannel] \subseteq samples'[FirstChannel]
  BY ExportAssumption DEF ExportInv, ExportTypes, Upload
<1>3. ExportTypes'
  BY <1>1, <1>2 DEF ExportInv, ExportTypes
<1>4. RowsComplete => RowsComplete'
  BY <1>1, <1>2 DEF RowsComplete, Querying, Shown
<1>5. QueryState => QueryState'
  BY <1>1 DEF QueryState, BatchComplete, InRange, ChunkUntil
<1> QED BY <1>1, <1>3, <1>4, <1>5 DEF ExportInv, Writing, Querying

LEMMA OthersKeep ==
  ASSUME ExportInv, UNCHANGED <<samples, cut, xpc, cursor, rows, before>>
  PROVE  ExportInv'
BY DEF ExportInv, ExportTypes, RowsComplete, Querying, Writing, Shown, QueryState, BatchComplete,
       InRange, ChunkUntil

LEMMA CreateKeeps ==
  ASSUME ExportInv, CreateDataExport
  PROVE  ExportInv'
<1>1. cursor' \in Cursors /\ cursor'.from = From
  BY NoCursorType, ExportAssumption DEF CreateDataExport, Cursors
<1>2. rows' = <<>> /\ xpc' = "chunk" /\ samples' = samples /\ before' = {t \in samples[FirstChannel] : t >= From /\ t <= Until}
  BY DEF CreateDataExport
<1>3. samples[FirstChannel] \subseteq Times
  BY ExportAssumption DEF ExportInv, ExportTypes
<1>4. ExportTypes'
  BY <1>1, <1>2, <1>3 DEF ExportInv, ExportTypes
<1>5. RowsComplete'
  <2>0. \A t \in before' : t \in Times /\ t >= From /\ t \in samples[FirstChannel] /\ t <= Until
    BY <1>2, <1>3
  <2>1. \A t \in before' : ~ (t < From)
    BY <2>0, TimesAreNumbers
  <2>2. From < Until /\ From # Until
    BY ExportAssumption
  <2>3. Len(rows') = 0
    BY <1>2
  <2>4. \A i \in 1 .. Len(rows') : FALSE
    BY <2>3
  <2> QED BY <1>1, <1>2, <2>0, <2>1, <2>2, <2>4, ExportAssumption DEF RowsComplete, Querying
<1> QED BY <1>2, <1>4, <1>5 DEF ExportInv, Querying

(* Nothing is known of a batch before the first query of the chunk. *)
LEMMA BeginKeepsRows ==
  ASSUME ExportInv, BeginChunk
  PROVE  ExportInv'
<1>0. xpc = "chunk" /\ cursor.from < Until /\ RowsComplete /\ cursor \in Cursors
  BY DEF BeginChunk, ExportInv, Writing, ExportTypes
<1>1. /\ cursor' \in Cursors /\ cursor'.from = cursor.from /\ cursor'.todo = Channels
      /\ cursor'.channel = FirstChannel
  BY <1>0, ExportAssumption DEF BeginChunk, Cursors
<1>2. xpc' = "count" /\ UNCHANGED <<cut, samples, rows, before>>
  BY DEF BeginChunk
<1>3. ExportTypes'
  BY <1>1, <1>2 DEF ExportInv, ExportTypes
<1>4. RowsComplete'
  BY <1>0, <1>1, <1>2 DEF RowsComplete, Querying, Shown
<1>5. QueryState'
  BY <1>1, <1>2, ExportAssumption DEF QueryState
<1> QED BY <1>2, <1>3, <1>4, <1>5 DEF ExportInv

LEMMA MatchingFacts ==
  ASSUME ExportInv, NEW c \in Channels
  PROVE  Matching(c) \subseteq Times /\ IsFiniteSet(Matching(c)) /\ Cardinality(Matching(c)) \in Nat
<1>1. Matching(c) \in SUBSET Times
  BY DEF Matching, ExportInv, ExportTypes
<1> QED BY <1>1, ExportAssumption, FS_Subset, FS_CardinalityType

LEMMA CountKeeps ==
  ASSUME ExportInv, CountDocuments
  PROVE  ExportInv'
<1>0. xpc = "count" /\ RowsComplete /\ QueryState /\ cursor \in Cursors /\ cursor.channel \in Channels
  BY DEF CountDocuments, ExportInv, Writing, Querying, ExportTypes, Cursors
<1>1. /\ cursor' \in Cursors /\ cursor'.from = cursor.from /\ cursor'.todo = cursor.todo
      /\ cursor'.channel = cursor.channel /\ cursor'.chunk_duration = cursor.chunk_duration
      /\ cursor'.batch = cursor.batch
  BY <1>0, MatchingFacts DEF CountDocuments, Cursors
<1>2. xpc' = "find" /\ UNCHANGED <<cut, samples, rows, before>>
  BY DEF CountDocuments
<1>3. ExportTypes'
  BY <1>1, <1>2 DEF ExportInv, ExportTypes
<1>4. RowsComplete'
  BY <1>0, <1>1, <1>2 DEF RowsComplete, Querying, Shown
<1>5. QueryState'
  BY <1>0, <1>1, <1>2 DEF QueryState, BatchComplete, InRange, ChunkUntil
<1> QED BY <1>2, <1>3, <1>4, <1>5 DEF ExportInv

LEMMA TooMuchKeeps ==
  ASSUME ExportInv, TooMuchData
  PROVE  ExportInv'
<1>0. xpc = "find" /\ RowsComplete /\ cursor \in Cursors
  BY DEF TooMuchData, ExportInv, Writing, Querying, ExportTypes
<1>1. cursor' \in Cursors /\ cursor'.from = cursor.from
  <2>1. cursor.chunk_duration \in Nat
    BY <1>0 DEF Cursors
  <2>2. cursor.chunk_duration \div 2 \in Nat
    BY <2>1
  <2> QED BY <1>0, <2>2, ExportAssumption DEF TooMuchData, Cursors
<1>2. xpc' = "chunk" /\ UNCHANGED <<cut, samples, rows, before>>
  BY DEF TooMuchData
<1>3. ExportTypes'
  BY <1>1, <1>2 DEF ExportInv, ExportTypes
<1>4. RowsComplete'
  BY <1>0, <1>1, <1>2 DEF RowsComplete, Querying, Shown
<1> QED BY <1>2, <1>3, <1>4 DEF ExportInv, Querying

LEMMA GiveUpKeeps ==
  ASSUME ExportInv, GiveUp
  PROVE  ExportInv'
<1>1. xpc' = "idle" /\ cursor' = NoCursor /\ rows' = <<>> /\ UNCHANGED <<cut, samples, before>>
  BY DEF GiveUp
<1>2. ExportTypes'
  BY <1>1, NoCursorType DEF ExportInv, ExportTypes
<1> QED BY <1>1, <1>2 DEF ExportInv, Writing, Querying

(* What a find returns. *)
Found(sorted) == SubSeq(sorted, 1, IF Len(sorted) < LIMIT THEN Len(sorted) ELSE LIMIT)

LEMMA FoundFacts ==
  ASSUME ExportInv, NEW c \in Channels, NEW sorted \in InOrder(Matching(c))
  PROVE  /\ Found(sorted) \in Seq(Times) /\ Len(sorted) \in Nat
         /\ \A i \in 1 .. Len(Found(sorted)) : InRange(Found(sorted)[i])
         /\ \A i, j \in 1 .. Len(Found(sorted)) : i < j => Found(sorted)[i] < Found(sorted)[j]
         /\ Len(sorted) <= LIMIT =>
              \A t \in Matching(c) : \E i \in 1 .. Len(Found(sorted)) : Found(sorted)[i] = t
<1> DEFINE m == IF Len(sorted) < LIMIT THEN Len(sorted) ELSE LIMIT
           found == Found(sorted)
<1>a. found = SubSeq(sorted, 1, m)
  BY DEF Found
<1> HIDE DEF found
<1> DEFINE S == Matching(c)
           n == Cardinality(S)
<1>0. S \subseteq Times /\ n \in Nat /\ LIMIT \in Nat
  BY MatchingFacts, ExportAssumption
<1>1. /\ sorted \in [1 .. n -> S]
      /\ \A i, j \in 1 .. n : i < j => sorted[i] < sorted[j]
      /\ \A t \in S : \E i \in 1 .. n : sorted[i] = t
  BY DEF InOrder
<1> HIDE DEF S, n
<1>2. Len(sorted) = n
  BY <1>0, <1>1
<1>3. m \in 0 .. n /\ (n <= LIMIT => m = n)
  BY <1>0, <1>2
<1> HIDE DEF m
<1>4. \A i \in 1 .. m : sorted[i] \in S
  BY <1>0, <1>1, <1>3
<1>5. found \in Seq(S) /\ Len(found) = m /\ \A i \in 1 .. m : found[i] = sorted[i]
  <2>1. m \in Int
    BY <1>0, <1>3
  <2>2. found \in Seq(S) /\ Len(found) = (IF 1 <= m THEN m - 1 + 1 ELSE 0) /\ \A i \in 1 .. m - 1 + 1 : found[i] = sorted[1 + i - 1]
    BY <1>a, <1>4, <2>1, SubSeqProperties
  <2> QED BY <1>0, <1>3, <2>2
<1>6. found \in Seq(Times)
  BY <1>0, <1>5, SeqMonotonic
<1>7. \A i \in 1 .. m : i \in 1 .. n
  BY <1>0, <1>3
<1>8. \A i \in 1 .. Len(found) : InRange(found[i])
  BY <1>4, <1>5 DEF S, Matching
<1>9. \A i, j \in 1 .. Len(found) : i < j => found[i] < found[j]
  BY <1>1, <1>5, <1>7
<1>10. Len(sorted) <= LIMIT => \A t \in S : \E i \in 1 .. Len(found) : found[i] = t
  BY <1>1, <1>2, <1>3, <1>5
<1> QED BY <1>0, <1>2, <1>6, <1>8, <1>9, <1>10 DEF S, found

LEMMA FindKeeps ==
  ASSUME ExportInv, FindDocuments
  PROVE  ExportInv'
<1>0. xpc = "find" /\ RowsComplete /\ QueryState /\ cursor \in Cursors /\ cursor.channel \in Channels
      /\ cursor.channel \in cursor.todo /\ cursor.todo \subseteq Channels
  BY DEF FindDocuments, ExportInv, Writing, Querying, ExportTypes, Cursors, QueryState
<1> DEFINE c == cursor.channel
           left == cursor.todo \ {c}
<1>1a. PICK sorted \in InOrder(Matching(c)) :
        /\ cursor' = [cursor EXCEPT !.batch[c] = Found(sorted), !.todo = left,
                                    !.channel = IF left = {} THEN FirstChannel
                                                ELSE CHOOSE x \in left : TRUE]
        /\ xpc' = IF left = {} THEN "write" ELSE "count"
        /\ cut' = (cut \/ Len(sorted) > LIMIT)
  BY DEF FindDocuments, Found
<1>1. PICK found :
        /\ found = Found(sorted)
        /\ cursor' = [cursor EXCEPT !.batch[c] = found, !.todo = left,
                                    !.channel = IF left = {} THEN FirstChannel
                                                ELSE CHOOSE x \in left : TRUE]
        /\ xpc' = IF left = {} THEN "write" ELSE "count"
        /\ cut' = (cut \/ Len(sorted) > LIMIT)
  BY <1>1a
<1>2. /\ found \in Seq(Times) /\ Len(sorted) \in Nat
      /\ \A i \in 1 .. Len(found) : InRange(found[i])
      /\ \A i, j \in 1 .. Len(found) : i < j => found[i] < found[j]
      /\ Len(sorted) <= LIMIT => \A t \in Matching(c) : \E i \in 1 .. Len(found) : found[i] = t
  BY <1>0, <1>1, FoundFacts
<1>3. UNCHANGED <<samples, rows, before>>
  BY DEF FindDocuments
<1>4. PICK next \in Channels : /\ next = IF left = {} THEN FirstChannel ELSE CHOOSE x \in left : TRUE
                               /\ left # {} => next \in left
  BY <1>0, ExportAssumption
<1>5. /\ cursor' \in Cursors /\ cursor'.from = cursor.from /\ cursor'.todo = left
      /\ cursor'.channel = next /\ cursor'.chunk_duration = cursor.chunk_duration
      /\ cursor'.batch = [cursor.batch EXCEPT ![c] = found]
  BY <1>0, <1>1, <1>2, <1>4 DEF Cursors
<1>6. ExportTypes'
  BY <1>1, <1>3, <1>5 DEF ExportInv, ExportTypes
<1>7. ~cut' => ~cut /\ Len(sorted) <= LIMIT
  <2>1. ~ (Len(sorted) > LIMIT) => Len(sorted) <= LIMIT
    BY <1>2, ExportAssumption
  <2> QED BY <1>1, <2>1, Zenon
<1>8. RowsComplete'
  <2>1. cursor.from < Until
    BY <1>0 DEF RowsComplete, Querying
  <2>2. xpc' # "size"
    BY <1>1
  <2> QED BY <1>0, <1>3, <1>5, <1>7, <2>1, <2>2 DEF RowsComplete, Shown
<1>9. QueryState'
  <2>1. xpc' \in {"count", "find"} => cursor'.channel \in cursor'.todo
    BY <1>1, <1>4, <1>5
  <2>2. xpc' = "write" => cursor'.todo = {}
    BY <1>1, <1>5
  <2>3. \A t : InRange(t)' <=> InRange(t)
    BY <1>5 DEF InRange, ChunkUntil
  <2>4. ASSUME FirstChannel \notin left PROVE BatchComplete(cursor.batch[FirstChannel])'
    <3>1. CASE c = FirstChannel
      <4>1. cursor'.batch[FirstChannel] = found
        BY <1>0, <1>5, <3>1 DEF Cursors
      <4>2. ~cut' => \A t \in before : InRange(t) => \E i \in 1 .. Len(found) : found[i] = t
        <5>1. \A t \in before : InRange(t) => t \in Matching(c)
          BY <1>0, <3>1 DEF RowsComplete, Matching
        <5> QED BY <1>2, <1>7, <5>1
      <4> QED BY <1>2, <1>3, <2>3, <4>1, <4>2 DEF BatchComplete
    <3>2. CASE c # FirstChannel
      <4>1. cursor'.batch[FirstChannel] = cursor.batch[FirstChannel] /\ FirstChannel \notin cursor.todo
        BY <1>0, <1>5, <2>4, <3>2, ExportAssumption DEF Cursors
      <4>2. BatchComplete(cursor.batch[FirstChannel])
        BY <1>0, <4>1 DEF QueryState
      <4> QED BY <1>3, <1>7, <2>3, <4>1, <4>2 DEF BatchComplete
    <3> QED BY <3>1, <3>2
  <2> QED BY <1>5, <2>1, <2>2, <2>4 DEF QueryState
<1> QED BY <1>6, <1>8, <1>9 DEF ExportInv

(* The rows of a chunk. *)
LEMMA CsvFacts ==
  ASSUME cursor \in Cursors
  PROVE  /\ AsCsv(cursor.batch) \in Seq(Rows)
         /\ Len(AsCsv(cursor.batch)) = Len(cursor.batch[FirstChannel])
         /\ \A i \in 1 .. Len(cursor.batch[FirstChannel]) :
              /\ AsCsv(cursor.batch)[i][FirstChannel] = cursor.batch[FirstChannel][i]
              /\ cursor.batch[FirstChannel][i] \in Times
<1>0. FirstChannel \in Channels
  BY ExportAssumption
<1>1. \A c \in Channels : cursor.batch[c] \in Seq(Times)
  BY DEF Cursors
<1> DEFINE n == Len(cursor.batch[FirstChannel])
           row(i) == [c \in Channels |-> IF i <= Len(cursor.batch[c]) THEN cursor.batch[c][i] ELSE "NaN"]
<1>2. n \in Nat
  BY <1>0, <1>1
<1>3. ASSUME NEW i \in 1 .. n PROVE row(i) \in Rows
  <2>1. ASSUME NEW c \in Channels, i <= Len(cursor.batch[c]) PROVE cursor.batch[c][i] \in Times
    <3>1. i \in Nat /\ i >= 1 /\ Len(cursor.batch[c]) \in Nat
      BY <1>1, <1>2
    <3> QED BY <1>1, <2>1, <3>1
  <2> QED BY <2>1 DEF Rows
<1>4. AsCsv(cursor.batch) = [i \in 1 .. n |-> row(i)]
  BY DEF AsCsv
<1> HIDE DEF row
<1>5. AsCsv(cursor.batch) \in [1 .. n -> Rows]
  BY <1>3, <1>4
<1>6. AsCsv(cursor.batch) \in Seq(Rows) /\ Len(AsCsv(cursor.batch)) = n
  BY <1>2, <1>5
<1>7. \A i \in 1 .. n : row(i)[FirstChannel] = cursor.batch[FirstChannel][i]
  BY <1>0, <1>2 DEF row
<1>8. \A i \in 1 .. n : cursor.batch[FirstChannel][i] \in Times
  BY <1>0, <1>1
<1> QED BY <1>4, <1>6, <1>7, <1>8

LEMMA WriteKeeps ==
  ASSUME ExportInv, WriteChunk
  PROVE  ExportInv'
<1> DEFINE F == FirstChannel
           b == cursor.batch[F]
           A == AsCsv(cursor.batch)
           n == Len(rows)
           m == Len(b)
           until == ChunkUntil
<1>0. xpc = "write" /\ RowsComplete /\ cursor \in Cursors /\ rows \in Seq(Rows) /\ cursor.from < Until
  BY DEF WriteChunk, ExportInv, ExportTypes, Writing, Querying, RowsComplete
<1>1. BatchComplete(b)
  BY <1>0 DEF ExportInv, Querying, QueryState
<1>2. /\ A \in Seq(Rows) /\ Len(A) = m
      /\ \A i \in 1 .. m : A[i][F] = b[i] /\ b[i] \in Times
  BY <1>0, CsvFacts
<1>3. xpc' = "chunk" /\ rows' = rows \o A /\ UNCHANGED <<cut, samples, before>>
  BY DEF WriteChunk
<1>4. cursor.from \in Nat /\ until \in Nat /\ cursor.from <= until /\ until <= Until /\ Until \in Nat
  BY <1>0, TimesAreNumbers DEF Cursors, ChunkUntil
<1>5. cursor' \in Cursors /\ cursor'.from = until
  BY <1>0, <1>4 DEF WriteChunk, Cursors
<1>6. n \in Nat /\ m \in Nat
  <2>1. n \in Nat /\ Len(A) \in Nat
    BY <1>0, <1>2
  <2> QED BY <1>2, <2>1
<1>7. /\ rows' \in Seq(Rows) /\ Len(rows') = n + m
      /\ \A i \in 1 .. n + m : rows'[i] = IF i <= n THEN rows[i] ELSE A[i - n]
  <2> HIDE DEF A
  <2>1. /\ rows \o A \in Seq(Rows) /\ Len(rows \o A) = Len(rows) + Len(A)
        /\ \A i \in 1 .. Len(rows) + Len(A) : (rows \o A)[i] = IF i <= Len(rows) THEN rows[i] ELSE A[i - Len(rows)]
    BY <1>0, <1>2, ConcatProperties
  <2> QED BY <1>2, <1>3, <2>1
<1>8. \A i \in 1 .. n + m : \/ i \in 1 .. n /\ rows'[i][F] = rows[i][F]
                            \/ i > n /\ i - n \in 1 .. m /\ rows'[i][F] = b[i - n]
  <2> HIDE DEF A, n, m, b, F
  <2> SUFFICES ASSUME NEW i \in 1 .. n + m
               PROVE  \/ i \in 1 .. n /\ rows'[i][F] = rows[i][F]
                      \/ i > n /\ i - n \in 1 .. m /\ rows'[i][F] = b[i - n]
    OBVIOUS
  <2>1. CASE i <= n
    <3>1. i \in 1 .. n /\ rows'[i] = rows[i]
      BY <1>6, <1>7, <2>1
    <3> QED BY <3>1
  <2>2. CASE i > n
    <3>1. i - n \in 1 .. m /\ rows'[i] = A[i - n]
      BY <1>6, <1>7, <2>2
    <3> QED BY <1>2, <2>2, <3>1
  <2> QED BY <1>6, <2>1, <2>2
<1>9. /\ \A i \in 1 .. n : rows[i][F] \in Times /\ rows[i][F] \in Nat /\ rows[i][F] < cursor.from
      /\ \A i, j \in 1 .. n : i < j => rows[i][F] < rows[j][F]
  BY <1>0, TimesAreNumbers DEF RowsComplete
<1>10. /\ \A i \in 1 .. m : b[i] \in Times /\ b[i] \in Nat /\ b[i] >= cursor.from /\ (until < Until => b[i] < until)
       /\ \A i, j \in 1 .. m : i < j => b[i] < b[j]
  <2>1. \A i \in 1 .. m : b[i] \in Nat /\ InRange(b[i])
    BY <1>1, <1>2, TimesAreNumbers DEF BatchComplete
  <2>2. \A i \in 1 .. m : b[i] >= cursor.from /\ (until < Until => b[i] < until)
    BY <1>4, <2>1 DEF InRange
  <2> QED BY <1>1, <1>2, <2>1, <2>2 DEF BatchComplete
<1>11. /\ \A i \in 1 .. n : i \in 1 .. n + m /\ rows'[i][F] = rows[i][F]
       /\ \A i \in 1 .. m : n + i \in 1 .. n + m /\ rows'[n + i][F] = b[i]
  <2>1. \A i \in 1 .. n : i \in 1 .. n + m /\ ~ (i > n)
    BY <1>6
  <2>2. \A i \in 1 .. m : n + i \in 1 .. n + m /\ ~ (n + i \in 1 .. n) /\ (n + i) - n = i
    BY <1>6
  <2> QED BY <1>8, <2>1, <2>2
<1> HIDE DEF b, A, n, m, until, F
<1>12. \A i \in 1 .. n + m : rows'[i][F] \in Times
  BY <1>8, <1>9, <1>10
<1>13. until < Until => \A i \in 1 .. n + m : rows'[i][F] < until
  <2> SUFFICES ASSUME until < Until, NEW i \in 1 .. n + m PROVE rows'[i][F] < until
    OBVIOUS
  <2>1. CASE i \in 1 .. n /\ rows'[i][F] = rows[i][F]
    BY <1>4, <1>9, <2>1
  <2>2. CASE i - n \in 1 .. m /\ rows'[i][F] = b[i - n]
    BY <1>10, <2>2
  <2> QED BY <1>8, <2>1, <2>2
<1>14. \A i, j \in 1 .. n + m : i < j => rows'[i][F] < rows'[j][F]
  <2> SUFFICES ASSUME NEW i \in 1 .. n + m, NEW j \in 1 .. n + m, i < j PROVE rows'[i][F] < rows'[j][F]
    OBVIOUS
  <2>1. CASE i \in 1 .. n /\ rows'[i][F] = rows[i][F]
    <3>1. CASE j \in 1 .. n /\ rows'[j][F] = rows[j][F]
      BY <1>9, <2>1, <3>1
    <3>2. CASE j > n /\ j - n \in 1 .. m /\ rows'[j][F] = b[j - n]
      <4>1. rows[i][F] \in Nat /\ rows[i][F] < cursor.from
        BY <1>9, <2>1
      <4>2. b[j - n] \in Nat /\ b[j - n] >= cursor.from
        BY <1>10, <3>2
      <4> QED BY <1>4, <2>1, <3>2, <4>1, <4>2
    <3> QED BY <1>8, <3>1, <3>2
  <2>2. CASE i > n /\ i - n \in 1 .. m /\ rows'[i][F] = b[i - n]
    <3>1. ~ (j \in 1 .. n) /\ i - n < j - n
      BY <1>6, <2>2
    <3>2. j - n \in 1 .. m /\ rows'[j][F] = b[j - n]
      BY <1>8, <3>1
    <3>3. b[i - n] < b[j - n]
      BY <1>10, <2>2, <3>1, <3>2
    <3> QED BY <2>2, <3>2, <3>3
  <2> QED BY <1>8, <2>1, <2>2
<1>15. ASSUME ~cut, NEW t \in before, t < until \/ until = Until
       PROVE  \E i \in 1 .. n + m : rows'[i][F] = t
  <2>0. t \in Nat /\ t <= Until
    BY <1>0, TimesAreNumbers DEF RowsComplete, ExportInv, ExportTypes
  <2>1. CASE t < cursor.from
    <3>1. Shown(t)
      BY <1>0, <1>15, <2>1 DEF RowsComplete
    <3>2. PICK i \in 1 .. n : rows[i][F] = t
      BY <3>1 DEF Shown, n, F
    <3> QED BY <1>11, <3>2
  <2>2. CASE t >= cursor.from
    <3>1. InRange(t)
      BY <1>4, <1>15, <2>0, <2>2 DEF InRange, until
    <3>2. PICK i \in 1 .. m : b[i] = t
      BY <1>1, <1>15, <3>1 DEF BatchComplete, m
    <3> QED BY <1>11, <3>2
  <2> QED BY <1>4, <2>0, <2>1, <2>2
<1>16. ExportTypes'
  BY <1>3, <1>5, <1>7 DEF ExportInv, ExportTypes
<1>17. RowsComplete'
  <2>1. ~Querying'
    BY <1>3 DEF Querying
  <2>2. \A t \in before : t \in samples[F] /\ t >= From /\ t <= Until
    BY <1>0 DEF RowsComplete, F
  <2>3. ~cut => \A t \in before : (t < until \/ until = Until) => Shown(t)'
    BY <1>7, <1>15 DEF Shown, F
  <2> QED BY <1>3, <1>4, <1>5, <1>7, <1>12, <1>13, <1>14, <2>1, <2>2, <2>3 DEF RowsComplete, F
<1> QED BY <1>3, <1>16, <1>17 DEF ExportInv, Querying

LEMMA CloseKeeps ==
  ASSUME ExportInv, CloseUpload
  PROVE  ExportInv'
<1>0. xpc = "chunk" /\ RowsComplete /\ cursor \in Cursors /\ cursor.from >= Until
  BY DEF CloseUpload, ExportInv, ExportTypes, Writing
<1>1. cursor.from = Until
  BY <1>0, TimesAreNumbers DEF RowsComplete, Cursors
<1>2. xpc' = "size" /\ UNCHANGED <<samples, cut, cursor, rows, before>>
  BY DEF CloseUpload
<1>3. ExportTypes'
  BY <1>2 DEF ExportInv, ExportTypes
<1>4. RowsComplete'
  BY <1>0, <1>1, <1>2 DEF RowsComplete, Querying, Shown
<1> QED BY <1>2, <1>3, <1>4 DEF ExportInv, Querying

LEMMA EnterKeeps ==
  ASSUME ExportInv, EnterFile
  PROVE  ExportInv'
<1>1. xpc' = "idle" /\ UNCHANGED <<samples, cut, cursor, rows, before>>
  BY DEF EnterFile
<1>2. ExportTypes'
  BY <1>1 DEF ExportInv, ExportTypes
<1> QED BY <1>1, <1>2 DEF ExportInv, Writing, Querying

LEMMA ExportStepKeeps == ExportInv /\ [ExportNext]_exportVars => ExportInv'
<1> SUFFICES ASSUME ExportInv, [ExportNext]_exportVars PROVE ExportInv'
  OBVIOUS
<1>1. CASE ExportStep
  BY <1>1, BeginKeepsRows, CountKeeps, TooMuchKeeps, FindKeeps, WriteKeeps, CloseKeeps, EnterKeeps,
     GiveUpKeeps DEF ExportStep
<1>2. CASE CreateDataExport
  BY <1>2, CreateKeeps
<1>3. CASE GetDataExport \/ DeleteExportFile \/ DeleteRecord \/ UNCHANGED exportVars
  <2>1. UNCHANGED <<samples, cut, xpc, cursor, rows, before>>
    BY <1>3 DEF GetDataExport, DeleteExportFile, DeleteRecord, exportVars
  <2> QED BY <2>1, OthersKeep
<1>4. ASSUME NEW t \in Times, Upload(t) PROVE ExportInv'
  BY <1>4, SamplesUploaded
<1> QED BY <1>1, <1>2, <1>3, <1>4 DEF ExportNext

-----------------------------------------------------------------------------
(* Files and records of exports, while no query failed and no file was entered too late. *)
FilesKnown ==
  /\ exports \in Nat /\ exportFaults \in Nat
  /\ NoExportFile \notin exportFiles
  /\ record \in [status : {"none", "InProgress", "Error", "Success"}, file : Nat]
  /\ deletion \in [at : {"idle", "file", "record"}, file : Nat]
  /\ xpc # "idle" => exports > 0
  /\ (~erased /\ exportFaults = 0) =>
       /\ xpc \in {"chunk", "count", "find", "write"} =>
            exportFiles = {} /\ record.file = NoExportFile /\ deletion.at # "file"
       /\ xpc = "size" =>
            exportFiles \subseteq {exports} /\ record.file = NoExportFile /\ deletion.at # "file"
       /\ xpc = "idle" =>
            CASE deletion.at = "idle" -> \A f \in exportFiles : record.status # "none" /\ record.file = f
              [] deletion.at = "file" -> exportFiles \subseteq {deletion.file}
              [] deletion.at = "record" -> exportFiles = {}

FilesInv == ExportInv /\ FilesKnown

LEMMA FilesKnownSays == FilesInv => NoFileLeftBehind
BY DEF FilesInv, FilesKnown, NoFileLeftBehind, ExportInv, ExportTypes

LEMMA FilesInit == ExportInit => FilesKnown
BY DEF ExportInit, FilesKnown, NoExportFile

LEMMA FilesStep == FilesInv /\ [ExportNext]_exportVars => FilesKnown'
<1> SUFFICES ASSUME FilesInv, [ExportNext]_exportVars PROVE FilesKnown'
  OBVIOUS
<1>0. FilesKnown /\ xpc \in {"idle", "chunk", "count", "find", "write", "size"}
  BY DEF FilesInv, ExportInv, ExportTypes
<1>1. CASE BeginChunk
  BY <1>0, <1>1 DEF BeginChunk, FilesKnown
<1>2. CASE CountDocuments
  BY <1>0, <1>2 DEF CountDocuments, FilesKnown
<1>3. CASE TooMuchData
  BY <1>0, <1>3 DEF TooMuchData, FilesKnown
<1>4. CASE FindDocuments
  BY <1>0, <1>4 DEF FindDocuments, FilesKnown
<1>5. CASE WriteChunk
  BY <1>0, <1>5 DEF WriteChunk, FilesKnown
<1>6. CASE CloseUpload
  BY <1>0, <1>6 DEF CloseUpload, FilesKnown, NoExportFile
<1>7. CASE EnterFile
  BY <1>0, <1>7 DEF EnterFile, FilesKnown
<1>8. CASE GiveUp
  <2>1. CASE exportFaults' # 0
    <3>1. exportFaults' \in Nat
      BY <1>0, <1>8 DEF GiveUp, FilesKnown
    <3>2. UNCHANGED <<exports, exportFiles, deletion>> /\ xpc' = "idle"
      BY <1>8 DEF GiveUp
    <3>3. record' \in [status : {"none", "InProgress", "Error", "Success"}, file : Nat]
      BY <1>0, <1>8 DEF GiveUp, FilesKnown
    <3> QED BY <1>0, <2>1, <3>1, <3>2, <3>3 DEF FilesKnown
  <2>2. CASE exportFaults' = 0
    <3>1. xpc = "find" /\ UNCHANGED <<exports, exportFiles, deletion, exportFaults, erased>> /\ xpc' = "idle"
      BY <1>0, <1>8, <2>2 DEF GiveUp, FilesKnown
    <3>2. record' \in [status : {"none", "InProgress", "Error", "Success"}, file : Nat]
      BY <1>0, <1>8 DEF GiveUp, FilesKnown
    <3>3. ~erased => exportFiles = {} /\ deletion.at # "file"
      BY <1>0, <2>2, <3>1 DEF FilesKnown
    <3> QED BY <1>0, <3>1, <3>2, <3>3 DEF FilesKnown
  <2> QED BY <2>1, <2>2
<1>9. CASE CreateDataExport
  BY <1>0, <1>9 DEF CreateDataExport, FilesKnown, NoExportFile
<1>10. CASE GetDataExport
  <2>1. UNCHANGED <<exports, exportFaults, exportFiles, record, xpc, erased>> /\ deletion.at = "idle"
    BY <1>10 DEF GetDataExport
  <2>2. deletion' = [at |-> IF record.file = NoExportFile THEN "record" ELSE "file", file |-> record.file]
    BY <1>10 DEF GetDataExport
  <2>3. /\ deletion' \in [at : {"idle", "file", "record"}, file : Nat] /\ deletion'.file = record.file
        /\ deletion'.at = IF record.file = NoExportFile THEN "record" ELSE "file"
    BY <1>0, <2>2 DEF FilesKnown
  <2>4. CASE erased \/ exportFaults # 0
    BY <1>0, <2>1, <2>3, <2>4 DEF FilesKnown
  <2>5. CASE ~erased /\ exportFaults = 0
    <3>1. xpc = "idle" => \A f \in exportFiles : record.file = f
      BY <1>0, <2>1, <2>5 DEF FilesKnown
    <3>2. xpc # "idle" => record.file = NoExportFile
      BY <1>0, <2>5 DEF FilesKnown
    <3> QED BY ZenonT(30), <1>0, <2>1, <2>3, <2>5, <3>1, <3>2 DEF FilesKnown
  <2> QED BY <2>4, <2>5
<1>11. CASE DeleteExportFile
  BY <1>0, <1>11 DEF DeleteExportFile, FilesKnown
<1>12. CASE DeleteRecord
  BY <1>0, <1>12 DEF DeleteRecord, FilesKnown, NoExportFile
<1>13. CASE (\E t \in Times : Upload(t)) \/ UNCHANGED exportVars
  BY <1>0, <1>13 DEF Upload, FilesKnown, exportVars
<1> QED BY <1>1, <1>2, <1>3, <1>4, <1>5, <1>6, <1>7, <1>8, <1>9, <1>10, <1>11, <1>12, <1>13
           DEF ExportNext, ExportStep

(* write_data_export and delete_data_export: for every range, chunk size and limit, a finished  *)
(* file shows the samples of the first channel that were there when the export began, each once *)
(* and in order, and no file is left without a record, whatever is uploaded or deleted between  *)
(* two queries.                                                                                 *)
THEOREM ExportsStayComplete == ExportSpec => [](ExportHasAll /\ NoFileLeftBehind)
<1>1. ExportInit => FilesInv
  BY ExportInitHolds, FilesInit DEF FilesInv
<1>2. FilesInv /\ [ExportNext]_exportVars => FilesInv'
  BY ExportStepKeeps, FilesStep DEF FilesInv
<1>3. FilesInv => ExportHasAll /\ NoFileLeftBehind
  BY ExportInvSays, FilesKnownSays DEF FilesInv
<1> QED
  BY <1>1, <1>2, <1>3, PTL DEF ExportSpec

(* The stored series of the server, views and exports: what the run progress checks of them     *)
(* on a small instance holds for every value of their constants.                                *)
THEOREM SeriesStayComplete == MatSpec /\ ExportSpec => []SeriesAreComplete
<1>1. (ClosedBucketsComplete /\ OneJobPerDataSet) /\ (ExportHasAll /\ NoFileLeftBehind) => SeriesAreComplete
  BY DEF SeriesAreComplete
<1> QED
  BY <1>1, ViewsStayComplete, ExportsStayComplete, PTL

-----------------------------------------------------------------------------
(* Notifications: the mail task and the alarm task.                        *)

(* The sends of the rate limiter are kept oldest first. *)
OldFirst(s) == \A i, j \in 1 .. Len(s) : i < j => s[i] >= s[j]

(* After this wait, so many more sends fit in a window, or it is empty. *)
FitsAfter(w, s, count, wait) ==
  \E k \in 0 .. Len(s) :
    /\ \A i \in 1 .. k : s[i] + wait >= w.window
    /\ Len(s) - k + count <= w.limit \/ k = Len(s)

(* What the mail task knows while it waits: the release that it computed still holds. *)
MailInv ==
  /\ sends \in Seq(Nat) /\ OldFirst(sends) /\ mailQueue \in Seq(Nat)
  /\ mails \in Seq([urgent : BOOLEAN, count : Nat])
  /\ release \in Nat \cup {Off}
  /\ mpc = "select" => (release = Off <=> mailQueue = <<>>)
  /\ (mpc = "select" /\ mailQueue # <<>>) =>
       \A w \in Windows : FitsAfter(w, sends, Head(mailQueue), release)

(* Every set of natural numbers that is not empty has a least element. *)
LEMMA LeastElement ==
  ASSUME NEW S, NEW x \in S, S \subseteq Nat
  PROVE  \E m \in S : \A n \in S : m <= n
<1> DEFINE R == {ss \in Nat \X Nat : ss[1] < ss[2]}
<1>1. IsWellFoundedOn(R, Nat)
  BY NatLessThanWellFounded DEF OpToRel
<1> HIDE DEF R
<1>2. PICK m \in S : \A n \in S : ~ (<<n, m>> \in R)
  BY <1>1, WFMin
<1>3. \A n \in S : ~ (n < m)
  BY <1>2 DEF R
<1> QED
  BY <1>3

LEMMA WindowsType ==
  ASSUME NEW w \in Windows
  PROVE  w.window \in Nat /\ w.window <= DAY /\ w.limit \in Nat
BY MailAssumption DEF Windows

(* The partition point is where it should be, in any sequence. *)
LEMMA PartitionPointIs ==
  ASSUME NEW s \in Seq(Nat), NEW age \in Nat
  PROVE  LET k == PartitionPoint(s, age) IN
         /\ k \in 0 .. Len(s)
         /\ \A i \in 1 .. k : s[i] >= age
         /\ k = Len(s) \/ s[k + 1] < age
<1> DEFINE T == {k \in 0 .. Len(s) : k = Len(s) \/ s[k + 1] < age}
<1>1. T \in SUBSET Nat /\ Len(s) \in T
  OBVIOUS
<1>2. PICK k \in T : \A m \in T : k <= m
  <2> HIDE DEF T
  <2> QED
    BY <1>1, LeastElement
<1>3. \A i \in 1 .. k : s[i] >= age
  <2> SUFFICES ASSUME NEW i \in 1 .. k PROVE s[i] >= age
    OBVIOUS
  <2>0. k \in 0 .. Len(s) /\ k \in Nat /\ Len(s) \in Nat
    BY <1>2
  <2>1. i - 1 \in 0 .. Len(s) /\ i \in 1 .. Len(s) /\ i - 1 \notin T
    <3>1. i - 1 \in 0 .. Len(s) /\ i \in 1 .. Len(s) /\ ~(k <= i - 1)
      BY <2>0
    <3> HIDE DEF T
    <3> QED
      BY <3>1, <1>2
  <2>2. ~(s[(i - 1) + 1] < age)
    BY <2>1
  <2>3. (i - 1) + 1 = i /\ s[i] \in Nat
    BY <2>1
  <2> QED
    BY <2>2, <2>3
<1>4. k \in 0 .. Len(s) /\ (k = Len(s) \/ s[k + 1] < age)
  BY <1>2
<1> HIDE DEF T
<1>5. \E kk \in 0 .. Len(s) : (\A i \in 1 .. kk : s[i] >= age) /\ (kk = Len(s) \/ s[kk + 1] < age)
  BY <1>3, <1>4
<1> QED
  BY <1>5 DEF PartitionPoint

(* window_release: after what it returns, or longer, the mail fits. *)
LEMMA WindowReleaseFits ==
  ASSUME MailInv, NEW w \in Windows, NEW count \in Nat
  PROVE  /\ WindowRelease(w, count) \in 0 .. DAY
         /\ \A wait \in Nat : wait >= WindowRelease(w, count) => FitsAfter(w, sends, count, wait)
<1> DEFINE p == PartitionPoint(sends, w.window)
           in == InWindow(w)
           must == IF in + count - w.limit < in THEN in + count - w.limit ELSE in
<1>1. sends \in Seq(Nat) /\ w.window \in Nat /\ w.window <= DAY /\ w.limit \in Nat /\ DAY \in Nat
  BY WindowsType, MailAssumption DEF MailInv
<1>2. /\ p \in 0 .. Len(sends)
      /\ \A i \in 1 .. p : sends[i] >= w.window
      /\ p = Len(sends) \/ sends[p + 1] < w.window
  BY <1>1, PartitionPointIs
<1>3. in = Len(sends) - p /\ in \in Nat /\ Len(sends) \in Nat /\ Len(sends) - in = p
  BY <1>1, <1>2 DEF InWindow
<1>4. WindowRelease(w, count) =
        IF in + count <= w.limit \/ in = 0 THEN 0 ELSE w.window - sends[p + must]
  BY <1>3 DEF WindowRelease
<1> HIDE DEF in, p
<1>5. CASE in + count <= w.limit \/ in = 0
  <2>1. WindowRelease(w, count) = 0
    BY <1>4, <1>5
  <2>2. \A wait \in Nat : \A i \in 1 .. p : sends[i] + wait >= w.window
    BY <1>1, <1>2
  <2>3. Len(sends) - p + count <= w.limit \/ p = Len(sends)
    BY <1>3, <1>5, <1>2
  <2>4. \A wait \in Nat : FitsAfter(w, sends, count, wait)
    BY <2>2, <2>3, <1>2 DEF FitsAfter
  <2> QED
    BY <2>1, <2>4, <1>1
<1>6. CASE ~(in + count <= w.limit \/ in = 0)
  <2> DEFINE k == p + must
  <2>1. must \in 1 .. in
    BY <1>1, <1>3, <1>6
  <2>2. k \in 1 .. Len(sends) /\ k > p /\ k \in Nat /\ p + 1 \in 1 .. Len(sends)
    BY <2>1, <1>2, <1>3
  <2>3. WindowRelease(w, count) = w.window - sends[k]
    BY <1>4, <1>6
  <2>4. Len(sends) - k + count <= w.limit \/ k = Len(sends)
    BY SMTT(30), <1>1, <1>2, <1>3, <1>6
  <2> HIDE DEF k, must
  <2>5. sends[k] \in Nat /\ sends[k] <= sends[p + 1] /\ sends[p + 1] < w.window /\ sends[p + 1] \in Nat
    <3>1. sends[k] \in Nat /\ sends[p + 1] \in Nat
      BY <2>2, <1>1
    <3>2. k = p + 1 \/ sends[p + 1] >= sends[k]
      BY <2>2, <1>2 DEF MailInv, OldFirst
    <3>3. sends[p + 1] < w.window
      BY <1>2, <2>2
    <3> QED
      BY <3>1, <3>2, <3>3
  <2>6. ASSUME NEW i \in 1 .. k PROVE sends[i] >= sends[k] /\ sends[i] \in Nat
    <3>1. i \in 1 .. Len(sends) /\ sends[i] \in Nat /\ (i = k \/ i < k)
      BY <2>2, <1>1
    <3>2. i = k \/ sends[i] >= sends[k]
      BY <3>1, <2>2 DEF MailInv, OldFirst
    <3> QED
      BY <3>1, <3>2, <2>5
  <2>7. ASSUME NEW wait \in Nat, wait >= WindowRelease(w, count)
        PROVE  FitsAfter(w, sends, count, wait)
    <3>1. \A i \in 1 .. k : sends[i] + wait >= w.window
      BY SMTT(30), <2>7, <2>6, <2>5, <2>3, <1>1
    <3> QED
      BY <3>1, <2>2, <2>4 DEF FitsAfter
  <2> QED
    BY <2>3, <2>5, <2>7, <1>1
<1> QED
  BY <1>5, <1>6

(* next_allowed: the latest of three. *)
LEMMA NextAllowedFits ==
  ASSUME MailInv, NEW count \in Nat
  PROVE  /\ NextAllowed(count) \in Nat
         /\ \A w \in Windows : FitsAfter(w, sends, count, NextAllowed(count))
<1> DEFINE R == {WindowRelease(w, count) : w \in Windows}
           T == {n \in Nat : \E r \in R : n = DAY - r}
<1>1. DAY \in Nat /\ \A w \in Windows : WindowRelease(w, count) \in 0 .. DAY
  BY WindowReleaseFits, MailAssumption
<1>2. [window |-> DAY, limit |-> per_day] \in Windows
  BY DEF Windows
<1>3. DAY - WindowRelease([window |-> DAY, limit |-> per_day], count) \in T
  BY <1>1, <1>2
<1>4. PICK n \in T : \A m \in T : n <= m
  <2>1. T \in SUBSET Nat
    OBVIOUS
  <2> HIDE DEF T
  <2> QED
    BY <1>3, <2>1, LeastElement
<1>5. PICK v \in Windows : n = DAY - WindowRelease(v, count)
  BY <1>4
<1>6. \A w \in Windows : WindowRelease(w, count) <= WindowRelease(v, count)
  <2> SUFFICES ASSUME NEW w \in Windows PROVE WindowRelease(w, count) <= WindowRelease(v, count)
    OBVIOUS
  <2>1. DAY - WindowRelease(w, count) \in T
    BY <1>1
  <2>2. n <= DAY - WindowRelease(w, count)
    BY <2>1, <1>4
  <2> QED
    BY <2>2, <1>5, <1>1
<1>7. \E r \in {WindowRelease(w, count) : w \in Windows} : \A w \in Windows : WindowRelease(w, count) <= r
  BY <1>6
<1>8. /\ NextAllowed(count) \in {WindowRelease(w, count) : w \in Windows}
      /\ \A w \in Windows : WindowRelease(w, count) <= NextAllowed(count)
  BY <1>7 DEF NextAllowed
<1>9. NextAllowed(count) \in Nat
  BY <1>8, <1>1
<1> QED
  BY <1>8, <1>9, WindowReleaseFits

LEMMA MailInitHolds == MailInit => MailInv
BY DEF MailInit, MailInv, OldFirst, Off

(* A mail is recorded at age zero: the order is kept, and no window gets more than it. *)
LEMMA RecordKeepsOrder ==
  ASSUME MailInv, NEW count \in Nat
  PROVE  /\ RecordSends(count) \in Seq(Nat) /\ Len(RecordSends(count)) = Len(sends) + count
         /\ \A i \in 1 .. Len(sends) : RecordSends(count)[i] = sends[i]
         /\ OldFirst(RecordSends(count))
<1> DEFINE z == [i \in 1 .. count |-> 0]
           s == RecordSends(count)
<1>1. z \in Seq(Nat) /\ Len(z) = count /\ sends \in Seq(Nat)
  BY IsASeq DEF MailInv
<1>2. /\ s \in Seq(Nat) /\ Len(s) = Len(sends) + count
      /\ \A i \in 1 .. Len(s) : s[i] = IF i <= Len(sends) THEN sends[i] ELSE z[i - Len(sends)]
  BY <1>1, ConcatProperties DEF RecordSends
<1>3. \A i \in 1 .. Len(sends) : s[i] = sends[i]
  BY <1>1, <1>2
<1>4. ASSUME NEW i \in 1 .. Len(s), NEW j \in 1 .. Len(s), i < j
      PROVE  s[i] >= s[j]
  <2>1. CASE j <= Len(sends)
    <3>1. i \in 1 .. Len(sends) /\ j \in 1 .. Len(sends)
      BY <2>1, <1>4, <1>1
    <3> QED
      BY <3>1, <1>3, <1>4 DEF MailInv, OldFirst
  <2>2. CASE j > Len(sends)
    <3>1. s[j] = 0
      BY <2>2, <1>1, <1>2
    <3>2. s[i] \in Nat
      BY <1>2
    <3> QED
      BY <3>1, <3>2
  <2> QED
    BY <2>1, <2>2, <1>1, <1>2
<1> HIDE DEF s
<1>5. OldFirst(s)
  BY <1>4 DEF OldFirst
<1> QED
  BY <1>2, <1>3, <1>5 DEF s

(* When the release has come, the mail fits in every window now. *)
LEMMA ReleaseIsWithin ==
  ASSUME MailInv, Release
  PROVE  WithinLimits
<1> SUFFICES ASSUME NEW w \in Windows
             PROVE  InWindow(w)' <= w.limit \/ (InWindow(w) = 0 /\ Head(mailQueue) > w.limit)
  BY DEF WithinLimits
<1> DEFINE count == Head(mailQueue)
           p == PartitionPoint(sends, w.window)
           q == PartitionPoint(sends', w.window)
<1>1. /\ mpc = "select" /\ release = 0 /\ mailQueue # <<>> /\ sends' = RecordSends(count)
      /\ sends \in Seq(Nat) /\ count \in Nat
  BY DEF Release, MailInv, Off
<1>2. w.window \in Nat /\ w.limit \in Nat
  BY WindowsType
<1>3. FitsAfter(w, sends, count, 0)
  BY <1>1 DEF MailInv
<1> HIDE DEF count
<1>4. PICK k \in 0 .. Len(sends) : /\ \A i \in 1 .. k : sends[i] + 0 >= w.window
                                   /\ Len(sends) - k + count <= w.limit \/ k = Len(sends)
  BY <1>3 DEF FitsAfter
<1>5. /\ p \in 0 .. Len(sends)
      /\ \A i \in 1 .. p : sends[i] >= w.window
      /\ p = Len(sends) \/ sends[p + 1] < w.window
  BY <1>1, <1>2, PartitionPointIs
<1>6. /\ sends' \in Seq(Nat) /\ Len(sends') = Len(sends) + count
      /\ \A i \in 1 .. Len(sends) : sends'[i] = sends[i]
  BY <1>1, RecordKeepsOrder
<1>7. /\ q \in 0 .. Len(sends')
      /\ q = Len(sends') \/ sends'[q + 1] < w.window
  BY <1>2, <1>6, PartitionPointIs
<1>8. InWindow(w)' = Len(sends') - q /\ InWindow(w) = Len(sends) - p
  BY DEF InWindow
<1> HIDE DEF p, q
<1>9. Len(sends) \in Nat /\ Len(sends') \in Nat
  BY <1>1, <1>6
<1>10. p >= k
  <2> SUFFICES ASSUME p < k PROVE FALSE
    BY <1>4, <1>5, <1>9
  <2>1. p + 1 \in 1 .. k /\ p # Len(sends) /\ sends[p + 1] \in Nat
    BY <1>1, <1>4, <1>5, <1>9
  <2> QED
    BY <2>1, <1>4, <1>5, <1>2
<1>11. q >= p
  <2> SUFFICES ASSUME q < p PROVE FALSE
    BY <1>7, <1>5, <1>9
  <2>1. q + 1 \in 1 .. p /\ q + 1 \in 1 .. Len(sends) /\ q # Len(sends') /\ sends[q + 1] \in Nat
    BY SMTT(30), <1>1, <1>5, <1>6, <1>7, <1>9
  <2>2. sends'[q + 1] = sends[q + 1]
    BY <2>1, <1>6
  <2> QED
    BY <2>1, <2>2, <1>5, <1>7, <1>2
<1>12. CASE Len(sends) - k + count <= w.limit
  BY <1>12, <1>10, <1>11, <1>6, <1>8, <1>9, <1>1, <1>2, <1>4, <1>5, <1>7
<1>13. CASE k = Len(sends)
  <2>1. p = Len(sends) /\ InWindow(w) = 0
    BY <1>13, <1>10, <1>5, <1>8, <1>9
  <2>2. InWindow(w)' <= count
    BY <2>1, <1>11, <1>6, <1>7, <1>8, <1>9, <1>1
  <2>3. InWindow(w)' \in Int
    BY <1>8, <1>7, <1>9
  <2> QED
    BY <2>1, <2>2, <2>3, <1>1, <1>2 DEF count
<1> QED
  BY <1>4, <1>12, <1>13

(* prune takes some of the first elements of a sequence away. *)
LEMMA PruneIs ==
  ASSUME NEW a \in Seq(Nat)
  PROVE  \E p \in 0 .. Len(a) : /\ Prune(a) \in Seq(Nat) /\ Len(Prune(a)) = Len(a) - p
                                /\ \A i \in 1 .. Len(a) - p : Prune(a)[i] = a[p + i]
<1> DEFINE p == PartitionPoint(a, DAY)
<1>1. p \in 0 .. Len(a)
  BY PartitionPointIs, MailAssumption
<1>2. Prune(a) = SubSeq(a, p + 1, Len(a))
  BY DEF Prune
<1> HIDE DEF p
<1>3. SubSeq(a, p + 1, Len(a)) \in Seq(Nat) /\ Len(SubSeq(a, p + 1, Len(a))) = Len(a) - p
  BY <1>1
<1>4. \A i \in 1 .. Len(a) - p : SubSeq(a, p + 1, Len(a))[i] = a[p + i]
  BY <1>1
<1> QED
  BY <1>1, <1>2, <1>3, <1>4

(* What is left when every send has aged by one and some of the oldest are forgotten. *)
AgedFrom(t, s, p) ==
  /\ t \in Seq(Nat) /\ Len(t) = Len(s) - p
  /\ \A i \in 1 .. Len(s) - p : t[i] = s[p + i] + 1

LEMMA PruneKeeps ==
  ASSUME NEW s \in Seq(Nat)
  PROVE  \E p \in 0 .. Len(s) : AgedFrom(Prune([i \in 1 .. Len(s) |-> s[i] + 1]), s, p)
<1> DEFINE a == [i \in 1 .. Len(s) |-> s[i] + 1]
<1>1. Len(s) \in Nat /\ \A i \in 1 .. Len(s) : s[i] + 1 \in Nat
  OBVIOUS
<1>2. a \in Seq(Nat) /\ Len(a) = Len(s) /\ \A i \in 1 .. Len(s) : a[i] = s[i] + 1
  BY <1>1, IsASeq
<1> HIDE DEF a
<1>3. PICK p \in 0 .. Len(a) : /\ Prune(a) \in Seq(Nat) /\ Len(Prune(a)) = Len(a) - p
                               /\ \A i \in 1 .. Len(a) - p : Prune(a)[i] = a[p + i]
  BY <1>2, PruneIs
<1>4. \A i \in 1 .. Len(s) - p : p + i \in 1 .. Len(s)
  BY <1>1, <1>2
<1>5. AgedFrom(Prune(a), s, p)
  BY <1>2, <1>3, <1>4 DEF AgedFrom
<1> QED
  BY <1>2, <1>5 DEF a

LEMMA TickKeepsMail ==
  ASSUME MailInv, MailTick
  PROVE  MailInv'
<1>0. \E p \in 0 .. Len(sends) : AgedFrom(sends', sends, p)
  <2>1. \E p \in 0 .. Len(sends) : AgedFrom(Prune([i \in 1 .. Len(sends) |-> sends[i] + 1]), sends, p)
    BY PruneKeeps DEF MailInv
  <2>2. sends' = Prune([i \in 1 .. Len(sends) |-> sends[i] + 1])
    BY DEF MailTick
  <2> QED
    BY <2>1, <2>2, Zenon
<1>1. PICK p \in 0 .. Len(sends) :
           /\ sends' \in Seq(Nat) /\ Len(sends') = Len(sends) - p
           /\ \A i \in 1 .. Len(sends) - p : sends'[i] = sends[p + i] + 1
  BY <1>0 DEF AgedFrom
<1>2. /\ sends \in Seq(Nat) /\ Len(sends) \in Nat /\ Len(sends') \in Nat
      /\ \A i \in 1 .. Len(sends) : sends[i] \in Nat
  BY <1>1 DEF MailInv
<1>3. ASSUME NEW i \in 1 .. Len(sends'), NEW j \in 1 .. Len(sends'), i < j
      PROVE  sends'[i] >= sends'[j]
  <2>1. p + i \in 1 .. Len(sends) /\ p + j \in 1 .. Len(sends) /\ p + i < p + j
    BY <1>1, <1>2, <1>3
  <2>2. sends[p + i] >= sends[p + j] /\ sends[p + i] \in Nat /\ sends[p + j] \in Nat
    BY <2>1, <1>2 DEF MailInv, OldFirst
  <2> QED
    BY <2>2, <1>1, <1>3
<1>4. OldFirst(sends')
  BY <1>3 DEF OldFirst
<1>5. UNCHANGED <<mails, mailQueue, mpc>> /\ release \in Nat \cup {Off}
  BY DEF MailTick, MailInv
<1>6. release' \in Nat \cup {Off} /\ (release' = Off <=> release = Off)
  BY <1>5 DEF MailTick, Down, Off
<1>7. ASSUME mpc = "select", mailQueue # <<>>, NEW w \in Windows
      PROVE  FitsAfter(w, sends', Head(mailQueue), release')
  <2>0. release \in Nat /\ release # 0 /\ release' = release - 1 /\ release' \in Nat
    BY <1>7, <1>5 DEF MailInv, MailTick, Down
  <2>1. FitsAfter(w, sends, Head(mailQueue), release)
    BY <1>7 DEF MailInv
  <2>2. PICK k \in 0 .. Len(sends) :
          /\ \A i \in 1 .. k : sends[i] + release >= w.window
          /\ Len(sends) - k + Head(mailQueue) <= w.limit \/ k = Len(sends)
    BY <2>1 DEF FitsAfter
  <2>3. w.window \in Nat /\ w.limit \in Nat /\ Head(mailQueue) \in Nat
    BY <1>7, WindowsType DEF MailInv
  <2> DEFINE m == IF k < p THEN 0 ELSE k - p
  <2>4. m \in 0 .. Len(sends')
    BY <1>1, <1>2, <2>2
  <2>5. Len(sends') - m + Head(mailQueue) <= w.limit \/ m = Len(sends')
    BY SMTT(30), <1>1, <1>2, <2>2, <2>3
  <2>6. ASSUME NEW i \in 1 .. m
        PROVE  sends'[i] + release' >= w.window
    <3>1. p + i \in 1 .. k /\ i \in 1 .. Len(sends') /\ p + i \in 1 .. Len(sends)
      BY <1>1, <1>2, <2>2, <2>4, <2>6
    <3>2. sends'[i] = sends[p + i] + 1 /\ sends[p + i] \in Nat /\ sends[p + i] + release >= w.window
      BY <3>1, <1>1, <1>2, <2>2
    <3> QED
      BY <3>2, <2>0, <2>3
  <2> HIDE DEF m
  <2> QED
    BY <2>4, <2>5, <2>6 DEF FitsAfter
<1>8. Windows' = Windows
  OBVIOUS
<1> QED
  BY <1>1, <1>4, <1>5, <1>6, <1>7 DEF MailInv

LEMMA MailStepKeeps ==
  ASSUME MailInv, [MailNext]_mailVars
  PROVE  MailInv'
<1>1. CASE UNCHANGED mailVars
  BY <1>1 DEF MailInv, mailVars
<1>2. CASE MailTick
  BY <1>2, TickKeepsMail
<1>3. CASE LoopHead
  <2>0. UNCHANGED <<mails, mailQueue, sends>> /\ sends \in Seq(Nat) /\ mailQueue \in Seq(Nat)
    BY <1>3 DEF LoopHead, MailInv
  <2>1. CASE mpc' = "exit"
    BY <2>0, <2>1, <1>3 DEF LoopHead, MailInv
  <2>2. CASE mpc' # "exit" /\ mailQueue = <<>>
    BY <2>0, <2>2, <1>3 DEF LoopHead, MailInv, Off
  <2>3. CASE mpc' # "exit" /\ mailQueue # <<>>
    <3>1. Head(mailQueue) \in Nat /\ release' = NextAllowed(Head(mailQueue))
      BY <2>0, <2>3, <1>3 DEF LoopHead
    <3>2. release' \in Nat /\ \A w \in Windows : FitsAfter(w, sends, Head(mailQueue), release')
      BY <3>1, NextAllowedFits
    <3>3. release' # Off
      BY <3>2 DEF Off
    <3> QED
      BY <2>0, <2>3, <3>2, <3>3 DEF MailInv
  <2> QED
    BY <2>1, <2>2, <2>3
<1>4. CASE ReceiveUrgent
  <2>1. mails # <<>> /\ Head(mails).count \in Nat /\ Tail(mails) \in Seq([urgent : BOOLEAN, count : Nat])
    <3>1. mails # <<>> /\ mails \in Seq([urgent : BOOLEAN, count : Nat])
      BY <1>4 DEF ReceiveUrgent, Receiving, MailInv
    <3>2. Head(mails) \in [urgent : BOOLEAN, count : Nat]
      BY <3>1, HeadTailProperties
    <3> QED
      BY <3>1, <3>2
  <2>2. sends' = RecordSends(Head(mails).count) /\ mails' = Tail(mails) /\ mpc' = "sending"
        /\ UNCHANGED <<mailQueue, release>>
    BY <1>4 DEF ReceiveUrgent
  <2>3. sends' \in Seq(Nat) /\ OldFirst(sends')
    BY <2>1, <2>2, RecordKeepsOrder
  <2> QED
    BY <2>1, <2>2, <2>3 DEF MailInv
<1>5. CASE ReceiveBulk
  <2>1. mails # <<>> /\ Head(mails).count \in Nat /\ Tail(mails) \in Seq([urgent : BOOLEAN, count : Nat])
    <3>1. mails # <<>> /\ mails \in Seq([urgent : BOOLEAN, count : Nat])
      BY <1>5 DEF ReceiveBulk, Receiving, MailInv
    <3>2. Head(mails) \in [urgent : BOOLEAN, count : Nat]
      BY <3>1, HeadTailProperties
    <3> QED
      BY <3>1, <3>2
  <2>2. mailQueue' \in Seq(Nat)
    BY <1>5, <2>1 DEF ReceiveBulk, MailInv
  <2>3. mails' = Tail(mails) /\ mpc' = "loop" /\ UNCHANGED <<sends, release>>
    BY <1>5 DEF ReceiveBulk
  <2> QED
    BY <2>1, <2>2, <2>3 DEF MailInv
<1>6. CASE Release
  <2>1. mailQueue # <<>> /\ Head(mailQueue) \in Nat /\ Tail(mailQueue) \in Seq(Nat)
    BY <1>6 DEF Release, MailInv, Off
  <2>2. sends' = RecordSends(Head(mailQueue)) /\ mailQueue' = Tail(mailQueue) /\ mpc' = "sending"
        /\ UNCHANGED <<mails, release>>
    BY <1>6 DEF Release
  <2>3. sends' \in Seq(Nat) /\ OldFirst(sends')
    BY <2>1, <2>2, RecordKeepsOrder
  <2> QED
    BY <2>1, <2>2, <2>3 DEF MailInv
<1>7. CASE GraceExpired
  BY <1>7 DEF GraceExpired, MailInv
<1>8. CASE DrainMail
  BY <1>8 DEF DrainMail, MailInv
<1>9. CASE SendingDone
  BY <1>9 DEF SendingDone, MailInv
<1>10. ASSUME NEW u \in BOOLEAN, NEW c \in Counts, SendMail(u, c)
       PROVE  MailInv'
  <2>1. [urgent |-> u, count |-> c] \in [urgent : BOOLEAN, count : Nat]
    BY MailAssumption
  <2> QED
    BY <1>10, <2>1 DEF SendMail, MailInv
<1> QED
  BY <1>1, <1>2, <1>3, <1>4, <1>5, <1>6, <1>7, <1>8, <1>9, <1>10 DEF MailNext, MailLoop

(* mail_throttle.rs, "without exceeding any of those limits": the mail task releases a queued *)
(* mail only when it fits in every window, whatever urgent mail was sent while it waited.     *)
THEOREM MailStaysWithin == MailSpec => [][WithinLimits]_mailVars
<1>1. MailInit => MailInv
  BY MailInitHolds
<1>2. MailInv /\ [MailNext]_mailVars => MailInv'
  BY MailStepKeeps
<1>3. MailInv /\ [MailNext]_mailVars => [WithinLimits]_mailVars
  BY ReleaseIsWithin DEF WithinLimits
<1> QED
  BY <1>1, <1>2, <1>3, PTL DEF MailSpec

(* An alarm that is shown as sent was told of. *)
SentIsTrue == \A e \in Events : sent[e] = "Sent" => Told(e)

(* The alarm task marks a mail only after it was handed over, and texts come from its events. *)
AlarmInv ==
  /\ sent \in [Events -> {"NotSent", "Sending", "Sent", "Failed"}]
  /\ batch \in Seq(Events) /\ texts \in Seq(SmsEvents) /\ requests \subseteq SmsEvents
  /\ apc = "mark" => (batch # <<>> /\ Head(batch) \in handed \cap EmailEvents)
  /\ apc = "text" => (batch # <<>> /\ Head(batch) \in SmsEvents)
  /\ SentIsTrue

LEMMA PagesAreEvents ==
  ASSUME NEW S \in SUBSET Events, NEW page \in Pages(S)
  PROVE  page \in Seq(Events)
<1>1. IsFiniteSet(Events)
  BY AlarmAssumption, FS_Union DEF Events
<1>2. Cardinality(S) \in Nat
  BY <1>1, FS_Subset, FS_CardinalityType
<1>3. PICK s \in [1 .. Cardinality(S) -> S] :
        page = SubSeq(s, 1, IF Len(s) < Limit THEN Len(s) ELSE Limit)
  BY DEF Pages, OldestFirst
<1> HIDE DEF Events
<1>4. s \in Seq(S) /\ Len(s) \in Nat
  BY <1>2, IsASeq
<1> DEFINE n == IF Len(s) < Limit THEN Len(s) ELSE Limit
<1>5. n \in 0 .. Len(s)
  BY <1>4, AlarmAssumption
<1>6. \A i \in 1 .. n : s[i] \in Events
  <2>1. \A i \in 1 .. n : i \in 1 .. Len(s)
    BY <1>4, <1>5
  <2>2. \A i \in 1 .. Len(s) : s[i] \in S
    BY <1>4, ElementOfSeq
  <2> QED
    BY <2>1, <2>2
<1> HIDE DEF n
<1>7. SubSeq(s, 1, n) \in Seq(Events)
  BY <1>5, <1>6, SubSeqProperties
<1> QED
  BY <1>3, <1>7 DEF n

(* The next of the batch, and the rest. *)
LEMMA BatchNext ==
  ASSUME AlarmInv, batch # <<>>
  PROVE  Head(batch) \in Events /\ Tail(batch) \in Seq(Events)
BY HeadTailProperties DEF AlarmInv

LEMMA TextsNext ==
  ASSUME AlarmInv, texts # <<>>
  PROVE  Head(texts) \in SmsEvents /\ Tail(texts) \in Seq(SmsEvents)
BY HeadTailProperties DEF AlarmInv

LEMMA TypesApart == \A e \in SmsEvents : e \in Events /\ e \notin EmailEvents
BY AlarmAssumption DEF Events

LEMMA AlarmInitHolds == AlarmInit => AlarmInv
BY DEF AlarmInit, AlarmInv, SentIsTrue

(* Steps of the alarm task. *)
LEMMA AlarmTaskKeeps ==
  ASSUME AlarmInv, AlarmTask
  PROVE  AlarmInv'
<1> USE DEF AlarmInv, SentIsTrue, Told, AlarmFault, eventStore, world
<1>1. CASE QueryNew
  <2>1. UNCHANGED <<sent, texts, requests, handed, taken>> /\ apc' \in {"sleep", "retry"}
    BY <1>1 DEF QueryNew
  <2>2. batch' = batch \/ batch' \in Pages(Unsent)
    BY <1>1 DEF QueryNew
  <2>3. Unsent \subseteq Events
    BY DEF Unsent, EventsFound
  <2>4. batch' \in Seq(Events)
    BY <2>2, <2>3, PagesAreEvents
  <2> QED
    BY <2>1, <2>4
<1>2. CASE QueryRetry
  <2>1. UNCHANGED <<sent, texts, requests, handed, taken>> /\ apc' \in {"sleep", "work"}
    BY <1>2 DEF QueryRetry
  <2>2. batch' = <<>> \/ \E page \in Pages(TimedOutTexts) : batch' = batch \o page
    BY <1>2 DEF QueryRetry
  <2>3. TimedOutTexts \subseteq Events
    BY DEF TimedOutTexts, EventsFound, Events
  <2>4. \A page \in Pages(TimedOutTexts) : page \in Seq(Events)
    BY <2>3, PagesAreEvents
  <2>5. batch' \in Seq(Events)
    <3>1. CASE batch' = <<>>
      BY <3>1, EmptySeq
    <3>2. ASSUME NEW page \in Pages(TimedOutTexts), batch' = batch \o page
          PROVE  batch' \in Seq(Events)
      <4>1. page \in Seq(Events) /\ batch \in Seq(Events)
        BY <2>4
      <4>2. batch \o page \in Seq(Events)
        BY <4>1, ConcatProperties
      <4> QED
        BY <3>2, <4>2
    <3> QED
      BY <2>2, <3>1, <3>2
  <2> QED
    BY <2>1, <2>5
<1>3. CASE EmailFirst
  <2>1. PICK fails \in MayFail :
          /\ handed' = (IF fails THEN handed ELSE handed \cup {Head(batch)}) /\ UNCHANGED sent
          /\ IF fails THEN apc' = "sleep" /\ batch' = <<>> ELSE apc' = "mark" /\ UNCHANGED batch
    BY <1>3 DEF EmailFirst, EmailStep, EmailSteps
  <2>2. batch # <<>> /\ Head(batch) \in EmailEvents /\ UNCHANGED <<texts, requests, taken>>
    BY <1>3 DEF EmailFirst
  <2>3. CASE fails
    BY <2>1, <2>2, <2>3
  <2>4. CASE ~fails
    BY <2>1, <2>2, <2>4
  <2> QED
    BY <2>3, <2>4
<1>4. CASE EmailSecond
  <2>1. PICK fails \in MayFail :
          /\ sent' = (IF fails THEN sent ELSE [sent EXCEPT ![Head(batch)] = "Sent"])
          /\ UNCHANGED handed
          /\ (apc' = "sleep" /\ batch' = <<>>) \/ (apc' = "work" /\ batch' = Tail(batch))
    BY <1>4 DEF EmailSecond, EmailStep, EmailSteps, Marked
  <2>2. batch # <<>> /\ Head(batch) \in handed \cap EmailEvents /\ UNCHANGED <<texts, requests, taken>>
    BY <1>4 DEF EmailSecond
  <2>3. Head(batch) \in Events /\ batch' \in Seq(Events)
    <3>1. Head(batch) \in Events /\ Tail(batch) \in Seq(Events)
      BY <2>2, BatchNext
    <3> QED
      BY <2>1, <3>1, EmptySeq
  <2>4. sent' \in [Events -> {"NotSent", "Sending", "Sent", "Failed"}]
        /\ \A e \in Events : sent'[e] = sent[e] \/ e = Head(batch)
    BY <2>1, <2>3
  <2> QED
    BY <2>1, <2>2, <2>3, <2>4
<1>5. CASE SmsMark
  <2>1. PICK fails \in MayFail :
          sent' = (IF fails THEN sent ELSE [sent EXCEPT ![Head(batch)] = "Sending"])
    BY <1>5 DEF SmsMark, Marked
  <2>2. /\ batch # <<>> /\ Head(batch) \in SmsEvents /\ apc' = "text"
        /\ UNCHANGED <<texts, requests, taken, batch, handed>>
    BY <1>5 DEF SmsMark
  <2>3. Head(batch) \in Events
    BY <2>2, BatchNext
  <2>4. sent' \in [Events -> {"NotSent", "Sending", "Sent", "Failed"}]
        /\ \A e \in Events : sent'[e] = sent[e] \/ sent'[e] = "Sending"
    BY <2>1, <2>3
  <2> QED
    BY <2>2, <2>4
<1>6. CASE SmsHandOver
  <2>1. /\ batch # <<>> /\ Head(batch) \in SmsEvents /\ UNCHANGED <<sent, requests, taken>>
        /\ \/ apc' = "sleep" /\ batch' = <<>> /\ UNCHANGED <<texts, handed>>
           \/ /\ texts' = Append(texts, Head(batch)) /\ handed' = handed \cup {Head(batch)}
              /\ batch' = Tail(batch) /\ apc' = "work"
    BY <1>6 DEF SmsHandOver
  <2>2. batch' \in Seq(Events) /\ texts' \in Seq(SmsEvents) /\ handed \subseteq handed'
    <3>1. Head(batch) \in Events /\ Tail(batch) \in Seq(Events)
      BY <2>1, BatchNext
    <3>2. Append(texts, Head(batch)) \in Seq(SmsEvents)
      BY <2>1, AppendProperties
    <3> QED
      BY <2>1, <3>1, <3>2, EmptySeq
  <2> QED
    BY <2>1, <2>2
<1>7. CASE PollDone
  BY <1>7 DEF PollDone
<1>8. CASE PollAgain
  BY <1>8 DEF PollAgain
<1> QED
  BY <1>1, <1>2, <1>3, <1>4, <1>5, <1>6, <1>7, <1>8 DEF AlarmTask

(* Steps of the SMS task and of the rest of the world. *)
LEMMA AlarmStepKeeps ==
  ASSUME AlarmInv, [AlarmNext]_alarmVars
  PROVE  AlarmInv'
<1> USE DEF AlarmInv, SentIsTrue, Told, eventStore, world
<1>1. CASE UNCHANGED alarmVars
  BY <1>1 DEF alarmVars
<1>2. CASE AlarmTask
  BY <1>2, AlarmTaskKeeps
<1>3. CASE ToGateway
  <2>1. /\ texts # <<>> /\ requests' = requests \cup {Head(texts)} /\ texts' = Tail(texts)
        /\ UNCHANGED <<sent, apc, batch, handed, taken>>
    BY <1>3 DEF ToGateway
  <2> QED
    BY <2>1, TextsNext
<1>4. ASSUME NEW jitter \in BOOLEAN, ToSpryng(jitter) PROVE AlarmInv'
  <2> DEFINE e == Head(texts)
  <2>1. PICK outcome :
          /\ taken' = (IF outcome \in {"ok", "unmarked"} THEN taken \cup {e} ELSE taken)
          /\ sent' = CASE outcome = "ok" -> [sent EXCEPT ![e] = "Sent"]
                       [] outcome = "refused" -> [sent EXCEPT ![e] = "Failed"]
                       [] OTHER -> sent
    BY <1>4 DEF ToSpryng
  <2>2. texts # <<>> /\ texts' = Tail(texts) /\ UNCHANGED <<apc, batch, requests, handed>>
    BY <1>4 DEF ToSpryng
  <2>3. e \in SmsEvents /\ e \in Events /\ e \notin EmailEvents /\ texts' \in Seq(SmsEvents)
    BY <2>2, TextsNext, TypesApart
  <2> HIDE DEF e
  <2>4. /\ sent' \in [Events -> {"NotSent", "Sending", "Sent", "Failed"}]
        /\ \A x \in Events : sent'[x] = "Sent" => sent[x] = "Sent" \/ (x = e /\ e \in taken')
        /\ taken \subseteq taken'
    <3>1. CASE outcome = "ok"
      BY <3>1, <2>1, <2>3
    <3>2. CASE outcome = "refused"
      BY <3>2, <2>1, <2>3
    <3>3. CASE outcome \notin {"ok", "refused"}
      BY <3>3, <2>1, <2>3
    <3> QED
      BY <3>1, <3>2, <3>3
  <2> QED
    BY <2>2, <2>3, <2>4
<1>5. CASE ServerRestart
  BY <1>5 DEF ServerRestart
<1>6. ASSUME NEW e \in Events, Raise(e) PROVE AlarmInv'
  BY <1>6 DEF Raise
<1>7. ASSUME NEW e \in Events, NEW success \in BOOLEAN, GatewayAnswer(e, success) PROVE AlarmInv'
  <2>1. /\ e \in requests /\ requests' = requests \ {e}
        /\ sent' = (IF ~success THEN sent ELSE [sent EXCEPT ![e] = "Sent"])
        /\ taken' = (IF success THEN taken \cup {e} ELSE taken)
        /\ UNCHANGED <<apc, batch, texts, handed>>
    BY <1>7 DEF GatewayAnswer, Marked
  <2>2. e \notin EmailEvents
    BY <2>1, TypesApart
  <2>3. CASE success
    BY <2>1, <2>2, <2>3
  <2>4. CASE ~success
    BY <2>1, <2>4
  <2> QED
    BY <2>3, <2>4
<1> QED
  BY <1>1, <1>2, <1>3, <1>4, <1>5, <1>6, <1>7 DEF AlarmNext, SmsTask

(* event_mark_sent: an alarm is Sent only when its mail was handed over or its text taken,    *)
(* whichever call fails and whenever the server restarts.                                     *)
THEOREM AlarmsMarkedTruly == AlarmSpec => []SentIsTrue
<1>1. AlarmInit => AlarmInv
  BY AlarmInitHolds
<1>2. AlarmInv /\ [AlarmNext]_alarmVars => AlarmInv'
  BY AlarmStepKeeps
<1>3. AlarmInv => SentIsTrue
  BY DEF AlarmInv
<1> QED
  BY <1>1, <1>2, <1>3, PTL DEF AlarmSpec

(* sensor-link-notify: both, for any limits, any number of recipients and any set of alarms.  *)
THEOREM NotificationsStayTrue == AlarmSpec /\ MailSpec => NotificationsAreTrue
<1>1. SentIsTrue => \A e \in Events : sent[e] = "Sent" => Told(e)
  BY DEF SentIsTrue
<1> QED
  BY <1>1, AlarmsMarkedTruly, MailStaysWithin, PTL DEF NotificationsAreTrue

-----------------------------------------------------------------------------
(* timeseries.rs: the start of a bucket.                                    *)

(* A bucket starts at or before its first sample, by less than a width. *)
LEMMA BucketStart ==
  ASSUME NEW w \in Nat \ {0}, NEW a \in Nat
  PROVE  /\ a - (a % w) \in Int
         /\ a - (a % w) <= a
         /\ a < a - (a % w) + w
BY Remainder

(* A sample after the end of a bucket is in a bucket that starts there or later. *)
LEMMA BucketAfter ==
  ASSUME NEW w \in Nat \ {0}, NEW a \in Nat, NEW b \in Nat, b > a - (a % w) + w
  PROVE  b - (b % w) >= a - (a % w) + w
<1>1. PICK e \in Int, f \in 0 .. w - 1 : f = a % w /\ a = w * e + f
  BY Remainder
<1>2. PICK q \in Int, r \in 0 .. w - 1 : r = b % w /\ b = w * q + r
  BY Remainder
<1>3. PICK x \in Int, y \in Int : x = w * e /\ y = w * q
  OBVIOUS
<1>4. e > q => x - y >= w
  BY <1>3, Apart
<1>5. q > e => y - x >= w
  BY <1>3, Apart
<1>6. a = x + f /\ b = y + r
  BY <1>1, <1>2, <1>3
<1>7. y > x
  BY <1>1, <1>2, <1>6
<1>8. q # e
  BY <1>3, <1>7
<1>9. q > e
  BY <1>4, <1>7, <1>8
<1> QED
  BY <1>1, <1>2, <1>5, <1>6, <1>9

(* The quotient of a larger number is at least one. *)
LEMMA QuotientPositive ==
  ASSUME NEW m \in Nat \ {0}, NEW w \in Nat \ {0}, NEW a \in Nat, a \div w > m
  PROVE  a \div m \in Nat \ {0}
<1>1. PICK q \in Int, r \in Int : q = a \div w /\ r \in 0 .. w - 1 /\ a = q * w + r
  OBVIOUS
<1>2. q * w >= q
  BY <1>1
<1>3. a > m
  BY <1>1, <1>2
<1>4. PICK p \in Int, s \in Int : p = a \div m /\ s \in 0 .. m - 1 /\ a = p * m + s
  OBVIOUS
<1>5. p * m > 0
  BY <1>3, <1>4
<1>6. p > 0
  BY <1>4, <1>5
<1> QED
  BY <1>4, <1>6

(* calc_bucket_width rounds up: the ideal width times the intervals covers the range. *)
LEMMA CeilCovers ==
  ASSUME NEW a \in Nat, NEW m \in Nat \ {0}
  PROVE  /\ CeilDiv(a, m) \in Int
         /\ CeilDiv(a, m) * m >= a
         /\ CeilDiv(a, m) * m < a + m
<1>1. PICK q \in Int, r \in Int : q = (a + m - 1) \div m /\ r \in 0 .. m - 1 /\ a + m - 1 = q * m + r
  BY a + m - 1 \in Nat
<1> QED
  BY <1>1 DEF CeilDiv

-----------------------------------------------------------------------------
(* Downsampling.                                                            *)

(* A set of numbers has a least one and, if it is bounded, a greatest one. *)
LEMMA LeastNumber ==
  ASSUME NEW S, S # {}, S \subseteq Nat
  PROVE  Min(S) \in S /\ \A n \in S : Min(S) <= n
<1>4. \E m \in S : \A n \in S : m <= n
  BY LeastElement
<1> QED
  BY <1>4 DEF Min

LEMMA GreatestNumber ==
  ASSUME NEW S, S # {}, NEW n \in Nat, S \subseteq 0 .. n
  PROVE  Max(S) \in S /\ \A k \in S : k <= Max(S)
<1> DEFINE T == {n - k : k \in S}
<1>0. \A k \in S : k \in 0 .. n /\ n - k \in T /\ n - k \in Nat
  OBVIOUS
<1>1. T # {} /\ T \subseteq Nat
  BY <1>0
<1>2. Min(T) \in T /\ \A k \in T : Min(T) <= k
  BY <1>1, LeastNumber
<1>3. PICK m \in S : Min(T) = n - m
  BY <1>2
<1>4. m \in S /\ \A k \in S : m >= k
  <2> SUFFICES ASSUME NEW k \in S PROVE m >= k
    BY <1>3
  <2>1. n - m <= n - k
    BY <1>0, <1>2, <1>3
  <2> QED
    BY <2>1, <1>0
<1> QED
  BY <1>4 DEF Max

Methods == [points : MaxPointsSet, width : {0}] \cup [points : {0}, width : WidthSet]
BucketStartOf(i) == stamps[i] - (stamps[i] % width)

DownsampleTypeOK ==
  /\ stamps \in Series /\ method \in Methods
  /\ dsPhase \in {"start", "loop", "done"}
  /\ width \in Nat /\ start_idx \in Nat /\ last_idx \in Nat
  /\ buckets \in Seq([ts : Int, from : Nat, to : Nat])

(* No gap between two buckets, and none that starts before another ended. *)
BucketsFollow ==
  \A i \in 1 .. Len(buckets) :
    /\ buckets[i].from <= buckets[i].to
    /\ i > 1 => buckets[i].from = buckets[i - 1].to + 1 /\ buckets[i].ts > buckets[i - 1].ts

(* The width spreads the points over the range, unless the widest one is too narrow. *)
WidthSpreads ==
  IF method.points = 1 THEN width = TimeRange
  ELSE \/ width * (method.points - 1) >= TimeRange
       \/ width = Largest /\ TimeRange > (method.points - 1) * Largest

(* Where the loop is: the samples before start_idx are in buckets, the last of which ends *)
(* before the next sample, and every bucket took at least a width of the range.           *)
LoopFollows ==
  width > 0 =>
    /\ Len(stamps) > 0 /\ start_idx \in 1 .. Len(stamps) + 1 /\ last_idx \in 1 .. Len(stamps) + 1
    /\ ByPoints => last_idx = Len(stamps) + 1 /\ Len(stamps) > 1 /\ WidthSpreads
    /\ (buckets = <<>> /\ ByPoints) => start_idx = 1
    /\ buckets # <<>> =>
         LET b == buckets[Len(buckets)] IN
         /\ b.to = start_idx - 1
         /\ b.from \in 1 .. Len(stamps) /\ b.ts = BucketStartOf(b.from)
         /\ start_idx <= Len(stamps) => stamps[start_idx] > b.ts + width
         /\ ByPoints => buckets[1].from = 1
         /\ ByPoints => b.ts - BucketStartOf(1) >= (Len(buckets) - 1) * width

PhaseFollows ==
  /\ dsPhase = "start" => buckets = <<>> /\ width = 0
  /\ dsPhase = "loop" => width > 0
  /\ (dsPhase = "done" /\ width > 0) => start_idx >= last_idx
  /\ (dsPhase = "done" /\ width = 0) =>
       /\ Len(buckets) = Len(stamps)
       /\ \A i \in 1 .. Len(stamps) : buckets[i].from = i /\ buckets[i].to = i
       /\ (ByPoints /\ Len(stamps) > 0) => Len(stamps) <= method.points

DownsampleInv == DownsampleTypeOK /\ BucketsFollow /\ LoopFollows /\ PhaseFollows

LEMMA MethodShape ==
  ASSUME NEW m \in Methods
  PROVE  /\ m.points \in Nat /\ m.width \in Nat
         /\ m.points > 0 => m.points \in MaxPointsSet
         /\ ~ (m.points > 0) => m.width \in WidthSet /\ m.width > 0
<1>1. CASE m \in [points : MaxPointsSet, width : {0}]
  <2>1. m.points \in MaxPointsSet /\ m.width = 0
    BY <1>1
  <2>2. m.points \in Nat \ {0}
    BY <2>1, CoreAssumption
  <2> QED
    BY <2>1, <2>2
<1>2. CASE m \in [points : {0}, width : WidthSet]
  <2>1. m.points = 0 /\ m.width \in WidthSet
    BY <1>2
  <2>2. m.width \in Nat \ {0}
    BY <2>1, CoreAssumption
  <2> QED
    BY <2>1, <2>2
<1> QED
  BY <1>1, <1>2 DEF Methods

LEMMA SeriesShape ==
  ASSUME NEW s \in Series
  PROVE  /\ s \in Seq(Nat) /\ Len(s) \in Nat
         /\ \A i \in 1 .. Len(s) : s[i] \in Nat
         /\ \A i, j \in 1 .. Len(s) : i < j => s[i] < s[j]
<1>1. s \in Seq(Nat) /\ \A i, j \in 1 .. Len(s) : i < j => s[i] < s[j]
  BY CoreAssumption
<1> QED
  BY <1>1

(* BucketWidth::find_next_width: a predefined width that is wide enough, or the widest. *)
LEMMA NextWidthFits ==
  ASSUME NEW w \in Int
  PROVE  /\ FindNextWidth(w) \in Nat \ {0}
         /\ FindNextWidth(w) >= w \/ FindNextWidth(w) = Largest
<1> DEFINE fit == {i \in 1 .. Len(BucketWidths) : BucketWidths[i] >= w}
<1>1. \A i \in 1 .. Len(BucketWidths) : BucketWidths[i] \in Nat \ {0}
  BY CoreAssumption
<1>2. Largest \in Nat \ {0}
  BY <1>1, CoreAssumption DEF Largest
<1>3. CASE fit = {}
  BY <1>2, <1>3 DEF FindNextWidth
<1>4. CASE fit # {}
  <2>1. Min(fit) \in fit
    BY <1>4, LeastNumber, CoreAssumption
  <2>2. BucketWidths[Min(fit)] \in Nat \ {0} /\ BucketWidths[Min(fit)] >= w
    BY <2>1, <1>1
  <2> QED
    BY <1>4, <2>2 DEF FindNextWidth
<1> QED
  BY <1>3, <1>4

LEMMA TimeRangeShape ==
  ASSUME stamps \in Series, Len(stamps) > 0
  PROVE  /\ TimeRange \in Nat
         /\ Len(stamps) > 1 => TimeRange > 0
BY SeriesShape DEF TimeRange

LEMMA MinIntervalShape ==
  ASSUME stamps \in Series, Len(stamps) > 1
  PROVE  MinInterval \in Nat
<1> DEFINE S == {stamps[i + 1] - stamps[i] : i \in 1 .. (Len(stamps) - 1)}
<1>1. \A i \in 1 .. (Len(stamps) - 1) : stamps[i + 1] - stamps[i] \in Nat
  <2> TAKE i \in 1 .. (Len(stamps) - 1)
  <2>1. i \in 1 .. Len(stamps) /\ i + 1 \in 1 .. Len(stamps) /\ i < i + 1
    BY SeriesShape
  <2> QED
    BY <2>1, SeriesShape
<1>2. stamps[2] - stamps[1] \in S
  BY SeriesShape
<1>3. S # {} /\ S \subseteq Nat
  BY <1>1, <1>2
<1>4. Min(S) \in S
  BY <1>3, LeastNumber
<1> QED
  BY <1>3, <1>4 DEF MinInterval

(* calc_bucket_width: the width is not zero, and wide enough if there is one that is. *)
LEMMA WidthChosen ==
  ASSUME stamps \in Series, Len(stamps) > 1, NEW p \in Nat \ {0}
  PROVE  /\ CalcBucketWidth(p) \in Nat \ {0}
         /\ IF p = 1 THEN CalcBucketWidth(p) = TimeRange
            ELSE \/ CalcBucketWidth(p) * (p - 1) >= TimeRange
                 \/ CalcBucketWidth(p) = Largest /\ TimeRange > (p - 1) * Largest
<1>1. TimeRange \in Nat \ {0}
  BY TimeRangeShape
<1>2. CASE p = 1
  BY <1>1, <1>2, SeriesShape DEF CalcBucketWidth
<1>3. CASE p # 1
  <2>1. IdealWidth(p) \in Int /\ IdealWidth(p) * (p - 1) >= TimeRange /\ IdealWidth(p) * (p - 1) < TimeRange + (p - 1)
    <3>1. p - 1 \in Nat \ {0} /\ TimeRange \in Nat
      BY <1>1, <1>3
    <3> QED
      BY <3>1, CeilCovers DEF IdealWidth
  <2> DEFINE m == Max({IdealWidth(p), MinInterval})
  <2>2. m \in Int /\ m >= IdealWidth(p)
    <3>1. PICK a \in Int, b \in Int : a = IdealWidth(p) /\ b = MinInterval
      BY <2>1, MinIntervalShape
    <3>2. \E x \in {a, b} : \A y \in {a, b} : x >= y
      <4>1. CASE a >= b
        BY <4>1
      <4>2. CASE b >= a
        BY <4>2
      <4> QED
        BY <4>1, <4>2
    <3>3. Max({a, b}) \in {a, b} /\ \A y \in {a, b} : Max({a, b}) >= y
      BY <3>2 DEF Max
    <3> QED
      BY <3>1, <3>3
  <2>3. CalcBucketWidth(p) = FindNextWidth(m)
    BY <1>3, SeriesShape DEF CalcBucketWidth
  <2> HIDE DEF m
  <2>4. PICK w \in Nat \ {0} : w = CalcBucketWidth(p)
    BY <2>2, <2>3, NextWidthFits
  <2>5. w >= m \/ w = Largest
    BY <2>2, <2>3, <2>4, NextWidthFits
  <2>6. PICK d \in Int, i \in Int : d = p - 1 /\ d > 0 /\ i = IdealWidth(p) /\ i * d >= TimeRange /\ i * d < TimeRange + d
    BY <1>3, <2>1
  <2>7. CASE w >= i
    <3>1. w * d >= i * d
      BY <2>4, <2>6, <2>7
    <3> QED
      BY <2>4, <2>6, <3>1, <1>1, <1>3
  <2>8. CASE w < i
    <3>1. w = Largest
      BY <2>2, <2>5, <2>6, <2>8
    <3>2. (i - 1) * d < TimeRange
      <4>1. (i - 1) * d = i * d - d
        BY <2>6
      <4> QED
        BY <4>1, <2>6, <1>1
    <3>3. w * d <= (i - 1) * d
      BY <2>4, <2>6, <2>8
    <3>4. d * w < TimeRange
      BY <3>2, <3>3, <2>4, <2>6, <1>1
    <3> QED
      BY <3>1, <3>4, <2>4, <2>6, <1>3
  <2> QED
    BY <2>4, <2>6, <2>7, <2>8
<1> QED
  BY <1>2, <1>3

LEMMA DownsampleInitHolds == DownsampleInit => DownsampleInv
<1> SUFFICES ASSUME DownsampleInit PROVE DownsampleInv
  OBVIOUS
<1>1. DownsampleTypeOK
  BY DEF DownsampleInit, DownsampleTypeOK, Methods
<1>2. BucketsFollow
  BY DEF DownsampleInit, BucketsFollow
<1>3. LoopFollows
  BY DEF DownsampleInit, LoopFollows
<1>4. PhaseFollows
  BY DEF DownsampleInit, PhaseFollows
<1> QED
  BY <1>1, <1>2, <1>3, <1>4 DEF DownsampleInv

(* The first and the last full bucket are in the series. *)
LEMMA FullBucketsInside ==
  ASSUME stamps \in Series, Len(stamps) > 0
  PROVE  FirstFull \in 1 .. Len(stamps) /\ LastFull \in 1 .. Len(stamps)
<1>1. Len(stamps) \in Nat
  BY SeriesShape
<1>2. FirstFull \in 1 .. Len(stamps)
  <2> DEFINE S == {i \in 1 .. Len(stamps) : Wraps(i)}
  <2>1. S # {} => Min(S) \in S
    <3>1. S \subseteq Nat
      BY <1>1
    <3> HIDE DEF S
    <3> QED
      BY <3>1, LeastNumber
  <2>2. FirstFull = IF S = {} THEN 1 ELSE Min(S)
    BY DEF FirstFull
  <2> QED
    BY <1>1, <2>1, <2>2
<1>3. LastFull \in 1 .. Len(stamps)
  <2> DEFINE S == {i \in 1 .. (Len(stamps) - 1) : stamps[i] % method.width > stamps[i + 1] % method.width}
  <2>1. S # {} => Max(S) \in S
    <3>1. S \subseteq 0 .. Len(stamps)
      BY <1>1
    <3> HIDE DEF S
    <3> QED
      BY <1>1, <3>1, GreatestNumber
  <2>2. LastFull = IF S = {} THEN Len(stamps) ELSE Max(S)
    BY DEF LastFull
  <2> QED
    BY <1>1, <2>1, <2>2
<1> QED
  BY <1>2, <1>3

LEMMA ChosenPositive ==
  ASSUME stamps \in Series, Len(stamps) > 0, method \in Methods, ~ ByPoints
  PROVE  Chosen.width \in Nat \ {0}
<1> DEFINE n == TimeRange \div method.width
<1>1. method.width \in Nat \ {0} /\ TimeRange \in Nat /\ MAX_NUM_SAMPLES \in Nat \ {0}
  BY MethodShape, TimeRangeShape, CoreAssumption DEF ByPoints
<1>2. CASE n > MAX_NUM_SAMPLES
  <2>1. TimeRange \div MAX_NUM_SAMPLES \in Nat \ {0}
    BY <1>1, <1>2, QuotientPositive
  <2> QED
    BY <1>2, <2>1 DEF Chosen
<1>3. CASE ~ (n > MAX_NUM_SAMPLES)
  BY <1>1, <1>3 DEF Chosen
<1> QED
  BY <1>2, <1>3

LEMMA DownsampleStarts ==
  ASSUME DownsampleInv, StartDownsample
  PROVE  DownsampleInv'
<1>1. stamps \in Series /\ method \in Methods /\ buckets = <<>> /\ width = 0 /\ start_idx \in Nat /\ last_idx \in Nat
  BY DEF DownsampleInv, DownsampleTypeOK, PhaseFollows, StartDownsample
<1>2. stamps' = stamps /\ method' = method /\ Len(stamps) \in Nat
  BY <1>1, SeriesShape DEF StartDownsample
<1>3. CASE stamps = <<>> \/ Len(stamps) <= Chosen.points
  <2>1. /\ dsPhase' = "done" /\ buckets' = [i \in 1 .. Len(stamps) |-> [ts |-> stamps[i], from |-> i, to |-> i]]
        /\ width' = width /\ start_idx' = start_idx /\ last_idx' = last_idx
    BY <1>3 DEF StartDownsample
  <2>2. \A i \in 1 .. Len(stamps) : stamps[i] \in Int /\ i \in Nat
    BY <1>1, SeriesShape
  <2>3. buckets' \in Seq([ts : Int, from : Nat, to : Nat]) /\ Len(buckets') = Len(stamps)
    BY <1>2, <2>1, <2>2
  <2>4. \A i \in 1 .. Len(stamps) : buckets'[i].from = i /\ buckets'[i].to = i /\ buckets'[i].ts = stamps[i]
    BY <2>1
  <2>5. DownsampleTypeOK'
    BY <1>1, <1>2, <2>1, <2>3 DEF DownsampleTypeOK
  <2>6. BucketsFollow'
    <3> SUFFICES ASSUME NEW i \in 1 .. Len(stamps)
                 PROVE  /\ buckets'[i].from <= buckets'[i].to
                        /\ i > 1 => /\ buckets'[i].from = buckets'[i - 1].to + 1
                                    /\ buckets'[i].ts > buckets'[i - 1].ts
      BY <2>3 DEF BucketsFollow
    <3>1. i > 1 => i - 1 \in 1 .. Len(stamps) /\ stamps[i - 1] < stamps[i] /\ stamps[i - 1] \in Int /\ stamps[i] \in Int
      BY <1>1, <1>2, SeriesShape
    <3> QED
      BY <2>4, <3>1, <1>2
  <2>7. LoopFollows'
    BY <1>1, <2>1 DEF LoopFollows
  <2>8. (ByPoints' /\ Len(stamps) > 0) => Len(stamps) <= method.points
    <3>1. ByPoints => Chosen.points = method.points
      BY DEF Chosen
    <3> QED
      BY <1>2, <1>3, <3>1 DEF ByPoints
  <2>9. PhaseFollows'
    BY <1>1, <1>2, <2>1, <2>3, <2>4, <2>8 DEF PhaseFollows, ByPoints
  <2> QED
    BY <2>5, <2>6, <2>7, <2>9 DEF DownsampleInv
<1>4. CASE ~ (stamps = <<>> \/ Len(stamps) <= Chosen.points)
  <2>1. /\ dsPhase' = "loop" /\ width' = Chosen.width /\ buckets' = buckets
        /\ start_idx' = IF ByPoints THEN 1 ELSE FirstFull
        /\ last_idx' = IF ByPoints THEN Len(stamps) + 1 ELSE LastFull
    BY <1>4 DEF StartDownsample
  <2>2. Len(stamps) > 0
    BY <1>1, <1>2, <1>4, SeriesShape, EmptySeq
  <2>3. CASE ByPoints
    <3>1. method.points \in Nat \ {0} /\ Chosen.points = method.points /\ Chosen.width = CalcBucketWidth(method.points)
      BY <1>1, <2>3, MethodShape DEF ByPoints, Chosen
    <3>2. Len(stamps) > 1
      BY <1>2, <1>4, <3>1
    <3>3. width' \in Nat \ {0} /\ WidthSpreads'
      BY <1>1, <1>2, <2>1, <3>1, <3>2, WidthChosen DEF WidthSpreads, TimeRange
    <3>4. DownsampleTypeOK'
      BY <1>1, <1>2, <2>1, <2>3, <3>3 DEF DownsampleTypeOK
    <3>5. BucketsFollow'
      BY <1>1, <2>1 DEF BucketsFollow
    <3>6. LoopFollows'
      BY <1>1, <1>2, <2>1, <2>2, <2>3, <3>2, <3>3 DEF LoopFollows, ByPoints
    <3>7. PhaseFollows'
      BY <2>1, <3>3 DEF PhaseFollows
    <3> QED
      BY <3>4, <3>5, <3>6, <3>7 DEF DownsampleInv
  <2>4. CASE ~ ByPoints
    <3>1. width' \in Nat \ {0}
      BY <1>1, <2>1, <2>2, <2>4, ChosenPositive
    <3>2. FirstFull \in 1 .. Len(stamps) /\ LastFull \in 1 .. Len(stamps)
      BY <1>1, <2>2, FullBucketsInside
    <3>3. ~ ByPoints'
      BY <1>2, <2>4 DEF ByPoints
    <3>4. DownsampleTypeOK'
      BY <1>1, <1>2, <2>1, <2>4, <3>1, <3>2 DEF DownsampleTypeOK
    <3>5. BucketsFollow'
      BY <1>1, <2>1 DEF BucketsFollow
    <3>6. LoopFollows'
      BY <1>1, <1>2, <2>1, <2>2, <2>4, <3>1, <3>2, <3>3 DEF LoopFollows
    <3>7. PhaseFollows'
      BY <2>1, <3>1 DEF PhaseFollows
    <3> QED
      BY <3>4, <3>5, <3>6, <3>7 DEF DownsampleInv
  <2> QED
    BY <2>3, <2>4
<1> QED
  BY <1>3, <1>4

(* Bucket::new: the end of a bucket is after its start and not after the end of the series, *)
(* and a sample there comes after the bucket.                                               *)
LEMMA BucketEnds ==
  ASSUME stamps \in Series, width \in Nat \ {0}, start_idx \in 1 .. Len(stamps)
  PROVE  LET e == EndIdx(BucketStartOf(start_idx)) IN
         /\ e \in start_idx + 1 .. Len(stamps) + 1
         /\ e <= Len(stamps) => stamps[e] > BucketStartOf(start_idx) + width
<1> DEFINE ts == BucketStartOf(start_idx)
           after == {i \in 1 .. Len(stamps) : stamps[i] > ts + width}
<1>1. Len(stamps) \in Nat /\ start_idx \in Nat /\ stamps[start_idx] \in Nat
  BY SeriesShape
<1>2. ts \in Int /\ stamps[start_idx] < ts + width
  BY <1>1, BucketStart DEF BucketStartOf
<1>3. EndIdx(ts) = IF after = {} THEN Len(stamps) + 1 ELSE Min(after)
  BY DEF EndIdx
<1>4. \A i \in after : i > start_idx
  <2> SUFFICES ASSUME NEW i \in 1 .. Len(stamps), stamps[i] > ts + width
               PROVE  i > start_idx
    OBVIOUS
  <2>1. stamps[i] \in Nat /\ stamps[i] # stamps[start_idx]
    BY <1>1, <1>2, SeriesShape
  <2>2. i < start_idx => stamps[i] < stamps[start_idx]
    BY SeriesShape
  <2> QED
    BY <1>1, <1>2, <2>1, <2>2
<1>5. after \subseteq Nat
  BY <1>1
<1> HIDE DEF ts
<1>6. CASE after = {}
  BY <1>1, <1>3, <1>6 DEF ts
<1>7. CASE after # {}
  <2>1. Min(after) \in after
    BY <1>5, <1>7, LeastNumber
  <2>2. Min(after) > start_idx /\ Min(after) \in 1 .. Len(stamps) /\ stamps[Min(after)] > ts + width
    BY <1>4, <2>1
  <2> QED
    BY <1>1, <1>3, <1>7, <2>2 DEF ts
<1> QED
  BY <1>6, <1>7

LEMMA DownsampleTakes ==
  ASSUME DownsampleInv, TakeBucket
  PROVE  DownsampleInv'
<1> DEFINE ts == BucketStartOf(start_idx)
           e == EndIdx(ts)
           b == [ts |-> ts, from |-> start_idx, to |-> e - 1]
           n == Len(buckets)
           Cell == [ts : Int, from : Nat, to : Nat]
<1>1. /\ stamps \in Series /\ method \in Methods /\ buckets \in Seq(Cell) /\ n \in Nat /\ Len(stamps) \in Nat
      /\ dsPhase = "loop" /\ start_idx < last_idx /\ width \in Nat \ {0} /\ last_idx \in Nat
  BY SeriesShape DEF DownsampleInv, DownsampleTypeOK, PhaseFollows, TakeBucket
<1>2. LoopFollows /\ BucketsFollow
  BY DEF DownsampleInv
<1>3. start_idx \in 1 .. Len(stamps) /\ last_idx \in 1 .. Len(stamps) + 1
  BY <1>1, <1>2 DEF LoopFollows
<1>4. e \in start_idx + 1 .. Len(stamps) + 1 /\ (e <= Len(stamps) => stamps[e] > ts + width)
  BY <1>1, <1>3, BucketEnds
<1>5. /\ buckets' = Append(buckets, b) /\ start_idx' = e
      /\ stamps' = stamps /\ method' = method /\ dsPhase' = dsPhase /\ width' = width /\ last_idx' = last_idx
  BY DEF TakeBucket, BucketStartOf
<1>6. stamps[start_idx] \in Nat /\ ts \in Int
  BY <1>1, <1>3, SeriesShape, BucketStart DEF BucketStartOf
<1>6a. \A i \in 1 .. Len(stamps) : BucketStartOf(i)' = BucketStartOf(i)
  BY <1>5 DEF BucketStartOf
<1>7. ts = BucketStartOf(start_idx)
  OBVIOUS
<1> HIDE DEF e, ts
<1>8. b \in Cell /\ b.ts = ts /\ b.from = start_idx /\ b.to = e - 1
  BY <1>1, <1>3, <1>4, <1>6
<1> HIDE DEF b
<1>9. /\ buckets' \in Seq(Cell) /\ Len(buckets') = n + 1 /\ buckets'[n + 1] = b
      /\ \A i \in 1 .. n : buckets'[i] = buckets[i]
  BY <1>1, <1>5, <1>8
<1>10. \A i \in 1 .. n : buckets[i].ts \in Int
  <2> TAKE i \in 1 .. n
  <2> HIDE DEF Cell
  <2>1. buckets[i] \in Cell
    BY <1>1, ElementOfSeq
  <2> QED
    BY <2>1 DEF Cell
<1>11. n > 0 => /\ buckets[n].to = start_idx - 1 /\ buckets[n].from \in 1 .. Len(stamps)
                /\ buckets[n].ts = BucketStartOf(buckets[n].from)
                /\ stamps[start_idx] > buckets[n].ts + width
                /\ ByPoints => buckets[1].from = 1
                /\ ByPoints => buckets[n].ts - BucketStartOf(1) >= (n - 1) * width
  <2>1. n > 0 => buckets # <<>>
    BY <1>1
  <2> QED
    BY <1>1, <1>2, <1>3, <2>1 DEF LoopFollows
<1>12. n > 0 => ts >= buckets[n].ts + width
  <2> SUFFICES ASSUME n > 0 PROVE ts >= buckets[n].ts + width
    OBVIOUS
  <2>1. stamps[buckets[n].from] \in Nat
    BY <1>1, <1>11, SeriesShape
  <2> QED
    BY <2>1, <1>1, <1>6, <1>7, <1>11, BucketAfter DEF BucketStartOf
<1>13. DownsampleTypeOK'
  BY <1>1, <1>3, <1>4, <1>5, <1>9 DEF DownsampleTypeOK
<1>14. BucketsFollow'
  <2> SUFFICES ASSUME NEW i \in 1 .. n + 1
               PROVE  /\ buckets'[i].from <= buckets'[i].to
                      /\ i > 1 => /\ buckets'[i].from = buckets'[i - 1].to + 1
                                  /\ buckets'[i].ts > buckets'[i - 1].ts
    BY <1>9 DEF BucketsFollow
  <2>1. CASE i <= n
    <3>1. i \in 1 .. n /\ (i > 1 => i - 1 \in 1 .. n)
      BY <1>1, <2>1
    <3> QED
      BY <1>2, <1>9, <3>1 DEF BucketsFollow
  <2>2. CASE i = n + 1
    <3>1. b.from <= b.to
      BY <1>1, <1>3, <1>4, <1>8
    <3>2. i > 1 => n \in 1 .. n /\ i - 1 = n /\ n > 0
      BY <1>1, <2>2
    <3>3. n > 0 => b.from = buckets[n].to + 1 /\ b.ts > buckets[n].ts
      <4> SUFFICES ASSUME n > 0 PROVE b.from = buckets[n].to + 1 /\ b.ts > buckets[n].ts
        OBVIOUS
      <4>1. buckets[n].ts \in Int
        BY <1>1, <1>10
      <4> QED
        <5>1. buckets[n].to = start_idx - 1 /\ ts >= buckets[n].ts + width
          BY <1>11, <1>12
        <5>2. start_idx \in Nat /\ width > 0 /\ width \in Nat
          BY <1>1, <1>3
        <5>3. b.ts > buckets[n].ts
          BY <1>6, <1>8, <4>1, <5>1, <5>2
        <5> QED
          BY <1>8, <5>1, <5>2, <5>3
    <3> QED
      BY <1>9, <2>2, <3>1, <3>2, <3>3
  <2> QED
    BY <1>1, <2>1, <2>2
<1>15. ByPoints' = ByPoints /\ TimeRange' = TimeRange
  BY <1>5 DEF ByPoints, TimeRange
<1>16. (ByPoints /\ n = 0) => start_idx = 1
  <2>1. n = 0 => buckets = <<>>
    BY <1>1, EmptySeq
  <2> QED
    BY <1>1, <1>2, <2>1 DEF LoopFollows
<1>17. ByPoints => buckets'[1].from = 1
  <2>1. CASE n = 0
    BY <1>8, <1>9, <1>16, <2>1
  <2>2. CASE n > 0
    <3>1. 1 \in 1 .. n
      BY <1>1, <2>2
    <3> QED
      BY <1>9, <1>11, <2>2, <3>1
  <2> QED
    BY <1>1, <2>1, <2>2
<1>18. ByPoints => b.ts - BucketStartOf(1) >= n * width
  <2>0. BucketStartOf(1) \in Int
    BY <1>1, <1>3, SeriesShape, BucketStart DEF BucketStartOf
  <2>1. CASE n = 0
    BY <1>1, <1>6, <1>7, <1>8, <1>16, <2>0, <2>1
  <2>2. CASE n > 0
    <3>1. buckets[n].ts \in Int
      BY <1>1, <1>10, <2>2
    <3>2. (n - 1) * width = n * width - width
      BY <1>1
    <3>3. PICK x \in Int, y \in Int : x = n * width /\ y = (n - 1) * width
      BY <1>1
    <3>4. PICK u \in Int : u = buckets[n].ts
      BY <3>1
    <3>5. ts >= u + width /\ y = x - width /\ (ByPoints => u - BucketStartOf(1) >= y)
      BY <1>11, <1>12, <2>2, <3>2, <3>3, <3>4
    <3>6. ByPoints => ts - BucketStartOf(1) >= x
      <4>1. ASSUME NEW v \in Int, NEW s \in Int, NEW w \in Int, v >= u + w, y = x - w, u - s >= y
            PROVE  v - s >= x
        BY <4>1
      <4>2. width \in Int
        BY <1>1
      <4> QED
        BY <1>6, <2>0, <3>5, <4>1, <4>2
    <3> QED
      BY <1>8, <3>3, <3>6
  <2> QED
    BY <1>1, <2>1, <2>2
<1>19. LoopFollows'
  <2>1. Len(stamps)' = Len(stamps) /\ Len(buckets)' = n + 1 /\ buckets' # <<>> /\ b = buckets'[Len(buckets')]
    <3>1. buckets' # <<>>
      BY <1>1, <1>9
    <3> QED
      BY <1>5, <1>9, <3>1
  <2>2. (ByPoints => last_idx = Len(stamps) + 1 /\ Len(stamps) > 1 /\ WidthSpreads) /\ Len(stamps) > 0
    BY <1>1, <1>2 DEF LoopFollows
  <2>3. WidthSpreads' = WidthSpreads
    BY <1>5, <1>15 DEF WidthSpreads
  <2>4. b.to = e - 1 /\ b.from \in 1 .. Len(stamps) /\ b.ts = stamps'[b.from] - (stamps'[b.from] % width')
    BY <1>3, <1>5, <1>7, <1>8 DEF BucketStartOf
  <2>5. BucketStartOf(1)' = BucketStartOf(1) /\ e \in 1 .. Len(stamps) + 1
    BY <1>3, <1>1, <1>4, <1>6a
  <2>6. (Len(buckets') - 1) * width = n * width
    BY <1>1, <2>1
  <2>7. start_idx' <= Len(stamps)' => stamps'[start_idx'] > b.ts + width'
    BY <1>4, <1>5, <1>8
  <2>8. ByPoints' => b.ts - BucketStartOf(1)' >= (Len(buckets') - 1) * width'
    BY <1>5, <1>15, <1>18, <2>5, <2>6
  <2> HIDE DEF n
  <2> QED
    BY <1>3, <1>5, <1>15, <1>17, <2>1, <2>2, <2>3, <2>4, <2>5, <2>7, <2>8 DEF LoopFollows, BucketStartOf
<1>20. PhaseFollows'
  BY <1>1, <1>5 DEF PhaseFollows
<1> QED
  BY <1>13, <1>14, <1>19, <1>20 DEF DownsampleInv

LEMMA DownsampleFinishes ==
  ASSUME DownsampleInv, FinishDownsample \/ UNCHANGED downsampleVars
  PROVE  DownsampleInv'
<1>1. UNCHANGED <<stamps, method, width, start_idx, last_idx, buckets>>
  BY DEF FinishDownsample, downsampleVars
<1>2. dsPhase' \in {"start", "loop", "done"} /\ PhaseFollows'
  BY <1>1 DEF FinishDownsample, downsampleVars, DownsampleInv, DownsampleTypeOK, PhaseFollows, ByPoints
<1>3. DownsampleTypeOK' /\ BucketsFollow'
  BY <1>1, <1>2 DEF DownsampleInv, DownsampleTypeOK, BucketsFollow
<1>4. LoopFollows'
  BY <1>1 DEF DownsampleInv, LoopFollows, ByPoints, WidthSpreads, TimeRange, BucketStartOf
<1> QED
  BY <1>2, <1>3, <1>4 DEF DownsampleInv

LEMMA DownsampleStep == DownsampleInv /\ [DownsampleNext]_downsampleVars => DownsampleInv'
BY DownsampleStarts, DownsampleTakes, DownsampleFinishes DEF DownsampleNext

(* The buckets span less than the range and two widths, so that a width that spreads the *)
(* points over the range gives no more than there may be.                                *)
LEMMA BucketsFewEnough ==
  ASSUME NEW n \in Nat, NEW w \in Nat \ {0}, NEW R \in Nat, NEW p \in Nat \ {0},
         (n - 1) * w < R + w, w * (p - 1) >= R
  PROVE  n <= p
<1>1. PICK k \in Int : k = n - 1 /\ k * w < R + w
  OBVIOUS
<1>2. PICK d \in Int : d = p - 1 /\ w * d >= R
  OBVIOUS
<1>3. PICK x \in Int, y \in Int : x = w * k /\ y = w * d /\ x = k * w
  BY <1>1, <1>2
<1>4. x < y + w
  BY <1>1, <1>2, <1>3
<1>5. k > d => x - y >= w
  BY <1>3, Apart
<1>6. k <= d
  BY <1>3, <1>4, <1>5
<1> QED
  BY <1>1, <1>2, <1>6

LEMMA DownsampledRight == DownsampleInv => BucketsPartition /\ NotTooMany /\ BucketsInOrder
<1> SUFFICES ASSUME DownsampleInv, dsPhase = "done" PROVE BucketsPartition /\ NotTooMany /\ BucketsInOrder
  BY DEF BucketsPartition, NotTooMany, BucketsInOrder
<1> DEFINE n == Len(buckets)
           Cell == [ts : Int, from : Nat, to : Nat]
<1>1. /\ stamps \in Series /\ method \in Methods /\ buckets \in Seq(Cell) /\ n \in Nat /\ Len(stamps) \in Nat
      /\ width \in Nat /\ start_idx \in Nat
  BY SeriesShape DEF DownsampleInv, DownsampleTypeOK
<1>2. LoopFollows /\ BucketsFollow /\ PhaseFollows
  BY DEF DownsampleInv
<1>3. stamps # <<>> <=> Len(stamps) > 0
  BY <1>1, SeriesShape, EmptySeq
<1>4. (ByPoints /\ width > 0) =>
        /\ n > 0 /\ buckets[1].from = 1 /\ buckets[n].to = Len(stamps)
        /\ buckets[n].from \in 1 .. Len(stamps) /\ buckets[n].ts = BucketStartOf(buckets[n].from)
        /\ buckets[n].ts - BucketStartOf(1) >= (n - 1) * width
        /\ Len(stamps) > 1 /\ WidthSpreads
  <2> SUFFICES ASSUME ByPoints, width > 0
               PROVE  /\ n > 0 /\ buckets[1].from = 1 /\ buckets[n].to = Len(stamps)
                      /\ buckets[n].from \in 1 .. Len(stamps) /\ buckets[n].ts = BucketStartOf(buckets[n].from)
                      /\ buckets[n].ts - BucketStartOf(1) >= (n - 1) * width
                      /\ Len(stamps) > 1 /\ WidthSpreads
    OBVIOUS
  <2>1. start_idx >= last_idx /\ last_idx = Len(stamps) + 1 /\ start_idx \in 1 .. Len(stamps) + 1 /\ Len(stamps) > 1 /\ WidthSpreads
    BY <1>2 DEF LoopFollows, PhaseFollows
  <2>2. start_idx = Len(stamps) + 1
    BY <1>1, <2>1
  <2>3. buckets # <<>>
    BY <1>1, <1>2, <2>1, <2>2 DEF LoopFollows
  <2>4. n > 0
    BY <1>1, <2>3, EmptySeq
  <2> QED
    BY <1>1, <1>2, <2>1, <2>2, <2>3, <2>4 DEF LoopFollows
<1>5. (ByPoints /\ width = 0) => n = Len(stamps) /\ (n > 0 => n <= method.points /\ buckets[1].from = 1 /\ buckets[n].to = n)
  BY <1>1, <1>2 DEF PhaseFollows
<1>6. BucketsPartition
  <2>1. \A i \in 1 .. n : /\ buckets[i].from <= buckets[i].to
                          /\ i > 1 => buckets[i].from = buckets[i - 1].to + 1
    BY <1>2 DEF BucketsFollow
  <2>2. (ByPoints /\ stamps # <<>>) => buckets[1].from = 1 /\ buckets[n].to = Len(stamps)
    BY <1>1, <1>3, <1>4, <1>5
  <2> QED
    BY <2>1, <2>2 DEF BucketsPartition
<1>7. BucketsInOrder
  BY <1>1, <1>2 DEF BucketsFollow, BucketsInOrder
<1>8. NotTooMany
  <2> SUFFICES ASSUME ByPoints, Len(stamps) > 1
               PROVE  \/ n <= Max({method.points, 2})
                      \/ method.points > 1 /\ TimeRange > (method.points - 1) * Largest
    BY DEF NotTooMany
  <2>1. PICK p \in Nat \ {0} : p = method.points
    BY <1>1, MethodShape DEF ByPoints
  <2>2. PICK M \in Nat : M = Max({method.points, 2}) /\ M >= p /\ M >= 2
    <3>1. \E x \in {p, 2} : \A y \in {p, 2} : x >= y
      <4>1. CASE p >= 2
        BY <4>1
      <4>2. CASE p < 2
        BY <4>2, <2>1
      <4> QED
        BY <2>1, <4>1, <4>2
    <3>2. Max({p, 2}) \in {p, 2} /\ \A y \in {p, 2} : Max({p, 2}) >= y
      BY <3>1 DEF Max
    <3> QED
      BY <2>1, <3>2
  <2>3. CASE width = 0
    BY SMTT(30), <1>1, <1>5, <2>1, <2>2, <2>3
  <2>4. CASE width > 0
    <3>1. TimeRange \in Nat \ {0} /\ width \in Nat \ {0}
      BY <1>1, <2>4, TimeRangeShape
    <3>2. (n - 1) * width < TimeRange + width
      <4> DEFINE k == buckets[n].from
      <4>1. k \in 1 .. Len(stamps) /\ buckets[n].ts = BucketStartOf(k) /\ buckets[n].ts - BucketStartOf(1) >= (n - 1) * width
        BY <1>4, <2>4
      <4> HIDE DEF k
      <4>2. stamps[k] \in Nat /\ stamps[1] \in Nat /\ stamps[Len(stamps)] \in Nat /\ stamps[k] <= stamps[Len(stamps)]
        BY SMTT(30), <1>1, <4>1, SeriesShape
      <4>3. BucketStartOf(k) \in Int /\ BucketStartOf(k) <= stamps[k]
        BY <3>1, <4>2, BucketStart DEF BucketStartOf
      <4>4. BucketStartOf(1) \in Int /\ stamps[1] < BucketStartOf(1) + width
        BY <3>1, <4>2, BucketStart DEF BucketStartOf
      <4>5. BucketStartOf(k) - BucketStartOf(1) < TimeRange + width
        BY <3>1, <4>2, <4>3, <4>4 DEF TimeRange
      <4>6. PICK x \in Int : x = (n - 1) * width
        BY <1>1
      <4> QED
        BY <3>1, <4>1, <4>3, <4>4, <4>5, <4>6
    <3>3. CASE p = 1
      <4>1. width = TimeRange
        BY <1>4, <2>1, <2>4, <3>3 DEF WidthSpreads
      <4>2. PICK two \in Nat \ {0} : two = 2 /\ width * (two - 1) >= TimeRange
        BY <3>1, <4>1
      <4>3. n <= two
        BY <1>1, <3>1, <3>2, <4>2, BucketsFewEnough
      <4> QED
        BY <1>1, <2>2, <4>2, <4>3
    <3>4. CASE p # 1
      <4>1. \/ width * (p - 1) >= TimeRange
            \/ TimeRange > (p - 1) * Largest
        BY <1>4, <2>1, <2>4, <3>4 DEF WidthSpreads
      <4>2. CASE width * (p - 1) >= TimeRange
        <5>1. n <= p
          BY <1>1, <2>1, <3>1, <3>2, <4>2, BucketsFewEnough
        <5> QED
          BY SMTT(30), <1>1, <2>1, <2>2, <5>1
      <4>3. CASE TimeRange > (p - 1) * Largest
        BY <2>1, <3>4, <4>3
      <4> QED
        BY <4>1, <4>2, <4>3
    <3> QED
      BY <3>3, <3>4
  <2> QED
    BY <1>1, <2>3, <2>4
<1> QED
  BY <1>6, <1>7, <1>8

(* timeseries.rs, for every set of widths, every series, and every number of points or width *)
(* asked for: the buckets of a finished result cut a run of samples into consecutive pieces, *)
(* all of them when a number of points is asked for, they start one after the other, and     *)
(* there are no more than were asked for if a predefined width is wide enough.               *)
THEOREM DownsampledWhole == DownsampleSpec => [](BucketsPartition /\ NotTooMany /\ BucketsInOrder)
BY DownsampleInitHolds, DownsampleStep, DownsampledRight, PTL DEF DownsampleSpec

-----------------------------------------------------------------------------
(* firmware.rs: the recommended firmware.                                   *)

(* If nothing went wrong, every firmware is still there, and when none is recommended a *)
(* request is half-way.                                                                 *)
RecInv ==
  /\ recpc \in [Firmwares -> {"no", "second"}] /\ recommends \in Nat /\ broken \in BOOLEAN
  /\ ~ broken => kept = Firmwares
  /\ (~ broken /\ recommends > 0 /\ recommended = {}) => \E f \in Firmwares : recpc[f] = "second"

LEMMA RecInitHolds == RecInit => RecInv
<1> SUFFICES ASSUME RecInit PROVE RecInv
  OBVIOUS
<1>1. recpc \in [Firmwares -> {"no", "second"}] /\ recommends = 0 /\ broken = FALSE /\ kept = Firmwares
  BY DEF RecInit
<1>2. broken \in BOOLEAN
  BY <1>1
<1>3. recommends \in Nat /\ ~ (recommends > 0)
  BY <1>1
<1> QED
  BY <1>1, <1>2, <1>3 DEF RecInv

LEMMA RecStep == RecInv /\ [RecNext]_recVars => RecInv'
<1> SUFFICES ASSUME RecInv, [RecNext]_recVars PROVE RecInv'
  OBVIOUS
<1> USE DEF RecInv
<1>1. ASSUME NEW f \in Firmwares, RecommendFirst(f) PROVE RecInv'
  <2>1. recpc' = [recpc EXCEPT ![f] = "second"] /\ recommends' = recommends + 1 /\ kept' = kept /\ broken' = broken
    BY <1>1 DEF RecommendFirst
  <2>2. recpc'[f] = "second" /\ recpc' \in [Firmwares -> {"no", "second"}]
    BY <2>1
  <2> QED
    BY <2>1, <2>2
<1>2. ASSUME NEW f \in Firmwares, RecommendSecond(f) PROVE RecInv'
  <2>1. /\ recpc' = [recpc EXCEPT ![f] = "no"] /\ recommends' = recommends /\ kept' = kept /\ broken' = broken
        /\ recommended' = recommended \cup ({f} \cap kept)
    BY <1>2 DEF RecommendSecond
  <2>2. recpc' \in [Firmwares -> {"no", "second"}]
    BY <2>1
  <2>3. ~ broken => f \in recommended'
    BY <2>1
  <2> QED
    BY <2>1, <2>2, <2>3
<1>3. ASSUME NEW f \in Firmwares, RecommendFails(f) PROVE RecInv'
  BY <1>3 DEF RecommendFails
<1>4. ASSUME NEW f \in Firmwares, RemoveFirmware(f) PROVE RecInv'
  BY <1>4 DEF RemoveFirmware
<1>5. CASE UNCHANGED recVars
  BY <1>5 DEF recVars
<1> QED
  BY <1>1, <1>2, <1>3, <1>4, <1>5 DEF RecNext

LEMMA RecommendedKept == RecInv => SomeRecommended
BY DEF RecInv, SomeRecommended

(* timeseries.rs and recommend_firmware: the theorem above, and for any firmwares, requests  *)
(* that overlap or fail, and firmwares that are removed, a request that has completed leaves *)
(* a recommended firmware behind, unless one failed half-way or its firmware was removed.    *)
THEOREM SeriesStayWhole == DownsampleSpec /\ RecSpec => []SeriesAreWhole
<1>1. RecSpec => []SomeRecommended
  BY RecInitHolds, RecStep, RecommendedKept, PTL DEF RecSpec
<1> QED
  BY DownsampledWhole, <1>1, PTL DEF SeriesAreWhole

=============================================================================
