------------------------------ MODULE BootStats ------------------------------
(***************************************************************************)
(* drivers/boot_stats.rs: counters in battery-backed registers that        *)
(* survive a reboot. A cause marks its register with a flag (a panic or    *)
(* fault handler before the reset, the hardware flags right after it);     *)
(* the next boot turns the flags into one reported reason, counts it, and  *)
(* reports a boot loop when a reason comes too often per interval. Power   *)
(* may fail while the registers are being updated.                         *)
(***************************************************************************)
EXTENDS Integers, FiniteSets

CONSTANTS
  LoopLimit,       \* function: how often each reason may come per interval
  INTERVAL,        \* uptime after which the counters start anew (1800 s in the code)
  COUNT_MASK,      \* counters saturate here
  MaxBoots, MaxLosses

Causes == {"por", "wdt", "panic", "fault"}
Fallbacks == {"software", "unknown"}
Reasons == Causes \cup Fallbacks
Cells == Causes \cup {"total", "current", "boot"}

ASSUME StatAssumption ==
  /\ INTERVAL \in Nat /\ COUNT_MASK \in Nat /\ MaxBoots \in Nat /\ MaxLosses \in Nat
  /\ LoopLimit \in [Reasons -> Nat] /\ \A r \in Reasons : LoopLimit[r] < COUNT_MASK

VARIABLES
  regs,        \* per register: [count, flag]
  booting,     \* "up" | "reset" | "counting": a boot whose uptime has been added
  fallback,    \* the reason of a boot without flags
  reported,    \* boot_reason of the last boot
  owed,        \* history: per cause, how often it happened and was not yet reported
  streak,      \* history: per reason, its reports since the counters were last reset
  boots, losses

statVars == <<regs, booting, fallback, reported, owed, streak, boots, losses>>

Zero == [c \in Cells |-> [count |-> 0, flag |-> c \in {"total", "current"}]]

Saturate(n) == IF n > COUNT_MASK THEN COUNT_MASK ELSE n

NoStreak == [r \in Reasons |-> 0]

StatInit ==
  /\ regs = Zero /\ booting = "up" /\ fallback = "unknown" /\ reported = "unknown"
  /\ owed = [c \in Causes |-> 0] /\ streak = NoStreak /\ boots = 0 /\ losses = 0

SetFlag(r, cs) == [c \in Cells |-> IF c \in cs THEN [r[c] EXCEPT !.flag = TRUE] ELSE r[c]]

IncrementBy(r, c, delta) == [r EXCEPT ![c].count = Saturate(@ + delta)]

(* The application counts its uptime in the current register. *)
CountUptime ==
  /\ booting = "up" /\ regs["current"].count <= INTERVAL
  /\ regs' = IncrementBy(regs, "current", 1)
  /\ UNCHANGED <<booting, fallback, reported, owed, streak, boots, losses>>

(* A reset with the flags its causes set: a fault handler may panic as well, and the *)
(* hardware flags of boot_stats() join what the handlers left.                        *)
Reset(cs, other) ==
  /\ boots < MaxBoots /\ boots' = boots + 1
  /\ booting' = "reset" /\ fallback' = other
  /\ regs' = SetFlag(regs, cs)
  /\ owed' = [c \in Causes |-> IF c \in cs THEN owed[c] + 1 ELSE owed[c]]
  /\ UNCHANGED <<reported, streak, losses>>

(* The backup battery was empty: whatever the registers hold, no flag pattern is right *)
(* but by chance. One register may be disturbed alone.                                 *)
LoseRegisters(cs) ==
  /\ booting = "reset" /\ losses < MaxLosses /\ losses' = losses + 1
  /\ regs' = [c \in Cells |-> IF c \in cs THEN [count |-> 0, flag |-> FALSE] ELSE regs[c]]
  /\ UNCHANGED <<booting, fallback, reported, owed, streak, boots>>

(* try_from_registers_or, its first part: the magic of the uptime registers, the     *)
(* previous uptime added to the total, the boot counted.                             *)
AddUptime ==
  /\ booting = "reset" /\ booting' = "counting"
  /\ LET corrupt == {c \in {"total", "current"} : ~regs[c].flag}
         valid == IF Cardinality(corrupt) > 1 THEN Zero
                  ELSE [c \in Cells |-> IF c \in corrupt THEN [count |-> 0, flag |-> TRUE]
                                        ELSE regs[c]]
         summed == IncrementBy(valid, "total", valid["current"].count)
     IN  /\ regs' = IncrementBy([summed EXCEPT !["current"].count = 0], "boot", 1)
         /\ streak' = IF Cardinality(corrupt) > 1 THEN NoStreak ELSE streak
  /\ UNCHANGED <<fallback, reported, owed, boots, losses>>

(* The flags' order of precedence *)
BootReason(flags) ==
  CASE "fault" \in flags -> "fault"
    [] "fault" \notin flags /\ "panic" \in flags -> "panic"
    [] flags \cap {"fault", "panic"} = {} /\ "wdt" \in flags -> "wdt"
    [] flags = {"por"} -> "por"
    [] OTHER -> fallback

(* Mutant: the flag is kept when its register is counted. *)
CountedFlagged(r, reason) == IF reason \in Causes THEN IncrementBy(r, reason, 1) ELSE r

(* Counting a cause writes its register without the flag; the flags of the other causes *)
(* stay. A boot without a cause has no counter of its own.                              *)
Counted(r, reason) ==
  IF reason \in Causes
  THEN [r EXCEPT ![reason] = [count |-> Saturate(@.count + 1), flag |-> FALSE]] ELSE r

(* Mutant: a boot without a flag never looks at the counter of boots. *)
TooOftenCauses(r, reason) == reason \in Causes /\ r[reason].count > LoopLimit[reason]

TooOften(r, reason) ==
  IF reason \in Causes THEN r[reason].count > LoopLimit[reason]
  ELSE r["boot"].count > LoopLimit[reason]

(* try_from_registers_or, its second part: the reason, the interval, the boot loop. *)
CountBoot ==
  /\ booting = "counting" /\ booting' = "up"
  /\ LET reason == BootReason({c \in Causes : regs[c].flag})
         over == regs["total"].count >= INTERVAL
         counted == Counted(regs, reason)
         loop == ~over /\ TooOften(counted, reason)
     IN  /\ regs' = IF over \/ loop THEN Zero ELSE counted
         /\ reported' = IF loop THEN "loop" ELSE reason
         /\ streak' = IF over \/ loop THEN NoStreak ELSE [streak EXCEPT ![reason] = @ + 1]
         /\ owed' = [c \in Causes |-> IF c = reason THEN owed[c] - 1 ELSE owed[c]]
  /\ UNCHANGED <<fallback, boots, losses>>

StatNext ==
  \/ CountUptime \/ AddUptime \/ CountBoot
  \/ \E other \in Fallbacks :
       \E cs \in {{}, {"por"}, {"wdt"}, {"panic"}, {"fault", "panic"}, {"wdt", "por"}} : Reset(cs, other)
  \/ \E cs \in {Cells, {"current"}, {"total"}} : LoseRegisters(cs)

StatSpec == StatInit /\ [][StatNext]_statVars

-----------------------------------------------------------------------------

(* set_flag, "After reboot, try_from_registers() should reset the flag": no cause is       *)
(* reported more often than it happened, also when a second cause kept its flag for the    *)
(* boot after, power failed while the boot was counted or the registers were lost.         *)
ReportedHappened == \A c \in Causes : owed[c] >= 0

(* "Detect a boot loop if boot reason happens more than N times per interval": no reason  *)
(* is reported more often than its limit before either the interval has passed or a loop  *)
(* was reported, whatever other reasons come in between.                                  *)
LoopIsNoticed == \A r \in Reasons : streak[r] <= LoopLimit[r]

(* boot_stats.rs: every reset that is reported happened and is reported once, and a device    *)
(* that resets in a loop notices it.                                                          *)
BootsAreCounted == ReportedHappened /\ LoopIsNoticed

=============================================================================
