------------------------------- MODULE SpiFlash -------------------------------
(***************************************************************************)
(* The driver of the external NOR flash (drivers/spi_flash.rs), one step   *)
(* per SPI transaction.  The chip is modelled from how the driver uses it: *)
(* asleep it hears only Wakeup, busy only ReadStatus; an erase or a        *)
(* program needs the write-enable latch and clears it, and a program wraps *)
(* in its page.  A transaction that fails may have reached the chip or     *)
(* not.  A reset of the processor forgets the driver and keeps the chip.   *)
(***************************************************************************)
EXTENDS Integers, Sequences

CONSTANTS
    page_size, erase_size, total_size,
    Large,              \* total_size > 16 MByte: 32-bit addresses are needed
    Bytes,              \* byte values; Erased and Mixed are two more
    Erased, Mixed,
    FlashRequests,      \* the calls: [kind, addr, len]
    WakeAttempts,       \* 5
    ReadyPolls,         \* 10
    MaxFlashOps,        \* bound: calls
    MaxFlashFaults,     \* bound: failed transactions
    MaxResets           \* bound: resets of the processor

ASSUME FlashAssumption ==
    /\ page_size \in Nat \ {0} /\ erase_size \in Nat \ {0} /\ total_size \in Nat
    /\ Large \in BOOLEAN
    /\ FlashRequests \subseteq [kind : {"detect", "erase", "program", "read"}, addr : Nat, len : Nat]

VARIABLES
    chip,       \* the chip: sleep, wel, busy, four, cells
    drv,        \* the driver: awake, mode and the running call
    ideal,      \* the cells after the running call, if it succeeds
    flashOps, flashFaults, flashResets

flashVars == <<chip, drv, ideal, flashOps, flashFaults, flashResets>>

Addrs == 0 .. total_size - 1

FlashIdle == [pc |-> "idle", awake |-> FALSE, mode |-> "B24", op |-> [kind |-> "none",
         addr |-> 0, len |-> 0], val |-> Erased, off |-> 0, tries |-> 0,
         err |-> "none", got |-> "none"]

FlashInit ==
    /\ chip = [sleep |-> FALSE, wel |-> FALSE, busy |-> FALSE, four |-> FALSE,
               cells |-> [a \in Addrs |-> Mixed]]
    /\ drv = FlashIdle /\ ideal = chip.cells
    /\ flashOps = 0 /\ flashFaults = 0 /\ flashResets = 0

-----------------------------------------------------------------------------
Programmed(cells, a, v) == [cells EXCEPT ![a] = IF @ = Erased THEN v ELSE Mixed]

\* Cells a .. a + n - 1 programmed to v; the chip wraps inside the page of a.
PageProgram(cells, a, n, v) ==
    LET base == a - (a % page_size)
        hit == {base + ((a + i) % page_size) : i \in 0..n-1}
    IN  [x \in Addrs |-> IF x \in hit THEN Programmed(cells, x, v)[x] ELSE cells[x]]

(***************************************************************************)
(* The chip after the command cmd.  An address in the wrong width names no *)
(* cell in particular: the command spoils them all.                        *)
(***************************************************************************)
ChipDoes(cmd, a, n, v) ==
    LET four == drv.mode = "B32"
        c == chip
    IN  CASE cmd = "Wakeup" -> [c EXCEPT !.sleep = FALSE]
          [] cmd # "Wakeup" /\ (c.sleep \/ c.busy) -> c
          [] cmd = "Sleep" /\ ~c.sleep /\ ~c.busy -> [c EXCEPT !.sleep = TRUE]
          [] cmd = "Enter4ByteMode" /\ ~c.sleep /\ ~c.busy -> [c EXCEPT !.four = TRUE]
          [] cmd = "WriteEnable" /\ ~c.sleep /\ ~c.busy -> [c EXCEPT !.wel = TRUE]
          [] cmd \in {"Erase", "Program"} /\ ~c.sleep /\ ~c.busy ->
               IF ~c.wel THEN c
               ELSE [c EXCEPT !.wel = FALSE, !.busy = TRUE,
                       !.cells = IF c.four # four THEN [x \in Addrs |-> Mixed]
                                 ELSE IF cmd = "Erase"
                                 THEN [x \in Addrs |-> IF x \in a..a+n-1 THEN Erased
                                                       ELSE c.cells[x]]
                                 ELSE PageProgram(c.cells, a, n, v)]
          [] OTHER -> c

\* A transaction: ok, or an error after which the chip may have heard it.
Spi(cmd, a, n, v, ok) ==
    /\ ok \/ flashFaults < MaxFlashFaults
    /\ flashFaults' = IF ok THEN flashFaults ELSE flashFaults + 1
    /\ chip' \in IF ok THEN {ChipDoes(cmd, a, n, v)}
                 ELSE {chip, ChipDoes(cmd, a, n, v)}

\* The chip finishes what it is busy with.
ChipReady ==
    /\ chip.busy
    /\ chip' = [chip EXCEPT !.busy = FALSE]
    /\ UNCHANGED <<drv, ideal, flashOps, flashFaults, flashResets>>

-----------------------------------------------------------------------------
Result(cells, op, v) ==
    CASE op.kind = "erase" ->
           [x \in Addrs |-> IF x \in op.addr..op.addr+op.len-1 THEN Erased
                            ELSE cells[x]]
      [] op.kind = "program" ->
           [x \in Addrs |-> IF x \in op.addr..op.addr+op.len-1
                            THEN Programmed(cells, x, v)[x] ELSE cells[x]]
      [] OTHER -> cells

\* bounds_check.
InBounds(op) == op.len <= total_size /\ op.addr <= total_size - op.len

\* read, erase, program and detect_type begin with a check and a wake-up.
FlashCall ==
    /\ drv.pc = "idle" /\ flashOps < MaxFlashOps
    /\ flashOps' = flashOps + 1
    /\ \E op \in FlashRequests, v \in Bytes :
        /\ drv' = IF InBounds(op)
                  THEN [drv EXCEPT !.pc = "wake", !.op = op, !.val = v, !.off = 0,
                                   !.tries = 0, !.err = "none", !.got = "none"]
                  ELSE [drv EXCEPT !.op = op, !.err = "OutOfBounds", !.got = "none"]
        /\ ideal' = Result(chip.cells, op, v)
    /\ UNCHANGED <<chip, flashFaults, flashResets>>

\* Every error of a transaction puts the chip to sleep before it is returned.
Sleeps(d, err) == [d EXCEPT !.pc = "sleep", !.err = err, !.tries = 0]

\* The first step of the operation once the chip is awake.
First(d) ==
    IF d.op.kind = "detect" THEN [d EXCEPT !.pc = "jedec"]
    ELSE IF Large /\ d.mode = "B24" THEN [d EXCEPT !.pc = "enter4"]
    ELSE IF d.op.kind = "read" THEN [d EXCEPT !.pc = "read"]
    ELSE IF d.op.kind = "erase"
            /\ (d.op.addr % erase_size # 0 \/ d.op.len % erase_size # 0)
    THEN Sleeps(d, "Alignment")
    ELSE IF d.op.len = 0 THEN Sleeps(d, "none")
    ELSE [d EXCEPT !.pc = "enable"]

\* Sleepy::wakeup.
Wakeup ==
    /\ drv.pc = "wake"
    /\ IF drv.awake THEN drv' = First(drv) /\ UNCHANGED <<chip, flashFaults>>
       ELSE \E ok \in BOOLEAN :
              /\ Spi("Wakeup", 0, 0, Erased, ok)
              /\ drv' = CASE ok -> First([drv EXCEPT !.awake = TRUE, !.tries = 0])
                          [] ~ok /\ drv.tries + 1 < WakeAttempts ->
                               [drv EXCEPT !.tries = @ + 1]
                          [] OTHER -> Sleeps(drv, "SPI")
    /\ UNCHANGED <<ideal, flashOps, flashResets>>

\* A plausible slip: the mode is noted before the chip has confirmed it.
Enter4ByteModeEarly ==
    /\ drv.pc = "enter4"
    /\ \E ok \in BOOLEAN :
        /\ Spi("Enter4ByteMode", 0, 0, Erased, ok)
        /\ drv' = IF ok THEN First([drv EXCEPT !.mode = "B32"])
                  ELSE Sleeps([drv EXCEPT !.mode = "B32"], "SPI")
    /\ UNCHANGED <<ideal, flashOps, flashResets>>

Enter4ByteMode ==
    /\ drv.pc = "enter4"
    /\ \E ok \in BOOLEAN :
        /\ Spi("Enter4ByteMode", 0, 0, Erased, ok)
        /\ drv' = IF ok THEN First([drv EXCEPT !.mode = "B32"])
                  ELSE Sleeps(drv, "SPI")
    /\ UNCHANGED <<ideal, flashOps, flashResets>>

Deaf == chip.sleep \/ chip.busy

\* The bytes read: those of the chip, if it listens and agrees on the width.
FlashRead ==
    /\ drv.pc = "read"
    /\ \E ok \in BOOLEAN :
        /\ Spi("Read", 0, 0, Erased, ok)
        /\ drv' = IF ~ok THEN Sleeps(drv, "SPI")
                  ELSE [Sleeps(drv, "none") EXCEPT !.got =
                          IF Deaf \/ chip.four # (drv.mode = "B32") THEN "junk"
                          ELSE "cells"]
    /\ UNCHANGED <<ideal, flashOps, flashResets>>

\* write_enable: the command, and the latch read back.
WriteEnable ==
    /\ drv.pc = "enable"
    /\ \E ok \in BOOLEAN :
        /\ Spi("WriteEnable", 0, 0, Erased, ok)
        /\ drv' = IF ok THEN [drv EXCEPT !.pc = "latch"] ELSE Sleeps(drv, "SPI")
    /\ UNCHANGED <<ideal, flashOps, flashResets>>

ReadLatch ==
    /\ drv.pc = "latch"
    /\ \E ok \in BOOLEAN :
        /\ Spi("ReadStatus", 0, 0, Erased, ok)
        /\ drv' = CASE ~ok -> Sleeps(drv, "SPI")
                    [] ok /\ chip.wel /\ ~chip.sleep -> [drv EXCEPT !.pc = "change"]
                    [] OTHER -> Sleeps(drv, "Write")
    /\ UNCHANGED <<ideal, flashOps, flashResets>>

\* A plausible slip: a program does not stop at the end of its page.
StepLenUnpaged == IF drv.op.kind = "erase" THEN erase_size
                  ELSE IF drv.op.len - drv.off < page_size THEN drv.op.len - drv.off
                  ELSE page_size

\* The bytes of one turn of the loop of erase and of program.
StepLen ==
    LET room == page_size - ((drv.op.addr + drv.off) % page_size)
        left == drv.op.len - drv.off
    IN  IF drv.op.kind = "erase" THEN erase_size
        ELSE IF left < room THEN left ELSE room

Change ==
    /\ drv.pc = "change"
    /\ \E ok \in BOOLEAN :
        /\ Spi(IF drv.op.kind = "erase" THEN "Erase" ELSE "Program",
               drv.op.addr + drv.off, StepLen, drv.val, ok)
        /\ drv' = IF ok THEN [drv EXCEPT !.pc = "poll", !.tries = 0]
                  ELSE Sleeps(drv, "SPI")
    /\ UNCHANGED <<ideal, flashOps, flashResets>>

\* is_ready, and on to the next sector or page.
Poll ==
    /\ drv.pc = "poll"
    /\ \E ok \in BOOLEAN :
        /\ Spi("ReadStatus", 0, 0, Erased, ok)
        /\ drv' = CASE ~ok -> Sleeps(drv, "SPI")
                    [] ok /\ ~chip.busy ->
                         IF drv.off + StepLen < drv.op.len
                         THEN [drv EXCEPT !.pc = "enable", !.off = @ + StepLen]
                         ELSE Sleeps(drv, "none")
                    [] ok /\ chip.busy /\ drv.tries + 1 < ReadyPolls ->
                         [drv EXCEPT !.tries = @ + 1]
                    [] OTHER -> Sleeps(drv, "Timeout")
    /\ UNCHANGED <<ideal, flashOps, flashResets>>

\* A plausible slip: a failed command leaves the driver thinking it is awake.
SleepIfOk ==
    /\ drv.pc = "sleep"
    /\ \E ok \in BOOLEAN :
        /\ Spi("Sleep", 0, 0, Erased, ok)
        /\ drv' = IF ok \/ drv.tries = 1
                  THEN [drv EXCEPT !.pc = "idle", !.awake = ~ok]
                  ELSE [drv EXCEPT !.tries = 1]
    /\ UNCHANGED <<ideal, flashOps, flashResets>>

\* Sleepy::sleep: two attempts, and the chip counts as asleep.
Sleep ==
    /\ drv.pc = "sleep"
    /\ \E ok \in BOOLEAN :
        /\ Spi("Sleep", 0, 0, Erased, ok)
        /\ drv' = IF ok \/ drv.tries = 1
                  THEN [drv EXCEPT !.pc = "idle", !.awake = FALSE]
                  ELSE [drv EXCEPT !.tries = 1]
    /\ UNCHANGED <<ideal, flashOps, flashResets>>

\* detect_type leaves the chip awake when it finds the chip it expects.
ReadJedec ==
    /\ drv.pc = "jedec"
    /\ \E ok, fits \in BOOLEAN :
        /\ Spi("ReadJEDEC", 0, 0, Erased, ok)
        /\ drv' = IF ok /\ fits THEN [drv EXCEPT !.pc = "idle"]
                  ELSE Sleeps(drv, IF ok THEN "SizeMismatch" ELSE "SPI")
    /\ UNCHANGED <<ideal, flashOps, flashResets>>

FlashReset ==
    /\ flashResets < MaxResets
    /\ flashResets' = flashResets + 1
    /\ drv' = FlashIdle
    /\ UNCHANGED <<chip, ideal, flashOps, flashFaults>>

FlashNext ==
    \/ FlashCall \/ Wakeup \/ Enter4ByteMode \/ FlashRead \/ WriteEnable \/ ReadLatch
    \/ Change \/ Poll \/ Sleep \/ ReadJedec \/ FlashReset \/ ChipReady

FlashSpec == FlashInit /\ [][FlashNext]_flashVars

-----------------------------------------------------------------------------
Succeeded == drv.pc = "idle" /\ drv.err = "none" /\ drv.op.kind # "none"

(***************************************************************************)
(* An erase or a program that returns Ok has changed the cells of its      *)
(* range, each to what was asked, and no other cell, over page and sector  *)
(* boundaries and with 24- or 32-bit addresses.                            *)
(***************************************************************************)
ChangesAreExact == Succeeded => chip.cells = ideal

(***************************************************************************)
(* A read that returns Ok has read the cells: the chip was awake and       *)
(* understood the address, whatever failed in earlier calls and whenever   *)
(* the processor was reset.  The exception is a chip still busy with a     *)
(* change that the driver gave up waiting for or that a reset cut off.     *)
(***************************************************************************)
ReadsAreReal == drv.pc = "read" /\ ~chip.busy => drv'.got # "junk"

=============================================================================
