--------------------------------- MODULE Uart ---------------------------------
(***************************************************************************)
(* The asynchronous UART of the modem (bsp/src/uartasync.rs): suspend and  *)
(* resume, the baud rate, a writer that sends chunks by one-shot DMA       *)
(* transfers (bsp/src/dma/oneshot.rs) and flushes, and a reader.  Its      *)
(* interrupt handlers run at a higher priority than every task; control    *)
(* never preempts a poll of the reader or the writer (deinit).  A poll is  *)
(* two steps, the registration of the waker and the look at the flags,     *)
(* with handlers running in between; a wake before the registration is     *)
(* lost.  The ring of the receiver is the module DmaRing; here it is only  *)
(* stopped, waiting to be armed, or armed.                                 *)
(***************************************************************************)
EXTENDS Integers

CONSTANTS
    Rates,          \* baud rates
    MaxChunks,      \* chunks of a write
    MaxControls,    \* bound: calls of suspend, resume and set_baud_rate
    MaxWrites,      \* bound: calls of write and flush
    MaxRxBytes      \* bound: bytes received

ASSUME UartAssumption == MaxChunks \in Nat

VARIABLES
    suspended,  \* SharedUartState::suspended
    pend,       \* the USART interrupt was pended by software
    line,       \* flags of the peripheral: tc, tcie, idle, and data in the fifo
    target, actual,     \* target_baudrate, actual_baudrate
    brr,        \* the rate the peripheral runs at, 0 when it is off
    dma,        \* the TX channel: en, clk, tcif, tie
    abort,      \* ONESHOT_ABORT
    wr,         \* the writer: pc, chunks left, registered, woken, result
    rd,         \* the reader: pc, registered, woken
    rx,         \* the ring: state and bytes in it
    asked,      \* abort was called since the writer began
    controls, writes, rxBytes

uartVars == <<suspended, pend, line, target, actual, brr, dma, abort, wr, rd, rx,
              asked, controls, writes, rxBytes>>

UartInit ==
    /\ suspended = "Suspended" /\ pend = FALSE
    /\ line = [tc |-> FALSE, tcie |-> FALSE, idle |-> FALSE, busy |-> FALSE]
    /\ target \in Rates /\ actual = 0 /\ brr = 0
    /\ dma = [en |-> FALSE, clk |-> FALSE, tcif |-> FALSE, tie |-> FALSE]
    /\ abort = FALSE /\ asked = FALSE
    /\ wr = [pc |-> "idle", left |-> 0, reg |-> FALSE, woken |-> FALSE, res |-> "none"]
    /\ rd = [pc |-> "idle", reg |-> FALSE, woken |-> FALSE]
    /\ rx = [st |-> "rearm", n |-> 0]
    /\ controls = 0 /\ writes = 0 /\ rxBytes = 0

\* A waker wakes the task that registered it last.
Woken(t) == IF t.reg THEN [t EXCEPT !.woken = TRUE, !.reg = FALSE] ELSE t

Cancelled == [en |-> FALSE, clk |-> FALSE, tcif |-> FALSE, tie |-> FALSE]

Halted == [dma EXCEPT !.en = @ /\ ~dma.clk]

DmaIrq == dma.tcif /\ dma.tie
UsartIrq == pend \/ line.idle \/ (line.tc /\ line.tcie)
NoIrq == ~DmaIrq /\ ~UsartIrq

-----------------------------------------------------------------------------
(***************************************************************************)
(* Control.  It never runs in the middle of a poll.                        *)
(***************************************************************************)
ControlRuns == NoIrq /\ controls < MaxControls
               /\ wr.pc \notin {"flags", "tc"} /\ rd.pc # "flags"

\* A plausible slip: the flush that waits for the line is not woken.
SuspendQuiet ==
    /\ ControlRuns /\ suspended = "Active"
    /\ controls' = controls + 1
    /\ suspended' = "Suspended" /\ pend' = TRUE
    /\ abort' = TRUE /\ asked' = TRUE
    /\ dma' = Halted
    /\ wr' = IF wr.pc = "write" THEN Woken(wr) ELSE wr
    /\ rx' = [st |-> "idle", n |-> 0]
    /\ brr' = 0
    /\ line' = [line EXCEPT !.busy = FALSE, !.tc = FALSE, !.tcie = FALSE]
    /\ UNCHANGED <<target, actual, rd, writes, rxBytes>>

Suspend ==
    /\ ControlRuns /\ suspended = "Active"
    /\ controls' = controls + 1
    /\ suspended' = "Suspended" /\ pend' = TRUE
    /\ abort' = TRUE /\ asked' = TRUE
    /\ dma' = Halted
    /\ wr' = Woken(wr)
    /\ rx' = [st |-> "idle", n |-> 0]
    /\ brr' = 0
    /\ line' = [line EXCEPT !.busy = FALSE, !.tc = FALSE, !.tcie = FALSE]
    /\ UNCHANGED <<target, actual, rd, writes, rxBytes>>

\* A plausible slip: the peripheral restarts at the rate it had.
ResumeAsBefore ==
    /\ ControlRuns /\ suspended = "Suspended"
    /\ controls' = controls + 1
    /\ suspended' = "Resuming" /\ pend' = TRUE
    /\ brr' = IF actual = 0 THEN target ELSE actual
    /\ actual' = brr'
    /\ rx' = [rx EXCEPT !.st = "rearm"]
    /\ rd' = Woken(rd)
    /\ line' = [tc |-> TRUE, tcie |-> FALSE, idle |-> FALSE, busy |-> FALSE]
    /\ UNCHANGED <<target, dma, abort, wr, asked, writes, rxBytes>>

Resume ==
    /\ ControlRuns /\ suspended = "Suspended"
    /\ controls' = controls + 1
    /\ suspended' = "Resuming" /\ pend' = TRUE
    /\ brr' = target /\ actual' = target
    /\ rx' = [rx EXCEPT !.st = "rearm"]
    /\ rd' = Woken(rd)
    /\ line' = [tc |-> TRUE, tcie |-> FALSE, idle |-> FALSE, busy |-> FALSE]
    /\ UNCHANGED <<target, dma, abort, wr, asked, writes, rxBytes>>

\* set_baud_rate: an active peripheral is stopped, configured and restarted.
SetBaudRate ==
    /\ ControlRuns
    /\ controls' = controls + 1
    /\ \E r \in Rates \ {target} :
        /\ target' = r
        /\ IF suspended = "Suspended"
           THEN UNCHANGED <<actual, brr, rx, abort, asked, dma, wr, rd, line>>
           ELSE /\ actual' = r /\ brr' = r
                /\ rx' = [st |-> "rearm", n |-> 0]
                /\ rd' = Woken(rd)
                /\ abort' = TRUE /\ asked' = TRUE
                /\ dma' = Halted
                /\ wr' = IF wr.pc = "write" THEN Woken(wr) ELSE wr
                /\ line' = [line EXCEPT !.busy = FALSE, !.tc = TRUE]
    /\ UNCHANGED <<suspended, pend, writes, rxBytes>>

-----------------------------------------------------------------------------
\* A plausible slip: a suspended UART has nothing to say to its reader.
UartIsrAsleep ==
    /\ UsartIrq
    /\ pend' = FALSE
    /\ IF suspended = "Suspended"
       THEN /\ line' = [line EXCEPT !.idle = FALSE, !.tcie = FALSE]
            /\ UNCHANGED <<wr, rd, suspended>>
       ELSE /\ rd' = IF line.idle \/ suspended = "Resuming" THEN Woken(rd) ELSE rd
            /\ wr' = IF line.tc /\ line.tcie THEN Woken(wr) ELSE wr
            /\ line' = [line EXCEPT !.idle = FALSE,
                                    !.tcie = @ /\ ~line.tc]
            /\ suspended' = "Active"
    /\ UNCHANGED <<target, actual, brr, dma, abort, rx, asked, controls, writes, rxBytes>>

(***************************************************************************)
(* The handlers.  UartISR::handle_interrupt is one step.                   *)
(***************************************************************************)
UartIsr ==
    /\ UsartIrq
    /\ pend' = FALSE
    /\ IF suspended = "Suspended"
       THEN /\ rd' = Woken(rd)
            /\ line' = [line EXCEPT !.idle = FALSE, !.tcie = FALSE]
            /\ UNCHANGED <<wr, suspended>>
       ELSE /\ rd' = IF line.idle \/ suspended = "Resuming" THEN Woken(rd) ELSE rd
            /\ wr' = IF line.tc /\ line.tcie THEN Woken(wr) ELSE wr
            /\ line' = [line EXCEPT !.idle = FALSE,
                                    !.tcie = @ /\ ~line.tc]
            /\ suspended' = "Active"
    /\ UNCHANGED <<target, actual, brr, dma, abort, rx, asked, controls, writes, rxBytes>>

\* OneShotDmaIrq::handle_interrupt leaves the flag to the future.
TxDmaIsr ==
    /\ DmaIrq
    /\ dma' = [dma EXCEPT !.tie = FALSE]
    /\ wr' = IF wr.pc \in {"write", "flags"} THEN Woken(wr) ELSE wr
    /\ UNCHANGED <<suspended, pend, line, target, actual, brr, abort, rd, rx, asked,
                   controls, writes, rxBytes>>

-----------------------------------------------------------------------------
(***************************************************************************)
(* Hardware: a transfer ends in the fifo, the fifo drains on the line, and *)
(* a byte arrives, after which the line is idle.                           *)
(***************************************************************************)
TransferEnds ==
    /\ dma.en /\ brr # 0
    /\ dma' = [dma EXCEPT !.en = FALSE, !.tcif = TRUE]
    /\ line' = [line EXCEPT !.busy = TRUE, !.tc = FALSE]
    /\ UNCHANGED <<suspended, pend, target, actual, brr, abort, wr, rd, rx, asked,
                   controls, writes, rxBytes>>

LineDrains ==
    /\ line.busy
    /\ line' = [line EXCEPT !.busy = FALSE, !.tc = TRUE]
    /\ UNCHANGED <<suspended, pend, target, actual, brr, dma, abort, wr, rd, rx, asked,
                   controls, writes, rxBytes>>

ByteArrives ==
    /\ brr # 0 /\ rxBytes < MaxRxBytes
    /\ rxBytes' = rxBytes + 1
    /\ rx' = IF rx.st = "armed" THEN [rx EXCEPT !.n = @ + 1] ELSE rx
    /\ line' = [line EXCEPT !.idle = TRUE]
    /\ UNCHANGED <<suspended, pend, target, actual, brr, dma, abort, wr, rd, asked,
                   controls, writes>>

-----------------------------------------------------------------------------
(***************************************************************************)
(* The writer.  Begin starts a transfer of the next chunk, OneShot::write. *)
(***************************************************************************)
WriterDone(res) == [pc |-> "idle", left |-> 0, reg |-> FALSE, woken |-> FALSE,
                    res |-> res]

\* A plausible slip: a request to abort that is left over is not cleared.
BeginStale(w) ==
    /\ dma' = [en |-> TRUE, clk |-> TRUE, tcif |-> FALSE, tie |-> TRUE]
    /\ abort' = abort
    /\ wr' = [w EXCEPT !.pc = "write", !.woken = TRUE]

Begin(w) ==
    /\ dma' = [en |-> TRUE, clk |-> TRUE, tcif |-> FALSE, tie |-> TRUE]
    /\ abort' = FALSE
    /\ wr' = [w EXCEPT !.pc = "write", !.woken = TRUE]

Write ==
    /\ wr.pc = "idle" /\ writes < MaxWrites
    /\ writes' = writes + 1
    /\ asked' = FALSE
    /\ IF suspended = "Suspended"
       THEN wr' = WriterDone("Suspended") /\ UNCHANGED <<dma, abort>>
       ELSE \E n \in 1..MaxChunks : Begin([wr EXCEPT !.left = n, !.res = "none"])
    /\ UNCHANGED <<suspended, pend, line, target, actual, brr, rd, rx, controls, rxBytes>>

\* flush: with an empty fifo there is nothing to wait for.
Flush ==
    /\ wr.pc = "idle" /\ writes < MaxWrites
    /\ writes' = writes + 1
    /\ IF line.busy
       THEN /\ line' = [line EXCEPT !.tcie = TRUE]
            /\ wr' = [wr EXCEPT !.pc = "flush", !.woken = TRUE, !.res = "none"]
       ELSE wr' = WriterDone("Ok") /\ UNCHANGED line
    /\ UNCHANGED <<suspended, pend, target, actual, brr, dma, abort, rd, rx, asked,
                   controls, rxBytes>>

\* The poll of a write or a flush: look for a suspend, then register.
PollRegister ==
    /\ wr.pc \in {"write", "flush"} /\ wr.woken
    /\ IF suspended = "Suspended"
       THEN /\ wr' = WriterDone("Suspended")
            /\ dma' = IF wr.pc = "write" THEN Cancelled ELSE dma
       ELSE /\ wr' = [wr EXCEPT !.pc = IF @ = "write" THEN "flags" ELSE "tc",
                                !.woken = FALSE, !.reg = TRUE]
            /\ UNCHANGED dma
    /\ UNCHANGED <<suspended, pend, line, target, actual, brr, abort, rd, rx, asked,
                   controls, writes, rxBytes>>

\* Transfer::poll: a completed transfer wins over a request to abort it.
PollTransfer ==
    /\ wr.pc = "flags"
    /\ CASE dma.tcif /\ wr.left = 1 ->
              wr' = WriterDone("Ok") /\ dma' = Cancelled /\ UNCHANGED abort
         [] dma.tcif /\ wr.left > 1 -> Begin([wr EXCEPT !.left = @ - 1])
         [] ~dma.tcif /\ abort ->
              wr' = WriterDone("Aborted") /\ dma' = Cancelled /\ abort' = FALSE
         [] OTHER ->
              /\ wr' = [wr EXCEPT !.pc = "write"]
              /\ dma' = [dma EXCEPT !.tie = TRUE]
              /\ UNCHANGED abort
    /\ UNCHANGED <<suspended, pend, line, target, actual, brr, rd, rx, asked, controls,
                   writes, rxBytes>>

PollTc ==
    /\ wr.pc = "tc"
    /\ wr' = IF line.tc THEN WriterDone("Ok") ELSE [wr EXCEPT !.pc = "flush"]
    /\ line' = IF line.tc THEN [line EXCEPT !.tcie = FALSE] ELSE line
    /\ UNCHANGED <<suspended, pend, target, actual, brr, dma, abort, rd, rx, asked,
                   controls, writes, rxBytes>>

WriterStep == NoIrq /\ (PollRegister \/ PollTransfer \/ PollTc)

-----------------------------------------------------------------------------
(***************************************************************************)
(* The reader: Rx::read, with the arming that try_read does.               *)
(***************************************************************************)
Read ==
    /\ rd.pc = "idle"
    /\ rd' = [pc |-> "wait", reg |-> FALSE, woken |-> TRUE]
    /\ UNCHANGED <<suspended, pend, line, target, actual, brr, dma, abort, wr, rx, asked,
                   controls, writes, rxBytes>>

ReadRegister ==
    /\ rd.pc = "wait" /\ rd.woken
    /\ rd' = IF suspended = "Suspended"
             THEN [pc |-> "idle", reg |-> FALSE, woken |-> FALSE]
             ELSE [pc |-> "flags", reg |-> TRUE, woken |-> FALSE]
    /\ UNCHANGED <<suspended, pend, line, target, actual, brr, dma, abort, wr, rx, asked,
                   controls, writes, rxBytes>>

TryRead ==
    /\ rd.pc = "flags"
    /\ CASE rx.st = "rearm" ->
              rx' = [st |-> "armed", n |-> 0] /\ rd' = [rd EXCEPT !.pc = "wait"]
         [] rx.st = "armed" /\ rx.n > 0 ->
              /\ rx' = [rx EXCEPT !.n = 0]
              /\ rd' = [pc |-> "idle", reg |-> FALSE, woken |-> FALSE]
         [] OTHER -> rd' = [rd EXCEPT !.pc = "wait"] /\ UNCHANGED rx
    /\ UNCHANGED <<suspended, pend, line, target, actual, brr, dma, abort, wr, asked,
                   controls, writes, rxBytes>>

ReaderStep == NoIrq /\ (ReadRegister \/ TryRead)

HardwareStep == UartIsr \/ TxDmaIsr \/ TransferEnds \/ LineDrains

UartNext ==
    \/ Suspend \/ Resume \/ SetBaudRate \/ HardwareStep \/ ByteArrives
    \/ (NoIrq /\ (Write \/ Flush \/ Read)) \/ WriterStep \/ ReaderStep

(***************************************************************************)
(* Fairness: interrupts are taken, the peripheral works while it has a     *)
(* clock, and the executor polls a task that was woken.                    *)
(***************************************************************************)
UartFairness ==
    /\ WF_uartVars(HardwareStep)
    /\ WF_uartVars(WriterStep)
    /\ WF_uartVars(ReaderStep)

UartSpec == UartInit /\ [][UartNext]_uartVars /\ UartFairness

-----------------------------------------------------------------------------
(***************************************************************************)
(* Again and again (liveness): every write and flush returns, whenever the UART is suspended,    *)
(* resumed or given another rate in the meantime: no wake-up is lost.      *)
(***************************************************************************)
WriteReturned == wr.pc = "idle"

(***************************************************************************)
(* Again and again (liveness): bytes in the ring and a suspended UART both *)
(* end the read that waits.                                                *)
(***************************************************************************)
ReadReturned == rd.pc = "idle" \/ (rx.n = 0 /\ suspended # "Suspended")

(***************************************************************************)
(* A write is aborted only by a suspend or a new baud rate during that     *)
(* write: a request that came when no transfer ran kills no later one.     *)
(***************************************************************************)
AbortIsMeant == wr.res = "Aborted" => asked

(***************************************************************************)
(* A running peripheral runs at the rate asked for last, also when that    *)
(* was while it was suspended.                                             *)
(***************************************************************************)
RateIsTarget == brr # 0 => brr = target /\ actual = target

(***************************************************************************)
(* uartasync.rs: a transfer is aborted only by the suspend that was meant  *)
(* for it, and the UART runs at the rate that was asked for last.          *)
(***************************************************************************)
UartIsSafe == AbortIsMeant /\ RateIsTarget

=============================================================================
