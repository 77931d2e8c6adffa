------------------------------- MODULE DmaRing -------------------------------
(***************************************************************************)
(* The circular DMA receiver of the board support package                  *)
(* (bsp/src/dma/circular.rs on top of bsp/src/dma.rs).  Four parties share *)
(* it without a lock: the DMA engine that fills the ring, the channel's    *)
(* interrupt handler, the consumer (try_read, data_ready) and the control  *)
(* side (stop, request_rearm).  Consumer and control take one atomic       *)
(* operation or one critical section per step and interleave freely; the   *)
(* interrupt handler runs at a higher priority than both, so that they     *)
(* step only when no flag of the channel is pending, but it may be late    *)
(* with respect to the engine.  Bytes are numbered as they arrive on the   *)
(* line; a position is a number of bytes since the channel was armed.      *)
(***************************************************************************)
EXTENDS Integers, Sequences

CONSTANTS
    RingLen,        \* length of the ring, even
    DstLen,         \* bytes asked for by one read
    ConsumerLooks,  \* whether the consumer looks at least once in every lap
    MaxBytes,       \* bound: bytes on the line
    MaxStops,       \* bound: calls of stop
    MaxFaults       \* bound: transfer errors and overruns of the peripheral

ASSUME RingAssumption ==
    /\ RingLen \in Nat \ {0} /\ DstLen \in Nat \ {0} /\ ConsumerLooks \in BOOLEAN

VARIABLES
    ring_state,      \* CircShared::state
    isr_laps,   \* CircShared::isr_laps
    overrun,    \* CircShared::overrun
    dma,        \* the channel: en, clk, ring, pos, ht, tc, te, and unmade (see RequestRearm)
    cons,       \* the consumer: cons_laps, prev, consumed and its locals
    cpc,        \* where the consumer is
    kpc,        \* where control is
    line,       \* bytes that have arrived on the line
    stops, dmaFaults,
    out         \* bytes of the last read, and whether a gap may precede them

ringVars == <<ring_state, isr_laps, overrun, dma, cons, cpc, kpc, line, stops,
              dmaFaults, out>>

Ndtr == RingLen - (dma.pos % RingLen)

NoFlags == ~dma.ht /\ ~dma.tc /\ ~dma.te

RingInit ==
    /\ ring_state = "REARM_REQ" /\ isr_laps = 0 /\ overrun = FALSE
    /\ dma = [en |-> FALSE, clk |-> FALSE, pos |-> 0, ht |-> FALSE,
              tc |-> FALSE, te |-> FALSE, unmade |-> FALSE,
              ring |-> [i \in 0..RingLen-1 |-> 0]]
    /\ cons = [laps |-> 0, prev |-> RingLen, consumed |-> 0, looked |-> 0,
               c |-> 0, produced |-> 0, got |-> <<>>, want |-> 0, res |-> "Empty"]
    /\ cpc = "idle" /\ kpc = "idle" /\ line = 0 /\ stops = 0 /\ dmaFaults = 0
    /\ out = [bytes |-> <<>>, last |-> 0, gap |-> TRUE, was |-> TRUE]

-----------------------------------------------------------------------------
(***************************************************************************)
(* The engine: a byte of the line is written to the ring, the half and the *)
(* end of a lap raise a flag.  Without a running channel it is lost.       *)
(***************************************************************************)
DmaByte ==
    /\ line < MaxBytes
    /\ dma.en /\ ConsumerLooks => dma.pos + 1 - cons.looked < RingLen
    /\ line' = line + 1
    /\ dma' = IF ~dma.en THEN dma
              ELSE [dma EXCEPT !.pos = @ + 1,
                               !.ring[dma.pos % RingLen] = line + 1,
                               !.ht = @ \/ (dma.pos + 1) % RingLen = RingLen \div 2,
                               !.tc = @ \/ (dma.pos + 1) % RingLen = 0]
    /\ out' = IF dma.en THEN out ELSE [out EXCEPT !.gap = TRUE]
    /\ UNCHANGED <<ring_state, isr_laps, overrun, cons, cpc, kpc, stops, dmaFaults>>

TransferError ==
    /\ dma.en /\ dmaFaults < MaxFaults
    /\ dmaFaults' = dmaFaults + 1
    /\ dma' = [dma EXCEPT !.te = TRUE]
    /\ UNCHANGED <<ring_state, isr_laps, overrun, cons, cpc, kpc, line, stops, out>>

(***************************************************************************)
(* CircularRxDmaIrq::handle_interrupt.                                     *)
(***************************************************************************)
HandleInterrupt ==
    /\ ~NoFlags
    /\ overrun' = (overrun \/ dma.te \/ (dma.ht /\ dma.tc))
    /\ isr_laps' = IF ~dma.te /\ ~dma.ht /\ dma.tc THEN isr_laps + 1
                   ELSE isr_laps
    /\ dma' = [dma EXCEPT !.ht = FALSE, !.tc = FALSE, !.te = FALSE]
    /\ UNCHANGED <<ring_state, cons, cpc, kpc, line, stops, dmaFaults, out>>

\* CircularRxLineIrq::signal_overrun, from the interrupt of the peripheral.
SignalOverrun ==
    /\ dmaFaults < MaxFaults
    /\ dmaFaults' = dmaFaults + 1
    /\ overrun' = TRUE
    /\ UNCHANGED <<ring_state, isr_laps, dma, cons, cpc, kpc, line, stops, out>>

-----------------------------------------------------------------------------
\* RawChannel::stop.
RingStopped(ch) == [ch EXCEPT !.en = FALSE, !.clk = FALSE, !.ht = FALSE,
                          !.tc = FALSE, !.te = FALSE, !.unmade = FALSE]

\* start_circular, one critical section.
RingStarted(ch) == [ch EXCEPT !.en = TRUE, !.clk = TRUE, !.ht = FALSE,
                          !.tc = FALSE, !.te = FALSE, !.pos = 0, !.unmade = FALSE]

\* The end of a call of the consumer with the result res.
ReturnRead(c, res) ==
    /\ cpc' = "idle"
    /\ cons' = [c EXCEPT !.res = "Empty", !.got = <<>>, !.want = 0, !.c = 0,
                         !.produced = 0]
    /\ out' = CASE res = "Bytes" ->
                    [bytes |-> c.got, last |-> c.got[Len(c.got)], gap |-> FALSE,
                     was |-> out.gap \/ c.got[1] = out.last + 1]
                [] res = "Overrun" -> [out EXCEPT !.gap = TRUE]
                [] OTHER -> out

\* enter_reading: the CAS that opens the span in which registers are read.
EnterReading ==
    /\ cpc = "idle"
    /\ \E look \in BOOLEAN :
        IF ring_state = "ARMED"
        THEN ring_state' = "READING" /\ cpc' = IF look THEN "look" ELSE "swap"
        ELSE ring_state' = ring_state /\ cpc' = "service"
    /\ UNCHANGED <<isr_laps, overrun, dma, cons, kpc, line, stops, dmaFaults, out>>

\* service_not_armed: arm() resets the accounts before it starts the channel.
Service ==
    /\ cpc = "service"
    /\ CASE ring_state = "REARM_REQ" ->
              /\ isr_laps' = 0 /\ overrun' = FALSE
              /\ cons' = [cons EXCEPT !.laps = 0, !.prev = RingLen,
                                      !.consumed = 0, !.looked = 0]
              /\ cpc' = "start"
              /\ UNCHANGED out
         [] ring_state = "STOP_REQ" ->
              /\ cpc' = "dostop"
              /\ UNCHANGED <<isr_laps, overrun, cons, out>>
         [] OTHER -> ReturnRead(cons, "Empty") /\ UNCHANGED <<isr_laps, overrun>>
    /\ UNCHANGED <<ring_state, dma, kpc, line, stops, dmaFaults>>

StartCircular ==
    /\ cpc = "start"
    /\ dma' = RingStarted(dma)
    /\ out' = [out EXCEPT !.gap = TRUE]
    /\ cpc' = "commit"
    /\ UNCHANGED <<ring_state, isr_laps, overrun, cons, kpc, line, stops, dmaFaults>>

CommitArm ==
    /\ cpc = "commit"
    /\ IF ring_state = "REARM_REQ"
       THEN ring_state' = "ARMED" /\ ReturnRead(cons, "Empty")
       ELSE cpc' = "raced" /\ UNCHANGED <<ring_state, cons, out>>
    /\ UNCHANGED <<isr_laps, overrun, dma, kpc, line, stops, dmaFaults>>

\* A plausible slip: only a parked stop undoes the arming.
ArmRacedParkedOnly ==
    /\ cpc = "raced"
    /\ IF ring_state = "STOP_REQ"
       THEN cpc' = "dostop" /\ UNCHANGED <<ring_state, cons, out>>
       ELSE /\ ring_state' = IF ring_state = "IDLE" THEN "IDLE" ELSE "ARMED"
            /\ ReturnRead(cons, "Empty")
    /\ UNCHANGED <<isr_laps, overrun, dma, kpc, line, stops, dmaFaults>>

ArmRaced ==
    /\ cpc = "raced"
    /\ IF ring_state \in {"STOP_REQ", "IDLE"}
       THEN cpc' = "dostop" /\ UNCHANGED <<ring_state, cons, out>>
       ELSE ring_state' = "ARMED" /\ ReturnRead(cons, "Empty")
    /\ UNCHANGED <<isr_laps, overrun, dma, kpc, line, stops, dmaFaults>>

DoStop ==
    \/ /\ cpc = "dostop"
       /\ dma' = RingStopped(dma)
       /\ cpc' = "settle"
       /\ UNCHANGED <<ring_state, isr_laps, overrun, cons, kpc, line, stops, dmaFaults, out>>
    \/ /\ cpc = "settle"
       /\ ring_state' = IF ring_state = "STOP_REQ" THEN "IDLE" ELSE ring_state
       /\ ReturnRead(cons, cons.res)
       /\ UNCHANGED <<isr_laps, overrun, dma, kpc, line, stops, dmaFaults>>

-----------------------------------------------------------------------------
(***************************************************************************)
(* read_in_reading.  observe() is two steps: the register is read, then    *)
(* the lap counter of the interrupt handler, which may run in between.     *)
(***************************************************************************)
SwapOverrun ==
    /\ cpc = "swap"
    /\ overrun' = FALSE
    /\ IF overrun
       THEN cpc' = "exit" /\ cons' = [cons EXCEPT !.res = "Overrun"]
       ELSE cpc' = "see" /\ UNCHANGED cons
    /\ UNCHANGED <<ring_state, isr_laps, dma, kpc, line, stops, dmaFaults, out>>

ReadNdtr ==
    /\ cpc \in {"look", "see", "check"}
    /\ cons' = [cons EXCEPT !.c = Ndtr, !.looked = dma.pos]
    /\ cpc' = [look |-> "looked", see |-> "seen", check |-> "checked"][cpc]
    /\ UNCHANGED <<ring_state, isr_laps, overrun, dma, kpc, line, stops, dmaFaults, out>>

LapsSeen ==
    LET own == IF cons.c > cons.prev THEN cons.laps + 1 ELSE cons.laps
    IN  IF isr_laps >= own THEN isr_laps ELSE own

\* The consumer after observe(), which returns its produced.
Observed == [cons EXCEPT !.laps = LapsSeen, !.prev = cons.c,
                         !.produced = LapsSeen * RingLen
                                      + ((RingLen - cons.c) % RingLen)]

Overtaken(c) == c.produced - c.consumed > RingLen \/ c.produced < c.consumed

\* data_ready only compares.
DataReady ==
    /\ cpc = "looked"
    /\ cons' = Observed
    /\ cpc' = "exit"
    /\ UNCHANGED <<ring_state, isr_laps, overrun, dma, kpc, line, stops, dmaFaults, out>>

DecideRead ==
    /\ cpc = "seen"
    /\ LET c == Observed
           avail == c.produced - c.consumed
       IN  CASE Overtaken(c) ->
                  /\ cons' = [c EXCEPT !.consumed = c.produced, !.res = "Overrun"]
                  /\ cpc' = "exit"
             [] avail = 0 -> cons' = c /\ cpc' = "exit"
             [] OTHER ->
                  /\ cons' = [c EXCEPT !.want = IF avail < DstLen THEN avail
                                                ELSE DstLen]
                  /\ cpc' = "copy"
    /\ UNCHANGED <<ring_state, isr_laps, overrun, dma, kpc, line, stops, dmaFaults, out>>

CopyByte ==
    /\ cpc = "copy"
    /\ cons' = [cons EXCEPT !.got = Append(@,
                    dma.ring[(cons.consumed + Len(cons.got)) % RingLen])]
    /\ cpc' = IF Len(cons.got) + 1 = cons.want THEN "check" ELSE "copy"
    /\ UNCHANGED <<ring_state, isr_laps, overrun, dma, kpc, line, stops, dmaFaults, out>>

\* A plausible slip: the copy is not looked at again.
RevalidateNot ==
    /\ cpc = "checked"
    /\ cons' = [Observed EXCEPT !.consumed = @ + cons.want, !.res = "Bytes"]
    /\ cpc' = "exit"
    /\ UNCHANGED <<ring_state, isr_laps, overrun, dma, kpc, line, stops, dmaFaults, out>>

Revalidate ==
    /\ cpc = "checked"
    /\ LET c == Observed
           bad == Overtaken(c) \/ overrun
       IN  /\ cons' = IF bad
                      THEN [c EXCEPT !.consumed = c.produced, !.res = "Overrun"]
                      ELSE [c EXCEPT !.consumed = @ + cons.want, !.res = "Bytes"]
           /\ overrun' = IF Overtaken(c) THEN overrun ELSE FALSE
    /\ cpc' = "exit"
    /\ UNCHANGED <<ring_state, isr_laps, dma, kpc, line, stops, dmaFaults, out>>

\* exit_reading.
ExitReading ==
    /\ cpc = "exit"
    /\ CASE ring_state = "READING" -> ring_state' = "ARMED" /\ ReturnRead(cons, cons.res)
         [] ring_state = "STOP_REQ" ->
              cpc' = "dostop" /\ UNCHANGED <<ring_state, cons, out>>
         [] ring_state = "REARM_REQ" -> ring_state' = ring_state /\ ReturnRead(cons, "Empty")
         [] OTHER -> ring_state' = ring_state /\ ReturnRead(cons, cons.res)
    /\ UNCHANGED <<isr_laps, overrun, dma, kpc, line, stops, dmaFaults>>

ConsumerStep ==
    /\ NoFlags
    /\ \/ EnterReading \/ Service \/ StartCircular \/ CommitArm \/ ArmRaced
       \/ DoStop \/ SwapOverrun \/ ReadNdtr \/ DataReady \/ DecideRead \/ CopyByte
       \/ Revalidate \/ ExitReading

-----------------------------------------------------------------------------
\* A plausible slip: a consumer that is reading is not waited for.
StopReading ==
    /\ kpc = "idle" /\ stops < MaxStops
    /\ stops' = stops + 1
    /\ CASE ring_state \in {"ARMED", "READING"} -> ring_state' = "IDLE" /\ kpc' = "stop"
         [] ring_state = "REARM_REQ" -> ring_state' = "IDLE" /\ kpc' = "stopped"
         [] OTHER -> ring_state' = ring_state /\ kpc' = "stopped"
    /\ UNCHANGED <<isr_laps, overrun, dma, cons, cpc, line, dmaFaults, out>>

(***************************************************************************)
(* CircularRxControl::stop: win ARMED and stop, or park the stop for a     *)
(* consumer that is reading, or cancel a requested arming.                 *)
(***************************************************************************)
RingStop ==
    /\ kpc = "idle" /\ stops < MaxStops
    /\ stops' = stops + 1
    /\ CASE ring_state = "ARMED" -> ring_state' = "IDLE" /\ kpc' = "stop"
         [] ring_state = "READING" -> ring_state' = "STOP_REQ" /\ kpc' = "halt"
         [] ring_state = "REARM_REQ" -> ring_state' = "IDLE" /\ kpc' = "stopped"
         [] OTHER -> ring_state' = ring_state /\ kpc' = "stopped"
    /\ UNCHANGED <<isr_laps, overrun, dma, cons, cpc, line, dmaFaults, out>>

StopChannel ==
    /\ kpc \in {"stop", "halt"}
    /\ dma' = IF kpc = "stop" THEN RingStopped(dma)
              ELSE [dma EXCEPT !.en = @ /\ ~dma.clk]
    /\ kpc' = "stopped"
    /\ UNCHANGED <<ring_state, isr_laps, overrun, cons, cpc, line, stops, dmaFaults, out>>

\* The request replaces a stop that is parked, and nobody performs that one then: dma.unmade
\* records it until the channel is started or stopped again.
RequestRearm ==
    /\ kpc = "stopped"
    /\ ring_state' = "REARM_REQ"
    /\ kpc' = "idle"
    /\ dma' = [dma EXCEPT !.unmade = @ \/ ring_state = "STOP_REQ"]
    /\ UNCHANGED <<isr_laps, overrun, cons, cpc, line, stops, dmaFaults, out>>

ControlStep == NoFlags /\ (RingStop \/ StopChannel \/ RequestRearm)

RingNext ==
    \/ DmaByte \/ TransferError \/ HandleInterrupt \/ SignalOverrun
    \/ ConsumerStep \/ ControlStep

RingSpec == RingInit /\ [][RingNext]_ringVars

-----------------------------------------------------------------------------
(***************************************************************************)
(* "A returned Ok(n) was never overwritten": the bytes of one read arrived *)
(* one after the other, and follow the last byte of the read before,       *)
(* unless an overrun was reported or the channel stopped in between.       *)
(***************************************************************************)
ReadsAreWhole ==
    /\ \A i \in 1..Len(out.bytes)-1 : out.bytes[i + 1] = out.bytes[i] + 1
    /\ out.was

(***************************************************************************)
(* Whatever order stop, request_rearm and a read run in, a settled state   *)
(* tells the truth about the channel: armed, it runs and holds the clock,  *)
(* and stopped it does not run, nor holds the clock, unless a request to   *)
(* arm again had replaced a parked stop.                                   *)
(***************************************************************************)
StateMatchesChannel ==
    /\ ring_state = "IDLE" /\ cpc = "idle" /\ kpc \in {"idle", "stopped"}
         => ~dma.en /\ (dma.clk => dma.unmade)
    /\ ring_state = "ARMED" => dma.en /\ dma.clk

(***************************************************************************)
(* "Not armed; clock not held", as the comment on IDLE says.  It does not  *)
(* hold: a request to arm again replaces a stop that is parked, the        *)
(* consumer returns without performing it, and a stop that then cancels    *)
(* the request leaves the channel idle with its clock held.                *)
(***************************************************************************)
IdleHoldsNoClock ==
    ring_state = "IDLE" /\ cpc = "idle" /\ kpc \in {"idle", "stopped"} => ~dma.clk

(***************************************************************************)
(* Registers of the channel are read only with its clock on.               *)
(***************************************************************************)
ReadsAreClocked ==
    cpc \in {"look", "see", "check"} => dma.clk

=============================================================================
