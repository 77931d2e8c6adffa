------------------------------- MODULE InputPin ------------------------------
(***************************************************************************)
(* bsp/src/exti.rs, TriggeredInputPin: a task reads the level of a pin and *)
(* then waits for any edge, in a loop, as the type's documentation says.   *)
(***************************************************************************)
EXTENDS Trigger

CONSTANTS
  MaxEdges,         \* bound on the edges of the pin
  MaxOthers         \* bound on interrupts of the lines sharing the registers

VARIABLES
  pin,          \* the level of the pin
  seen,         \* the level the task has last read
  ppc,          \* "ready" | "unmask" | "level" | "wait" | "register" | "look" | "parked"
  edges, others

pinVars == <<latched, unmasked, ready, woken, pin, seen, ppc, edges, others>>

PinInit ==
  /\ TriggerInit
  /\ pin \in BOOLEAN /\ seen \in BOOLEAN
  /\ ppc = "ready" /\ edges = 0 /\ others = 0

Toggle ==
  /\ edges < MaxEdges
  /\ Edge /\ pin' = ~pin /\ edges' = edges + 1
  /\ UNCHANGED <<seen, ppc, others>>

PinIsr == Isr(FALSE) /\ UNCHANGED <<pin, seen, ppc, edges, others>>

OtherIsr ==
  /\ others < MaxOthers
  /\ Isr(TRUE) /\ others' = others + 1
  /\ UNCHANGED <<pin, seen, ppc, edges>>

(* is_high: poll_and_clear_ready, then the level. *)
PollReady ==
  /\ ppc = "ready" /\ TakeReady
  /\ ppc' = IF ready THEN "level" ELSE "unmask"
  /\ UNCHANGED <<pin, seen, edges, others>>

PollUnmask ==
  /\ ppc = "unmask" /\ Unmask /\ ppc' = "level"
  /\ UNCHANGED <<pin, seen, edges, others>>

ReadLevel ==
  /\ ppc = "level" /\ seen' = pin /\ ppc' = "wait"
  /\ UNCHANGED <<latched, unmasked, ready, woken, pin, edges, others>>

(* wait_untill_any_edge *)
WaitAnyEdge ==
  /\ ppc = "wait" /\ BeginWait
  /\ ppc' = IF ReturnsAtOnce THEN "ready" ELSE "register"
  /\ UNCHANGED <<pin, seen, edges, others>>

PollRegister ==
  /\ \/ ppc = "register"
     \/ ppc = "parked" /\ woken
  /\ Register /\ ppc' = "look"
  /\ UNCHANGED <<pin, seen, edges, others>>

PollLook ==
  /\ ppc = "look" /\ TakeReady
  /\ ppc' = IF EdgeSeen THEN "ready" ELSE "parked"
  /\ UNCHANGED <<pin, seen, edges, others>>

Watch == PollReady \/ PollUnmask \/ ReadLevel \/ WaitAnyEdge \/ PollRegister \/ PollLook

PinNext == Toggle \/ PinIsr \/ OtherIsr \/ Watch

(* The interrupt is served and the executor polls a woken task. *)
PinFairness == WF_pinVars(PinIsr) /\ WF_pinVars(Watch)

PinSpec == PinInit /\ [][PinNext]_pinVars /\ PinFairness

-----------------------------------------------------------------------------
(* In the end (liveness), the promise of TriggeredInputPin ("importantly it never misses a *)
(* state change"): once the pin rests, the task has read the level it rests at, whichever   *)
(* step of is_high, of wait_untill_any_edge or of an interrupt the last edge fell into.     *)
PinIsFollowed == seen = pin

=============================================================================
