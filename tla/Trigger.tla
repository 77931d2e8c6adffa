------------------------------- MODULE Trigger -------------------------------
(***************************************************************************)
(* bsp/src/exti.rs: one EXTI line and the Trigger that awaits its edges.   *)
(* The hardware latches an edge in PR1 whether or not the line is unmasked *)
(* in IMR1; the interrupt runs when it is. A task in a poll of             *)
(* wait_untill_edge can be interrupted between any two of its steps.       *)
(***************************************************************************)
EXTENDS Integers

VARIABLES
  latched,      \* PR1: the line's latched edge
  unmasked,     \* IMR1: the line's interrupt is enabled
  ready,        \* READY: an edge was serviced and not yet taken
  woken         \* WAKERS: the task was woken since it registered

triggerVars == <<latched, unmasked, ready, woken>>

(* create_trigger: no edge is pending, the line is still masked. *)
TriggerInit ==
  latched = FALSE /\ unmasked = FALSE /\ ready = FALSE /\ woken = FALSE

(* External: a configured edge on the line. *)
Edge == latched' = TRUE /\ UNCHANGED <<unmasked, ready, woken>>

(* Exti::isr, run for this line or (other) for a line that shares the registers: every line *)
(* still READY from an earlier interrupt is masked, so that a line is only disabled after   *)
(* its second edge.                                                                         *)
Isr(other) ==
  /\ other \/ (latched /\ unmasked)
  /\ ready' = (ready \/ latched)
  /\ unmasked' = (unmasked /\ ~ready)
  /\ latched' = FALSE
  /\ woken' = (woken \/ latched)

(* poll_and_clear_ready, in its two steps: take READY; unmask when it was clear. *)
TakeReady == ready' = FALSE /\ UNCHANGED <<latched, unmasked, woken>>

Unmask == unmasked' = TRUE /\ UNCHANGED <<latched, ready, woken>>

(* Mutant: the line is not unmasked again. *)
BeginWaitMasked ==
  /\ ready' = FALSE
  /\ UNCHANGED <<latched, unmasked, woken>>

(* wait_untill_edge, its critical section: unmask and take READY. *)
BeginWait ==
  /\ unmasked' = TRUE /\ ready' = FALSE
  /\ UNCHANGED <<latched, woken>>

(* Mutant: wait_untill_next_edge where wait_untill_any_edge is called for. *)
ReturnsAtOnceNever == FALSE

(* wait_untill_any_edge (include_previous): an edge since the last call ends the wait. *)
ReturnsAtOnce == ready

(* A poll: register the waker, then look; the edge that comes in between wakes the task. *)
Register == woken' = FALSE /\ UNCHANGED <<latched, unmasked, ready>>

EdgeSeen == ready

=============================================================================
