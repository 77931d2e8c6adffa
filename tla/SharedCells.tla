----------------------------- MODULE SharedCells -----------------------------
(***************************************************************************)
(* The small cells that tasks share.                                       *)
(*                                                                         *)
(* sync/reserving_sender.rs: a sender that awaits room before it gives its *)
(* item away, woken by the receiver through a notification that is kept    *)
(* until it is awaited (ChangeNotification). The one sender may cancel the *)
(* waiting at any time.                                                    *)
(*                                                                         *)
(* sync/once_lock.rs: a value that one of several threads initializes, and *)
(* to which the others get a reference once that is complete. The accesses *)
(* to the atomic and the two halves of the write are steps of their own.   *)
(*                                                                         *)
(* logic/active_config.rs: the configuration in use and the one that waits *)
(* for it. Tasks bind to the active configuration; a pending one replaces  *)
(* it once nobody is bound. Every method runs under one blocking mutex.    *)
(***************************************************************************)
EXTENDS Integers, FiniteSets

-----------------------------------------------------------------------------
(* The reserving sender.                                                    *)

CONSTANTS Capacity      \* of the wrapped channel

ASSUME ReservingAssumption == Capacity \in Nat

VARIABLES used,         \* messages in the channel
          notified,     \* a notification that was not awaited yet
          wpc,          \* the sender
          rcv           \* the receiver

reservingVars == <<used, notified, wpc, rcv>>

ReservingInit ==
  /\ used = 0 /\ notified = FALSE /\ wpc = "idle" /\ rcv = "idle"

(* Mutant: one too many. *)
IsReadyWrong == used <= Capacity

(* SendChannel::is_ready *)
IsReady == used < Capacity

(* reserve: look, and await a change when there is no room. *)
Reserve ==
  /\ wpc \in {"idle", "look"}
  /\ wpc' = IF IsReady THEN "reserved" ELSE "await"
  /\ UNCHANGED <<used, notified, rcv>>

AwaitChange ==
  /\ wpc = "await" /\ notified
  /\ notified' = FALSE /\ wpc' = "look"
  /\ UNCHANGED <<used, rcv>>

(* The future is dropped while it awaits, or the reservation is not used. *)
Cancel ==
  /\ wpc \in {"await", "look", "reserved"}
  /\ wpc' = "idle"
  /\ UNCHANGED <<used, notified, rcv>>

(* Reservation::try_send consumes the item; a full channel gives it back. *)
TrySend ==
  /\ wpc = "reserved"
  /\ wpc' = "idle"
  /\ used' = IF used < Capacity THEN used + 1 ELSE used
  /\ UNCHANGED <<notified, rcv>>

(* Mutant: one of the ways to receive does not notify. *)
RecvSilent ==
  /\ rcv = "idle" /\ used > 0
  /\ used' = used - 1
  /\ UNCHANGED <<notified, wpc, rcv>>

(* NotifyingReceiver::recv: take a message, then notify. *)
Recv ==
  /\ rcv = "idle" /\ used > 0
  /\ used' = used - 1 /\ rcv' = "taken"
  /\ UNCHANGED <<notified, wpc>>

Notify ==
  /\ rcv = "taken"
  /\ notified' = TRUE /\ rcv' = "idle"
  /\ UNCHANGED <<used, wpc>>

ReservingNext == Reserve \/ AwaitChange \/ Cancel \/ TrySend \/ Recv \/ Notify

ReservingSpec == ReservingInit /\ [][ReservingNext]_reservingVars

(* reserve: "a reservation token that guarantees space is available", whatever the *)
(* receiver does in between.                                                       *)
ReservationHolds == wpc = "reserved" => used < Capacity

(* No wakeup is lost: a sender that awaits while there is room has a notification *)
(* waiting for it, or the receiver is about to leave one.                         *)
NoLostWakeup == wpc = "await" /\ used < Capacity => notified \/ rcv = "taken"

-----------------------------------------------------------------------------
(* OnceLock.                                                                *)

CONSTANTS Users         \* threads that call get_or_try_init and get

VARIABLES initialized,  \* the atomic: "None", "Busy" or "Done"
          cell,         \* how much of the value is written: 0, 1 or 2 halves
          upc           \* what a thread does

onceVars == <<initialized, cell, upc>>

OnceInit ==
  /\ initialized = "None" /\ cell = 0
  /\ upc = [u \in Users |-> "idle"]

(* Mutant: the atomic is loaded and stored in two steps. *)
CompareExchangeSplit(u) ==
  \/ /\ upc[u] = "idle"
     /\ upc' = [upc EXCEPT ![u] = IF initialized = "None" THEN "swap" ELSE "err"]
     /\ UNCHANGED <<initialized, cell>>
  \/ /\ upc[u] = "swap"
     /\ initialized' = "Busy" /\ upc' = [upc EXCEPT ![u] = "write"]
     /\ UNCHANGED cell

(* get_or_try_init: from None to Busy, or an error. *)
CompareExchange(u) ==
  /\ upc[u] = "idle"
  /\ IF initialized = "None"
       THEN initialized' = "Busy" /\ upc' = [upc EXCEPT ![u] = "write"]
       ELSE upc' = [upc EXCEPT ![u] = "err"] /\ UNCHANGED initialized
  /\ UNCHANGED cell

(* The value of the initializer is written. *)
Write(u) ==
  /\ upc[u] = "write"
  /\ cell' = IF cell = 1 THEN 2 ELSE 1
  /\ upc' = [upc EXCEPT ![u] = IF cell' = 2 THEN "store" ELSE "write"]
  /\ UNCHANGED initialized

StoreDone(u) ==
  /\ upc[u] = "store"
  /\ initialized' = "Done" /\ upc' = [upc EXCEPT ![u] = "get"]
  /\ UNCHANGED cell

(* Mutant: a value that is being written is good enough. *)
GetEarly(u) ==
  /\ upc[u] \in {"idle", "get", "err"}
  /\ upc' = [upc EXCEPT ![u] = IF initialized # "None" THEN "ref" ELSE "none"]
  /\ UNCHANGED <<initialized, cell>>

Get(u) ==
  /\ upc[u] \in {"idle", "get", "err"}
  /\ upc' = [upc EXCEPT ![u] = IF initialized = "Done" THEN "ref" ELSE "none"]
  /\ UNCHANGED <<initialized, cell>>

(* The call returns; a reference is kept. *)
ReturnCall(u) ==
  /\ upc[u] = "none"
  /\ upc' = [upc EXCEPT ![u] = "idle"]
  /\ UNCHANGED <<initialized, cell>>

OnceNext ==
  \E u \in Users : CompareExchange(u) \/ Write(u) \/ StoreDone(u) \/ Get(u) \/ ReturnCall(u)

OnceSpec == OnceInit /\ [][OnceNext]_onceVars

(* "data is not mutated after Init::Done": a reference is to the complete value, and *)
(* nobody writes it any more; at most one thread ever writes.                        *)
ReferencesAreSafe ==
  /\ (\E u \in Users : upc[u] = "ref") =>
       cell = 2 /\ \A u \in Users : upc[u] \notin {"write", "store", "swap"}
  /\ Cardinality({u \in Users : upc[u] \in {"write", "store"}}) <= 1

-----------------------------------------------------------------------------
(* The active configuration.                                                *)

CONSTANTS Configs,      \* configurations
          Bindings,     \* names for the ConfigInUse values that tasks hold
          NoConfig      \* None

VARIABLES active, pending, pending_set, in_use_count,
          cfg,          \* the configuration that a ConfigInUse carries
          live,         \* the ConfigInUse values that exist
          published     \* history: what the orchestrator published last

configVars == <<active, pending, pending_set, in_use_count, cfg, live, published>>

ConfigInit ==
  /\ active = NoConfig /\ pending = NoConfig /\ pending_set = FALSE
  /\ in_use_count = 0
  /\ cfg = [b \in Bindings |-> NoConfig] /\ live = {}
  /\ published = NoConfig

(* Mutant: None is taken for "nothing pending". *)
TryPromoteSome(count, new, isSet) ==
  IF count = 0 /\ isSet /\ new # NoConfig
    THEN active' = new /\ pending' = NoConfig /\ pending_set' = FALSE
    ELSE active' = active /\ pending' = new /\ pending_set' = isSet

(* try_promote, on the state that its caller leaves. *)
TryPromote(count, new, isSet) ==
  IF count = 0 /\ isSet
    THEN active' = new /\ pending' = NoConfig /\ pending_set' = FALSE
    ELSE active' = active /\ pending' = new /\ pending_set' = isSet

(* acquire: nothing without an active configuration. *)
AcquireBinding(b) ==
  /\ b \notin live /\ active # NoConfig
  /\ in_use_count' = in_use_count + 1
  /\ cfg' = [cfg EXCEPT ![b] = active] /\ live' = live \cup {b}
  /\ UNCHANGED <<active, pending, pending_set, published>>

SetPending(new) ==
  /\ published' = new
  /\ TryPromote(in_use_count, new, TRUE)
  /\ UNCHANGED <<in_use_count, cfg, live>>

(* Mutant: the new binding is not counted. *)
CloneUncounted(b, other) ==
  /\ b \in live /\ other \notin live
  /\ cfg' = [cfg EXCEPT ![other] = cfg[b]] /\ live' = live \cup {other}
  /\ UNCHANGED <<active, pending, pending_set, in_use_count, published>>

Clone(b, other) ==
  /\ b \in live /\ other \notin live
  /\ in_use_count' = in_use_count + 1
  /\ cfg' = [cfg EXCEPT ![other] = cfg[b]] /\ live' = live \cup {other}
  /\ UNCHANGED <<active, pending, pending_set, published>>

DropBinding(b) ==
  /\ b \in live
  /\ in_use_count' = in_use_count - 1
  /\ cfg' = [cfg EXCEPT ![b] = NoConfig] /\ live' = live \ {b}
  /\ TryPromote(in_use_count - 1, pending, pending_set)
  /\ UNCHANGED published

ConfigNext ==
  \/ \E b \in Bindings : AcquireBinding(b) \/ DropBinding(b)
  \/ \E b, other \in Bindings : Clone(b, other)
  \/ \E new \in Configs \cup {NoConfig} : SetPending(new)

ConfigSpec == ConfigInit /\ [][ConfigNext]_configVars

(* "Holding this pins the active cfg and blocks promotion": whoever holds a binding *)
(* holds the configuration that the orchestrator sees as the active one.            *)
BoundIsActive == \A b \in live : cfg[b] = active

(* set_pending, try_promote: what was published last is active as soon as nobody is *)
(* bound to another one, and is never forgotten before; clearing counts as well.    *)
PublishedApplies ==
  /\ live = {} => active = published
  /\ active # published => pending_set /\ pending = published

(* What the tasks and the orchestrator rely on: who holds a binding holds the active *)
(* configuration, and the one published last applies as soon as nobody holds one.    *)
ConfigIsCurrent == BoundIsActive /\ PublishedApplies

=============================================================================
