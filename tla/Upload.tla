------------------------------- MODULE Upload -------------------------------
(***************************************************************************)
(* The way of an item from the firmware to the server: the dispatch task    *)
(* and the network task, joined by the upload channel and by the channels   *)
(* in which the handles answer.                                             *)
(***************************************************************************)
EXTENDS Dispatch

CONSTANTS FileLen, Bad, Messages, MIN_RETRY_DELAY_SEC, RETRY_TIMEOUT_SEC,
          NETWORK_CONNECTING_TIMEOUT_SEC, ConnectSecs, MaxBreaks

ASSUME NetworkAssumption ==
  /\ FileLen \in Nat /\ MaxBreaks \in Nat
  /\ MIN_RETRY_DELAY_SEC \in Nat \ {0} /\ RETRY_TIMEOUT_SEC \in Nat
  /\ NETWORK_CONNECTING_TIMEOUT_SEC \in Nat
  /\ ConnectSecs \subseteq 0..NETWORK_CONNECTING_TIMEOUT_SEC

VARIABLES subs, fwState, updateUrl, updateSeqNum, fileAt, chunks,
          npc, reason, pendingUpload, disconnectPending, actions, offline, nextRetry, signal,
          delivered, breaks

(* No other task requests an action of the network here. *)
Net == INSTANCE Network WITH Requests <- {}, Items <- {}

netvars == <<subs, fwState, updateUrl, updateSeqNum, fileAt, chunks, npc, reason,
             pendingUpload, disconnectPending, actions, offline, nextRetry, signal, delivered,
             breaks>>
vars == <<dvars, upq, conf, netvars>>

UploadInit == Init /\ Net!NetworkInit

(* What Confirmable::confirm and its drop leave in the confirm channels. *)
Confirmed == IF pendingUpload = <<>> THEN conf ELSE Answered(Head(pendingUpload), TRUE)
Dropped == IF pendingUpload = <<>> THEN conf ELSE Answered(Head(pendingUpload), FALSE)

NetworkStep == Net!NetworkStep(Confirmed, Dropped) /\ UNCHANGED dvars

Restart == Net!StartTask /\ UNCHANGED dvars

Next ==
  \/ (Task \/ Environment) /\ UNCHANGED netvars
  \/ NetworkStep
  \/ Restart

(* Both tasks are scheduled again and again, and the task that ended is started *)
(* again. The faults are bounded; the timeout without activity is not awaited   *)
(* for ever while uploads wait.                                                 *)
Spec == UploadInit /\ [][Next]_vars

LiveSpec ==
  /\ Spec
  /\ WF_vars(Task /\ UNCHANGED netvars)
  /\ WF_vars(NetworkStep \/ Restart)
  /\ SF_vars(Net!ReceiveUpload /\ UNCHANGED dvars)

-----------------------------------------------------------------------------

(* Everyone who holds an item on its way. *)
Holders == pend["event"] \o pend["data"] \o upq \o pendingUpload

(* An item that was handed over and met no fault of the store or of the          *)
(* serializer is never lost: until the server has it, it is in an input queue or *)
(* in the store, not confirmed (DispatchStore: durability until confirm).        *)
NothingLost ==
  \A i \in handed \ (excused \cup delivered) :
    \/ i \in ToSet(eventIn) \cup ToSet(rawIn) \cup ToSet(buffered)
    \/ /\ i \in ToSet(stored[KindOf(i)])
       /\ LET q == queue[KindOf(i)]
              n == NumberOf(i)
          IN  n >= q.next \/ q.slots[n % MAX_PEEKS] \in {Busy(n), Abort(n)}
       /\ \A a \in ToSet(conf[KindOf(i)]) : a.item = i => ~ a.ok

(* Every peeked item has exactly one handle, with one holder, or its answer is *)
(* in the confirm channel: Confirmable and Pending neither lose a handle nor   *)
(* answer twice, however the tasks cancel, fail and end.                       *)
OneHolder ==
  \A k \in Kinds, i \in Items :
    i \in ToSet(stored[k]) =>
      Cardinality({m \in DOMAIN Holders : Holders[m].item = i /\ Holders[m].handle})
          + Cardinality({m \in DOMAIN conf[k] : conf[k][m].item = i})
        = IF Busy(NumberOf(i)) \in Range(queue[k].slots) THEN 1 ELSE 0

(* DispatchDrained: everything handed over before the request that it answers was *)
(* sent, unless a fault kept it out of the store.                                 *)
BarrierCovers ==
  [][barrierActive /\ ~ barrierActive' => covered \subseteq delivered \cup excused]_vars

(* What is handed over gets to the server, whatever breaks and is retried. A barrier *)
(* may stop it: see BarrierAnswered.                                                *)
EventuallySent ==
  <>[](handed \subseteq delivered \cup excused \/ requests > 0)

(* A barrier is answered. *)
BarrierAnswered == (barrierRequested \/ barrierActive) ~> ~ (barrierRequested \/ barrierActive)

=============================================================================
