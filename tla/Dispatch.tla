------------------------------ MODULE Dispatch ------------------------------
(***************************************************************************)
(* The dispatch task: it stores what the rest of the firmware hands over    *)
(* (events, and sensor data that is first collected in a buffer), peeks it  *)
(* from the store again and offers it to the network task through the       *)
(* upload channel. A stored item travels with a handle that confirms it     *)
(* once it was sent, or aborts it when it is dropped.                       *)
(*                                                                          *)
(* The tasks are cooperative: a poll of the select is one step. The store   *)
(* is what StreamStore and Queue promise: a FIFO of which the first         *)
(* MAX_PEEKS items can be peeked.                                           *)
(***************************************************************************)
EXTENDS Integers, Sequences, FiniteSets, SequencesExt

CONSTANTS Events, Data,    \* the items that are handed over, each once
          MAX_PEEKS,       \* handles per stream
          UploadLen,       \* capacity of the upload channel
          MaxFaults,       \* bound: faults of the store and of the serializer
          MaxRequests      \* bound: requests of a barrier

ASSUME DispatchAssumption ==
  /\ Events \subseteq Nat /\ Data \subseteq Nat /\ Events \cap Data = {}
  /\ MAX_PEEKS \in Nat \ {0} /\ UploadLen \in Nat \ {0} /\ MaxFaults \in Nat
  /\ MaxRequests \in Nat

VARIABLES dpc,             \* where the loop of dispatch_task is
          eventIn, rawIn,  \* the channels into the task
          buffered,        \* data in the buffer of the serializer
          pend,            \* pending_event and pending_data, empty or one item
          storeRetry, barrierRequested, barrierActive,
          stored, queue, initialized,   \* the store
          conf,            \* the confirm channel of each stream
          upq,             \* the upload channel
          \* history
          handed, faults, excused, requests, asked, covered

dvars == <<dpc, eventIn, rawIn, buffered, pend, storeRetry, barrierRequested, barrierActive,
           stored, queue, initialized, handed, faults, excused, requests, asked, covered>>

Kinds == {"event", "data"}
Items == Events \cup Data
KindOf(i) == IF i \in Events THEN "event" ELSE "data"

(* Confirmable: an item and, unless the store failed, its ConfirmHandle. *)
Confirmable == [item : Items, handle : BOOLEAN]

Answer(c, ok) == [item |-> c.item, ok |-> ok]

(* The confirm channels after c is confirmed or dropped. *)
Answered(c, ok) ==
  IF c.handle THEN [conf EXCEPT ![KindOf(c.item)] = Append(@, Answer(c, ok))] ELSE conf

-----------------------------------------------------------------------------
(* The store: what was enqueued, and the bookkeeping of Queue for it. Nothing *)
(* is overwritten here, so no peek is out of bounds.                          *)

SlotIds == 0 .. MAX_PEEKS - 1
None == [st |-> "None", seq |-> 0]
Busy(s) == [st |-> "Busy", seq |-> s]
Abort(s) == [st |-> "Abort", seq |-> s]
EmptyQueue == [min |-> 0, next |-> 0, slot |-> 0, slots |-> [n \in SlotIds |-> None]]

NumberOf(i) == (CHOOSE n \in DOMAIN stored[KindOf(i)] : stored[KindOf(i)][n] = i) - 1

(* Mutant: an abort frees the slot as a confirmation does. *)
UpdatedForgets(q, as) ==
  [q EXCEPT !.slots = [n \in SlotIds |->
     IF \E a \in ToSet(as) : q.slots[n] = Busy(NumberOf(a.item)) THEN None ELSE q.slots[n]]]

(* PeekQueue::update for the answers as. *)
Updated(q, as) ==
  LET Verdict(n) == {a \in ToSet(as) : q.slots[n] = Busy(NumberOf(a.item))}
  IN  [q EXCEPT !.slots = [n \in SlotIds |->
         IF Verdict(n) = {} THEN q.slots[n]
         ELSE IF \E a \in Verdict(n) : a.ok THEN None ELSE Abort(q.slots[n].seq)]]

(* PeekQueue::find_reader: the slots are visited in turn until one is busy, waits  *)
(* for a retry, or is the one for the next number; or, with nothing left to read,  *)
(* until the oldest number has caught up, which moves on from its own slot.        *)
Slot(q, d) == (q.slot + d) % MAX_PEEKS

MinAfter(q, d) ==
  LET first == (q.min + MAX_PEEKS - q.slot) % MAX_PEEKS
      moved == IF d < first THEN q.min ELSE q.min + d - first + 1
  IN  IF moved < q.next THEN moved ELSE q.next

Stops(q, write, d) ==
  \/ q.slots[Slot(q, d)] # None
  \/ q.next # write /\ Slot(q, d) = q.next % MAX_PEEKS
  \/ q.next = write /\ MinAfter(q, d) = write

Blocked == -1

(* The queue after the search has stopped at the d-th slot, and what it hands out. *)
Found(q, write, d) ==
  LET s == q.slots[Slot(q, d)]
  IN  CASE s.st = "Busy" ->
             [q |-> [q EXCEPT !.slot = Slot(q, d), !.min = MinAfter(q, d - 1)], out |-> Blocked]
        [] s.st = "Abort" ->
             [q |-> [q EXCEPT !.slot = Slot(q, d + 1), !.min = MinAfter(q, d - 1),
                              !.slots[Slot(q, d)] = Busy(s.seq)], out |-> s.seq]
        [] s.st = "None" /\ q.next = write ->
             [q |-> [q EXCEPT !.slot = Slot(q, d + 1), !.min = write], out |-> Blocked]
        [] s.st = "None" /\ q.next # write ->
             [q |-> [q EXCEPT !.slot = Slot(q, d + 1), !.min = MinAfter(q, d), !.next = @ + 1,
                              !.slots[Slot(q, d)] = Busy(q.next)], out |-> q.next]

(* Queue::peek_next *)
PeekNext(q, write) ==
  IF q.min = write THEN {[q |-> q, out |-> Blocked]}
  ELSE {Found(q, write, d) : d \in {n \in 0 .. 2 * MAX_PEEKS - 1 :
          Stops(q, write, n) /\ \A m \in 0 .. n - 1 : ~ Stops(q, write, m)}}

(* Queue::is_drained, after update_reader_slots. *)
DrainedStream(k, q) == q.next = Len(stored[k]) /\ \A n \in SlotIds : q.slots[n] = None

(* An operation of the store fails: the budget of faults is used. *)
Fault == faults < MaxFaults /\ faults' = faults + 1

(* StreamStore::initialize comes first in every operation. *)
Initialize(k) == initialized' = [initialized EXCEPT ![k] = TRUE]

(* Mutant: the item that was pending is forgotten with its handle. *)
OverwriteLeaks(k, i) ==
  /\ pend' = [pend EXCEPT ![k] = <<[item |-> i, handle |-> FALSE]>>]
  /\ UNCHANGED conf

(* Pending::overwrite: the item that was pending is dropped. *)
Overwrite(k, i) ==
  /\ pend' = [pend EXCEPT ![k] = <<[item |-> i, handle |-> FALSE]>>]
  /\ conf' = IF pend[k] = <<>> THEN conf ELSE Answered(Head(pend[k]), FALSE)

(* process_event and process_sensor_data, after the item has left its queue. *)
StoreItem(i) ==
  LET k == KindOf(i)
  IN  \/ /\ Initialize(k)
         /\ stored' = [stored EXCEPT ![k] = Append(@, i)]
         /\ UNCHANGED <<queue, pend, conf, faults, excused>>
      \/ /\ Fault
         /\ excused' = excused \cup {i}
         /\ Overwrite(k, i)
         /\ UNCHANGED <<stored, queue, initialized>>

(* Mutant: the task does not remember to try again. *)
PeekFailedQuiet == Fault /\ UNCHANGED storeRetry

PeekFailed == Fault /\ storeRetry' = TRUE

(* peek_event, peek_sensor_data: an item with its handle, or none, or an error: of *)
(* the initialization, or of an item that cannot be read, which is tried again,     *)
(* or not be parsed, which is skipped.                                              *)
Peek(k) ==
  \/ /\ ~ initialized[k]
     /\ PeekFailed
     /\ UNCHANGED <<queue, initialized, pend, conf, excused>>
  \/ \E q \in {Updated(queue[k], conf[k])} : \E res \in PeekNext(q, Len(stored[k])) :
       /\ Initialize(k)
       /\ queue' = [queue EXCEPT ![k] = res.q]
       /\ \/ /\ pend' = [pend EXCEPT ![k] =
                            IF res.out = Blocked THEN <<>>
                            ELSE <<[item |-> stored[k][res.out + 1], handle |-> TRUE]>>]
             /\ conf' = [conf EXCEPT ![k] = <<>>]
             /\ storeRetry' = (storeRetry /\ k # "event")
             /\ UNCHANGED <<faults, excused>>
          \/ /\ res.out # Blocked
             /\ PeekFailed
             /\ \E skip \in BOOLEAN, item \in {stored[k][res.out + 1]} :
                  /\ conf' = [conf EXCEPT ![k] = <<[item |-> item, ok |-> skip]>>]
                  /\ excused' = IF skip THEN excused \cup {item} ELSE excused
             /\ UNCHANGED pend

-----------------------------------------------------------------------------
(* dispatch_task.                                                           *)

Init ==
  /\ dpc = "event"
  /\ eventIn = <<>> /\ rawIn = <<>> /\ buffered = <<>>
  /\ pend = [k \in Kinds |-> <<>>]
  /\ storeRetry = FALSE /\ barrierRequested = FALSE /\ barrierActive = FALSE
  /\ \E n \in 0 .. Cardinality(Events) :    \* the first n, stored before the last restart
       \E s \in [1 .. n -> Events] :
         /\ \A m \in 1 .. n : {i \in Events : i < s[m]} = {s[l] : l \in 1 .. m - 1}
         /\ stored = [event |-> s, data |-> <<>>]
  /\ handed = ToSet(stored["event"])
  /\ queue = [k \in Kinds |-> EmptyQueue]
  /\ initialized = [k \in Kinds |-> FALSE]
  /\ conf = [k \in Kinds |-> <<>>]
  /\ upq = <<>>
  /\ faults = 0 /\ excused = {} /\ requests = 0 /\ asked = {} /\ covered = {}

IsPending(k) == pend[k] # <<>>

ins == <<eventIn, rawIn, buffered>>
store == <<stored, queue, initialized>>
history == <<handed, requests, asked, covered>>

(* Mutant: the reply does not wait for the buffer. *)
AfterPeekUnflushed ==
  IF (\E k \in Kinds : pend'[k] # <<>>) \/ ~ barrierActive THEN "select" ELSE "drain"

(* When nothing is pending and a barrier is active, the buffered data is forced *)
(* out first; the data is only peeked when no event is pending.                 *)
AfterPeek ==
  IF (\E k \in Kinds : pend'[k] # <<>>) \/ ~ barrierActive THEN "select"
  ELSE IF buffered # <<>> THEN "flush" ELSE "drain"

PeekEvent ==
  /\ dpc = "event"
  /\ \/ ~ IsPending("event") /\ Peek("event")
     \/ /\ IsPending("event")
        /\ storeRetry' = FALSE
        /\ UNCHANGED <<queue, initialized, pend, conf, faults, excused>>
  /\ dpc' = IF pend'["event"] # <<>> THEN "select" ELSE "data"
  /\ UNCHANGED <<ins, stored, barrierRequested, barrierActive, upq, history>>

PeekSensorData ==
  /\ dpc = "data"
  /\ \/ ~ IsPending("data") /\ Peek("data")
     \/ /\ IsPending("data")
        /\ UNCHANGED <<storeRetry, queue, initialized, pend, conf, faults, excused>>
  /\ dpc' = AfterPeek
  /\ UNCHANGED <<ins, stored, barrierRequested, barrierActive, upq, history>>

Flush ==
  /\ dpc = "flush" /\ buffered # <<>>
  /\ StoreItem(Head(buffered))
  /\ buffered' = Tail(buffered)
  /\ dpc' = IF buffered' = <<>> THEN "event" ELSE "flush"
  /\ UNCHANGED <<eventIn, rawIn, storeRetry, barrierRequested, barrierActive, upq, history>>

(* is_drained of both streams; the second one is looked at when the first is  *)
(* drained. An error can only come from the initialization, so the peek has   *)
(* failed as well. Then the reply DispatchDrained.                            *)
CheckDrained ==
  /\ dpc = "drain"
  /\ LET qs == [k \in Kinds |-> Updated(queue[k], conf[k])]
         seen == IF DrainedStream("event", qs["event"]) THEN Kinds ELSE {"event"}
     IN  \/ /\ initialized' = [k \in Kinds |-> initialized[k] \/ k \in seen]
            /\ queue' = [k \in Kinds |-> IF k \in seen THEN qs[k] ELSE queue[k]]
            /\ conf' = [k \in Kinds |-> IF k \in seen THEN <<>> ELSE conf[k]]
            /\ IF \A k \in Kinds : DrainedStream(k, qs[k])
                 THEN barrierActive' = FALSE /\ covered' = {}
                 ELSE UNCHANGED <<barrierActive, covered>>
            /\ UNCHANGED faults
         \/ /\ \E k \in Kinds : ~ initialized[k]
            /\ Fault
            /\ UNCHANGED <<queue, conf, covered, barrierActive, initialized>>
  /\ dpc' = "select"
  /\ UNCHANGED <<ins, stored, pend, storeRetry, barrierRequested, upq, handed, requests, asked,
                 excused>>

-----------------------------------------------------------------------------
(* The select: incoming, then barrier and answers, then the transmission.   *)

ReceiveEvent ==
  /\ dpc = "select" /\ eventIn # <<>>
  /\ eventIn' = Tail(eventIn)
  /\ StoreItem(Head(eventIn))
  /\ dpc' = "event"
  /\ UNCHANGED <<rawIn, buffered, storeRetry, barrierRequested, barrierActive, upq, history>>

(* An event or a packet that cannot be serialized is logged and dropped. *)
ReceiveFails ==
  /\ dpc = "select"
  /\ Fault
  /\ \/ /\ eventIn # <<>>
        /\ eventIn' = Tail(eventIn) /\ excused' = excused \cup {Head(eventIn)}
        /\ UNCHANGED rawIn
     \/ /\ eventIn = <<>> /\ rawIn # <<>>
        /\ rawIn' = Tail(rawIn) /\ excused' = excused \cup {Head(rawIn)}
        /\ UNCHANGED eventIn
  /\ dpc' = "event"
  /\ UNCHANGED <<buffered, pend, storeRetry, barrierRequested, barrierActive, store, conf, upq,
                 history>>

(* next_packet puts what arrives into the buffer, without a packet ... *)
ReceiveRaw ==
  /\ dpc = "select" /\ eventIn = <<>> /\ rawIn # <<>>
  /\ rawIn' = Tail(rawIn)
  /\ buffered' = Append(buffered, Head(rawIn))
  /\ UNCHANGED <<dpc, eventIn, pend, storeRetry, barrierRequested, barrierActive, store, conf,
                 upq, history, faults, excused>>

(* ... and returns one when the buffer is full or its time is over. *)
ReceivePacket ==
  /\ dpc = "select" /\ eventIn = <<>> /\ buffered # <<>>
  /\ StoreItem(Head(buffered))
  /\ buffered' = Tail(buffered)
  /\ dpc' = "event"
  /\ UNCHANGED <<eventIn, rawIn, storeRetry, barrierRequested, barrierActive, upq, history>>

Quiet == eventIn = <<>> /\ rawIn = <<>>

(* Mutant: the request is taken before what has arrived is stored. *)
TakeBarrierEarly ==
  /\ dpc = "select" /\ barrierRequested
  /\ barrierRequested' = FALSE /\ barrierActive' = TRUE
  /\ covered' = covered \cup asked /\ asked' = {}
  /\ dpc' = "event"
  /\ UNCHANGED <<ins, pend, storeRetry, store, conf, upq, handed, requests, faults,
                 excused>>

TakeBarrier ==
  /\ dpc = "select" /\ Quiet /\ barrierRequested
  /\ barrierRequested' = FALSE /\ barrierActive' = TRUE
  /\ covered' = covered \cup asked /\ asked' = {}
  /\ dpc' = "event"
  /\ UNCHANGED <<ins, pend, storeRetry, store, conf, upq, handed, requests, faults,
                 excused>>

(* wait_confirmation: one answer is processed. *)
WaitConfirmation ==
  /\ dpc = "select" /\ Quiet /\ ~ barrierRequested
  /\ \E k \in Kinds :
       /\ conf[k] # <<>>
       /\ k = "data" => conf["event"] = <<>>
       /\ queue' = [queue EXCEPT ![k] = Updated(@, <<Head(conf[k])>>)]
       /\ conf' = [conf EXCEPT ![k] = Tail(@)]
  /\ dpc' = "event"
  /\ UNCHANGED <<ins, stored, pend, storeRetry, barrierRequested, barrierActive, initialized,
                 upq, history, faults, excused>>

NothingElse == Quiet /\ ~ barrierRequested /\ \A k \in Kinds : conf[k] = <<>>

Pending == pend["event"] \o pend["data"]

(* Mutant: nothing is reserved. *)
RoomUnreserved == 2

(* ReservableSender::reserve: room in the upload channel. *)
Room == UploadLen - Len(upq)

(* try_transmit: reserve room, then send, the event first. When there is room *)
(* for only one of two, the future goes on waiting and may be cancelled.      *)
Transmit ==
  LET n == Min({Len(Pending), Room})
  IN  /\ dpc = "select" /\ NothingElse
      /\ n > 0
      /\ upq' = upq \o SubSeq(Pending, 1, n)
      /\ pend' = [event |-> <<>>, data |-> IF n = Len(Pending) THEN <<>> ELSE pend["data"]]
      /\ dpc' = IF n = Len(Pending) THEN "event" ELSE "select"
      /\ UNCHANGED <<ins, storeRetry, barrierRequested, barrierActive, store, conf,
                     history, faults, excused>>

(* Nothing is pending because the store failed: try again after a delay. *)
RetryStore ==
  /\ dpc = "select" /\ NothingElse /\ Pending = <<>> /\ storeRetry
  /\ dpc' = "event"
  /\ UNCHANGED <<ins, pend, storeRetry, barrierRequested, barrierActive, store,
                 conf, upq, history, faults, excused>>

-----------------------------------------------------------------------------
(* The rest of the firmware.                                                *)

(* The items of a kind are handed over in order: they are not told apart. *)
Hand(i) ==
  /\ i \notin handed
  /\ \A j \in Items \ handed : KindOf(j) = KindOf(i) => i <= j
  /\ handed' = handed \cup {i}
  /\ IF i \in Events THEN eventIn' = Append(eventIn, i) /\ UNCHANGED rawIn
                     ELSE rawIn' = Append(rawIn, i) /\ UNCHANGED eventIn
  /\ UNCHANGED <<dpc, buffered, pend, storeRetry, barrierRequested, barrierActive, store, conf,
                 upq, faults, excused, requests, asked, covered>>

(* DispatchBarrier::request *)
Request ==
  /\ requests < MaxRequests
  /\ requests' = requests + 1
  /\ barrierRequested' = TRUE
  /\ asked' = handed
  /\ UNCHANGED <<dpc, ins, pend, storeRetry, barrierActive, store, conf, upq,
                 handed, covered, faults, excused>>

Task ==
  \/ PeekEvent \/ PeekSensorData \/ Flush \/ CheckDrained
  \/ ReceiveEvent \/ ReceiveFails \/ ReceiveRaw \/ ReceivePacket
  \/ TakeBarrier \/ WaitConfirmation \/ Transmit \/ RetryStore

Environment == Request \/ \E i \in Items : Hand(i)

=============================================================================
