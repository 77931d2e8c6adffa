------------------------------- MODULE Queue ---------------------------------
(***************************************************************************)
(* storage/common/queue.rs: which items of a persistent queue are handed   *)
(* out, confirmed, retried or given up.                                    *)
(*                                                                         *)
(* The owner of the queue enqueues and peeks; every peek gives out a       *)
(* handle that another task later confirms or drops, in any order. The     *)
(* answers travel through a channel of MAX_PEEKS entries into which the    *)
(* handles send without waiting. Sequence numbers are u32 and wrap.        *)
(***************************************************************************)
EXTENDS Integers, Sequences

CONSTANTS
  MAX_PEEKS,    \* number of reader slots, and of entries in the channel
  SeqMod,       \* sequence numbers are 0 .. SeqMod - 1, 2^32 in the code
  Capacity,     \* items that the store below can hold
  Granularity   \* items that the store erases at a time

ASSUME QueueAssumption ==
  /\ MAX_PEEKS \in Nat \ {0}
  /\ SeqMod \in Nat /\ SeqMod > MAX_PEEKS
  /\ Capacity \in 1 .. SeqMod - 1
  /\ Granularity \in Nat \ {0}

SeqNo == 0 .. SeqMod - 1
SlotIds == 0 .. MAX_PEEKS - 1

VARIABLES
  read_index_min,   \* items before it are confirmed or overwritten
  read_index_next,  \* items before it have been peeked
  reader_slots,     \* state of the peek in every slot
  slot_index,       \* slot to be looked at next
  write_index,      \* sequence number of the next item
  channel,          \* answers that are not yet processed
  handles,          \* sequence numbers of the handles that exist
  pc,               \* what the owner of the queue executes
  iter,             \* iterations of the loop of find_reader
  result,           \* what the last call returned
  pending           \* history: items enqueued, neither confirmed nor overwritten

readers == <<read_index_min, read_index_next, reader_slots, slot_index>>
vars == <<readers, write_index, channel, handles, pc, iter, result, pending>>

None == [st |-> "None"]
Busy(s) == [st |-> "Busy", seq |-> s]
Abort(s) == [st |-> "Abort", seq |-> s]

Add(a, b) == (a + b) % SeqMod        \* u32 wrapping_add
Sub(a, b) == (a - b) % SeqMod        \* u32 wrapping_sub
SlotOf(s) == s % MAX_PEEKS

(* Items from lo up to and excluding hi. *)
Between(lo, hi) == {s \in SeqNo : Sub(s, lo) < Sub(hi, lo)}

-----------------------------------------------------------------------------
(* The reader slots.                                                        *)

(* Queue::unconfirmed_count *)
UnconfirmedCount == Sub(write_index, read_index_min)

(* PeekQueue::is_in_bounds *)
IsInBounds(s) ==
  /\ Sub(s, read_index_min) <= MAX_PEEKS
  /\ Sub(read_index_next, s) <= MAX_PEEKS

(* Mutant: the item that is peeked next may fall behind the oldest one. *)
BumpMinOnly(min) == read_index_min' = min /\ UNCHANGED read_index_next

(* PeekQueue::bump_min_index *)
BumpMinIndex(min) ==
  /\ read_index_min' = min
  /\ read_index_next' =
       IF Sub(read_index_next, read_index_min) < Sub(min, read_index_min)
         THEN min ELSE read_index_next

(* Does the answer belong to the peek in its slot? Otherwise PeekQueue::update *)
(* reports a BUG and ignores it.                                               *)
Expected(c) == reader_slots[SlotOf(c.id)] = Busy(c.id)

(* Mutant: a failure frees the slot as a success does. *)
UpdateForgets(c) ==
  /\ channel' = Tail(channel)
  /\ reader_slots' =
       IF Expected(c) THEN [reader_slots EXCEPT ![SlotOf(c.id)] = None] ELSE reader_slots

(* Mutant: a failure leaves the slot busy. *)
UpdateKeepsBusy(c) ==
  /\ channel' = Tail(channel)
  /\ reader_slots' =
       IF Expected(c) /\ c.success
         THEN [reader_slots EXCEPT ![SlotOf(c.id)] = None] ELSE reader_slots

(* PeekQueue::update *)
Update(c) ==
  /\ channel' = Tail(channel)
  /\ reader_slots' =
       IF Expected(c)
         THEN [reader_slots EXCEPT ![SlotOf(c.id)] = IF c.success THEN None ELSE Abort(c.id)]
         ELSE reader_slots

(* Mutant: > for >=. *)
IncSlotIndexTooFar == slot_index' = IF slot_index + 1 > MAX_PEEKS THEN 0 ELSE slot_index + 1

(* PeekQueue::inc_slot_index *)
IncSlotIndex == slot_index' = IF slot_index + 1 >= MAX_PEEKS THEN 0 ELSE slot_index + 1

-----------------------------------------------------------------------------
(* Enqueue.                                                                 *)

(* u32::checked_next_multiple_of(granularity).unwrap_or(0) *)
NextMultiple(n) ==
  LET m == ((n + Granularity - 1) \div Granularity) * Granularity
  IN  IF m < SeqMod THEN m ELSE 0

(* No peek stays unanswered or unretried while all sequence numbers are used *)
(* up: 2^32 items in the code, MaxAge here.                                  *)
MaxAge == SeqMod - MAX_PEEKS - 1
NoneTooOld == \A i \in SlotIds :
  reader_slots[i] # None => Sub(write_index, reader_slots[i].seq) < MaxAge

Enqueue ==
  /\ pc = "idle"
  /\ NoneTooOld
  /\ \/ /\ UnconfirmedCount = SeqMod - 1
        /\ result' = "QueueFull"
        /\ UNCHANGED <<readers, write_index, pending>>
     \/ /\ UnconfirmedCount # SeqMod - 1
        /\ write_index' = Add(write_index, 1)
        /\ result' = "enqueued"
        /\ IF Sub(write_index', read_index_min) > Capacity
             THEN BumpMinIndex(Sub(NextMultiple(write_index'), Capacity))
             ELSE UNCHANGED <<read_index_min, read_index_next>>
        /\ pending' = (pending \cup {write_index}) \cap Between(read_index_min', write_index')
        /\ UNCHANGED <<reader_slots, slot_index>>
  /\ UNCHANGED <<channel, handles, pc, iter>>

-----------------------------------------------------------------------------
(* peek_next: process the answers, then look for a slot.                    *)

PeekNext ==
  /\ pc = "idle"
  /\ IF UnconfirmedCount = 0
       THEN pc' = "idle" /\ result' = "Empty"
       ELSE pc' = "peek" /\ result' = "none"
  /\ iter' = 0
  /\ UNCHANGED <<readers, write_index, channel, handles, pending>>

(* update_reader_slots takes one answer out of the channel. *)
UpdateReaderSlots ==
  /\ pc \in {"peek", "drained"}
  /\ channel # <<>>
  /\ Update(Head(channel))
  /\ UNCHANGED <<read_index_min, read_index_next, slot_index, write_index, handles, pc, iter,
                 result, pending>>

FindReader ==
  /\ pc = "peek"
  /\ channel = <<>>
  /\ pc' = "find"
  /\ UNCHANGED <<readers, write_index, channel, handles, iter, result, pending>>

PeekDone(r) ==
  /\ pc' = "idle"
  /\ result' = r
  /\ iter' = 0

(* Mutant: the loop visits every slot only once. *)
ContinueOnce ==
  /\ UNCHANGED handles
  /\ IF iter + 1 < MAX_PEEKS
       THEN iter' = iter + 1 /\ UNCHANGED <<pc, result>>
       ELSE PeekDone("Unknown")

(* The next iteration, or the end of the loop. *)
Continue ==
  /\ UNCHANGED handles
  /\ IF iter + 1 < 2 * MAX_PEEKS
       THEN iter' = iter + 1 /\ UNCHANGED <<pc, result>>
       ELSE PeekDone("Unknown")

(* Mutant: the slot is not marked busy. *)
HandOutUnmarked(s) ==
  /\ UNCHANGED reader_slots
  /\ handles' = handles \cup {s}
  /\ PeekDone("Ok")

HandOut(s) ==
  /\ reader_slots' = [reader_slots EXCEPT ![slot_index] = Busy(s)]
  /\ handles' = handles \cup {s}
  /\ PeekDone("Ok")

(* Mutant: the slot of an overwritten item is reused although its handle exists. *)
FindBusyReuses ==
  /\ reader_slots[slot_index].st = "Busy"
  /\ IF IsInBounds(reader_slots[slot_index].seq)
       THEN PeekDone("Busy") /\ UNCHANGED <<readers, handles>>
       ELSE /\ reader_slots' = [reader_slots EXCEPT ![slot_index] = None]
            /\ Continue
            /\ UNCHANGED <<read_index_min, read_index_next, slot_index>>

FindBusy ==
  /\ reader_slots[slot_index].st = "Busy"
  /\ PeekDone("Busy")
  /\ UNCHANGED <<readers, handles>>

(* An empty slot: give up the oldest item if it was in this slot, then    *)
(* hand out the next one if this is its slot.                             *)
FindNone ==
  LET slot_seq_no == (read_index_min - (read_index_min % MAX_PEEKS) + slot_index) % SeqMod
      passes == slot_seq_no = read_index_min /\ slot_seq_no # read_index_next
  IN  /\ reader_slots[slot_index] = None
      /\ IncSlotIndex
      /\ read_index_min' = IF passes THEN Add(read_index_min, 1) ELSE read_index_min
      /\ \/ /\ read_index_next = write_index
            /\ IF read_index_min' # write_index
                 THEN Continue
                 ELSE PeekDone("Empty") /\ UNCHANGED handles
            /\ UNCHANGED <<reader_slots, read_index_next>>
         \/ /\ read_index_next # write_index
            /\ IF slot_index = SlotOf(read_index_next)
                 THEN /\ HandOut(read_index_next)
                      /\ read_index_next' = Add(read_index_next, 1)
                 ELSE Continue /\ UNCHANGED <<reader_slots, read_index_next>>

(* Mutant: an aborted peek is retried even if it was overwritten. *)
FindAbortAlways ==
  /\ reader_slots[slot_index].st = "Abort"
  /\ IncSlotIndex
  /\ HandOut(reader_slots[slot_index].seq)
  /\ UNCHANGED <<read_index_min, read_index_next>>

(* An aborted peek is retried, unless it was overwritten. *)
FindAbort ==
  /\ reader_slots[slot_index].st = "Abort"
  /\ LET s == reader_slots[slot_index].seq
     IN  IF IsInBounds(s)
           THEN IncSlotIndex /\ HandOut(s)
           ELSE /\ reader_slots' = [reader_slots EXCEPT ![slot_index] = None]
                /\ Continue
                /\ UNCHANGED slot_index
  /\ UNCHANGED <<read_index_min, read_index_next>>

Find ==
  /\ pc = "find"
  /\ FindBusy \/ FindNone \/ FindAbort
  /\ UNCHANGED <<write_index, channel, pending>>

-----------------------------------------------------------------------------
(* is_drained and wait_confirmation.                                        *)

IsDrained ==
  /\ pc = "idle"
  /\ pc' = "drained"
  /\ result' = "none"
  /\ UNCHANGED <<readers, write_index, channel, handles, iter, pending>>

(* Mutant: aborted peeks do not count. *)
DrainedButAborted ==
  /\ read_index_next = write_index
  /\ \A i \in SlotIds : reader_slots[i].st # "Busy"

(* PeekQueue::is_drained *)
Drained ==
  /\ read_index_next = write_index
  /\ \A i \in SlotIds :
       /\ reader_slots[i].st # "Busy"
       /\ reader_slots[i].st = "Abort" => ~ IsInBounds(reader_slots[i].seq)

IsDrainedReturn ==
  /\ pc = "drained"
  /\ channel = <<>>
  /\ pc' = "idle"
  /\ result' = IF Drained THEN "drained" ELSE "not drained"
  /\ UNCHANGED <<readers, write_index, channel, handles, iter, pending>>

WaitConfirmation ==
  /\ pc = "idle"
  /\ channel # <<>>
  /\ Update(Head(channel))
  /\ result' = "answered"
  /\ UNCHANGED <<read_index_min, read_index_next, slot_index, write_index, handles, pc, iter,
                 pending>>

-----------------------------------------------------------------------------
(* The handles, used by another task.                                       *)

(* try_send: an answer that finds the channel full is lost. *)
Send(c) == channel' = IF Len(channel) < MAX_PEEKS THEN Append(channel, c) ELSE channel

Confirm(s) ==
  /\ s \in handles
  /\ handles' = handles \ {s}
  /\ Send([id |-> s, success |-> TRUE])
  /\ pending' = pending \ {s}
  /\ UNCHANGED <<readers, write_index, pc, iter, result>>

Drop(s) ==
  /\ s \in handles
  /\ handles' = handles \ {s}
  /\ Send([id |-> s, success |-> FALSE])
  /\ UNCHANGED <<readers, write_index, pc, iter, result, pending>>

-----------------------------------------------------------------------------

(* reinit_with_existing_range: the store holds the items from lo to hi. *)
Reinit(lo, hi) ==
  /\ read_index_min = lo
  /\ read_index_next = lo
  /\ reader_slots = [i \in SlotIds |-> None]
  /\ slot_index = SlotOf(lo)
  /\ write_index = hi
  /\ pending = Between(lo, hi)

Init ==
  /\ \E lo \in SeqNo, n \in 0 .. Capacity : Reinit(lo, Add(lo, n))
  /\ channel = <<>>
  /\ handles = {}
  /\ pc = "idle"
  /\ iter = 0
  /\ result = "none"

Owner ==
  \/ Enqueue
  \/ PeekNext \/ FindReader \/ Find
  \/ IsDrained \/ IsDrainedReturn
  \/ UpdateReaderSlots
  \/ WaitConfirmation

Next == Owner \/ \E s \in handles : Confirm(s) \/ Drop(s)

Spec == Init /\ [][Next]_vars

(* The dispatch task peeks in every round of its loop, whatever else it     *)
(* calls, and its calls return; every handle is confirmed or goes out of    *)
(* scope. Nobody has to enqueue.                                            *)
Fairness ==
  /\ SF_vars(PeekNext)
  /\ WF_vars(UpdateReaderSlots) /\ WF_vars(FindReader) /\ WF_vars(Find)
  /\ WF_vars(IsDrainedReturn)
  /\ \A s \in SeqNo : WF_vars(Confirm(s) \/ Drop(s))

LiveSpec == Spec /\ Fairness

(* In addition: an item that is uploaded over and over succeeds some day.   *)
DeliverySpec == LiveSpec /\ \A s \in SeqNo : SF_vars(Confirm(s))

-----------------------------------------------------------------------------
(* Properties.                                                              *)

SlotStates == {None} \cup [st : {"Busy", "Abort"}, seq : SeqNo]
Answers == [id : SeqNo, success : BOOLEAN]

(* Indices, slots, handles and the channel have their types; in particular  *)
(* slot_index and the loop counter of find_reader stay within their bounds. *)
TypeOK ==
  /\ read_index_min \in SeqNo
  /\ read_index_next \in SeqNo
  /\ reader_slots \in [SlotIds -> SlotStates]
  /\ slot_index \in SlotIds
  /\ write_index \in SeqNo
  /\ channel \in Seq(Answers)
  /\ handles \subseteq SeqNo
  /\ pc \in {"idle", "peek", "find", "drained"}
  /\ iter \in 0 .. 2 * MAX_PEEKS - 1
  /\ pending \subseteq SeqNo
  /\ result \in {"none", "enqueued", "QueueFull", "Ok", "Busy", "Empty", "Unknown",
                 "drained", "not drained", "answered"}

Window == Between(read_index_min, read_index_next)

(* Every answer that is processed finds its own peek in its slot: the       *)
(* branch of PeekQueue::update that reports a BUG is never taken.           *)
AnswersExpected == \A k \in 1 .. Len(channel) : Expected(channel[k])

(* A handle can always deliver its answer, although it sends without        *)
(* waiting and ignores a full channel.                                      *)
ChannelHasRoom == handles # {} => Len(channel) < MAX_PEEKS

(* find_reader always decides before its loop ends: "Should not happen".    *)
AlwaysDecides == result # "Unknown"

(* No more than MAX_PEEKS items are between the two read indices, and these *)
(* never pass the write index or fall further behind than the store holds.  *)
WindowBounded ==
  /\ Sub(read_index_next, read_index_min) <= MAX_PEEKS
  /\ Sub(read_index_next, read_index_min) <= UnconfirmedCount
  /\ UnconfirmedCount <= Capacity

(* An item that was neither confirmed nor overwritten is never given up: it *)
(* is still ahead of the readers, or a slot keeps it for retry or answer.   *)
NothingGivenUp ==
  \A s \in pending :
    /\ s \in Between(read_index_min, write_index)
    /\ s \in Window => reader_slots[SlotOf(s)] \in {Busy(s), Abort(s)}

(* is_drained answers yes only if every item was confirmed or overwritten.  *)
DrainedIsEmpty == result = "drained" => pending = {}

(* The confirm channel serves its purpose: no answer meets a slot that does *)
(* not expect it, and no answer is lost for want of room.                   *)
AnswersArrive == AnswersExpected /\ ChannelHasRoom

(* The indices and slots of the queue serve theirs: every search decides,   *)
(* the window is bounded, no item is given up, and drained means empty.     *)
QueueDecides == AlwaysDecides /\ WindowBounded /\ NothingGivenUp /\ DrainedIsEmpty

(* A confirmed or overwritten item is not handed out again, and an item is  *)
(* not handed out while an earlier handle for it exists.                    *)
HandedOutOnce ==
  [][pc = "find" /\ result' = "Ok" =>
       /\ handles' # handles
       /\ handles' \ handles \subseteq pending]_vars

(* If uploads succeed some day, every item is confirmed or overwritten: no  *)
(* item blocks the ones behind it for ever, and none is skipped.            *)
EventuallyConfirmed == \A s \in SeqNo : s \in pending ~> s \notin pending

=============================================================================
