----------------------------- MODULE QueueProofs -----------------------------
(***************************************************************************)
(* Queue for any number of slots, any capacity and any width of the        *)
(* sequence numbers. Also where they wrap: every answer belongs to the     *)
(* peek in its slot, and the channel always has room for it. Before they   *)
(* wrap: every search decides, no pending item is given up, drained means  *)
(* empty, and nothing is handed out twice.                                 *)
(***************************************************************************)
EXTENDS Queue, TLAPS, SequenceTheorems, FiniteSetTheorems

(* A slot only ever keeps items that belong in it. *)
SlotsOwnItems ==
  \A i \in SlotIds : reader_slots[i] # None => SlotOf(reader_slots[i].seq) = i

(* Every handle, and every answer on its way, has a busy slot of its own. *)
HandlesBusy == \A s \in handles : reader_slots[SlotOf(s)] = Busy(s)
AnswersDistinct ==
  /\ \A k \in 1 .. Len(channel) : channel[k].id \notin handles
  /\ \A j, k \in 1 .. Len(channel) : channel[j].id = channel[k].id => j = k

IInv == TypeOK /\ SlotsOwnItems /\ HandlesBusy /\ AnswersExpected /\ AnswersDistinct

-----------------------------------------------------------------------------
(* Arithmetic.                                                             *)

(* wrapping_add and wrapping_sub return sequence numbers.                   *)
LEMMA Wrapping ==
  ASSUME NEW a \in Int, NEW b \in Int
  PROVE  Add(a, b) \in SeqNo /\ Sub(a, b) \in SeqNo
BY QueueAssumption DEF Add, Sub, SeqNo

(* Every item has a reader slot.                                            *)
LEMMA SlotOfSeq ==
  ASSUME NEW s \in SeqNo
  PROVE  SlotOf(s) \in SlotIds
BY QueueAssumption DEF SlotOf, SeqNo, SlotIds

(* The rounding of enqueue, checked_next_multiple_of, returns a number.     *)
LEMMA NextMultipleType ==
  ASSUME NEW n \in SeqNo
  PROVE  NextMultiple(n) \in Int
<1>1. (n + Granularity - 1) \div Granularity \in Int
  BY QueueAssumption DEF SeqNo
<1> QED
  BY <1>1, QueueAssumption DEF NextMultiple

(* inc_slot_index stays within the reader slots.                            *)
LEMMA IncSlotType ==
  ASSUME TypeOK, IncSlotIndex
  PROVE  slot_index' \in SlotIds
<1>1. slot_index \in 0 .. MAX_PEEKS - 1
  BY DEF TypeOK, SlotIds
<1> QED
  BY <1>1, QueueAssumption DEF IncSlotIndex, SlotIds

(* The three states of a reader slot can be told apart and keep their item. *)
LEMMA SlotStatesDistinct ==
  ASSUME NEW s \in SeqNo
  PROVE  /\ Busy(s) \in SlotStates /\ Abort(s) \in SlotStates /\ None \in SlotStates
         /\ Busy(s) # None /\ Abort(s) # None
         /\ Busy(s).seq = s /\ Abort(s).seq = s
         /\ Busy(s).st = "Busy" /\ Abort(s).st = "Abort" /\ None.st = "None"
BY DEF Busy, Abort, None, SlotStates

-----------------------------------------------------------------------------

(* A queue that was just restored from the flash satisfies the invariant:   *)
(* no slot is in use, no handle exists and no answer is on its way.         *)
LEMMA Initial == Init => IInv
<1> SUFFICES ASSUME Init PROVE IInv
  OBVIOUS
<1>1. PICK lo \in SeqNo, n \in 0 .. Capacity : Reinit(lo, Add(lo, n))
  BY DEF Init
<1>2. lo \in Int /\ n \in Int
  BY QueueAssumption DEF SeqNo
<1>3. Add(lo, n) \in SeqNo /\ SlotOf(lo) \in SlotIds
  BY <1>2, Wrapping, SlotOfSeq
<1>4. Between(lo, Add(lo, n)) \subseteq SeqNo
  BY DEF Between
<1>5. TypeOK
  BY <1>1, <1>3, <1>4, QueueAssumption DEF Init, Reinit, TypeOK, SlotStates
<1>6. SlotsOwnItems /\ HandlesBusy /\ AnswersExpected /\ AnswersDistinct
  BY <1>1 DEF Init, Reinit, SlotsOwnItems, HandlesBusy, AnswersExpected, AnswersDistinct
<1> QED
  BY <1>5, <1>6 DEF IInv

-----------------------------------------------------------------------------
(* Processing an answer frees its slot and touches no other handle.        *)

SlotInv == /\ reader_slots \in [SlotIds -> SlotStates]
           /\ channel \in Seq(Answers)
           /\ handles \subseteq SeqNo
           /\ SlotsOwnItems /\ HandlesBusy /\ AnswersExpected /\ AnswersDistinct

(* The part of the invariant that is about slots, handles and answers.      *)
LEMMA SlotInvHolds == IInv => SlotInv
BY DEF IInv, SlotInv, TypeOK

(* PeekQueue::update takes an answer out of the channel and frees, or marks *)
(* for retry, the slot of that answer and of no other.                      *)
LEMMA AfterUpdate ==
  ASSUME SlotInv, channel # <<>>, Update(Head(channel)), handles' = handles
  PROVE  SlotInv'
<1>1. /\ Head(channel) \in Answers /\ Head(channel) = channel[1] /\ Len(channel) \in Nat
      /\ 1 \in 1 .. Len(channel)
  BY HeadTailProperties, EmptySeq, ElementOfSeq DEF SlotInv
<1>2. PICK c \in Answers : c = Head(channel)
  BY <1>1
<1>3. c.id \in SeqNo /\ c.success \in BOOLEAN /\ SlotOf(c.id) \in SlotIds
  BY SlotOfSeq DEF Answers
<1>4. Expected(c)
  BY <1>1, <1>2 DEF SlotInv, AnswersExpected
<1>5. /\ channel' \in Seq(Answers) /\ Len(channel') = Len(channel) - 1
      /\ \A k \in 1 .. Len(channel') : /\ k + 1 \in 1 .. Len(channel) /\ k + 1 # 1
                                       /\ channel'[k] = channel[k + 1]
  BY <1>1, HeadTailProperties DEF SlotInv, Update
<1>6. PICK n \in {None, Abort(c.id)} : reader_slots' = [reader_slots EXCEPT ![SlotOf(c.id)] = n]
  BY <1>2, <1>4 DEF Update
<1>7. /\ reader_slots' \in [SlotIds -> SlotStates]
      /\ \A i \in SlotIds : reader_slots'[i] = IF i = SlotOf(c.id) THEN n ELSE reader_slots[i]
  BY <1>3, <1>6, SlotStatesDistinct DEF SlotInv
<1>8. SlotsOwnItems'
  BY <1>3, <1>7, SlotStatesDistinct DEF SlotInv, SlotsOwnItems
<1>9. ASSUME NEW s \in SeqNo, s # c.id, reader_slots[SlotOf(s)] = Busy(s)
      PROVE  reader_slots'[SlotOf(s)] = Busy(s)
  <2>1. SlotOf(s) # SlotOf(c.id)
    BY <1>3, <1>4, <1>9, SlotStatesDistinct DEF Expected
  <2> QED
    BY <1>7, <1>9, <2>1, SlotOfSeq
<1>10. c.id \notin handles
  BY <1>1, <1>2 DEF SlotInv, AnswersDistinct
<1>11. HandlesBusy'
  BY <1>9, <1>10 DEF SlotInv, HandlesBusy
<1>12. AnswersExpected'
  <2> SUFFICES ASSUME NEW k \in 1 .. Len(channel') PROVE reader_slots'[SlotOf(channel'[k].id)] = Busy(channel'[k].id)
    BY DEF AnswersExpected, Expected
  <2>1. /\ channel[k + 1].id # c.id /\ channel[k + 1].id \in SeqNo
        /\ reader_slots[SlotOf(channel[k + 1].id)] = Busy(channel[k + 1].id)
    <3>1. channel[k + 1] \in Answers
      BY <1>5, ElementOfSeq DEF SlotInv
    <3>2. channel[k + 1].id # channel[1].id
      BY <1>1, <1>5 DEF SlotInv, AnswersDistinct
    <3> QED
      BY <1>1, <1>2, <1>5, <3>1, <3>2 DEF SlotInv, AnswersExpected, Expected, Answers
  <2> QED
    BY <1>5, <1>9, <2>1
<1>13. AnswersDistinct'
  <2>1. \A k \in 1 .. Len(channel') : channel'[k].id \notin handles'
    BY <1>5 DEF SlotInv, AnswersDistinct
  <2>2. ASSUME NEW j \in 1 .. Len(channel'), NEW k \in 1 .. Len(channel'),
               channel'[j].id = channel'[k].id
        PROVE  j = k
    <3>1. j + 1 = k + 1
      BY SMTT(30), <1>5, <2>2 DEF SlotInv, AnswersDistinct
    <3> QED
      BY <3>1
  <2> QED
    BY <2>1, <2>2 DEF AnswersDistinct
<1> QED
  BY <1>5, <1>7, <1>8, <1>11, <1>12, <1>13 DEF SlotInv

(* Giving out a handle for an item that belongs in a slot that is not busy. *)
LEMMA AfterHandOut ==
  ASSUME SlotInv, slot_index \in SlotIds, NEW s \in SeqNo, SlotOf(s) = slot_index,
         reader_slots[slot_index].st # "Busy", HandOut(s), channel' = channel
  PROVE  SlotInv'
<1>1. /\ reader_slots' \in [SlotIds -> SlotStates]
      /\ \A i \in SlotIds : reader_slots'[i] = IF i = slot_index THEN Busy(s) ELSE reader_slots[i]
      /\ handles' = handles \cup {s}
  BY SlotStatesDistinct DEF SlotInv, HandOut
<1>2. SlotsOwnItems'
  BY <1>1, SlotStatesDistinct DEF SlotInv, SlotsOwnItems
<1>3. ASSUME NEW t \in SeqNo, reader_slots[SlotOf(t)] = Busy(t)
      PROVE  t # s /\ reader_slots'[SlotOf(t)] = Busy(t)
  <2>1. SlotOf(t) # slot_index
    BY <1>3, SlotStatesDistinct
  <2> QED
    BY <1>1, <1>3, <2>1, SlotOfSeq
<1>4. HandlesBusy'
  BY <1>1, <1>3 DEF SlotInv, HandlesBusy
<1>5. ASSUME NEW k \in 1 .. Len(channel)
      PROVE  channel[k].id \in SeqNo /\ reader_slots[SlotOf(channel[k].id)] = Busy(channel[k].id)
  <2>1. channel[k] \in Answers
    BY ElementOfSeq DEF SlotInv
  <2> QED
    BY <2>1 DEF SlotInv, AnswersExpected, Expected, Answers
<1>6. AnswersExpected'
  BY <1>3, <1>5 DEF AnswersExpected, Expected
<1>7. AnswersDistinct'
  BY <1>1, <1>3, <1>5 DEF SlotInv, AnswersDistinct
<1> QED
  BY <1>1, <1>2, <1>4, <1>6, <1>7 DEF SlotInv

(* A handle that answers passes its slot on to the answer. *)
LEMMA AfterSend ==
  ASSUME SlotInv, NEW s \in handles, NEW b \in BOOLEAN, handles' = handles \ {s},
         Send([id |-> s, success |-> b]), reader_slots' = reader_slots
  PROVE  SlotInv'
<1>1. PICK c \in Answers : c = [id |-> s, success |-> b]
  BY DEF SlotInv, Answers
<1>2. c.id = s
  BY <1>1
<1>3. CASE channel' = channel
  BY <1>3 DEF SlotInv, SlotsOwnItems, HandlesBusy, AnswersExpected, Expected, AnswersDistinct
<1>4. CASE channel' = Append(channel, c)
  <2>1. /\ channel' \in Seq(Answers) /\ Len(channel) \in Nat /\ Len(channel') = Len(channel) + 1
        /\ \A k \in 1 .. Len(channel) : channel'[k] = channel[k]
        /\ channel'[Len(channel) + 1] = c
    BY <1>4, AppendProperties, LenProperties DEF SlotInv
  <2>2. \A k \in 1 .. Len(channel') : k \in 1 .. Len(channel) \/ k = Len(channel) + 1
    BY <2>1
  <2>3. AnswersExpected'
    BY <1>2, <2>1, <2>2 DEF SlotInv, HandlesBusy, AnswersExpected, Expected
  <2>4. AnswersDistinct'
    <3>1. \A k \in 1 .. Len(channel) : channel[k].id # s
      BY DEF SlotInv, AnswersDistinct
    <3>2. \A k \in 1 .. Len(channel') : channel'[k].id \notin handles'
      BY <1>2, <2>1, <2>2 DEF SlotInv, AnswersDistinct
    <3>3. \A j, k \in 1 .. Len(channel') : channel'[j].id = channel'[k].id => j = k
      BY <1>2, <2>1, <2>2, <3>1 DEF SlotInv, AnswersDistinct
    <3> QED
      BY <3>2, <3>3 DEF AnswersDistinct
  <2> QED
    BY <2>1, <2>3, <2>4 DEF SlotInv, SlotsOwnItems, HandlesBusy
<1> QED
  BY <1>1, <1>3, <1>4 DEF Send

-----------------------------------------------------------------------------
(* Every step.                                                             *)

(* Steps that leave slots, channel and handles alone keep that part.        *)
LEMMA SlotsUnchanged ==
  ASSUME SlotInv, UNCHANGED <<reader_slots, channel, handles>>
  PROVE  SlotInv'
BY DEF SlotInv, SlotsOwnItems, HandlesBusy, AnswersExpected, Expected, AnswersDistinct

(* One iteration of find_reader. *)
LEMMA FindSteps ==
  ASSUME IInv, Find
  PROVE  IInv'
<1>1. SlotInv /\ TypeOK /\ slot_index \in SlotIds
  BY SlotInvHolds DEF IInv, TypeOK
<1>2. iter' \in 0 .. 2 * MAX_PEEKS - 1 /\ pc' \in {"find", "idle"} /\ result' \in
        {"none", "Ok", "Busy", "Empty", "Unknown", result}
  <2>1. iter \in 0 .. 2 * MAX_PEEKS - 1 /\ pc = "find"
    BY DEF IInv, TypeOK, Find
  <2>2. Continue => /\ iter' \in 0 .. 2 * MAX_PEEKS - 1 /\ pc' \in {"find", "idle"}
                    /\ result' \in {"Unknown", result}
    BY <2>1, QueueAssumption DEF Continue, PeekDone
  <2>3. ASSUME NEW r, PeekDone(r)
        PROVE  iter' \in 0 .. 2 * MAX_PEEKS - 1 /\ pc' \in {"find", "idle"} /\ result' = r
    BY <2>3, QueueAssumption DEF PeekDone
  <2>4. Continue \/ PeekDone("Ok") \/ PeekDone("Busy") \/ PeekDone("Empty")
    BY DEF Find, FindBusy, FindNone, FindAbort, HandOut
  <2> QED
    BY <2>2, <2>3, <2>4
<1>3. UNCHANGED <<write_index, channel, pending>>
  BY DEF Find
<1>4. /\ read_index_min \in SeqNo /\ read_index_next \in SeqNo
      /\ Add(read_index_min, 1) \in SeqNo /\ Add(read_index_next, 1) \in SeqNo
  <2>1. read_index_min \in SeqNo /\ read_index_next \in SeqNo
    BY <1>1 DEF TypeOK
  <2>2. read_index_min \in Int /\ read_index_next \in Int
    BY <2>1 DEF SeqNo
  <2> QED
    BY <2>1, <2>2, Wrapping
<1>5. ASSUME SlotInv', slot_index' \in SlotIds, read_index_min' \in SeqNo, read_index_next' \in SeqNo
      PROVE  IInv'
  BY <1>1, <1>2, <1>3, <1>5 DEF IInv, SlotInv, TypeOK
<1>6. CASE FindBusy
  BY <1>1, <1>3, <1>4, <1>5, <1>6, SlotsUnchanged DEF FindBusy, readers
<1>7. CASE FindNone
  <2>1. read_index_min' \in SeqNo /\ slot_index' \in SlotIds
    BY <1>1, <1>4, <1>7, IncSlotType DEF FindNone
  <2>2. CASE UNCHANGED <<reader_slots, read_index_next, handles>>
    BY <1>1, <1>3, <1>4, <1>5, <2>1, <2>2, SlotsUnchanged
  <2>3. CASE /\ slot_index = SlotOf(read_index_next) /\ HandOut(read_index_next)
             /\ read_index_next' = Add(read_index_next, 1)
    <3>1. reader_slots[slot_index].st # "Busy"
      BY <1>7 DEF FindNone, None
    <3>2. PICK s \in SeqNo : s = read_index_next
      BY <1>4
    <3>3. SlotInv'
      BY <1>1, <1>3, <2>3, <3>1, <3>2, AfterHandOut
    <3> QED
      BY <1>4, <1>5, <2>1, <2>3, <3>3
  <2> QED
    BY <1>7, <2>2, <2>3 DEF FindNone, Continue
<1>8. CASE FindAbort
  <2>1. /\ reader_slots[slot_index].st = "Abort"
        /\ UNCHANGED <<read_index_min, read_index_next>>
    BY <1>8 DEF FindAbort
  <2>2. PICK s \in SeqNo : s = reader_slots[slot_index].seq /\ reader_slots[slot_index] = Abort(s)
    BY <1>1, <2>1 DEF SlotInv, SlotStates, None, Abort
  <2>3. SlotOf(s) = slot_index
    BY <1>1, <2>2, SlotStatesDistinct DEF SlotInv, SlotsOwnItems
  <2>4. CASE IncSlotIndex /\ HandOut(s)
    <3>1. SlotInv'
      BY <1>1, <1>3, <2>1, <2>3, <2>4, AfterHandOut
    <3>2. slot_index' \in SlotIds
      BY <1>1, <2>4, IncSlotType
    <3> QED
      BY <1>4, <1>5, <2>1, <3>1, <3>2
  <2>5. CASE /\ reader_slots' = [reader_slots EXCEPT ![slot_index] = None]
             /\ handles' = handles /\ slot_index' = slot_index
    <3>1. /\ reader_slots' \in [SlotIds -> SlotStates]
          /\ \A i \in SlotIds : reader_slots'[i] = IF i = slot_index THEN None ELSE reader_slots[i]
      BY <1>1, <2>5, SlotStatesDistinct DEF SlotInv, SlotStates
    <3>2. ASSUME NEW t \in SeqNo, reader_slots[SlotOf(t)] = Busy(t)
          PROVE  reader_slots'[SlotOf(t)] = Busy(t)
      <4>1. SlotOf(t) # slot_index
        BY <2>1, <3>2, SlotStatesDistinct
      <4> QED
        BY <3>1, <3>2, <4>1, SlotOfSeq
    <3>3. SlotsOwnItems'
      BY <1>1, <3>1 DEF SlotInv, SlotsOwnItems
    <3>4. HandlesBusy'
      BY <1>1, <2>5, <3>2 DEF SlotInv, HandlesBusy
    <3>5. AnswersExpected'
      <4>1. \A k \in 1 .. Len(channel) : channel[k] \in Answers
        BY <1>1, ElementOfSeq DEF SlotInv
      <4> QED
        BY <1>1, <1>3, <3>2, <4>1 DEF SlotInv, AnswersExpected, Expected, Answers
    <3>6. AnswersDistinct'
      BY <1>1, <1>3, <2>5 DEF SlotInv, AnswersDistinct
    <3>7. SlotInv'
      BY <1>1, <1>3, <2>5, <3>1, <3>3, <3>4, <3>5, <3>6 DEF SlotInv
    <3> QED
      BY <1>1, <1>4, <1>5, <2>1, <2>5, <3>7
  <2> QED
    BY <1>8, <2>2, <2>4, <2>5 DEF FindAbort, Continue
<1> QED
  BY <1>6, <1>7, <1>8 DEF Find

(* Every step of the task that owns the queue keeps the invariant.          *)
LEMMA OwnerSteps ==
  ASSUME IInv, Owner
  PROVE  IInv'
<1>1. SlotInv /\ TypeOK
  BY SlotInvHolds DEF IInv
<1>2. ASSUME SlotInv', TypeOK' PROVE IInv'
  BY <1>2 DEF IInv, SlotInv
<1>3. CASE Enqueue
  <2>1. SlotInv'
    BY <1>1, <1>3, SlotsUnchanged DEF Enqueue, readers
  <2>2. write_index \in Int /\ write_index \in SeqNo /\ Capacity \in Int
    <3>1. write_index \in SeqNo
      BY <1>1 DEF TypeOK
    <3> QED
      BY <3>1, QueueAssumption DEF SeqNo
  <2>3. write_index' \in SeqNo
    BY <1>3, <2>2, Wrapping DEF Enqueue
  <2>4. Sub(NextMultiple(write_index'), Capacity) \in SeqNo
    BY <2>2, <2>3, NextMultipleType, Wrapping
  <2>5. read_index_min' \in SeqNo /\ read_index_next' \in SeqNo
    BY <1>1, <1>3, <2>4 DEF Enqueue, BumpMinIndex, TypeOK, readers
  <2>6. pending' \subseteq SeqNo
    BY <1>1, <1>3, <2>2 DEF Enqueue, TypeOK, Between
  <2>7. result' \in {"QueueFull", "enqueued"} /\ slot_index' = slot_index
    BY <1>3 DEF Enqueue, readers
  <2>8. TypeOK'
    BY <1>1, <1>3, <2>1, <2>3, <2>5, <2>6, <2>7 DEF Enqueue, TypeOK, SlotInv
  <2> QED
    BY <1>2, <2>1, <2>8
<1>4. CASE PeekNext \/ FindReader \/ IsDrained \/ IsDrainedReturn
  <2>1. UNCHANGED <<readers, write_index, channel, handles, pending>>
    BY <1>4 DEF PeekNext, FindReader, IsDrained, IsDrainedReturn
  <2>2. SlotInv'
    BY <1>1, <2>1, SlotsUnchanged DEF readers
  <2>3. /\ pc' \in {"idle", "peek", "find", "drained"}
        /\ iter' \in 0 .. 2 * MAX_PEEKS - 1
        /\ result' \in {"Empty", "none", "drained", "not drained", result}
    <3>1. iter \in 0 .. 2 * MAX_PEEKS - 1 /\ pc \in {"idle", "peek", "find", "drained"}
      BY <1>1 DEF TypeOK
    <3>2. 0 \in 0 .. 2 * MAX_PEEKS - 1
      BY QueueAssumption
    <3> QED
      BY <1>4, <3>1, <3>2 DEF PeekNext, FindReader, IsDrained, IsDrainedReturn
  <2>4. TypeOK'
    BY <1>1, <2>1, <2>3 DEF TypeOK, readers
  <2> QED
    BY <1>2, <2>2, <2>4
<1>5. CASE UpdateReaderSlots \/ WaitConfirmation
  <2>1. SlotInv'
    BY <1>1, <1>5, AfterUpdate DEF UpdateReaderSlots, WaitConfirmation
  <2>2. TypeOK'
    BY <1>1, <1>5, <2>1 DEF UpdateReaderSlots, WaitConfirmation, TypeOK, SlotInv
  <2> QED
    BY <1>2, <2>1, <2>2
<1> QED
  BY <1>3, <1>4, <1>5, FindSteps DEF Owner

(* A handle that is confirmed or dropped keeps the invariant.               *)
LEMMA HandleSteps ==
  ASSUME IInv, NEW s \in handles, Confirm(s) \/ Drop(s)
  PROVE  IInv'
<1>1. SlotInv'
  BY SlotInvHolds, AfterSend DEF Confirm, Drop, readers
<1>2. TypeOK'
  BY <1>1 DEF IInv, TypeOK, SlotInv, Confirm, Drop, readers
<1> QED
  BY <1>1, <1>2 DEF IInv, SlotInv

(* The invariant depends on nothing but the state.                          *)
LEMMA Stuttering ==
  ASSUME IInv, UNCHANGED vars
  PROVE  IInv'
<1>1. SlotInv'
  BY SlotInvHolds, SlotsUnchanged DEF vars, readers
<1>2. TypeOK'
  BY DEF IInv, TypeOK, vars, readers
<1> QED
  BY <1>1, <1>2 DEF IInv, SlotInv

(* Slots, handles and answers stay in one to one correspondence in every    *)
(* state that enqueue, peek_next, is_drained, wait_confirmation and the     *)
(* answers of other tasks can reach.                                        *)
THEOREM Inductive == Spec => []IInv
<1>1. IInv /\ [Next]_vars => IInv'
  BY OwnerSteps, HandleSteps, Stuttering DEF Next
<1> QED
  BY Initial, <1>1, PTL DEF Spec

(* The indices, slots, handles and the channel have their types.           *)
THEOREM TypeCorrect == Spec => []TypeOK
<1>1. IInv => TypeOK
  BY DEF IInv
<1> QED
  BY Inductive, <1>1, PTL

(* The BUG branch of PeekQueue::update is never taken: every answer finds  *)
(* its own peek busy in its slot, for every number of slots, also across   *)
(* the wrap of the sequence numbers and after an overwrite.                *)
THEOREM NoUnexpectedAnswer == Spec => []AnswersExpected
<1>1. IInv => AnswersExpected
  BY DEF IInv
<1> QED
  BY Inductive, <1>1, PTL

(* The non-waiting send of a handle is never refused: the answers on their *)
(* way and the handle itself have distinct slots, so that fewer than       *)
(* MAX_PEEKS answers are on their way.                                     *)
THEOREM NoAnswerLost == Spec => []ChannelHasRoom
<1>1. IInv => ChannelHasRoom
  <2> SUFFICES ASSUME IInv, handles # {} PROVE Len(channel) < MAX_PEEKS
    BY DEF ChannelHasRoom
  <2>1. PICK h \in handles : TRUE
    OBVIOUS
  <2>2. h \in SeqNo /\ reader_slots[SlotOf(h)] = Busy(h) /\ SlotOf(h) \in SlotIds
    BY SlotOfSeq DEF IInv, TypeOK, HandlesBusy
  <2>3. Len(channel) \in Nat /\ \A k \in 1 .. Len(channel) : channel[k] \in Answers
    BY LenProperties, ElementOfSeq DEF IInv, TypeOK
  <2>4. ASSUME NEW k \in 1 .. Len(channel)
        PROVE  /\ channel[k].id \in SeqNo /\ channel[k].id # h
               /\ reader_slots[SlotOf(channel[k].id)] = Busy(channel[k].id)
               /\ SlotOf(channel[k].id) \in SlotIds
    BY <2>3, SlotOfSeq DEF IInv, AnswersDistinct, AnswersExpected, Expected, Answers
  <2> DEFINE S == 1 .. Len(channel)
             T == SlotIds \ {SlotOf(h)}
             f == [k \in S |-> SlotOf(channel[k].id)]
  <2>5. f \in [S -> T]
    BY <2>2, <2>4, SlotStatesDistinct
  <2>6. \A j, k \in S : f[j] = f[k] => j = k
    <3> SUFFICES ASSUME NEW j \in S, NEW k \in S, f[j] = f[k] PROVE j = k
      OBVIOUS
    <3>1. channel[j].id = channel[k].id
      BY <2>4, SlotStatesDistinct
    <3> QED
      BY <3>1 DEF IInv, AnswersDistinct
  <2>7. f \in Injection(S, T)
    BY <2>5, <2>6 DEF Injection, IsInjective
  <2>8. /\ IsFiniteSet(SlotIds) /\ Cardinality(SlotIds) = MAX_PEEKS
        /\ IsFiniteSet(S) /\ Cardinality(S) = Len(channel)
    <3>1. 1 \in Int /\ 0 \in Int /\ Len(channel) \in Int /\ MAX_PEEKS - 1 \in Int
      BY <2>3, QueueAssumption
    <3>2. /\ IsFiniteSet(0 .. MAX_PEEKS - 1)
          /\ Cardinality(0 .. MAX_PEEKS - 1)
               = IF 0 > MAX_PEEKS - 1 THEN 0 ELSE MAX_PEEKS - 1 - 0 + 1
      BY <3>1, FS_Interval
    <3>3. /\ IsFiniteSet(1 .. Len(channel))
          /\ Cardinality(1 .. Len(channel)) = IF 1 > Len(channel) THEN 0 ELSE Len(channel) - 1 + 1
      BY <3>1, FS_Interval
    <3> QED
      BY <2>3, <3>2, <3>3, QueueAssumption DEF SlotIds
  <2>9. IsFiniteSet(T) /\ Cardinality(T) = MAX_PEEKS - 1
    BY <2>2, <2>8, FS_RemoveElement
  <2>10. Cardinality(S) <= Cardinality(T)
    BY <2>7, <2>9, FS_Injection
  <2> QED
    BY <2>3, <2>8, <2>9, <2>10, QueueAssumption
<1> QED
  BY Inductive, <1>1, PTL

(* The confirm channel of peek_queue.rs serves its purpose for any number   *)
(* of readers and any capacity.                                             *)
THEOREM EveryAnswerArrives == Spec => []AnswersArrive
BY NoUnexpectedAnswer, NoAnswerLost, PTL DEF AnswersArrive

-----------------------------------------------------------------------------
(* Arithmetic of the slots and of numbers that have not wrapped.            *)

(* What division by a positive number leaves.                               *)
LEMMA Division ==
  ASSUME NEW p \in Nat \ {0}, NEW a \in Int
  PROVE  \E q \in Int, r \in 0 .. p - 1 : q = a \div p /\ r = a % p /\ a = p * q + r
<1>1. PICK q \in Int, r \in Int : q = a \div p /\ r = a % p /\ r \in 0 .. p - 1
  OBVIOUS
<1>2. a = q * p + r
  BY <1>1
<1>3. q * p = p * q
  BY <1>1
<1> QED
  BY <1>1, <1>2, <1>3

(* Products of different numbers are at least the other factor apart.       *)
LEMMA Apart ==
  ASSUME NEW p \in Nat \ {0}, NEW e \in Int, NEW f \in Int, e > f
  PROVE  p * e - p * f >= p
<1>1. PICK d \in Int : d = e - f /\ d >= 1
  OBVIOUS
<1>2. p * d >= p
  BY <1>1
<1>3. p * d = p * e - p * f
  BY <1>1
<1> QED
  BY <1>2, <1>3

(* Quotient and remainder are the only ones.                                *)
LEMMA DivisionUnique ==
  ASSUME NEW p \in Nat \ {0}, NEW q \in Int, NEW r \in 0 .. p - 1, NEW a \in Int, a = p * q + r
  PROVE  a % p = r /\ a \div p = q
<1>1. PICK e \in Int, f \in 0 .. p - 1 : e = a \div p /\ f = a % p /\ a = p * e + f
  BY Division
<1>2. PICK x \in Int, y \in Int : x = p * e /\ y = p * q
  OBVIOUS
<1>3. e > q => x - y >= p
  BY <1>2, Apart
<1>4. q > e => y - x >= p
  BY <1>2, Apart
<1>5. x + f = y + r
  BY <1>1, <1>2
<1>6. e = q
  BY <1>3, <1>4, <1>5
<1> QED
  BY <1>1, <1>2, <1>5, <1>6

(* MAX_PEEKS items in a row have different slots.                           *)
LEMMA SlotSame ==
  ASSUME NEW a \in Int, NEW b \in Int, SlotOf(a) = SlotOf(b),
         a - b < MAX_PEEKS, b - a < MAX_PEEKS
  PROVE  a = b
<1>0. PICK p \in Nat \ {0} : p = MAX_PEEKS
  BY QueueAssumption
<1>1. PICK e \in Int, r \in 0 .. p - 1 : r = a % p /\ a = p * e + r
  BY Division
<1>2. PICK f \in Int, t \in 0 .. p - 1 : t = b % p /\ b = p * f + t
  BY Division
<1>3. PICK x \in Int, y \in Int : x = p * e /\ y = p * f
  OBVIOUS
<1>4. a = x + r /\ b = y + r
  BY <1>0, <1>1, <1>2, <1>3 DEF SlotOf
<1>5. e > f => x - y >= p
  BY <1>3, Apart
<1>6. f > e => y - x >= p
  BY <1>3, Apart
<1>7. e = f
  BY <1>0, <1>4, <1>5, <1>6
<1> QED
  BY <1>3, <1>4, <1>7

(* After MAX_PEEKS items it is the same slot's turn.                        *)
LEMMA SlotTurn ==
  ASSUME NEW a \in Int
  PROVE  SlotOf(a + MAX_PEEKS) = SlotOf(a)
<1>0. PICK p \in Nat \ {0} : p = MAX_PEEKS
  BY QueueAssumption
<1>1. PICK e \in Int, r \in 0 .. p - 1 : r = a % p /\ a = p * e + r
  BY Division
<1>2. PICK c \in Int, g \in Int, x \in Int, y \in Int :
        c = a + p /\ g = e + 1 /\ x = p * e /\ y = p * g
  OBVIOUS
<1>3. y = x + p
  BY <1>2
<1>4. a = x + r
  BY <1>1, <1>2
<1>5. c = y + r
  BY <1>2, <1>3, <1>4
<1>6. c = p * g + r
  BY <1>2, <1>5
<1>7. c % p = r
  BY <1>6, DivisionUnique
<1> QED
  BY <1>0, <1>1, <1>2, <1>7 DEF SlotOf

(* inc_slot_index goes on to the slot of the next item.                     *)
LEMMA SlotSucc ==
  ASSUME NEW a \in Int
  PROVE  SlotOf(a + 1) = IF SlotOf(a) + 1 >= MAX_PEEKS THEN 0 ELSE SlotOf(a) + 1
<1>0. PICK p \in Nat \ {0} : p = MAX_PEEKS
  BY QueueAssumption
<1>1. PICK e \in Int, r \in 0 .. p - 1 : r = a % p /\ a = p * e + r
  BY Division
<1>2. PICK c \in Int, g \in Int, x \in Int, y \in Int :
        c = a + 1 /\ g = e + 1 /\ x = p * e /\ y = p * g
  OBVIOUS
<1>3. y = x + p /\ a = x + r
  BY <1>1, <1>2
<1>4. CASE r + 1 < p
  <2>1. c = x + (r + 1) /\ r + 1 \in 0 .. p - 1
    BY <1>2, <1>3, <1>4
  <2>2. PICK t \in 0 .. p - 1 : t = r + 1 /\ c = p * e + t
    BY <1>2, <2>1
  <2>3. c % p = t
    BY <2>2, DivisionUnique
  <2> QED
    BY <1>0, <1>1, <1>2, <1>4, <2>2, <2>3 DEF SlotOf
<1>5. CASE r + 1 >= p
  <2>1. c = y + 0 /\ 0 \in 0 .. p - 1
    BY <1>2, <1>3, <1>5
  <2>2. c = p * g + 0
    BY <1>2, <2>1
  <2>3. c % p = 0
    BY <2>1, <2>2, DivisionUnique
  <2> QED
    BY <1>0, <1>1, <1>2, <1>5, <2>3 DEF SlotOf
<1> QED
  BY <1>4, <1>5

(* Among MAX_PEEKS items in a row there is one for every slot.              *)
LEMMA SlotCovers ==
  ASSUME NEW b \in Int, NEW i \in SlotIds
  PROVE  \E p \in b + 1 .. b + MAX_PEEKS : SlotOf(p) = i
<1>0. PICK p \in Nat \ {0} : p = MAX_PEEKS /\ i \in 0 .. p - 1
  BY QueueAssumption DEF SlotIds
<1>1. PICK a \in Int : a = i - b - 1
  BY <1>0
<1>2. PICK q \in Int, r \in 0 .. p - 1 : a = p * q + r
  BY Division
<1>3. PICK c \in Int, g \in Int, x \in Int, y \in Int :
        c = b + 1 + r /\ g = 0 - q /\ x = p * q /\ y = p * g
  OBVIOUS
<1>4. a = x + r
  BY <1>2, <1>3
<1>5. y = 0 - x
  BY <1>3
<1>6. c = y + i
  BY <1>0, <1>1, <1>3, <1>4, <1>5
<1>7. c = p * g + i
  BY <1>3, <1>6
<1>8. c % p = i
  BY <1>0, <1>7, DivisionUnique
<1>9. c \in b + 1 .. b + p
  BY <1>3
<1>10. SlotOf(c) = i
  BY <1>0, <1>8 DEF SlotOf
<1> QED
  BY <1>0, <1>9, <1>10

(* Differences of numbers in order are plain differences.                   *)
LEMMA SubPlain ==
  ASSUME NEW a \in SeqNo, NEW b \in SeqNo
  PROVE  Sub(a, b) = IF b <= a THEN a - b ELSE a - b + SeqMod
<1>0. PICK p \in Nat \ {0} : p = SeqMod /\ a \in 0 .. p - 1 /\ b \in 0 .. p - 1
  BY QueueAssumption DEF SeqNo
<1>1. CASE b <= a
  <2>1. PICK d \in Int, r \in 0 .. p - 1 : d = a - b /\ r = a - b /\ d = p * 0 + r
    BY <1>0, <1>1
  <2>2. d % p = r
    BY <2>1, DivisionUnique
  <2> QED
    BY <1>0, <1>1, <2>1, <2>2 DEF Sub
<1>2. CASE b > a
  <2>1. PICK d \in Int, r \in 0 .. p - 1, q \in Int, y \in Int :
          d = a - b /\ r = a - b + p /\ q = 0 - 1 /\ y = p * q /\ y = 0 - p
    BY <1>0, <1>2
  <2>2. d = y + r
    BY <2>1
  <2>3. d = p * q + r
    BY <2>1, <2>2
  <2>4. d % p = r
    BY <2>3, DivisionUnique
  <2> QED
    BY <1>0, <1>2, <2>1, <2>4 DEF Sub
<1> QED
  BY <1>0, <1>1, <1>2

(* Sums that stay below the modulus are plain sums.                         *)
LEMMA AddPlain ==
  ASSUME NEW a \in SeqNo, NEW b \in SeqNo
  PROVE  Add(a, b) = IF a + b < SeqMod THEN a + b ELSE a + b - SeqMod
<1>0. PICK p \in Nat \ {0} : p = SeqMod /\ a \in 0 .. p - 1 /\ b \in 0 .. p - 1
  BY QueueAssumption DEF SeqNo
<1>1. PICK d \in Int, q \in Int, r \in 0 .. p - 1 :
        d = a + b /\ q = d \div p /\ r = d % p /\ d = p * q + r
  BY <1>0, Division
<1>2. PICK x \in Int : x = p * q
  OBVIOUS
<1>3. d = x + r /\ 0 <= d /\ d < p + p
  BY <1>0, <1>1, <1>2
<1>4. q >= 2 => x >= p + p
  BY <1>2
<1>5. q < 0 => x <= 0 - p
  BY <1>2
<1>6. q = 0 => x = 0
  BY <1>2
<1>7. q = 1 => x = p
  BY <1>2
<1>8. r = IF d < p THEN d ELSE d - p
  BY <1>3, <1>4, <1>5, <1>6, <1>7
<1> QED
  BY <1>0, <1>1, <1>8 DEF Add

(* The items between two indices in order are an interval.                  *)
LEMMA BetweenPlain ==
  ASSUME NEW lo \in SeqNo, NEW hi \in SeqNo, lo <= hi
  PROVE  Between(lo, hi) = lo .. hi - 1
<1>1. \A s \in SeqNo : Sub(s, lo) < Sub(hi, lo) <=> lo <= s /\ s < hi
  BY SubPlain, QueueAssumption DEF SeqNo
<1> QED
  BY <1>1, QueueAssumption DEF Between, SeqNo

(* The number that find_reader computes for the slot it looks at is the     *)
(* oldest item exactly if it looks at that item's slot.                     *)
LEMMA SlotOfOldest ==
  ASSUME NEW m \in SeqNo, NEW i \in SlotIds
  PROVE  (m - (m % MAX_PEEKS) + i) % SeqMod = m <=> i = SlotOf(m)
<1>0. PICK p \in Nat \ {0} : p = MAX_PEEKS /\ i \in 0 .. p - 1 /\ p < SeqMod
  BY QueueAssumption DEF SlotIds
<1>1. m \in Int /\ 0 <= m /\ m < SeqMod /\ SeqMod \in Nat
  BY QueueAssumption DEF SeqNo
<1>2. PICK q \in Int, r \in 0 .. p - 1 : r = m % p /\ m = p * q + r
  BY <1>1, Division
<1>3. PICK x \in Int : x = p * q
  OBVIOUS
<1>4. m = x + r
  BY <1>2, <1>3
<1>5. q < 0 => x <= 0 - p
  BY <1>3
<1>6. q >= 0 => x >= 0
  BY <1>3
<1>7. x >= 0
  BY <1>1, <1>4, <1>5, <1>6
<1>8. PICK a \in SeqNo : a = m - r
  BY <1>1, <1>4, <1>7 DEF SeqNo
<1>9. i \in SeqNo
  BY <1>0, <1>1 DEF SeqNo
<1>10. (a + i) % SeqMod = IF a + i < SeqMod THEN a + i ELSE a + i - SeqMod
  BY <1>8, <1>9, AddPlain DEF Add
<1>11. m - (m % MAX_PEEKS) + i = a + i
  BY <1>0, <1>1, <1>2, <1>8
<1>12. SlotOf(m) = r
  BY <1>0, <1>2 DEF SlotOf
<1>13. a \in Int /\ a >= 0
  BY <1>8, <1>1 DEF SeqNo
<1> QED
  BY <1>0, <1>1, <1>8, <1>10, <1>11, <1>12, <1>13

(* The rounding of enqueue never goes back, unless it gives up and takes 0. *)
LEMMA NextMultipleBound ==
  ASSUME NEW n \in SeqNo
  PROVE  /\ NextMultiple(n) \in SeqNo
         /\ NextMultiple(n) = 0 \/ NextMultiple(n) >= n
         /\ n = 0 => NextMultiple(n) = 0
<1>0. PICK g \in Nat \ {0} : g = Granularity
  BY QueueAssumption
<1>1. n \in Int /\ 0 <= n /\ n < SeqMod /\ SeqMod \in Nat
  BY QueueAssumption DEF SeqNo
<1>2. PICK a \in Int, q \in Int, r \in 0 .. g - 1 :
        a = n + g - 1 /\ q = a \div g /\ a = g * q + r
  BY <1>1, Division
<1>3. PICK x \in Int : x = g * q /\ x = q * g
  OBVIOUS
<1>4. a = x + r
  BY <1>2, <1>3
<1>5. x >= n
  BY <1>1, <1>2, <1>4
<1>6. NextMultiple(n) = IF x < SeqMod THEN x ELSE 0
  BY <1>0, <1>2, <1>3 DEF NextMultiple
<1>7. q > 0 => x - g * 0 >= g
  BY <1>3, Apart
<1>8. q <= 0 => x <= 0
  BY <1>3
<1>9. n = 0 => x = 0
  BY <1>2, <1>4, <1>5, <1>7, <1>8
<1> QED
  BY <1>1, <1>5, <1>6, <1>9 DEF SeqNo

-----------------------------------------------------------------------------
(* Before the sequence numbers wrap: the indices are ordered as numbers. The *)
(* slots of MAX_PEEKS = 5 readers do not continue across the wrap of a u32.  *)
Unwrapped == read_index_min <= write_index

Ordered ==
  /\ read_index_min <= read_index_next /\ read_index_next <= write_index
  /\ read_index_next - read_index_min <= MAX_PEEKS
  /\ write_index - read_index_min <= Capacity

(* A slot keeps an item that was peeked: one of the window, or one that was *)
(* overwritten not too long ago.                                            *)
SlotsPeeked ==
  \A i \in SlotIds : reader_slots[i] # None =>
    LET s == reader_slots[i].seq
    IN  s < read_index_next /\ (read_index_min <= s \/ write_index - s <= MaxAge)

(* The slot of an item of the window is free or keeps that item. *)
WindowKept ==
  \A s \in read_index_min .. read_index_next - 1 :
    /\ reader_slots[SlotOf(s)] \in {None, Busy(s), Abort(s)}
    /\ s \in pending => reader_slots[SlotOf(s)] # None

PendingKept ==
  /\ pending \subseteq read_index_min .. write_index - 1
  /\ read_index_next .. write_index - 1 \subseteq pending

(* What waits for an answer or a retry is not confirmed; a confirmation on its way *)
(* has had its effect.                                                             *)
Unanswered(s) == read_index_min <= s => s \in pending
AnswersTrue ==
  /\ \A s \in handles : Unanswered(s)
  /\ \A i \in SlotIds : reader_slots[i].st = "Abort" => Unanswered(reader_slots[i].seq)
  /\ \A k \in 1 .. Len(channel) :
       IF channel[k].success THEN channel[k].id \notin pending ELSE Unanswered(channel[k].id)

Calls ==
  /\ pc \in {"peek", "find"} => result = "none" /\ read_index_min # write_index
  /\ pc = "peek" => iter = 0
  /\ result = "drained" => pending = {}
  /\ result # "Unknown"

(* The search stands before a slot that is free, so that it moves on in this step. *)
AtFree == IF reader_slots[slot_index] = None THEN 1 ELSE 0

(* How long find_reader goes on: while there is more to peek, until it comes to the *)
(* slot of the next item, at most two steps for each slot before it (an overwritten *)
(* peek is given up first); else to the slot of the oldest item and then on with    *)
(* that item, but overwritten peeks are only met outside of the window. The slot    *)
(* that it looks at is that of the number p.                                        *)
Searching(p) ==
  /\ SlotOf(p) = slot_index
  /\ IF read_index_next # write_index
       THEN /\ p \in read_index_next + 1 .. read_index_next + MAX_PEEKS
            /\ iter <= 2 * (p - read_index_next - 1) + AtFree
       ELSE LET dist == read_index_min + MAX_PEEKS - p
                window == read_index_next - read_index_min
                outside == MAX_PEEKS - window
            IN  /\ p \in read_index_min + 1 .. read_index_min + MAX_PEEKS
                /\ \/ /\ dist > outside
                      /\ iter + dist + window + outside <= 2 * MAX_PEEKS - 1
                   \/ /\ dist <= outside
                      /\ iter + dist + window + dist - (IF dist = 0 THEN 0 ELSE AtFree) <= 2 * MAX_PEEKS - 1

Search == pc = "find" => \E p \in Nat : Searching(p)

OrderInv ==
  Ordered /\ SlotsPeeked /\ WindowKept /\ PendingKept /\ AnswersTrue /\ Calls /\ Search


-----------------------------------------------------------------------------
(* What the invariant says of numbers and slots.                            *)

(* The types of the indices and of the constants, as numbers.               *)
LEMMA Numbers ==
  ASSUME IInv
  PROVE  /\ read_index_min \in Int /\ read_index_next \in Int /\ write_index \in Int
         /\ 0 <= read_index_min /\ read_index_min < SeqMod
         /\ 0 <= read_index_next /\ read_index_next < SeqMod
         /\ 0 <= write_index /\ write_index < SeqMod
         /\ read_index_min \in SeqNo /\ read_index_next \in SeqNo /\ write_index \in SeqNo
         /\ MAX_PEEKS \in Nat /\ MAX_PEEKS > 0 /\ SeqMod \in Nat /\ SeqMod > MAX_PEEKS
         /\ Capacity \in Int /\ 1 <= Capacity /\ Capacity < SeqMod /\ Capacity \in SeqNo
         /\ MaxAge \in Int /\ MaxAge = SeqMod - MAX_PEEKS - 1
         /\ slot_index \in SlotIds /\ iter \in Int /\ iter \in 0 .. 2 * MAX_PEEKS - 1
         /\ reader_slots \in [SlotIds -> SlotStates]
         /\ 1 \in SeqNo /\ 0 \in SeqNo
<1>1. /\ read_index_min \in SeqNo /\ read_index_next \in SeqNo /\ write_index \in SeqNo
      /\ slot_index \in SlotIds /\ iter \in 0 .. 2 * MAX_PEEKS - 1
      /\ reader_slots \in [SlotIds -> SlotStates]
  BY DEF IInv, TypeOK
<1> QED
  BY <1>1, QueueAssumption DEF SeqNo, MaxAge

(* A slot that is not free keeps an item that belongs in it.                *)
LEMMA SlotItem ==
  ASSUME IInv, NEW i \in SlotIds, reader_slots[i] # None
  PROVE  \E s \in SeqNo : /\ SlotOf(s) = i /\ s = reader_slots[i].seq
                          /\ \/ reader_slots[i] = Busy(s) /\ reader_slots[i].st = "Busy"
                             \/ reader_slots[i] = Abort(s) /\ reader_slots[i].st = "Abort"
<1>1. reader_slots[i] \in [st : {"Busy", "Abort"}, seq : SeqNo]
  BY Numbers DEF SlotStates
<1>2. PICK s \in SeqNo : s = reader_slots[i].seq
  BY <1>1
<1>3. reader_slots[i] \in {Busy(s), Abort(s)}
  BY <1>1, <1>2 DEF Busy, Abort
<1> QED
  BY <1>2, <1>3, SlotStatesDistinct DEF IInv, SlotsOwnItems

(* Every answer on its way names an item.                                   *)
LEMMA AnswerIds ==
  ASSUME IInv
  PROVE  \A k \in 1 .. Len(channel) : channel[k].id \in SeqNo
<1> SUFFICES ASSUME NEW k \in 1 .. Len(channel) PROVE channel[k].id \in SeqNo
  OBVIOUS
<1>1. channel \in Seq(Answers)
  BY DEF IInv, TypeOK
<1>2. channel[k] \in Answers
  BY <1>1, ElementOfSeq
<1> QED
  BY <1>2 DEF Answers

(* PeekQueue::is_in_bounds recognizes the items that were overwritten.      *)
LEMMA InBounds ==
  ASSUME IInv, Ordered, NEW s \in SeqNo, s < read_index_next,
         read_index_min <= s \/ write_index - s <= MaxAge
  PROVE  IsInBounds(s) <=> read_index_min <= s
<1>1. s \in Int /\ 0 <= s
  BY QueueAssumption DEF SeqNo
<1>2. Sub(s, read_index_min) = IF read_index_min <= s THEN s - read_index_min
                               ELSE s - read_index_min + SeqMod
  BY Numbers, SubPlain
<1>3. Sub(read_index_next, s) = read_index_next - s
  BY <1>1, Numbers, SubPlain
<1> QED
  BY <1>1, <1>2, <1>3, Numbers DEF IsInBounds, Ordered

(* A busy or aborted slot keeps a peeked item.                              *)
LEMMA SlotPeeked ==
  ASSUME IInv, OrderInv, NEW s \in SeqNo, reader_slots[SlotOf(s)] \in {Busy(s), Abort(s)}
  PROVE  /\ s < read_index_next
         /\ read_index_min <= s \/ write_index - s <= MaxAge
<1>1. SlotOf(s) \in SlotIds /\ reader_slots[SlotOf(s)] # None /\ reader_slots[SlotOf(s)].seq = s
  BY SlotOfSeq, SlotStatesDistinct
<1> QED
  BY <1>1 DEF OrderInv, SlotsPeeked

-----------------------------------------------------------------------------
(* Initial states and the steps that leave the indices and slots alone.     *)

(* A queue that was just restored has its indices in order.                 *)
LEMMA InitialOrder ==
  ASSUME Init, Unwrapped
  PROVE  OrderInv
<1>1. PICK lo \in SeqNo, k \in 0 .. Capacity : Reinit(lo, Add(lo, k))
  BY DEF Init
<1>2. lo \in Int /\ 0 <= lo /\ lo < SeqMod /\ k \in SeqNo /\ k \in Int /\ 0 <= k /\ k <= Capacity
      /\ SeqMod \in Nat /\ Capacity < SeqMod /\ Capacity \in Int
  BY QueueAssumption DEF SeqNo
<1>3. /\ read_index_min = lo /\ read_index_next = lo /\ write_index = Add(lo, k)
      /\ \A i \in SlotIds : reader_slots[i] = None
      /\ pending = Between(lo, Add(lo, k))
  BY <1>1 DEF Reinit
<1>4. Add(lo, k) = IF lo + k < SeqMod THEN lo + k ELSE lo + k - SeqMod
  BY <1>2, AddPlain
<1>5. Add(lo, k) = lo + k /\ Add(lo, k) \in SeqNo
  BY <1>2, <1>3, <1>4, Wrapping DEF Unwrapped
<1>6. pending = lo .. lo + k - 1
  BY <1>2, <1>3, <1>5, BetweenPlain
<1>7. Ordered /\ PendingKept
  BY <1>2, <1>3, <1>5, <1>6, QueueAssumption DEF Ordered, PendingKept
<1>8. SlotsPeeked /\ Calls /\ Search
  BY <1>3 DEF SlotsPeeked, Init, Calls, Search
<1>9. WindowKept
  BY <1>2, <1>3 DEF WindowKept
<1>10. AnswersTrue
  <2>1. \A i \in SlotIds : reader_slots[i].st # "Abort"
    BY <1>3 DEF None
  <2> QED
    BY <2>1 DEF AnswersTrue, Init
<1> QED
  BY <1>7, <1>8, <1>9, <1>10 DEF OrderInv

(* The part of the invariant that is about what the queue keeps.            *)
Kept == Ordered /\ SlotsPeeked /\ WindowKept /\ PendingKept /\ AnswersTrue

(* Steps that leave indices, slots and answers alone keep that part.        *)
LEMMA KeptUnchanged ==
  ASSUME Kept, UNCHANGED <<readers, write_index, channel, handles, pending>>
  PROVE  Kept'
BY DEF Kept, Ordered, SlotsPeeked, WindowKept, PendingKept, AnswersTrue, Unanswered, readers

(* peek_next and is_drained begin, and find_reader takes its first step.    *)
LEMMA CallSteps ==
  ASSUME IInv, OrderInv, PeekNext \/ FindReader \/ IsDrained
  PROVE  OrderInv'
<1>1. UNCHANGED <<readers, write_index, channel, handles, pending>>
  BY DEF PeekNext, FindReader, IsDrained
<1>2. Kept'
  BY <1>1, KeptUnchanged DEF OrderInv, Kept
<1>3. CASE PeekNext
  <2>1. UnconfirmedCount # 0 => read_index_min # write_index
    <3>1. read_index_min = write_index => Sub(write_index, read_index_min) = 0
      BY Numbers, SubPlain
    <3> QED
      BY <3>1 DEF UnconfirmedCount
  <2> QED
    BY <1>1, <1>2, <1>3, <2>1 DEF OrderInv, Kept, PeekNext, Calls, Search, readers
<1>4. CASE IsDrained
  BY <1>1, <1>2, <1>4 DEF OrderInv, Kept, IsDrained, Calls, Search, readers
<1>5. CASE FindReader
  <2>1. iter = 0 /\ pc' = "find" /\ result' = result /\ iter' = 0 /\ result = "none"
        /\ read_index_min # write_index
    BY <1>5 DEF FindReader, OrderInv, Calls
  <2>2. Calls'
    BY <1>1, <2>1 DEF Calls, readers
  <2>3. \E p \in Nat : Searching(p)
    <3>1. AtFree \in {0, 1}
      BY DEF AtFree
    <3>2. CASE read_index_next # write_index
      <4>1. PICK p \in read_index_next + 1 .. read_index_next + MAX_PEEKS : SlotOf(p) = slot_index
        BY Numbers, SlotCovers
      <4>2. p \in Nat /\ 0 <= 2 * (p - read_index_next - 1) + AtFree
        BY <3>1, <4>1, Numbers
      <4> QED
        BY <2>1, <3>2, <4>1, <4>2 DEF Searching
    <3>3. CASE read_index_next = write_index
      <4>1. PICK p \in read_index_min + 1 .. read_index_min + MAX_PEEKS : SlotOf(p) = slot_index
        BY Numbers, SlotCovers
      <4>2. PICK dist \in Int, window \in Int, outside \in Int :
              /\ dist = read_index_min + MAX_PEEKS - p
              /\ window = read_index_next - read_index_min
              /\ outside = MAX_PEEKS - window
        BY <4>1, Numbers
      <4>3. 0 <= dist /\ dist < MAX_PEEKS /\ window + outside = MAX_PEEKS
        BY <4>1, <4>2, Numbers
      <4>4. dist > outside => 0 + dist + window + outside <= 2 * MAX_PEEKS - 1
        BY <4>3, Numbers
      <4>5. dist <= outside =>
              0 + dist + window + dist - (IF dist = 0 THEN 0 ELSE AtFree) <= 2 * MAX_PEEKS - 1
        BY <3>1, <4>3, Numbers
      <4>6. p \in Nat
        BY <4>1, Numbers
      <4> QED
        BY <2>1, <3>3, <4>1, <4>2, <4>3, <4>4, <4>5, <4>6 DEF Searching
    <3> QED
      BY <3>2, <3>3
  <2>4. Search'
    BY <1>1, <2>1, <2>3 DEF Search, Searching, AtFree, readers
  <2> QED
    BY <1>2, <2>2, <2>4 DEF OrderInv, Kept
<1> QED
  BY <1>3, <1>4, <1>5

-----------------------------------------------------------------------------
(* Enqueue.                                                                 *)

(* The oldest item moves forward, and the next one with it if need be.      *)
LEMMA EnqueueIndices ==
  ASSUME IInv, Ordered, Enqueue, IInv', Unwrapped', result' = "enqueued"
  PROVE  /\ write_index' = write_index + 1
         /\ read_index_min <= read_index_min' /\ read_index_min' <= write_index'
         /\ write_index' - read_index_min' <= Capacity
         /\ read_index_next' = IF read_index_next < read_index_min' THEN read_index_min'
                               ELSE read_index_next
         /\ pending' = (pending \cup {write_index}) \cap (read_index_min' .. write_index)
<1>1. PICK W \in SeqNo, lo \in SeqNo, hi \in SeqNo :
        W = write_index' /\ lo = read_index_min' /\ hi = read_index_next'
  BY DEF IInv, TypeOK
<1>2. /\ UnconfirmedCount # SeqMod - 1
      /\ W = Add(write_index, 1)
      /\ IF Sub(W, read_index_min) > Capacity
           THEN BumpMinIndex(Sub(NextMultiple(W), Capacity))
           ELSE UNCHANGED <<read_index_min, read_index_next>>
      /\ pending' = (pending \cup {write_index}) \cap Between(lo, W)
  BY <1>1 DEF Enqueue
<1>3. W \in Int /\ lo \in Int /\ hi \in Int /\ 0 <= W /\ 0 <= lo /\ 0 <= hi /\ W < SeqMod /\ lo <= W
  BY <1>1, QueueAssumption DEF SeqNo, Unwrapped
<1>4. W = IF write_index + 1 < SeqMod THEN write_index + 1 ELSE write_index + 1 - SeqMod
  BY <1>2, Numbers, AddPlain
<1>5. Sub(W, read_index_min) = IF read_index_min <= W THEN W - read_index_min
                               ELSE W - read_index_min + SeqMod
  BY Numbers, SubPlain
<1>6. PICK K \in SeqNo : K = NextMultiple(W) /\ (K = 0 \/ K >= W) /\ (W = 0 => K = 0)
  BY NextMultipleBound
<1>7. K \in Int /\ 0 <= K /\ K < SeqMod
  BY QueueAssumption DEF SeqNo
<1>8. Sub(K, Capacity) = IF Capacity <= K THEN K - Capacity ELSE K - Capacity + SeqMod
  BY Numbers, SubPlain
<1>9. Sub(write_index, read_index_min) = write_index - read_index_min
  BY Numbers, SubPlain DEF Ordered
<1>10. W = write_index + 1
  <2> SUFFICES ASSUME write_index + 1 >= SeqMod PROVE FALSE
    BY <1>4, Numbers
  <2>1. W = 0 /\ write_index = SeqMod - 1 /\ lo = 0
    BY <1>3, <1>4, Numbers
  <2>2. CASE Sub(W, read_index_min) > Capacity
    <3>1. lo = Sub(K, Capacity)
      BY <1>1, <1>2, <1>6, <2>2 DEF BumpMinIndex
    <3> QED
      BY <1>6, <1>8, <2>1, <3>1, Numbers
  <2>3. CASE ~ (Sub(W, read_index_min) > Capacity)
    <3>1. lo = read_index_min
      BY <1>1, <1>2, <2>3
    <3> QED
      BY <1>2, <1>9, <2>1, <3>1, Numbers DEF UnconfirmedCount
  <2> QED
    BY <2>2, <2>3
<1>11. Between(lo, W) = lo .. write_index
  <2>1. Between(lo, W) = lo .. W - 1
    BY <1>3, BetweenPlain
  <2> QED
    BY <1>10, <2>1, Numbers
<1>12. pending' = (pending \cup {write_index}) \cap (lo .. write_index)
  BY <1>2, <1>11
<1>13. CASE Sub(W, read_index_min) > Capacity
  <2>1. BumpMinIndex(Sub(K, Capacity))
    BY <1>2, <1>6, <1>13
  <2>2. lo = Sub(K, Capacity)
    BY <1>1, <2>1 DEF BumpMinIndex
  <2>3. W = read_index_min + Capacity + 1
    BY <1>5, <1>10, <1>13, Numbers DEF Ordered
  <2>4. lo > read_index_min /\ W - lo <= Capacity
    BY <1>3, <1>6, <1>7, <1>8, <2>2, <2>3, Numbers
  <2>5. hi = IF Sub(read_index_next, read_index_min) < Sub(lo, read_index_min)
               THEN lo ELSE read_index_next
    BY <1>1, <2>1, <2>2 DEF BumpMinIndex
  <2>6. /\ Sub(read_index_next, read_index_min) = read_index_next - read_index_min
        /\ Sub(lo, read_index_min) = lo - read_index_min
    BY <1>3, <2>4, Numbers, SubPlain DEF Ordered
  <2>7. hi = IF read_index_next < lo THEN lo ELSE read_index_next
    BY <1>3, <2>5, <2>6, Numbers
  <2>8. read_index_min <= lo
    BY <1>3, <2>4, Numbers
  <2> QED
    BY <1>1, <1>3, <1>10, <1>12, <2>4, <2>7, <2>8
<1>14. CASE ~ (Sub(W, read_index_min) > Capacity)
  <2>1. lo = read_index_min /\ hi = read_index_next
    BY <1>1, <1>2, <1>14
  <2>2. W - lo <= Capacity
    BY <1>3, <1>5, <1>14, <2>1, Numbers
  <2>3. read_index_min <= lo /\ hi = IF read_index_next < lo THEN lo ELSE read_index_next
    BY <2>1, Numbers DEF Ordered
  <2> QED
    BY <1>1, <1>3, <1>10, <1>12, <2>2, <2>3
<1> QED
  BY <1>13, <1>14

(* Enqueue, with or without overwriting, keeps the invariant.               *)
LEMMA EnqueueStep ==
  ASSUME IInv, OrderInv, Enqueue, IInv', Unwrapped'
  PROVE  OrderInv'
<1>1. /\ pc' = "idle" /\ result' \in {"QueueFull", "enqueued"}
      /\ UNCHANGED <<reader_slots, slot_index, channel, handles>>
  BY DEF Enqueue, OrderInv, readers
<1>2. Calls' /\ Search'
  BY <1>1 DEF Calls, Search
<1>3. CASE result' = "QueueFull"
  <2>1. UNCHANGED <<readers, write_index, channel, handles, pending>>
    BY <1>3 DEF Enqueue
  <2>2. Kept'
    BY <2>1, KeptUnchanged DEF OrderInv, Kept
  <2> QED
    BY <1>2, <2>2 DEF OrderInv, Kept
<1>4. CASE result' = "enqueued"
  <2>1. PICK m, n, w, P : m = read_index_min' /\ n = read_index_next' /\ w = write_index' /\ P = pending'
    OBVIOUS
  <2>2. /\ m \in Int /\ n \in Int /\ w \in Int
        /\ w = write_index + 1 /\ read_index_min <= m /\ m <= w /\ w - m <= Capacity
        /\ n = IF read_index_next < m THEN m ELSE read_index_next
        /\ P = (pending \cup {write_index}) \cap (m .. write_index)
    <3>1. m \in SeqNo /\ n \in SeqNo /\ w \in SeqNo
      BY <2>1 DEF IInv, TypeOK
    <3>2. m \in Int /\ n \in Int /\ w \in Int
      BY <3>1 DEF SeqNo
    <3> QED
      BY <1>4, <2>1, <3>2, EnqueueIndices DEF OrderInv
  <2>3. Ordered
    BY DEF OrderInv
  <2>4. Ordered'
    BY <2>1, <2>2, <2>3, Numbers DEF Ordered
  <2>5. SlotsPeeked'
    <3> SUFFICES ASSUME NEW i \in SlotIds, reader_slots[i] # None
                 PROVE  reader_slots[i].seq < n /\ w - reader_slots[i].seq <= MaxAge
      BY <1>1, <2>1 DEF SlotsPeeked
    <3>1. PICK s \in SeqNo : s = reader_slots[i].seq
      BY SlotItem
    <3>2. s \in Int /\ s < read_index_next
      BY <3>1 DEF OrderInv, SlotsPeeked, SeqNo
    <3>3. Sub(write_index, s) < MaxAge
      BY <3>1 DEF Enqueue, NoneTooOld
    <3>4. Sub(write_index, s) = write_index - s
      BY <2>3, <3>2, Numbers, SubPlain DEF Ordered
    <3> QED
      BY <2>2, <2>3, <3>1, <3>2, <3>3, <3>4, Numbers DEF Ordered
  <2>6. WindowKept'
    <3> SUFFICES ASSUME NEW s \in m .. n - 1
                 PROVE  /\ reader_slots[SlotOf(s)] \in {None, Busy(s), Abort(s)}
                        /\ s \in P => reader_slots[SlotOf(s)] # None
      BY <1>1, <2>1 DEF WindowKept
    <3>1. s \in read_index_min .. read_index_next - 1 /\ s # write_index
      BY <2>2, <2>3, Numbers DEF Ordered
    <3> QED
      BY <2>2, <3>1 DEF OrderInv, WindowKept
  <2>7. PendingKept'
    <3>1. P \subseteq m .. w - 1
      BY <2>2, Numbers
    <3>2. ASSUME NEW s \in n .. w - 1 PROVE s \in P
      <4>1. s \in m .. write_index /\ s >= read_index_next
        BY <2>2, <2>3, Numbers
      <4>2. s = write_index \/ s \in read_index_next .. write_index - 1
        BY <4>1, Numbers
      <4> QED
        BY <2>2, <4>1, <4>2 DEF OrderInv, PendingKept
    <3> QED
      BY <2>1, <3>1, <3>2 DEF PendingKept
  <2>8. AnswersTrue'
    <3>1. ASSUME NEW s \in SeqNo, Unanswered(s), m <= s PROVE s \in P
      <4>1. s \in Int
        BY DEF SeqNo
      <4>2. s \in pending
        BY <2>2, <3>1, <4>1, Numbers DEF Unanswered
      <4>3. s \in m .. write_index
        BY <2>2, <3>1, <4>1, <4>2, Numbers DEF OrderInv, PendingKept
      <4> QED
        BY <2>2, <4>2, <4>3
    <3>2. \A s \in handles : s \in SeqNo /\ Unanswered(s)
      BY DEF IInv, TypeOK, OrderInv, AnswersTrue
    <3>3. ASSUME NEW i \in SlotIds, reader_slots[i].st = "Abort"
          PROVE  reader_slots[i].seq \in SeqNo /\ Unanswered(reader_slots[i].seq)
      <4>1. reader_slots[i] # None
        BY <3>3 DEF None
      <4> QED
        BY <3>3, <4>1, SlotItem DEF OrderInv, AnswersTrue
    <3>4. ASSUME NEW k \in 1 .. Len(channel)
          PROVE  /\ channel[k].id \in SeqNo /\ channel[k].id # write_index
                 /\ channel[k].success => channel[k].id \notin pending
                 /\ ~ channel[k].success => Unanswered(channel[k].id)
      <4>1. channel[k].id \in SeqNo /\ Expected(channel[k])
        <5>1. channel[k] \in Answers
          BY ElementOfSeq DEF IInv, TypeOK
        <5> QED
          BY <5>1 DEF Answers, IInv, AnswersExpected
      <4>2. channel[k].id < read_index_next /\ channel[k].id \in Int
        BY <4>1, SlotPeeked DEF Expected, SeqNo
      <4>3. channel[k].id # write_index
        BY SMTT(30), <2>3, <4>2, Numbers DEF Ordered
      <4> QED
        BY <4>1, <4>3 DEF OrderInv, AnswersTrue
    <3> QED
      BY <1>1, <2>1, <2>2, <3>1, <3>2, <3>3, <3>4 DEF AnswersTrue, Unanswered
  <2> QED
    BY <1>2, <2>4, <2>5, <2>6, <2>7, <2>8 DEF OrderInv
<1> QED
  BY <1>1, <1>3, <1>4

-----------------------------------------------------------------------------
(* Answers.                                                                 *)

(* Taking an answer out of the channel frees the slot of an item that was   *)
(* confirmed, or marks that of an item that was not.                        *)
LEMMA KeptByUpdate ==
  ASSUME IInv, OrderInv, channel # <<>>, Update(Head(channel)),
         UNCHANGED <<read_index_min, read_index_next, write_index, handles, pending>>
  PROVE  Kept'
<1>0. channel \in Seq(Answers)
  BY DEF IInv, TypeOK
<1>1. /\ Head(channel) \in Answers /\ Head(channel) = channel[1] /\ Len(channel) \in Nat
      /\ 1 \in 1 .. Len(channel) /\ channel \in Seq(Answers)
  BY <1>0, HeadTailProperties, EmptySeq, ElementOfSeq
<1>2. PICK c \in Answers : c = Head(channel) /\ c = channel[1]
  BY <1>1
<1>3. c.id \in SeqNo /\ c.success \in BOOLEAN /\ SlotOf(c.id) \in SlotIds
  BY SlotOfSeq DEF Answers
<1>4. Expected(c) /\ reader_slots[SlotOf(c.id)] = Busy(c.id)
  BY <1>1, <1>2 DEF IInv, AnswersExpected, Expected
<1>5. /\ Len(channel') = Len(channel) - 1
      /\ \A k \in 1 .. Len(channel') : k + 1 \in 1 .. Len(channel) /\ channel'[k] = channel[k + 1]
  BY <1>1, HeadTailProperties DEF Update
<1>6. PICK x \in {None, Abort(c.id)} :
        /\ reader_slots' = [reader_slots EXCEPT ![SlotOf(c.id)] = x]
        /\ x = None => c.id \notin pending
        /\ x # None => Unanswered(c.id)
  <2>1. IF c.success THEN c.id \notin pending ELSE Unanswered(c.id)
    BY <1>1, <1>2 DEF OrderInv, AnswersTrue
  <2> QED
    BY <1>2, <1>3, <1>4, <2>1, SlotStatesDistinct DEF Update
<1>7. \A i \in SlotIds : reader_slots'[i] = IF i = SlotOf(c.id) THEN x ELSE reader_slots[i]
  BY <1>3, <1>6, Numbers
<1>8. Ordered' /\ PendingKept'
  BY DEF OrderInv, Ordered, PendingKept
<1>9. SlotsPeeked'
  <2>1. /\ c.id < read_index_next
        /\ read_index_min <= c.id \/ write_index - c.id <= MaxAge
    BY <1>3, <1>4, SlotPeeked
  <2> QED
    BY <1>3, <1>6, <1>7, <2>1, SlotStatesDistinct DEF OrderInv, SlotsPeeked
<1>10. WindowKept'
  <2> SUFFICES ASSUME NEW s \in read_index_min .. read_index_next - 1
               PROVE  /\ reader_slots'[SlotOf(s)] \in {None, Busy(s), Abort(s)}
                      /\ s \in pending => reader_slots'[SlotOf(s)] # None
    BY DEF WindowKept
  <2>1. s \in SeqNo
    BY SMTT(30), Numbers DEF SeqNo
  <2>2. /\ reader_slots[SlotOf(s)] \in {None, Busy(s), Abort(s)}
        /\ s \in pending => reader_slots[SlotOf(s)] # None
    BY DEF OrderInv, WindowKept
  <2>3. SlotOf(s) = SlotOf(c.id) => s = c.id
    BY <1>3, <1>4, <2>1, <2>2, SlotStatesDistinct
  <2> QED
    BY <1>6, <1>7, <2>1, <2>2, <2>3, SlotOfSeq
<1>11. AnswersTrue'
  <2>1. \A s : Unanswered(s) => Unanswered(s)'
    BY DEF Unanswered
  <2>2. ASSUME NEW i \in SlotIds, reader_slots'[i].st = "Abort"
        PROVE  Unanswered(reader_slots'[i].seq)
    <3>1. CASE i = SlotOf(c.id)
      BY <1>3, <1>6, <1>7, <2>2, <3>1, SlotStatesDistinct
    <3>2. CASE i # SlotOf(c.id)
      BY <1>7, <2>2, <3>2 DEF OrderInv, AnswersTrue
    <3> QED
      BY <3>1, <3>2
  <2>3. ASSUME NEW k \in 1 .. Len(channel')
        PROVE  IF channel'[k].success THEN channel'[k].id \notin pending ELSE Unanswered(channel'[k].id)
    BY <1>5 DEF OrderInv, AnswersTrue
  <2> QED
    BY <2>2, <2>3 DEF OrderInv, AnswersTrue, Unanswered
<1> QED
  BY <1>8, <1>9, <1>10, <1>11 DEF Kept

(* update_reader_slots and wait_confirmation keep the invariant.            *)
LEMMA UpdateSteps ==
  ASSUME IInv, OrderInv, UpdateReaderSlots \/ WaitConfirmation
  PROVE  OrderInv'
<1>1. Kept'
  BY KeptByUpdate DEF UpdateReaderSlots, WaitConfirmation
<1>2. Calls' /\ Search'
  BY DEF OrderInv, Calls, Search, UpdateReaderSlots, WaitConfirmation
<1> QED
  BY <1>1, <1>2 DEF OrderInv, Kept

(* is_drained looks at the slots of all items that are not confirmed.       *)
LEMMA DrainedStep ==
  ASSUME IInv, OrderInv, IsDrainedReturn
  PROVE  OrderInv'
<1>1. UNCHANGED <<readers, write_index, channel, handles, pending>>
  BY DEF IsDrainedReturn
<1>2. Kept'
  BY <1>1, KeptUnchanged DEF OrderInv, Kept
<1>3. ASSUME Drained, NEW s \in pending PROVE FALSE
  <2>1. read_index_next = write_index
    BY <1>3 DEF Drained
  <2>2. s \in read_index_min .. read_index_next - 1 /\ s \in SeqNo
    BY <2>1, Numbers DEF OrderInv, PendingKept, SeqNo
  <2>3. SlotOf(s) \in SlotIds /\ reader_slots[SlotOf(s)] \in {Busy(s), Abort(s)}
    BY <2>2, SlotOfSeq DEF OrderInv, WindowKept
  <2>4. IsInBounds(s)
    BY <2>2, <2>3, InBounds, SlotPeeked, Numbers DEF OrderInv
  <2> QED
    BY <1>3, <2>2, <2>3, <2>4, SlotStatesDistinct DEF Drained
<1>4. Calls' /\ Search'
  BY <1>1, <1>3 DEF IsDrainedReturn, Calls, Search
<1> QED
  BY <1>2, <1>4 DEF OrderInv, Kept

(* A confirmation takes effect when it is sent.                             *)
LEMMA AnswerSteps ==
  ASSUME IInv, OrderInv, NEW s \in handles, Confirm(s) \/ Drop(s)
  PROVE  OrderInv'
<1>1. /\ UNCHANGED <<readers, write_index, pc, iter, result>>
      /\ handles' = handles \ {s}
      /\ pending' \subseteq pending /\ pending \ {s} \subseteq pending'
  BY DEF Confirm, Drop
<1>2. /\ read_index_min' = read_index_min /\ read_index_next' = read_index_next
      /\ reader_slots' = reader_slots /\ slot_index' = slot_index
  BY <1>1 DEF readers
<1>3. s \in SeqNo /\ reader_slots[SlotOf(s)] = Busy(s) /\ SlotOf(s) \in SlotIds
  BY SlotOfSeq DEF IInv, TypeOK, HandlesBusy
<1>4. s < read_index_next
  BY <1>3, SlotPeeked
<1>5. Ordered' /\ SlotsPeeked'
  BY <1>1, <1>2 DEF OrderInv, Ordered, SlotsPeeked
<1>6. WindowKept'
  BY <1>1, <1>2 DEF OrderInv, WindowKept
<1>7. PendingKept'
  <2>1. s \notin read_index_next .. write_index - 1
    BY <1>3, <1>4, Numbers DEF SeqNo
  <2> QED
    BY <1>1, <1>2, <2>1 DEF OrderInv, PendingKept
<1>8. Calls' /\ Search'
  BY <1>1, <1>2 DEF OrderInv, Calls, Search, Searching, AtFree
<1>9. AnswersTrue'
  <2>1. PICK b \in BOOLEAN : /\ Send([id |-> s, success |-> b])
                             /\ IF b THEN s \notin pending' ELSE pending' = pending
    BY DEF Confirm, Drop
  <2>2. PICK c \in Answers : c = [id |-> s, success |-> b]
    BY <1>3 DEF Answers
  <2>3. c.id = s /\ c.success = b
    BY <2>2
  <2>4. channel \in Seq(Answers) /\ Len(channel) \in Nat
    BY LenProperties DEF IInv, TypeOK
  <2>5. \A t \in handles' : Unanswered(t)'
    BY <1>1, <1>2 DEF OrderInv, AnswersTrue, Unanswered
  <2>6. ASSUME NEW i \in SlotIds, reader_slots[i].st = "Abort"
        PROVE  Unanswered(reader_slots[i].seq)'
    <3>1. reader_slots[i] # None
      BY <2>6 DEF None
    <3>2. reader_slots[i].seq # s
      BY <1>3, <2>6, <3>1, SlotItem, SlotStatesDistinct
    <3>3. Unanswered(reader_slots[i].seq)
      BY <2>6 DEF OrderInv, AnswersTrue
    <3> QED
      BY <1>1, <1>2, <3>2, <3>3 DEF Unanswered
  <2>7. ASSUME NEW k \in 1 .. Len(channel)
        PROVE  IF channel[k].success THEN channel[k].id \notin pending'
               ELSE read_index_min' <= channel[k].id => channel[k].id \in pending'
    <3>1. channel[k].id # s
      BY DEF IInv, AnswersDistinct
    <3>2. IF channel[k].success THEN channel[k].id \notin pending ELSE Unanswered(channel[k].id)
      BY DEF OrderInv, AnswersTrue
    <3> QED
      BY <1>1, <1>2, <3>1, <3>2 DEF Unanswered
  <2>8. IF c.success THEN c.id \notin pending' ELSE Unanswered(c.id)'
    BY <1>2, <2>1, <2>3 DEF OrderInv, AnswersTrue, Unanswered
  <2>9. ASSUME NEW k \in 1 .. Len(channel')
        PROVE  channel'[k] = c \/ (k \in 1 .. Len(channel) /\ channel'[k] = channel[k])
    <3>1. CASE channel' = channel
      BY <3>1
    <3>2. CASE channel' = Append(channel, c)
      <4>1. /\ Len(channel') = Len(channel) + 1
            /\ \A j \in 1 .. Len(channel) : channel'[j] = channel[j]
            /\ channel'[Len(channel) + 1] = c
        BY <2>4, <3>2, AppendProperties
      <4> QED
        BY <2>4, <4>1
    <3> QED
      BY <2>1, <2>2, <3>1, <3>2 DEF Send
  <2>10. \A k \in 1 .. Len(channel') :
           IF channel'[k].success THEN channel'[k].id \notin pending'
           ELSE read_index_min' <= channel'[k].id => channel'[k].id \in pending'
    BY <2>7, <2>8, <2>9 DEF Unanswered
  <2> QED
    BY <1>2, <2>5, <2>6, <2>10 DEF AnswersTrue, Unanswered
<1> QED
  BY <1>5, <1>6, <1>7, <1>8, <1>9 DEF OrderInv

-----------------------------------------------------------------------------
(* One iteration of find_reader.                                            *)

(* An empty slot: the oldest item is passed over only if this is its slot,  *)
(* so that it was confirmed.                                                *)
LEMMA NonePasses ==
  ASSUME IInv, OrderInv, FindNone
  PROVE  /\ \/ /\ read_index_min' = read_index_min
               /\ slot_index # SlotOf(read_index_min) \/ read_index_min = read_index_next
            \/ /\ read_index_min' = read_index_min + 1
               /\ slot_index = SlotOf(read_index_min)
               /\ read_index_min < read_index_next
               /\ read_index_min \notin pending
         /\ read_index_min' \in Int
<1>1. Ordered
  BY DEF OrderInv
<1>2. (read_index_min - (read_index_min % MAX_PEEKS) + slot_index) % SeqMod = read_index_min
        <=> slot_index = SlotOf(read_index_min)
  BY Numbers, SlotOfOldest
<1>3. read_index_min' = IF slot_index = SlotOf(read_index_min) /\ read_index_min # read_index_next
                          THEN Add(read_index_min, 1) ELSE read_index_min
  BY <1>2 DEF FindNone
<1>4. CASE slot_index = SlotOf(read_index_min) /\ read_index_min # read_index_next
  <2>1. read_index_min < read_index_next
    BY <1>1, <1>4, Numbers DEF Ordered
  <2>2. Add(read_index_min, 1) = read_index_min + 1
    BY <2>1, Numbers, AddPlain
  <2>3. read_index_min \in read_index_min .. read_index_next - 1
    BY <2>1, Numbers
  <2>4. read_index_min \notin pending
    BY <1>4, <2>3 DEF FindNone, OrderInv, WindowKept
  <2> QED
    BY <1>3, <1>4, <2>1, <2>2, <2>4, Numbers
<1>5. CASE ~ (slot_index = SlotOf(read_index_min) /\ read_index_min # read_index_next)
  BY <1>3, <1>5, Numbers
<1> QED
  BY <1>4, <1>5

(* Passing over a confirmed item keeps what has to be kept.                 *)
LEMMA KeptByPassing ==
  ASSUME IInv, OrderInv, FindNone,
         UNCHANGED <<reader_slots, read_index_next, write_index, channel, handles, pending>>
  PROVE  Kept'
<1>1. PICK m \in Int : m = read_index_min'
  BY NonePasses
<1>2. /\ read_index_min <= m /\ m <= read_index_min + 1 /\ m <= read_index_next
      /\ m # read_index_min => read_index_min \notin pending
  BY <1>1, NonePasses, Numbers DEF OrderInv, Ordered
<1>3. Ordered'
  BY <1>1, <1>2, Numbers DEF OrderInv, Ordered
<1>4. SlotsPeeked'
  <2> SUFFICES ASSUME NEW i \in SlotIds, reader_slots[i] # None
               PROVE  /\ reader_slots[i].seq < read_index_next
                      /\ m <= reader_slots[i].seq \/ write_index - reader_slots[i].seq <= MaxAge
    BY <1>1 DEF SlotsPeeked
  <2>1. PICK s \in SeqNo : /\ s = reader_slots[i].seq /\ SlotOf(s) = i
                           /\ reader_slots[i] # None
    BY SlotItem
  <2>2. /\ s \in Int /\ s < read_index_next
        /\ read_index_min <= s \/ write_index - s <= MaxAge
    BY <2>1 DEF OrderInv, SlotsPeeked, SeqNo
  <2>3. CASE m > s /\ read_index_min <= s
    <3>1. s = read_index_min /\ slot_index = SlotOf(read_index_min)
      BY <1>1, <1>2, <2>2, <2>3, NonePasses, Numbers
    <3> QED
      BY <2>1, <3>1 DEF FindNone
  <2> QED
    BY <1>2, <2>1, <2>2, <2>3, Numbers
<1>5. WindowKept'
  <2>1. m .. read_index_next - 1 \subseteq read_index_min .. read_index_next - 1
    BY <1>2, Numbers
  <2> QED
    BY <1>1, <2>1 DEF OrderInv, WindowKept
<1>6. PendingKept'
  <2>1. \A s \in read_index_min .. write_index - 1 : s # read_index_min => s \in m .. write_index - 1
    BY <1>2, Numbers
  <2>2. \A s \in read_index_min .. write_index - 1 : m = read_index_min => s \in m .. write_index - 1
    BY <1>2, Numbers
  <2> QED
    BY <1>1, <1>2, <2>1, <2>2 DEF OrderInv, PendingKept
<1>7. AnswersTrue'
  <2>1. ASSUME NEW s \in SeqNo, Unanswered(s), m <= s PROVE s \in pending
    BY <1>2, <2>1, Numbers DEF Unanswered, SeqNo
  <2>2. \A s \in handles : s \in SeqNo
    BY DEF IInv, TypeOK
  <2>3. ASSUME NEW i \in SlotIds, reader_slots[i].st = "Abort" PROVE reader_slots[i].seq \in SeqNo
    <3>1. reader_slots[i] # None
      BY <2>3 DEF None
    <3> QED
      BY <3>1, SlotItem
  <2>4. \A k \in 1 .. Len(channel) : channel[k].id \in SeqNo
    BY AnswerIds
  <2> QED
    BY <1>1, <2>1, <2>2, <2>3, <2>4 DEF OrderInv, AnswersTrue, Unanswered
<1> QED
  BY <1>3, <1>4, <1>5, <1>6, <1>7 DEF Kept

(* Handing out the next item: its slot is free, and if the window is full   *)
(* that slot is also the oldest item's, which is passed over.               *)
LEMMA KeptByPeeking ==
  ASSUME IInv, OrderInv, FindNone, read_index_next # write_index,
         slot_index = SlotOf(read_index_next), HandOut(read_index_next),
         read_index_next' = Add(read_index_next, 1),
         UNCHANGED <<write_index, channel, pending>>
  PROVE  Kept' /\ read_index_next \in pending
<1>1. PICK m \in Int : m = read_index_min'
  BY NonePasses
<1>2. /\ read_index_min <= m /\ m <= read_index_min + 1 /\ m <= read_index_next
      /\ m # read_index_min => read_index_min \notin pending
  BY <1>1, NonePasses, Numbers DEF OrderInv, Ordered
<1>3. PICK o \in SeqNo : o = read_index_next
  BY Numbers
<1>4. /\ o \in Int /\ o < write_index /\ read_index_next' = o + 1
      /\ read_index_min <= o /\ o - read_index_min <= MAX_PEEKS
      /\ write_index - read_index_min <= Capacity
  <2>1. /\ o \in Int /\ o < write_index
        /\ read_index_min <= o /\ o - read_index_min <= MAX_PEEKS
        /\ write_index - read_index_min <= Capacity
    BY <1>3, Numbers DEF OrderInv, Ordered
  <2>2. Add(o, 1) = o + 1
    BY <2>1, Numbers, AddPlain
  <2> QED
    BY <1>3, <2>1, <2>2
<1>5. o + 1 - m <= MAX_PEEKS
  <2>1. CASE o - read_index_min = MAX_PEEKS
    <3>1. o = read_index_min + MAX_PEEKS
      BY <1>4, <2>1, Numbers
    <3>2. SlotOf(o) = SlotOf(read_index_min)
      BY <3>1, Numbers, SlotTurn
    <3>3. m = read_index_min + 1
      BY <1>1, <1>3, <3>1, <3>2, NonePasses, Numbers
    <3> QED
      BY <3>1, <3>3, Numbers
  <2>2. CASE o - read_index_min < MAX_PEEKS
    BY <1>2, <1>4, <2>2, Numbers
  <2> QED
    BY <1>4, <2>1, <2>2, Numbers
<1>6. /\ \A i \in SlotIds : reader_slots'[i] = IF i = slot_index THEN Busy(o) ELSE reader_slots[i]
      /\ handles' = handles \cup {o} /\ slot_index = SlotOf(o)
  BY <1>3, Numbers DEF HandOut
<1>7. o \in pending
  <2>1. o \in read_index_next .. write_index - 1
    BY <1>3, <1>4, Numbers
  <2> QED
    BY <2>1 DEF OrderInv, PendingKept
<1>8. Ordered'
  BY <1>1, <1>2, <1>3, <1>4, <1>5, Numbers DEF Ordered
<1>9. SlotsPeeked'
  <2> SUFFICES ASSUME NEW i \in SlotIds, reader_slots'[i] # None
               PROVE  /\ reader_slots'[i].seq < o + 1
                      /\ m <= reader_slots'[i].seq \/ write_index - reader_slots'[i].seq <= MaxAge
    BY <1>1, <1>4 DEF SlotsPeeked
  <2>1. CASE i = slot_index
    <3>1. reader_slots'[i].seq = o
      BY <1>6, <2>1, SlotStatesDistinct
    <3> QED
      BY <1>2, <1>3, <1>4, <3>1, Numbers
  <2>2. CASE i # slot_index
    <3>1. reader_slots'[i] = reader_slots[i]
      BY <1>6, <2>2
    <3>2. PICK s \in SeqNo : s = reader_slots[i].seq /\ SlotOf(s) = i
      BY <3>1, SlotItem
    <3>3. /\ s \in Int /\ s < read_index_next
          /\ read_index_min <= s \/ write_index - s <= MaxAge
      BY <3>1, <3>2 DEF OrderInv, SlotsPeeked, SeqNo
    <3>4. m <= s \/ s < read_index_min \/ (s = read_index_min /\ slot_index = SlotOf(s))
      BY <1>1, <1>2, <3>3, NonePasses, Numbers
    <3> QED
      BY <1>3, <1>4, <2>2, <3>1, <3>2, <3>3, <3>4, Numbers
  <2> QED
    BY <2>1, <2>2
<1>10. WindowKept'
  <2> SUFFICES ASSUME NEW s \in m .. o
               PROVE  /\ reader_slots'[SlotOf(s)] \in {None, Busy(s), Abort(s)}
                      /\ s \in pending => reader_slots'[SlotOf(s)] # None
    BY <1>1, <1>4 DEF WindowKept
  <2>1. s \in SeqNo /\ s \in Int
    BY <1>2, <1>3, Numbers DEF SeqNo
  <2>2. CASE s = o
    BY <1>6, <2>1, <2>2, SlotOfSeq, SlotStatesDistinct
  <2>3. CASE s # o
    <3>1. SlotOf(s) # SlotOf(o)
      <4>1. o - s < MAX_PEEKS /\ s - o < MAX_PEEKS
        BY <1>4, <1>5, <2>1, Numbers
      <4> QED
        BY <1>4, <2>1, <2>3, <4>1, SlotSame
    <3>2. s \in read_index_min .. read_index_next - 1
      BY <1>2, <1>3, <1>4, <2>1, <2>3, Numbers
    <3> QED
      BY <1>6, <2>1, <3>1, <3>2, SlotOfSeq DEF OrderInv, WindowKept
  <2> QED
    BY <2>2, <2>3
<1>11. PendingKept'
  <2>1. \A s \in read_index_min .. write_index - 1 : s # read_index_min => s \in m .. write_index - 1
    BY <1>2, Numbers
  <2>2. \A s \in read_index_min .. write_index - 1 : m = read_index_min => s \in m .. write_index - 1
    BY <1>2, Numbers
  <2>3. o + 1 .. write_index - 1 \subseteq read_index_next .. write_index - 1
    BY <1>3, <1>4, Numbers
  <2> QED
    BY <1>1, <1>2, <1>4, <2>1, <2>2, <2>3 DEF OrderInv, PendingKept
<1>12. AnswersTrue'
  <2>1. ASSUME NEW s \in SeqNo, Unanswered(s), m <= s PROVE s \in pending
    BY <1>2, <2>1, Numbers DEF Unanswered, SeqNo
  <2>2. \A s \in handles : s \in SeqNo
    BY DEF IInv, TypeOK
  <2>3. ASSUME NEW i \in SlotIds, reader_slots'[i].st = "Abort"
        PROVE  /\ reader_slots'[i] = reader_slots[i]
               /\ reader_slots[i].seq \in SeqNo
    <3>1. i # slot_index
      BY <1>6, <2>3, SlotStatesDistinct
    <3>2. reader_slots'[i] = reader_slots[i] /\ reader_slots[i] # None
      BY <1>6, <2>3, <3>1 DEF None
    <3> QED
      BY <3>2, SlotItem
  <2>4. \A k \in 1 .. Len(channel) : channel[k].id \in SeqNo
    BY AnswerIds
  <2>5. \A s \in handles' : m <= s => s \in pending
    BY <1>6, <1>7, <2>1, <2>2 DEF OrderInv, AnswersTrue
  <2>6. \A i \in SlotIds : reader_slots'[i].st = "Abort" =>
          (m <= reader_slots'[i].seq => reader_slots'[i].seq \in pending)
    BY <2>1, <2>3 DEF OrderInv, AnswersTrue
  <2>7. \A k \in 1 .. Len(channel) :
          IF channel[k].success THEN channel[k].id \notin pending
          ELSE m <= channel[k].id => channel[k].id \in pending
    BY <2>1, <2>4 DEF OrderInv, AnswersTrue
  <2> QED
    BY <1>1, <2>5, <2>6, <2>7 DEF AnswersTrue, Unanswered
<1> QED
  BY <1>3, <1>7, <1>8, <1>9, <1>10, <1>11, <1>12 DEF Kept

(* A retry: the item in the slot was dropped and is still there.            *)
LEMMA KeptByRetry ==
  ASSUME IInv, OrderInv, NEW s \in SeqNo, SlotOf(s) = slot_index,
         reader_slots[slot_index] = Abort(s), HandOut(s), read_index_min <= s,
         UNCHANGED <<read_index_min, read_index_next, write_index, channel, pending>>
  PROVE  Kept' /\ s \in pending
<1>1. /\ \A i \in SlotIds : reader_slots'[i] = IF i = slot_index THEN Busy(s) ELSE reader_slots[i]
      /\ handles' = handles \cup {s} /\ slot_index \in SlotIds
  BY Numbers DEF HandOut
<1>2. Unanswered(s) /\ s \in pending
  <2>1. reader_slots[slot_index].st = "Abort" /\ reader_slots[slot_index].seq = s
    BY SlotStatesDistinct
  <2> QED
    BY <1>1, <2>1 DEF OrderInv, AnswersTrue, Unanswered
<1>3. /\ s < read_index_next
      /\ read_index_min <= s \/ write_index - s <= MaxAge
  BY SlotPeeked
<1>4. Ordered' /\ PendingKept'
  BY DEF OrderInv, Ordered, PendingKept
<1>5. SlotsPeeked'
  BY <1>1, <1>3, SlotStatesDistinct DEF OrderInv, SlotsPeeked
<1>6. WindowKept'
  <2> SUFFICES ASSUME NEW t \in read_index_min .. read_index_next - 1
               PROVE  /\ reader_slots'[SlotOf(t)] \in {None, Busy(t), Abort(t)}
                      /\ t \in pending => reader_slots'[SlotOf(t)] # None
    BY DEF WindowKept
  <2>1. t \in SeqNo
    BY Numbers DEF SeqNo
  <2>2. /\ reader_slots[SlotOf(t)] \in {None, Busy(t), Abort(t)}
        /\ t \in pending => reader_slots[SlotOf(t)] # None
    BY DEF OrderInv, WindowKept
  <2>3. SlotOf(t) = slot_index => t = s
    BY <2>1, <2>2, SlotStatesDistinct
  <2> QED
    BY <1>1, <2>1, <2>2, <2>3, SlotOfSeq, SlotStatesDistinct
<1>7. AnswersTrue'
  <2>1. \A i \in SlotIds : reader_slots'[i].st = "Abort" => reader_slots'[i] = reader_slots[i]
    BY <1>1, SlotStatesDistinct
  <2> QED
    BY <1>1, <1>2, <2>1 DEF OrderInv, AnswersTrue, Unanswered
<1> QED
  BY <1>2, <1>4, <1>5, <1>6, <1>7 DEF Kept

(* An overwritten item is forgotten: its slot is that of no item in the     *)
(* window.                                                                  *)
LEMMA KeptByForgetting ==
  ASSUME IInv, OrderInv, NEW s \in SeqNo, SlotOf(s) = slot_index,
         reader_slots[slot_index] = Abort(s), s < read_index_min,
         reader_slots' = [reader_slots EXCEPT ![slot_index] = None],
         UNCHANGED <<read_index_min, read_index_next, write_index, channel, handles, pending>>
  PROVE  /\ Kept'
         /\ \A t \in read_index_min .. read_index_next - 1 : SlotOf(t) # slot_index
<1>1. /\ \A i \in SlotIds : reader_slots'[i] = IF i = slot_index THEN None ELSE reader_slots[i]
      /\ slot_index \in SlotIds
  BY Numbers
<1>2. Ordered' /\ PendingKept'
  BY DEF OrderInv, Ordered, PendingKept
<1>3. SlotsPeeked'
  BY <1>1 DEF OrderInv, SlotsPeeked
<1>4. ASSUME NEW t \in read_index_min .. read_index_next - 1
      PROVE  t \in SeqNo /\ SlotOf(t) # slot_index
  <2>1. t \in SeqNo /\ t # s
    BY Numbers DEF SeqNo
  <2>2. reader_slots[SlotOf(t)] \in {None, Busy(t), Abort(t)}
    BY DEF OrderInv, WindowKept
  <2> QED
    BY <2>1, <2>2, SlotStatesDistinct
<1>5. WindowKept'
  BY <1>1, <1>4, SlotOfSeq DEF OrderInv, WindowKept
<1>6. AnswersTrue'
  <2>1. \A i \in SlotIds : reader_slots'[i].st = "Abort" => reader_slots'[i] = reader_slots[i]
    BY <1>1 DEF None
  <2> QED
    BY <2>1 DEF OrderInv, AnswersTrue, Unanswered
<1> QED
  BY <1>2, <1>3, <1>4, <1>5, <1>6 DEF Kept

(* The search goes on past an empty slot.                                   *)
LEMMA SearchPast ==
  ASSUME IInv, OrderInv, pc = "find", FindNone,
         UNCHANGED <<reader_slots, read_index_next, write_index>>,
         IF read_index_next = write_index THEN read_index_min' # write_index
         ELSE slot_index # SlotOf(read_index_next)
  PROVE  /\ iter + 1 < 2 * MAX_PEEKS
         /\ iter' = iter + 1 => (\E p \in Nat : Searching(p))'
<1>1. PICK p \in Nat : Searching(p)
  BY DEF OrderInv, Search
<1>2. PICK q \in Nat : q = p + 1
  OBVIOUS
<1>3. AtFree = 1 /\ AtFree' \in {0, 1}
  BY DEF AtFree, FindNone
<1>4. SlotOf(q) = slot_index'
  <2>1. SlotOf(p) = slot_index /\ IncSlotIndex
    BY <1>1 DEF Searching, FindNone
  <2> QED
    BY <1>2, <2>1, SlotSucc DEF IncSlotIndex
<1>5. CASE read_index_next # write_index
  <2>1. /\ p \in read_index_next + 1 .. read_index_next + MAX_PEEKS
        /\ iter <= 2 * (p - read_index_next - 1) + 1
    BY <1>1, <1>3, <1>5 DEF Searching
  <2>2. p # read_index_next + MAX_PEEKS
    BY <1>1, <1>5, Numbers, SlotTurn DEF Searching
  <2>3. /\ q \in read_index_next + 1 .. read_index_next + MAX_PEEKS
        /\ iter + 1 <= 2 * (q - read_index_next - 1)
        /\ q - read_index_next - 1 <= MAX_PEEKS - 1
    BY <1>2, <2>1, <2>2, Numbers
  <2>4. iter + 1 < 2 * MAX_PEEKS
    BY <1>2, <2>3, Numbers
  <2>5. iter + 1 <= 2 * (q - read_index_next - 1) + AtFree'
    BY <1>2, <1>3, <2>3, Numbers
  <2>6. iter' = iter + 1 => Searching(q)'
    BY <1>4, <1>5, <2>3, <2>5 DEF Searching
  <2> QED
    BY <2>4, <2>6
<1>6. CASE read_index_next = write_index
  <2>1. PICK m \in Int : m = read_index_min'
    BY NonePasses
  <2>2. PICK dist \in Int, window \in Int, outside \in Int :
          /\ dist = read_index_min + MAX_PEEKS - p
          /\ window = read_index_next - read_index_min
          /\ outside = MAX_PEEKS - window
    BY <1>1, Numbers
  <2>3. /\ p \in read_index_min + 1 .. read_index_min + MAX_PEEKS
        /\ \/ /\ dist > outside
              /\ iter + dist + window + outside <= 2 * MAX_PEEKS - 1
           \/ /\ dist <= outside
              /\ iter + dist + window + dist - (IF dist = 0 THEN 0 ELSE 1) <= 2 * MAX_PEEKS - 1
    BY <1>1, <1>3, <1>6, <2>2 DEF Searching
  <2>4. 0 <= outside /\ 0 <= window /\ dist >= 0 /\ dist < MAX_PEEKS
    BY <2>2, <2>3, Numbers DEF OrderInv, Ordered
  <2>5. CASE m # read_index_min
    <3>1. m = read_index_min + 1 /\ SlotOf(p) = SlotOf(read_index_min)
      BY <1>1, <2>1, <2>5, NonePasses, Numbers DEF Searching
    <3>2. p = read_index_min + MAX_PEEKS
      <4>1. SlotOf(read_index_min + MAX_PEEKS) = SlotOf(read_index_min)
        BY Numbers, SlotTurn
      <4>2. PICK t \in Int : t = read_index_min + MAX_PEEKS
        BY Numbers
      <4>3. t - p < MAX_PEEKS /\ p - t < MAX_PEEKS
        BY <2>3, <4>2, Numbers
      <4> QED
        BY <3>1, <4>1, <4>2, <4>3, SlotSame
    <3>3. dist = 0 /\ iter + window <= 2 * MAX_PEEKS - 1
      BY <2>2, <2>3, <2>4, <3>2, Numbers
    <3>4. m # read_index_next /\ window >= 1 /\ window - 1 >= 1
      BY <1>6, <2>1, <2>2, <2>4, <3>1, NonePasses, Numbers
    <3>5. /\ q \in m + 1 .. m + MAX_PEEKS
          /\ m + MAX_PEEKS - q = 0
          /\ read_index_next - m = window - 1
          /\ iter + 1 + 0 + (window - 1) + 0 - 0 <= 2 * MAX_PEEKS - 1
          /\ 0 <= MAX_PEEKS - (window - 1)
      BY <1>2, <2>2, <2>4, <3>1, <3>2, <3>3, Numbers
    <3>6. iter' = iter + 1 => Searching(q)'
      BY <1>4, <1>6, <2>1, <3>5 DEF Searching
    <3> QED
      BY <3>3, <3>4, <3>6, Numbers
  <2>6. CASE m = read_index_min
    <3>1. window >= 1 /\ slot_index # SlotOf(read_index_min)
      BY <1>6, <2>1, <2>2, <2>4, <2>6, NonePasses, Numbers
    <3>2. p # read_index_min + MAX_PEEKS
      BY <1>1, <3>1, Numbers, SlotTurn DEF Searching
    <3>3. PICK d \in Int : d = dist - 1
      OBVIOUS
    <3>4. /\ q \in read_index_min + 1 .. read_index_min + MAX_PEEKS
          /\ d = read_index_min + MAX_PEEKS - q
          /\ d >= 0
      BY <1>2, <2>2, <2>3, <3>2, <3>3, Numbers
    <3>5. PICK f \in Int : f = IF d = 0 THEN 0 ELSE AtFree'
      BY <1>3
    <3>6. 0 <= f /\ f <= 1
      BY <1>3, <3>5
    <3>7. \/ /\ d > outside
             /\ iter + 1 + d + window + outside <= 2 * MAX_PEEKS - 1
          \/ /\ d <= outside
             /\ iter + 1 + d + window + d - f <= 2 * MAX_PEEKS - 1
      BY <2>3, <2>4, <3>3, <3>4, <3>6, Numbers
    <3>8. iter' = iter + 1 => Searching(q)'
      BY <1>4, <1>6, <2>1, <2>2, <2>6, <3>4, <3>5, <3>7 DEF Searching
    <3>9. iter + 1 < 2 * MAX_PEEKS
      BY <2>4, <3>1, <3>4, <3>6, <3>7, Numbers
    <3> QED
      BY <3>8, <3>9
  <2> QED
    BY <2>5, <2>6
<1> QED
  BY <1>5, <1>6

(* The search stays where it is when it forgets an overwritten item.        *)
LEMMA SearchForgets ==
  ASSUME IInv, OrderInv, pc = "find", reader_slots[slot_index] # None,
         reader_slots'[slot_index] = None,
         UNCHANGED <<read_index_min, read_index_next, write_index, slot_index>>,
         \A t \in read_index_min .. read_index_next - 1 : SlotOf(t) # slot_index
  PROVE  /\ iter + 1 < 2 * MAX_PEEKS
         /\ iter' = iter + 1 => (\E p \in Nat : Searching(p))'
<1>1. PICK p \in Nat : Searching(p)
  BY DEF OrderInv, Search
<1>2. AtFree = 0 /\ AtFree' = 1
  BY DEF AtFree
<1>3. CASE read_index_next # write_index
  <2>1. /\ p \in read_index_next + 1 .. read_index_next + MAX_PEEKS
        /\ iter <= 2 * (p - read_index_next - 1) + 0
    BY <1>1, <1>2, <1>3 DEF Searching
  <2>2. iter + 1 < 2 * MAX_PEEKS /\ iter + 1 <= 2 * (p - read_index_next - 1) + 1
    BY <2>1, Numbers
  <2>3. iter' = iter + 1 => Searching(p)'
    BY <1>1, <1>2, <1>3, <2>1, <2>2 DEF Searching
  <2> QED
    BY <2>2, <2>3
<1>4. CASE read_index_next = write_index
  <2>1. PICK dist \in Int, window \in Int, outside \in Int :
          /\ dist = read_index_min + MAX_PEEKS - p
          /\ window = read_index_next - read_index_min
          /\ outside = MAX_PEEKS - window
    BY <1>1, Numbers
  <2>2. /\ p \in read_index_min + 1 .. read_index_min + MAX_PEEKS
        /\ \/ dist > outside
           \/ /\ dist <= outside
              /\ iter + dist + window + dist - (IF dist = 0 THEN 0 ELSE 0) <= 2 * MAX_PEEKS - 1
    BY <1>1, <1>2, <1>4, <2>1 DEF Searching
  <2>3. window >= 1
    <3>1. read_index_min # write_index /\ read_index_min <= read_index_next
      BY DEF OrderInv, Calls, Ordered
    <3> QED
      BY <1>4, <2>1, <3>1, Numbers
  <2>4. SlotOf(p) = slot_index
    BY <1>1 DEF Searching
  <2>5. p \notin read_index_min .. read_index_next - 1
    BY <2>4
  <2>6. dist <= outside
    BY <2>1, <2>2, <2>5, Numbers
  <2>7. dist # 0
    <3>1. read_index_min \in read_index_min .. read_index_next - 1
      BY <2>1, <2>3, Numbers
    <3>2. SlotOf(read_index_min) # slot_index
      BY <3>1
    <3>3. p # read_index_min + MAX_PEEKS
      BY <2>4, <3>2, Numbers, SlotTurn
    <3> QED
      BY <2>1, <3>3, Numbers
  <2>8. iter + 1 + dist + window + dist - 1 <= 2 * MAX_PEEKS - 1
    BY <2>1, <2>2, <2>6, Numbers
  <2>9. iter' = iter + 1 => Searching(p)'
    BY <1>1, <1>2, <1>4, <2>1, <2>2, <2>4, <2>6, <2>7, <2>8 DEF Searching
  <2>10. dist >= 1
    BY <2>1, <2>2, <2>7, Numbers
  <2>11. iter + 1 < 2 * MAX_PEEKS
    BY <2>3, <2>8, <2>10, Numbers
  <2> QED
    BY <2>9, <2>11
<1> QED
  BY <1>3, <1>4

(* Every iteration keeps the invariant, and one that hands out an item      *)
(* hands out one that is pending and was not handed out.                    *)
LEMMA FindStep ==
  ASSUME IInv, OrderInv, Find
  PROVE  /\ OrderInv'
         /\ result' = "Ok" => handles' # handles /\ handles' \ handles \subseteq pending
<1>1. /\ pc = "find" /\ result = "none" /\ read_index_min # write_index
      /\ UNCHANGED <<write_index, channel, pending>>
  BY DEF Find, OrderInv, Calls
<1>2. ASSUME NEW r \in {"Busy", "Ok", "Empty"}, PeekDone(r), Kept' PROVE OrderInv' /\ result' = r
  BY <1>2 DEF PeekDone, OrderInv, Kept, Calls, Search
<1>3. ASSUME Continue, iter + 1 < 2 * MAX_PEEKS, Kept', (\E p \in Nat : Searching(p))',
             read_index_min' # write_index
      PROVE  OrderInv' /\ result' # "Ok"
  <2>1. pc' = "find" /\ result' = "none"
    BY <1>1, <1>3 DEF Continue
  <2> QED
    BY <1>1, <1>3, <2>1 DEF OrderInv, Kept, Calls, Search
<1>4. ASSUME NEW s \in SeqNo, SlotOf(s) = slot_index, reader_slots[slot_index].st # "Busy",
             handles' = handles \cup {s}, s \in pending
      PROVE  handles' # handles /\ handles' \ handles \subseteq pending
  <2>1. s \notin handles
    BY <1>4, SlotStatesDistinct DEF IInv, HandlesBusy
  <2> QED
    BY <1>4, <2>1
<1>5. CASE FindBusy
  <2>1. UNCHANGED <<readers, write_index, channel, handles, pending>> /\ PeekDone("Busy")
    BY <1>1, <1>5 DEF FindBusy
  <2>2. Kept'
    BY <2>1, KeptUnchanged DEF OrderInv, Kept
  <2> QED
    BY <1>2, <2>1, <2>2
<1>6. CASE FindNone
  <2>1. reader_slots[slot_index].st # "Busy"
    BY <1>6 DEF FindNone, None
  <2>2. CASE /\ read_index_next # write_index /\ slot_index = SlotOf(read_index_next)
             /\ HandOut(read_index_next) /\ read_index_next' = Add(read_index_next, 1)
    <3>1. Kept' /\ read_index_next \in pending
      BY <1>1, <1>6, <2>2, KeptByPeeking
    <3>2. PeekDone("Ok") /\ handles' = handles \cup {read_index_next}
      BY <2>2 DEF HandOut
    <3>3. handles' # handles /\ handles' \ handles \subseteq pending
      BY <1>4, <2>1, <2>2, <3>1, <3>2, Numbers
    <3> QED
      BY <1>2, <3>1, <3>2, <3>3
  <2>3. CASE /\ read_index_next = write_index /\ read_index_min' = write_index
             /\ PeekDone("Empty") /\ UNCHANGED <<reader_slots, read_index_next, handles>>
    <3>1. Kept'
      BY <1>1, <1>6, <2>3, KeptByPassing
    <3> QED
      BY <1>2, <2>3, <3>1
  <2>4. CASE /\ IF read_index_next = write_index THEN read_index_min' # write_index
                ELSE slot_index # SlotOf(read_index_next)
             /\ Continue /\ UNCHANGED <<reader_slots, read_index_next>>
    <3>1. handles' = handles
      BY <2>4 DEF Continue
    <3>2. Kept'
      BY <1>1, <1>6, <2>4, <3>1, KeptByPassing
    <3>3. read_index_min' # write_index
      BY <1>1, <2>4, <1>6, NonePasses, Numbers DEF OrderInv, Ordered
    <3>4. /\ iter + 1 < 2 * MAX_PEEKS
          /\ iter' = iter + 1 => (\E p \in Nat : Searching(p))'
      BY <1>1, <1>6, <2>4, SearchPast
    <3>5. iter' = iter + 1
      BY <2>4, <3>4 DEF Continue
    <3> QED
      BY <1>3, <2>4, <3>2, <3>3, <3>4, <3>5
  <2> QED
    BY <1>6, <2>2, <2>3, <2>4 DEF FindNone
<1>7. CASE FindAbort
  <2>1. reader_slots[slot_index].st = "Abort" /\ UNCHANGED <<read_index_min, read_index_next>>
    BY <1>7 DEF FindAbort
  <2>2. reader_slots[slot_index] # None
    BY <2>1 DEF None
  <2>3. PICK s \in SeqNo : /\ s = reader_slots[slot_index].seq /\ SlotOf(s) = slot_index
                           /\ reader_slots[slot_index] = Abort(s)
    BY <2>1, <2>2, SlotItem, Numbers
  <2>4. IsInBounds(s) <=> read_index_min <= s
    <3>1. /\ s < read_index_next
          /\ read_index_min <= s \/ write_index - s <= MaxAge
      BY <2>3, SlotPeeked
    <3> QED
      BY <3>1, InBounds DEF OrderInv
  <2>5. CASE IsInBounds(s)
    <3>1. HandOut(s)
      BY <1>7, <2>3, <2>5 DEF FindAbort
    <3>2. Kept' /\ s \in pending
      BY <1>1, <2>1, <2>3, <2>4, <2>5, <3>1, KeptByRetry
    <3>3. PeekDone("Ok") /\ handles' = handles \cup {s}
      BY <3>1 DEF HandOut
    <3> QED
      BY <1>2, <1>4, <2>1, <2>3, <3>2, <3>3
  <2>6. CASE ~ IsInBounds(s)
    <3>1. /\ reader_slots' = [reader_slots EXCEPT ![slot_index] = None]
          /\ Continue /\ slot_index' = slot_index
      BY <1>7, <2>3, <2>6 DEF FindAbort
    <3>2. handles' = handles /\ s < read_index_min /\ reader_slots'[slot_index] = None
      BY <2>4, <2>6, <3>1, Numbers DEF Continue, SeqNo
    <3>3. /\ Kept'
          /\ \A t \in read_index_min .. read_index_next - 1 : SlotOf(t) # slot_index
      BY <1>1, <2>1, <2>3, <3>1, <3>2, KeptByForgetting
    <3>4. /\ iter + 1 < 2 * MAX_PEEKS
          /\ iter' = iter + 1 => (\E p \in Nat : Searching(p))'
      BY <1>1, <2>1, <2>2, <3>1, <3>2, <3>3, SearchForgets
    <3>5. iter' = iter + 1
      BY <3>1, <3>4 DEF Continue
    <3> QED
      BY <1>1, <1>3, <2>1, <3>1, <3>3, <3>4, <3>5
  <2> QED
    BY <2>5, <2>6
<1> QED
  BY <1>5, <1>6, <1>7 DEF Find

-----------------------------------------------------------------------------

(* Every step before the wrap keeps the invariant.                          *)
LEMMA OrderSteps ==
  ASSUME IInv, OrderInv, [Next]_vars, IInv', Unwrapped'
  PROVE  OrderInv'
<1>1. CASE Owner
  BY <1>1, EnqueueStep, CallSteps, FindStep, DrainedStep, UpdateSteps DEF Owner
<1>2. CASE \E s \in handles : Confirm(s) \/ Drop(s)
  BY <1>2, AnswerSteps
<1>3. CASE UNCHANGED vars
  <2>1. Kept'
    BY <1>3, KeptUnchanged DEF OrderInv, Kept, vars
  <2>2. Calls' /\ Search'
    BY <1>3 DEF OrderInv, Calls, Search, Searching, AtFree, vars, readers
  <2> QED
    BY <2>1, <2>2 DEF OrderInv, Kept
<1> QED
  BY <1>1, <1>2, <1>3 DEF Next

(* As long as the sequence numbers have not wrapped, the indices are in     *)
(* order, the slots keep every peeked item that is pending, and every       *)
(* search is on its way to an item.                                         *)
THEOREM OrderKept == Spec /\ []Unwrapped => []OrderInv
<1>1. Init /\ Unwrapped => OrderInv
  BY InitialOrder
<1>2. IInv /\ OrderInv /\ [Next]_vars /\ IInv' /\ Unwrapped' => OrderInv'
  BY OrderSteps
<1> QED
  BY Inductive, <1>1, <1>2, PTL DEF Spec

(* Before the wrap of the sequence numbers, for any number of readers, any  *)
(* capacity and any granularity: find_reader always decides within its      *)
(* 2 * MAX_PEEKS iterations, the window between the read indices is         *)
(* bounded, an item that was neither confirmed nor overwritten is never     *)
(* given up, and is_drained answers yes only if nothing is pending.         *)
THEOREM DecidesUnwrapped == Spec /\ []Unwrapped => []QueueDecides
<1>1. IInv /\ OrderInv => QueueDecides
  <2> SUFFICES ASSUME IInv, OrderInv PROVE QueueDecides
    OBVIOUS
  <2>1. Ordered
    BY DEF OrderInv
  <2>2. AlwaysDecides /\ DrainedIsEmpty
    BY DEF OrderInv, Calls, AlwaysDecides, DrainedIsEmpty
  <2>3. WindowBounded
    <3>1. /\ Sub(read_index_next, read_index_min) = read_index_next - read_index_min
          /\ Sub(write_index, read_index_min) = write_index - read_index_min
      BY <2>1, Numbers, SubPlain DEF Ordered
    <3> QED
      BY <2>1, <3>1, Numbers DEF Ordered, WindowBounded, UnconfirmedCount
  <2>4. NothingGivenUp
    <3>1. /\ Window = read_index_min .. read_index_next - 1
          /\ Between(read_index_min, write_index) = read_index_min .. write_index - 1
      BY SMTT(30), <2>1, Numbers, BetweenPlain DEF Ordered, Window
    <3> QED
      BY <3>1 DEF OrderInv, PendingKept, WindowKept, NothingGivenUp
  <2> QED
    BY <2>2, <2>3, <2>4 DEF QueueDecides
<1> QED
  BY Inductive, OrderKept, <1>1, PTL

(* Before the wrap, peek_next hands out only items that are pending, and    *)
(* none of which an earlier handle exists.                                  *)
THEOREM HandsOutOnce == Spec /\ []Unwrapped => HandedOutOnce
<1> DEFINE Once == pc = "find" /\ result' = "Ok" =>
                     handles' # handles /\ handles' \ handles \subseteq pending
<1>1. IInv /\ OrderInv /\ [Next]_vars => [Once]_vars
  <2> SUFFICES ASSUME IInv, OrderInv, Next, pc = "find", result' = "Ok"
               PROVE  handles' # handles /\ handles' \ handles \subseteq pending
    OBVIOUS
  <2>1. result # "Ok"
    BY DEF OrderInv, Calls
  <2>2. Find
    BY <2>1 DEF Next, Owner, Enqueue, PeekNext, FindReader, IsDrained, IsDrainedReturn,
                UpdateReaderSlots, WaitConfirmation, Confirm, Drop
  <2> QED
    BY <2>2, FindStep
<1> QED
  BY Inductive, OrderKept, <1>1, PTL DEF Spec, HandedOutOnce
=============================================================================
