---------------------------- MODULE UploadProofs -----------------------------
(***************************************************************************)
(* The way of an item to the server, for every set of items, any number of *)
(* peeks, faults, broken connections and requests: nothing is lost, every  *)
(* peeked item has one holder, and a barrier covers what it was asked for. *)
(***************************************************************************)
EXTENDS Upload, FiniteSetTheorems, SequenceTheorems, TLAPS

-----------------------------------------------------------------------------
(* Sequences as the sets of their elements.                                 *)

(* No element twice. *)
Distinct(s) == \A m, n \in DOMAIN s : s[m] = s[n] => m = n

(* The first element and the others. *)
LEMMA TailElements ==
  ASSUME NEW S, NEW s \in Seq(S), s # <<>>
  PROVE  /\ Head(s) \in S /\ Head(s) \in ToSet(s) /\ Tail(s) \in Seq(S)
         /\ ToSet(s) = {Head(s)} \cup ToSet(Tail(s))
         /\ Distinct(s) => Distinct(Tail(s)) /\ Head(s) \notin ToSet(Tail(s))
<1>1. /\ Len(s) \in Nat /\ Len(s) > 0 /\ Head(s) = s[1] /\ Tail(s) \in Seq(S)
      /\ Len(Tail(s)) = Len(s) - 1 /\ \A n \in 1 .. Len(s) - 1 : Tail(s)[n] = s[n + 1]
      /\ DOMAIN s = 1 .. Len(s) /\ DOMAIN Tail(s) = 1 .. Len(s) - 1
  OBVIOUS
<1>2. Head(s) \in S /\ Head(s) \in ToSet(s) /\ ToSet(Tail(s)) \subseteq ToSet(s)
  BY <1>1 DEF ToSet
<1>3. ASSUME NEW x \in ToSet(s), x # Head(s) PROVE x \in ToSet(Tail(s))
  <2>1. PICK n \in 1 .. Len(s) : x = s[n]
    BY <1>1 DEF ToSet
  <2>2. n - 1 \in 1 .. Len(s) - 1 /\ Tail(s)[n - 1] = x
    BY <1>1, <1>3, <2>1
  <2> QED
    BY <1>1, <2>2 DEF ToSet
<1>4. ASSUME Distinct(s) PROVE Distinct(Tail(s)) /\ Head(s) \notin ToSet(Tail(s))
  <2>1. Distinct(Tail(s))
    BY <1>1, <1>4 DEF Distinct
  <2>2. \A n \in 1 .. Len(s) - 1 : s[n + 1] # s[1]
    BY <1>1, <1>4 DEF Distinct
  <2> QED
    BY <1>1, <2>1, <2>2 DEF ToSet
<1> QED
  BY <1>1, <1>2, <1>3, <1>4

(* One more element. *)
LEMMA AppendElements ==
  ASSUME NEW S, NEW s \in Seq(S), NEW x \in S
  PROVE  /\ Append(s, x) \in Seq(S) /\ ToSet(Append(s, x)) = ToSet(s) \cup {x}
         /\ Len(Append(s, x)) = Len(s) + 1 /\ Append(s, x)[Len(s) + 1] = x
         /\ \A n \in 1 .. Len(s) : Append(s, x)[n] = s[n]
         /\ Distinct(s) /\ x \notin ToSet(s) => Distinct(Append(s, x))
<1>1. /\ Append(s, x) \in Seq(S) /\ Len(Append(s, x)) = Len(s) + 1
      /\ Append(s, x)[Len(s) + 1] = x /\ Len(s) \in Nat
      /\ \A n \in 1 .. Len(s) : Append(s, x)[n] = s[n]
      /\ DOMAIN s = 1 .. Len(s) /\ DOMAIN Append(s, x) = 1 .. Len(s) + 1
  OBVIOUS
<1>2. ToSet(Append(s, x)) = ToSet(s) \cup {x}
  BY <1>1 DEF ToSet
<1>3. Distinct(s) /\ x \notin ToSet(s) => Distinct(Append(s, x))
  BY <1>1 DEF Distinct, ToSet
<1> QED
  BY <1>1, <1>2, <1>3

(* A sequence of one element.                                               *)
LEMMA OneElement ==
  ASSUME NEW S, NEW x \in S
  PROVE  /\ <<x>> \in Seq(S) /\ ToSet(<<x>>) = {x} /\ Head(<<x>>) = x
         /\ Len(<<x>>) = 1 /\ Len(<<x>>) <= 1
BY DEF ToSet

(* The elements of short sequences, and of sequences over a set.            *)
LEMMA SetOfElements ==
  /\ ToSet(<<>>) = {}
  /\ \A x : ToSet(<<x>>) = {x}
  /\ \A S : \A s \in Seq(S) : ToSet(s) \subseteq S
BY DEF ToSet

-----------------------------------------------------------------------------
(* The queue of a stream.                                                   *)

SlotStates == {None} \cup [st : {"Busy", "Abort"}, seq : Nat]
QueueType == [min : Int, next : Nat, slot : Int, slots : [SlotIds -> SlotStates]]

(* A queue over len items: a slot that is not free is that of a number that was *)
(* handed out.                                                                  *)
QueueOk(q, len) ==
  /\ q \in QueueType /\ q.next <= len
  /\ \A j \in SlotIds :
       q.slots[j] # None => q.slots[j].seq < q.next /\ q.slots[j].seq % MAX_PEEKS = j

(* Number n is still to be handed out, is handed out, or waits for a retry. *)
Keeps(q, n) == n >= q.next \/ q.slots[n % MAX_PEEKS] \in {Busy(n), Abort(n)}

(* Every number has a reader slot.                                          *)
LEMMA SlotRange ==
  ASSUME NEW x \in Int
  PROVE  x % MAX_PEEKS \in SlotIds
<1>1. MAX_PEEKS \in Nat /\ MAX_PEEKS > 0
  BY DispatchAssumption
<1> QED
  BY <1>1 DEF SlotIds

(* A reader slot is free, busy or aborted.                                  *)
LEMMA SlotStateCases ==
  ASSUME NEW x \in SlotStates
  PROVE  /\ x = None \/ x = Busy(x.seq) \/ x = Abort(x.seq)
         /\ x.seq \in Nat
         /\ x.st = "None" <=> x = None
         /\ x.st = "Busy" <=> x = Busy(x.seq)
         /\ x.st = "Abort" <=> x = Abort(x.seq)
BY DEF SlotStates, None, Busy, Abort

(* The states of a slot can be told apart and keep their item.              *)
LEMMA SlotStatesDiffer ==
  /\ \A m, n : Busy(m) # Abort(n) /\ Busy(m) # None /\ Abort(m) # None
  /\ \A m, n : (Busy(m) = Busy(n) => m = n) /\ (Abort(m) = Abort(n) => m = n)
  /\ \A n : Busy(n).seq = n /\ Abort(n).seq = n
  /\ \A n \in Nat : Busy(n) \in SlotStates /\ Abort(n) \in SlotStates
  /\ None \in SlotStates
BY DEF None, Busy, Abort, SlotStates

(* The slots that the search of find_reader visits.                         *)
LEMMA MinAfterInt ==
  ASSUME NEW q \in QueueType, NEW d \in Int
  PROVE  MinAfter(q, d) \in Int /\ Slot(q, d) \in SlotIds /\ Slot(q, d) \in Int
<1>1. MAX_PEEKS \in Nat /\ MAX_PEEKS > 0 /\ q.min \in Int /\ q.slot \in Int /\ q.next \in Int
  BY DispatchAssumption DEF QueueType
<1>2. (q.min + MAX_PEEKS - q.slot) % MAX_PEEKS \in Int
  BY <1>1
<1>3. Slot(q, d) \in SlotIds
  BY <1>1, SlotRange DEF Slot
<1> QED
  BY <1>1, <1>2, <1>3 DEF MinAfter, SlotIds

(* What peek_next hands out: a number that waits for its retry, or the next one, *)
(* whose slot is free; its slot is busy afterwards and no other slot changes.     *)
PeekOf(q, len, res) ==
  /\ QueueOk(res.q, len)
  /\ \/ res.out = Blocked /\ res.q.slots = q.slots /\ res.q.next = q.next
     \/ /\ res.out \in 0 .. len - 1
        /\ res.q.slots = [q.slots EXCEPT ![res.out % MAX_PEEKS] = Busy(res.out)]
        /\ \/ /\ q.slots[res.out % MAX_PEEKS] = Abort(res.out)
              /\ res.out < q.next /\ res.q.next = q.next
           \/ /\ q.slots[res.out % MAX_PEEKS] = None
              /\ res.out = q.next /\ res.q.next = q.next + 1

(* What a peek may do to a queue, as PeekOf describes it.                   *)
LEMMA PeekNextLemma ==
  ASSUME NEW len \in Nat, NEW q, QueueOk(q, len), NEW res \in PeekNext(q, len)
  PROVE  PeekOf(q, len, res)
<1>0. /\ q \in QueueType /\ q.next \in Nat /\ q.next <= len /\ q.slots \in [SlotIds -> SlotStates]
      /\ q.min \in Int /\ q.slot \in Int
      /\ MAX_PEEKS \in Nat
      /\ \A j \in SlotIds : q.slots[j] # None => q.slots[j].seq < q.next /\ q.slots[j].seq % MAX_PEEKS = j
  BY DispatchAssumption DEF QueueOk, QueueType
<1>1. CASE q.min = len
  <2>1. res = [q |-> q, out |-> Blocked]
    BY <1>1 DEF PeekNext
  <2> QED
    BY <2>1 DEF PeekOf
<1>2. CASE q.min # len
  <2>1. PICK d \in 0 .. 2 * MAX_PEEKS - 1 : Stops(q, len, d) /\ res = Found(q, len, d)
    BY <1>2 DEF PeekNext
  <2> DEFINE j == Slot(q, d)
             s == q.slots[j]
  <2>2. d \in Int /\ d - 1 \in Int /\ d + 1 \in Int
    BY <1>0, <2>1
  <2>3. /\ j \in SlotIds /\ Slot(q, d + 1) \in Int /\ j \in Int
        /\ MinAfter(q, d) \in Int /\ MinAfter(q, d - 1) \in Int
    BY <1>0, <2>2, MinAfterInt
  <2>4. s \in SlotStates
    BY <1>0, <2>3
  <2> HIDE DEF j
  <2>5. CASE s.st = "Busy"
    <3>1. res = [q |-> [q EXCEPT !.slot = j, !.min = MinAfter(q, d - 1)], out |-> Blocked]
      BY <2>1, <2>5, Zenon DEF Found, j
    <3>2. /\ res.q \in QueueType /\ res.q.slots = q.slots /\ res.q.next = q.next /\ res.out = Blocked
      BY <1>0, <2>3, <3>1 DEF QueueType
    <3> QED
      BY <1>0, <3>2 DEF PeekOf, QueueOk
  <2>6. CASE s.st = "Abort"
    <3>1. res = [q |-> [q EXCEPT !.slot = Slot(q, d + 1), !.min = MinAfter(q, d - 1),
                                 !.slots[j] = Busy(s.seq)], out |-> s.seq]
      BY <2>1, <2>6 DEF Found, j
    <3>2. s = Abort(s.seq) /\ s.seq \in Nat /\ s # None
      BY <2>4, <2>6, SlotStateCases, SlotStatesDiffer
    <3>3. s.seq < q.next /\ s.seq % MAX_PEEKS = j /\ s.seq \in 0 .. len - 1
      BY <1>0, <2>3, <3>2
    <3>4. /\ res.q \in QueueType /\ res.q.slots = [q.slots EXCEPT ![j] = Busy(s.seq)]
          /\ res.q.next = q.next /\ res.out = s.seq
      BY <1>0, <2>3, <3>1, <3>2, SlotStatesDiffer DEF QueueType
    <3>5. QueueOk(res.q, len)
      BY <1>0, <3>3, <3>4, SlotStatesDiffer DEF QueueOk
    <3> QED
      BY <3>2, <3>3, <3>4, <3>5 DEF PeekOf
  <2>7. CASE s.st = "None" /\ q.next = len
    <3>1. res = [q |-> [q EXCEPT !.slot = Slot(q, d + 1), !.min = len], out |-> Blocked]
      BY <2>1, <2>7 DEF Found, j
    <3>0. len \in Int /\ Slot(q, d + 1) \in Int /\ q \in QueueType
      BY <1>0, <2>3
    <3>2. /\ res.q \in QueueType /\ res.q.slots = q.slots /\ res.q.next = q.next /\ res.out = Blocked
      BY <3>0, <3>1 DEF QueueType
    <3> QED
      BY <1>0, <3>2 DEF PeekOf, QueueOk
  <2>8. CASE s.st = "None" /\ q.next # len
    <3>1. res = [q |-> [q EXCEPT !.slot = Slot(q, d + 1), !.min = MinAfter(q, d), !.next = @ + 1,
                                 !.slots[j] = Busy(q.next)], out |-> q.next]
      BY <2>1, <2>8 DEF Found, j
    <3>2. s = None
      BY <2>4, <2>8, SlotStateCases
    <3>3. j = q.next % MAX_PEEKS
      BY <2>1, <2>8, <3>2 DEF Stops, j
    <3>4. /\ res.q \in QueueType /\ res.q.slots = [q.slots EXCEPT ![j] = Busy(q.next)]
          /\ res.q.next = q.next + 1 /\ res.out = q.next /\ q.next \in 0 .. len - 1
      <4> DEFINE b == Busy(q.next)
                 n == q.next + 1
      <4>1. b \in SlotStates /\ n \in Nat /\ q.next \in 0 .. len - 1
        BY <1>0, <2>8, SlotStatesDiffer
      <4>2. res = [q |-> [q EXCEPT !.slot = Slot(q, d + 1), !.min = MinAfter(q, d), !.next = n,
                                   !.slots[j] = b], out |-> q.next]
        BY <3>1
      <4> HIDE DEF b, n
      <4>3. /\ res.q \in QueueType /\ res.q.slots = [q.slots EXCEPT ![j] = b]
            /\ res.q.next = n /\ res.out = q.next
        BY <1>0, <2>3, <4>1, <4>2 DEF QueueType
      <4> QED
        BY <4>1, <4>3 DEF b, n
    <3>5. ASSUME NEW i \in SlotIds, res.q.slots[i] # None
          PROVE  res.q.slots[i].seq < q.next + 1 /\ res.q.slots[i].seq % MAX_PEEKS = i
      <4>1. CASE i = j
        BY <1>0, <2>3, <3>3, <3>4, <4>1, SlotStatesDiffer
      <4>2. CASE i # j
        <5>1. res.q.slots[i] = q.slots[i]
          BY <1>0, <3>4, <4>2
        <5>2. q.slots[i].seq \in Nat
          BY <1>0, SlotStateCases
        <5> QED
          BY <1>0, <3>5, <5>1, <5>2
      <4> QED
        BY <4>1, <4>2
    <3>6. QueueOk(res.q, len)
      BY <1>0, <3>4, <3>5 DEF QueueOk
    <3> QED
      BY <3>2, <3>3, <3>4, <3>6 DEF PeekOf
  <2> QED
    BY <2>4, <2>5, <2>6, <2>7, <2>8, SlotStateCases
<1> QED
  BY <1>1, <1>2

(* Nothing that the queue keeps is given up by handing something out. *)
LEMMA PeekKeeps ==
  ASSUME NEW len \in Nat, NEW q, QueueOk(q, len), NEW res, PeekOf(q, len, res),
         NEW n \in 0 .. len - 1, Keeps(q, n)
  PROVE  Keeps(res.q, n)
<1>1. /\ q.next \in Nat /\ q.slots \in [SlotIds -> SlotStates] /\ n \in Int
      /\ n % MAX_PEEKS \in SlotIds
  BY SlotRange DEF QueueOk, QueueType
<1>2. CASE res.out = Blocked
  BY <1>2 DEF PeekOf, Keeps, Blocked
<1>3. CASE res.out # Blocked
  <2>1. /\ res.out \in 0 .. len - 1 /\ res.out % MAX_PEEKS \in SlotIds
        /\ res.q.slots = [q.slots EXCEPT ![res.out % MAX_PEEKS] = Busy(res.out)]
        /\ \/ /\ q.slots[res.out % MAX_PEEKS] = Abort(res.out)
              /\ res.out < q.next /\ res.q.next = q.next
           \/ /\ q.slots[res.out % MAX_PEEKS] = None
              /\ res.out = q.next /\ res.q.next = q.next + 1
    BY <1>3, SlotRange DEF PeekOf
  <2>2. CASE n = res.out
    BY <1>1, <2>1, <2>2 DEF Keeps
  <2>3. CASE n # res.out
    BY <1>1, <2>1, <2>3, SlotStatesDiffer DEF Keeps
  <2> QED
    BY <2>2, <2>3
<1> QED
  BY <1>2, <1>3

(* What update makes of the answers: a slot whose number was answered is free, if *)
(* one of its answers is a confirmation, or waits for a retry; the others are     *)
(* what they were.                                                                *)
UpdateOf(q, as, r) ==
  /\ r.next = q.next
  /\ \A j \in SlotIds :
       \/ /\ r.slots[j] = q.slots[j]
          /\ \A a \in ToSet(as) : q.slots[j] # Busy(NumberOf(a.item))
       \/ \E a \in ToSet(as) :
            /\ q.slots[j] = Busy(NumberOf(a.item))
            /\ r.slots[j] = Abort(NumberOf(a.item)) \/ (a.ok /\ r.slots[j] = None)

(* What the answers may do to a queue, as UpdateOf describes it.            *)
LEMMA UpdatedLemma ==
  ASSUME NEW len \in Nat, NEW q, QueueOk(q, len), NEW as
  PROVE  QueueOk(Updated(q, as), len) /\ UpdateOf(q, as, Updated(q, as))
<1> DEFINE Verdict(n) == {a \in ToSet(as) : q.slots[n] = Busy(NumberOf(a.item))}
           slots == [n \in SlotIds |->
              IF Verdict(n) = {} THEN q.slots[n]
              ELSE IF \E a \in Verdict(n) : a.ok THEN None ELSE Abort(q.slots[n].seq)]
           r == Updated(q, as)
<1>1. r = [q EXCEPT !.slots = slots]
  BY Zenon DEF Updated
<1> HIDE DEF r
<1>0. /\ q \in QueueType /\ q.next \in Nat /\ q.next <= len /\ q.slots \in [SlotIds -> SlotStates]
      /\ \A j \in SlotIds : q.slots[j] # None => q.slots[j].seq < q.next /\ q.slots[j].seq % MAX_PEEKS = j
  BY DEF QueueOk, QueueType
<1>2. \A j \in SlotIds :
        \/ Verdict(j) = {} /\ slots[j] = q.slots[j]
        \/ \E a \in Verdict(j) : \/ slots[j] = Abort(q.slots[j].seq)
                                 \/ a.ok /\ slots[j] = None
  BY Zenon
<1>3. \A j \in SlotIds :
        \/ slots[j] = q.slots[j] /\ \A a \in ToSet(as) : q.slots[j] # Busy(NumberOf(a.item))
        \/ \E a \in ToSet(as) :
             /\ q.slots[j] = Busy(NumberOf(a.item))
             /\ slots[j] = Abort(NumberOf(a.item)) \/ (a.ok /\ slots[j] = None)
  <2> SUFFICES ASSUME NEW j \in SlotIds, NEW v, v = slots[j],
                      NEW a, a \in ToSet(as), q.slots[j] = Busy(NumberOf(a.item)),
                      v = Abort(q.slots[j].seq) \/ (a.ok /\ v = None)
               PROVE  v = Abort(NumberOf(a.item)) \/ (a.ok /\ v = None)
    BY <1>2, Zenon
  <2> QED
    BY SlotStatesDiffer
<1>4. \A j \in SlotIds : \/ slots[j] = q.slots[j] \/ slots[j] = None
                         \/ slots[j] = Abort(q.slots[j].seq) /\ q.slots[j] # None
  BY ZenonT(30), <1>3, SlotStatesDiffer
<1> HIDE DEF slots
<1>5. slots \in [SlotIds -> SlotStates]
  <2>1. slots = [j \in SlotIds |-> slots[j]]
    BY DEF slots
  <2>2. \A j \in SlotIds : q.slots[j] \in SlotStates /\ q.slots[j].seq \in Nat
    BY <1>0, SlotStateCases
  <2>3. \A j \in SlotIds : slots[j] \in SlotStates
    BY <1>4, <2>2, SlotStatesDiffer
  <2> QED
    BY <2>1, <2>3
<1>6. r \in QueueType /\ r.slots = slots /\ r.next = q.next
  BY <1>0, <1>1, <1>5 DEF QueueType
<1>7. QueueOk(r, len)
  <2>1. \A j \in SlotIds : slots[j] # None => q.slots[j] # None /\ slots[j].seq = q.slots[j].seq
    BY <1>4, SlotStatesDiffer
  <2> QED
    BY <1>0, <1>6, <2>1 DEF QueueOk
<1>8. UpdateOf(q, as, r)
  BY <1>3, <1>6 DEF UpdateOf
<1> QED
  BY <1>7, <1>8 DEF r

-----------------------------------------------------------------------------
(* The invariant.                                                           *)

Answers == [item : Items, ok : BOOLEAN]
Cleared == excused \cup delivered
StoredOf(k) == ToSet(stored[k])

(* Every item is in one place on its way into the store, and there once. *)
Ways ==
  /\ eventIn \in Seq(Events) /\ rawIn \in Seq(Data) /\ buffered \in Seq(Data)
  /\ stored \in [Kinds -> Seq(Items)]
  /\ \A k \in Kinds : \A i \in StoredOf(k) : KindOf(i) = k
  /\ Distinct(eventIn) /\ Distinct(rawIn) /\ Distinct(buffered)
  /\ \A k \in Kinds : Distinct(stored[k])
  /\ ToSet(eventIn) \cap StoredOf("event") = {}
  /\ ToSet(rawIn) \cap (ToSet(buffered) \cup StoredOf("data")) = {}
  /\ ToSet(buffered) \cap StoredOf("data") = {}
  /\ handed \subseteq Items
  /\ ToSet(eventIn) \cup ToSet(rawIn) \cup ToSet(buffered) \subseteq handed
  /\ \A k \in Kinds : StoredOf(k) \subseteq handed

(* What was handed over has arrived, or is in one of these places. *)
Placed ==
  \A i \in handed : \/ i \in Cleared
                    \/ i \in ToSet(eventIn) \cup ToSet(rawIn) \cup ToSet(buffered)
                    \/ i \in StoredOf(KindOf(i))

(* A handle is that of a stored item ... *)
HandleOk(c) == c \in Confirmable /\ (c.handle => c.item \in StoredOf(KindOf(c.item)))

(* ... and so is an answer, and Ok is said of what has arrived. *)
AnswerOk(k, a) == a \in Answers /\ a.item \in StoredOf(k) /\ (a.ok => a.item \in Cleared)

Holding ==
  /\ pend \in [Kinds -> Seq(Confirmable)]
  /\ upq \in Seq(Confirmable) /\ pendingUpload \in Seq(Confirmable)
  /\ conf \in [Kinds -> Seq(Answers)]
  /\ \A k \in Kinds : Len(pend[k]) <= 1 /\ \A c \in ToSet(pend[k]) : HandleOk(c) /\ KindOf(c.item) = k
  /\ \A c \in ToSet(upq) \cup ToSet(pendingUpload) : HandleOk(c)
  /\ Len(pendingUpload) <= 1 /\ (npc = "upload" => pendingUpload # <<>>)
  /\ \A k \in Kinds : \A a \in ToSet(conf[k]) : AnswerOk(k, a)

(* The queue keeps every stored item that has not arrived. *)
KeptIn(k) ==
  /\ QueueOk(queue[k], Len(stored[k]))
  /\ \A n \in 0 .. Len(stored[k]) - 1 : stored[k][n + 1] \in Cleared \/ Keeps(queue[k], n)
Kept == queue \in [Kinds -> QueueType] /\ \A k \in Kinds : KeptIn(k)

(* A barrier covers nothing that has not reached the task, and is answered when *)
(* the buffer is empty.                                                         *)
Covering ==
  /\ asked \subseteq handed /\ covered \subseteq handed
  /\ covered \cap (ToSet(eventIn) \cup ToSet(rawIn)) = {}
  /\ dpc = "drain" => buffered = <<>>

UploadInv == Ways /\ Placed /\ Holding /\ Kept /\ Covering

(* The two kinds of items.                                                  *)
LEMMA KindLemma ==
  /\ Kinds = {"event", "data"}
  /\ \A i \in Items : KindOf(i) \in Kinds
  /\ \A i \in Events : KindOf(i) = "event" /\ i \in Items
  /\ \A i \in Data : KindOf(i) = "data" /\ i \in Items
BY DispatchAssumption DEF Kinds, KindOf, Items

(* Records with a field for each kind are functions on the kinds.           *)
LEMMA PerKind ==
  ASSUME NEW S, NEW x \in S, NEW y \in S
  PROVE  /\ [event |-> x, data |-> y] \in [Kinds -> S]
         /\ [event |-> x, data |-> y]["event"] = x /\ [event |-> x, data |-> y]["data"] = y
<1> SUFFICES ASSUME NEW r, r = [event |-> x, data |-> y]
             PROVE  r \in [Kinds -> S] /\ r["event"] = x /\ r["data"] = y
  BY Zenon
<1>1. r["event"] = x /\ r["data"] = y /\ DOMAIN r = {"event", "data"}
  OBVIOUS
<1>2. r = [k \in {"event", "data"} |-> r[k]]
  OBVIOUS
<1> QED
  BY <1>1, <1>2 DEF Kinds

(* The number of an item is its place in the store. *)
LEMMA NumberLemma ==
  ASSUME Ways, NEW k \in Kinds, NEW n \in 1 .. Len(stored[k])
  PROVE  NumberOf(stored[k][n]) = n - 1
<1>1. n \in DOMAIN stored[k] /\ stored[k] \in Seq(Items)
  BY DEF Ways
<1>2. KindOf(stored[k][n]) = k
  BY <1>1 DEF Ways, StoredOf, ToSet
<1>3. \A m \in DOMAIN stored[k] : stored[k][m] = stored[k][n] => m = n
  BY <1>1 DEF Ways, Distinct
<1>4. (CHOOSE m \in DOMAIN stored[k] : stored[k][m] = stored[k][n]) = n
  BY <1>1, <1>3
<1> QED
  BY <1>2, <1>4 DEF NumberOf

(* The item of a number, and the number of an item. *)
LEMMA StoredAt ==
  ASSUME Ways, NEW k \in Kinds, NEW i \in StoredOf(k)
  PROVE  NumberOf(i) \in 0 .. Len(stored[k]) - 1 /\ stored[k][NumberOf(i) + 1] = i
<1>1. stored[k] \in Seq(Items) /\ Len(stored[k]) \in Nat
  BY DEF Ways
<1>2. PICK n \in 1 .. Len(stored[k]) : i = stored[k][n]
  BY <1>1 DEF StoredOf, ToSet
<1>3. NumberOf(i) = n - 1
  BY <1>2, NumberLemma
<1> QED
  BY <1>1, <1>2, <1>3

-----------------------------------------------------------------------------
(* Into the store.                                                          *)

(* Item i has left the queue that it waited in. *)
Taken(i) ==
  /\ eventIn' \in Seq(Events) /\ rawIn' \in Seq(Data) /\ buffered' \in Seq(Data)
  /\ Distinct(eventIn') /\ Distinct(rawIn') /\ Distinct(buffered')
  /\ ToSet(eventIn') = ToSet(eventIn) \ {i}
  /\ ToSet(rawIn') = ToSet(rawIn) \ {i}
  /\ ToSet(buffered') = ToSet(buffered) \ {i}
  /\ i \in Items /\ i \in handed /\ i \notin StoredOf(KindOf(i))

(* Receiving an event takes it off its channel.                             *)
LEMMA TakenEvent ==
  ASSUME Ways, eventIn # <<>>, eventIn' = Tail(eventIn), UNCHANGED <<rawIn, buffered>>
  PROVE  Taken(Head(eventIn))
<1> DEFINE i == Head(eventIn)
<1>1. /\ i \in Events /\ i \in ToSet(eventIn) /\ Tail(eventIn) \in Seq(Events)
      /\ ToSet(eventIn) = {i} \cup ToSet(Tail(eventIn)) /\ i \notin ToSet(Tail(eventIn))
      /\ Distinct(Tail(eventIn))
  BY TailElements DEF Ways
<1>2. i \notin ToSet(rawIn) /\ i \notin ToSet(buffered)
  BY <1>1, SetOfElements, DispatchAssumption DEF Ways
<1> HIDE DEF i
<1> QED
  BY <1>1, <1>2, KindLemma DEF Ways, Taken, i

(* Receiving a sample takes it off its channel.                             *)
LEMMA TakenRaw ==
  ASSUME Ways, rawIn # <<>>, rawIn' = Tail(rawIn), UNCHANGED <<eventIn, buffered>>
  PROVE  Taken(Head(rawIn))
<1> DEFINE i == Head(rawIn)
<1>1. /\ i \in Data /\ i \in ToSet(rawIn) /\ Tail(rawIn) \in Seq(Data)
      /\ ToSet(rawIn) = {i} \cup ToSet(Tail(rawIn)) /\ i \notin ToSet(Tail(rawIn))
      /\ Distinct(Tail(rawIn))
  BY TailElements DEF Ways
<1>2. i \notin ToSet(eventIn) /\ i \notin ToSet(buffered)
  BY <1>1, SetOfElements, DispatchAssumption DEF Ways
<1> HIDE DEF i
<1> QED
  BY <1>1, <1>2, KindLemma DEF Ways, Taken, i

(* Taking a sample out of the dispatch buffer.                              *)
LEMMA TakenBuffered ==
  ASSUME Ways, buffered # <<>>, buffered' = Tail(buffered), UNCHANGED <<eventIn, rawIn>>
  PROVE  Taken(Head(buffered))
<1> DEFINE i == Head(buffered)
<1>1. /\ i \in Data /\ i \in ToSet(buffered) /\ Tail(buffered) \in Seq(Data)
      /\ ToSet(buffered) = {i} \cup ToSet(Tail(buffered)) /\ i \notin ToSet(Tail(buffered))
      /\ Distinct(Tail(buffered))
  BY TailElements DEF Ways
<1>2. i \notin ToSet(eventIn) /\ i \notin ToSet(rawIn)
  BY <1>1, SetOfElements, DispatchAssumption DEF Ways
<1> HIDE DEF i
<1> QED
  BY <1>1, <1>2, KindLemma DEF Ways, Taken, i

(* Handles and answers stay good while more is stored and more arrives. *)
LEMMA HoldingGrows ==
  ASSUME Holding, UNCHANGED <<pend, upq, pendingUpload, conf>>,
         npc' = "upload" => pendingUpload # <<>>,
         \A k \in Kinds : StoredOf(k) \subseteq StoredOf(k)', Cleared \subseteq Cleared'
  PROVE  Holding'
<1>1. \A c : HandleOk(c) => HandleOk(c)'
  BY KindLemma DEF HandleOk, Confirmable
<1>2. \A k \in Kinds : \A a : AnswerOk(k, a) => AnswerOk(k, a)'
  BY DEF AnswerOk
<1> QED
  BY <1>1, <1>2 DEF Holding

(* What is kept stays kept while more items are cleared.                    *)
LEMMA KeptGrows ==
  ASSUME Kept, UNCHANGED <<stored, queue>>, Cleared \subseteq Cleared'
  PROVE  Kept'
BY DEF Kept, KeptIn

(* An answer is one more in the confirm channel of its stream. *)
LEMMA AnsweredLemma ==
  ASSUME conf \in [Kinds -> Seq(Answers)], NEW c \in Confirmable, NEW ok \in BOOLEAN
  PROVE  /\ Answered(c, ok) \in [Kinds -> Seq(Answers)]
         /\ \A k \in Kinds :
              \/ Answered(c, ok)[k] = conf[k] /\ (~ c.handle \/ k # KindOf(c.item))
              \/ /\ Answered(c, ok)[k] = Append(conf[k], Answer(c, ok))
                 /\ ToSet(Answered(c, ok)[k]) = ToSet(conf[k]) \cup {Answer(c, ok)}
                 /\ c.handle /\ k = KindOf(c.item)
<1>1. Answer(c, ok) \in Answers /\ KindOf(c.item) \in Kinds
  BY KindLemma DEF Answer, Answers, Confirmable
<1>2. \A k \in Kinds : /\ Append(conf[k], Answer(c, ok)) \in Seq(Answers)
                       /\ ToSet(Append(conf[k], Answer(c, ok))) = ToSet(conf[k]) \cup {Answer(c, ok)}
  BY <1>1, AppendElements
<1>3. CASE c.handle
  BY <1>1, <1>2, <1>3 DEF Answered
<1>4. CASE ~ c.handle
  BY <1>4 DEF Answered
<1> QED
  BY <1>3, <1>4

(* The answer of a handle, while nothing else changes. *)
LEMMA AnswersOk ==
  ASSUME Holding, NEW c, HandleOk(c), NEW ok \in BOOLEAN, conf' = Answered(c, ok),
         \A k \in Kinds : StoredOf(k) \subseteq StoredOf(k)', Cleared \subseteq Cleared',
         ok => c.item \in Cleared'
  PROVE  conf' \in [Kinds -> Seq(Answers)] /\ \A k \in Kinds : \A a \in ToSet(conf'[k]) : AnswerOk(k, a)'
<1>1. c \in Confirmable /\ conf \in [Kinds -> Seq(Answers)]
  BY DEF HandleOk, Holding
<1>2. conf' \in [Kinds -> Seq(Answers)]
  BY <1>1, AnsweredLemma
<1>3. ASSUME NEW k \in Kinds, NEW a \in ToSet(conf'[k]) PROVE AnswerOk(k, a)'
  <2>1. CASE a \in ToSet(conf[k])
    BY <2>1 DEF Holding, AnswerOk
  <2>2. CASE a \notin ToSet(conf[k])
    <3>1. a = Answer(c, ok) /\ c.handle /\ k = KindOf(c.item)
      BY <1>1, <1>3, <2>2, AnsweredLemma
    <3>2. a \in Answers /\ a.item = c.item /\ a.ok = ok
      BY <1>1, <3>1 DEF Answer, Answers, Confirmable
    <3> QED
      BY <3>1, <3>2 DEF AnswerOk, HandleOk
  <2> QED
    BY <2>1, <2>2
<1> QED
  BY <1>2, <1>3

(* An item that cannot be stored is excused.                                *)
LEMMA OverwriteStep ==
  ASSUME Holding, NEW i \in Items, Overwrite(KindOf(i), i), UNCHANGED <<stored, upq, pendingUpload, npc>>,
         Cleared \subseteq Cleared'
  PROVE  Holding'
<1> DEFINE k == KindOf(i)
<1> SUFFICES ASSUME NEW new, new = [item |-> i, handle |-> FALSE] PROVE Holding'
  OBVIOUS
<1>1. k \in Kinds /\ new \in Confirmable /\ pend \in [Kinds -> Seq(Confirmable)]
  BY KindLemma DEF Confirmable, Holding
<1>2. pend' = [pend EXCEPT ![k] = <<new>>]
  BY DEF Overwrite
<1>3. \A l \in Kinds : pend'[l] = IF l = k THEN <<new>> ELSE pend[l]
  BY <1>1, <1>2
<1>4. ToSet(<<new>>) = {new} /\ Len(<<new>>) = 1 /\ <<new>> \in Seq(Confirmable)
  BY <1>1, OneElement
<1>5. HandleOk(new)' /\ KindOf(new.item) = k
  BY <1>1 DEF HandleOk
<1>6. conf' \in [Kinds -> Seq(Answers)] /\ \A l \in Kinds : \A a \in ToSet(conf'[l]) : AnswerOk(l, a)'
  <2>1. CASE pend[k] = <<>>
    <3>1. conf' = conf
      BY <2>1 DEF Overwrite
    <3> QED
      BY <3>1 DEF Holding, AnswerOk, StoredOf
  <2>2. CASE pend[k] # <<>>
    <3>1. conf' = Answered(Head(pend[k]), FALSE)
      BY <2>2 DEF Overwrite
    <3>2. Head(pend[k]) \in ToSet(pend[k])
      BY <1>1, <2>2, TailElements
    <3>3. HandleOk(Head(pend[k]))
      BY <1>1, <3>2 DEF Holding
    <3> QED
      BY <3>1, <3>3, AnswersOk DEF StoredOf
  <2> QED
    BY <2>1, <2>2
<1>7. \A c : HandleOk(c) => HandleOk(c)'
  BY DEF HandleOk, StoredOf
<1>8. pend' \in [Kinds -> Seq(Confirmable)]
  BY <1>1, <1>2, <1>4
<1> HIDE DEF k
<1>9. \A l \in Kinds : Len(pend'[l]) <= 1 /\ \A c \in ToSet(pend'[l]) : HandleOk(c)' /\ KindOf(c.item) = l
  <2> SUFFICES ASSUME NEW l \in Kinds
               PROVE  Len(pend'[l]) <= 1 /\ \A c \in ToSet(pend'[l]) : HandleOk(c)' /\ KindOf(c.item) = l
    OBVIOUS
  <2>1. CASE l = k
    <3>1. pend'[l] = <<new>>
      BY <1>3, <2>1
    <3>2. ToSet(pend'[l]) = {new} /\ Len(pend'[l]) = 1
      BY <1>4, <3>1, Zenon
    <3> QED
      BY <1>5, <2>1, <3>2
  <2>2. CASE l # k
    BY <1>3, <1>7, <2>2 DEF Holding
  <2> QED
    BY <2>1, <2>2
<1> QED
  BY <1>6, <1>7, <1>8, <1>9 DEF Holding

(* An item is stored, or the store fails and it becomes pending without a handle. *)
LEMMA StoreStep ==
  ASSUME UploadInv, NEW i, Taken(i), StoreItem(i),
         UNCHANGED <<handed, upq, pendingUpload, npc, delivered>>
  PROVE  Ways' /\ Placed' /\ Holding' /\ Kept'
<1> DEFINE k == KindOf(i)
<1>0. Ways /\ Placed /\ Holding /\ Kept /\ i \in Items /\ k \in Kinds
  BY KindLemma DEF UploadInv, Taken
<1>1. CASE stored' = [stored EXCEPT ![k] = Append(@, i)] /\ UNCHANGED <<queue, pend, conf, faults, excused>>
  <2>1. /\ stored[k] \in Seq(Items) /\ Distinct(stored[k]) /\ i \notin ToSet(stored[k])
        /\ Len(stored[k]) \in Nat
    BY <1>0 DEF Ways, Taken, StoredOf
  <2>2. /\ stored' \in [Kinds -> Seq(Items)]
        /\ stored'[k] = Append(stored[k], i) /\ \A l \in Kinds \ {k} : stored'[l] = stored[l]
        /\ stored'[k] \in Seq(Items) /\ ToSet(stored'[k]) = ToSet(stored[k]) \cup {i}
        /\ Distinct(stored'[k])
        /\ Len(stored'[k]) = Len(stored[k]) + 1
        /\ \A n \in 1 .. Len(stored[k]) : stored'[k][n] = stored[k][n]
    BY <1>0, <1>1, <2>1, AppendElements DEF Ways
  <2>3. /\ StoredOf(k)' = StoredOf(k) \cup {i}
        /\ \A l \in Kinds \ {k} : StoredOf(l)' = StoredOf(l)
    BY <2>2 DEF StoredOf
  <2>4. Ways'
    <3>1. \A l \in Kinds : Distinct(stored'[l])
      BY <1>0, <2>2 DEF Ways
    <3>2. \A l \in Kinds : \A x \in StoredOf(l)' : KindOf(x) = l /\ x \in handed
      <4> TAKE l \in Kinds
      <4>1. CASE l = k
        BY <1>0, <2>3, <4>1 DEF Ways, Taken
      <4>2. CASE l # k
        BY <1>0, <2>3, <4>2 DEF Ways
      <4> QED
        BY <4>1, <4>2
    <3>3. /\ ToSet(eventIn') \cap StoredOf("event")' = {}
          /\ ToSet(rawIn') \cap (ToSet(buffered') \cup StoredOf("data")') = {}
          /\ ToSet(buffered') \cap StoredOf("data")' = {}
      <4>1. StoredOf("event")' \subseteq StoredOf("event") \cup {i}
        BY <1>0, <2>3, KindLemma
      <4>2. StoredOf("data")' \subseteq StoredOf("data") \cup {i}
        BY <1>0, <2>3, KindLemma
      <4> QED
        BY <1>0, <4>1, <4>2 DEF Ways, Taken
    <3>4. ToSet(eventIn') \cup ToSet(rawIn') \cup ToSet(buffered') \subseteq handed
      BY <1>0 DEF Ways, Taken
    <3> QED
      BY <1>0, <2>2, <3>1, <3>2, <3>3, <3>4 DEF Ways, Taken
  <2>5. Placed'
    <3> SUFFICES ASSUME NEW x \in handed, x \notin Cleared, x # i
                 PROVE  \/ x \in ToSet(eventIn') \cup ToSet(rawIn') \cup ToSet(buffered')
                        \/ x \in StoredOf(KindOf(x))'
      BY <1>0, <1>1, <2>3 DEF Placed, Cleared
    <3>1. KindOf(x) \in Kinds
      BY <1>0, KindLemma DEF Ways
    <3>2. StoredOf(KindOf(x)) \subseteq StoredOf(KindOf(x))'
      BY <2>3, <3>1
    <3> QED
      BY <1>0, <3>2 DEF Placed, Taken
  <2>6. Holding'
    BY <1>0, <1>1, <2>3, HoldingGrows DEF Cleared, Holding
  <2>7. Kept'
    <3>1. ASSUME NEW l \in Kinds PROVE KeptIn(l)'
      <4>1. KeptIn(l) /\ queue'[l] = queue[l] /\ Cleared' = Cleared
        BY <1>0, <1>1 DEF Kept, Cleared
      <4>2. CASE l # k
        BY <2>2, <4>1, <4>2 DEF KeptIn
      <4>3. CASE l = k
        <5>1. QueueOk(queue[k], Len(stored[k])) /\ queue[k].next \in Nat /\ queue[k].next <= Len(stored[k])
          BY <4>1, <4>3 DEF KeptIn, QueueOk, QueueType
        <5>2. QueueOk(queue[k], Len(stored[k]) + 1)
          BY <2>1, <5>1 DEF QueueOk
        <5>3. ASSUME NEW n \in 0 .. Len(stored[k])
              PROVE  stored'[k][n + 1] \in Cleared \/ Keeps(queue[k], n)
          <6>1. CASE n = Len(stored[k])
            BY <5>1, <6>1 DEF Keeps
          <6>2. CASE n # Len(stored[k])
            <7>1. n \in 0 .. Len(stored[k]) - 1 /\ stored'[k][n + 1] = stored[k][n + 1]
              BY <2>1, <2>2, <6>2
            <7> QED
              BY <4>1, <4>3, <7>1 DEF KeptIn
          <6> QED
            BY <6>1, <6>2
        <5> HIDE DEF k
        <5>4. Len(stored'[k]) - 1 = Len(stored[k])
          BY <2>1, <2>2
        <5> QED
          BY <2>2, <4>1, <4>3, <5>2, <5>3, <5>4 DEF KeptIn
      <4> QED
        BY <4>2, <4>3
    <3> QED
      BY <1>0, <1>1, <3>1 DEF Kept
  <2> QED
    BY <2>4, <2>5, <2>6, <2>7
<1>2. CASE excused' = excused \cup {i} /\ Overwrite(k, i) /\ UNCHANGED <<stored, queue, initialized>>
  <2>1. Cleared' = Cleared \cup {i} /\ \A l : StoredOf(l)' = StoredOf(l)
    BY <1>2 DEF Cleared, StoredOf
  <2>2. Ways'
    BY <1>0, <1>2, <2>1 DEF Ways, Taken
  <2>3. Placed'
    BY <1>0, <1>2, <2>1 DEF Placed, Taken
  <2>4. Holding'
    BY <1>0, <1>2, <2>1, OverwriteStep
  <2>5. Kept'
    BY <1>0, <1>2, <2>1, KeptGrows
  <2> QED
    BY <2>2, <2>3, <2>4, <2>5
<1> QED
  BY <1>1, <1>2 DEF StoreItem

-----------------------------------------------------------------------------
(* Out of the store.                                                        *)

(* Answers give up nothing that has not arrived. *)
LEMMA UpdateKeeps ==
  ASSUME Ways, Holding, NEW k \in Kinds, KeptIn(k),
         NEW as, ToSet(as) \subseteq ToSet(conf[k])
  PROVE  /\ QueueOk(Updated(queue[k], as), Len(stored[k]))
         /\ \A n \in 0 .. Len(stored[k]) - 1 :
              stored[k][n + 1] \in Cleared \/ Keeps(Updated(queue[k], as), n)
<1> DEFINE q == queue[k]
           r == Updated(q, as)
<1>1. Len(stored[k]) \in Nat /\ QueueOk(q, Len(stored[k]))
  BY DEF Ways, KeptIn
<1>2. QueueOk(r, Len(stored[k])) /\ UpdateOf(q, as, r)
  BY <1>1, UpdatedLemma
<1> HIDE DEF r
<1>3. ASSUME NEW n \in 0 .. Len(stored[k]) - 1, stored[k][n + 1] \notin Cleared
      PROVE  Keeps(r, n)
  <2>1. Keeps(q, n) /\ r.next = q.next
    BY <1>2, <1>3 DEF KeptIn, UpdateOf
  <2>2. CASE n >= q.next
    BY <2>1, <2>2 DEF Keeps
  <2>3. CASE q.slots[n % MAX_PEEKS] \in {Busy(n), Abort(n)}
    <3> DEFINE j == n % MAX_PEEKS
    <3>1. j \in SlotIds
      BY SlotRange
    <3>2. CASE r.slots[j] = q.slots[j]
      BY <2>3, <3>2 DEF Keeps
    <3>3. CASE r.slots[j] # q.slots[j]
      <4>1. PICK a \in ToSet(as) : /\ q.slots[j] = Busy(NumberOf(a.item))
                                   /\ r.slots[j] = Abort(NumberOf(a.item)) \/ a.ok
        BY <1>2, <3>1, <3>3 DEF UpdateOf
      <4>2. NumberOf(a.item) = n
        BY <2>3, <4>1, SlotStatesDiffer
      <4>3. AnswerOk(k, a)
        BY DEF Holding
      <4>4. stored[k][n + 1] = a.item
        BY <4>2, <4>3, StoredAt DEF AnswerOk
      <4>5. ~ a.ok
        BY <1>3, <4>3, <4>4 DEF AnswerOk
      <4> QED
        BY <4>1, <4>2, <4>5 DEF Keeps
    <3> QED
      BY <3>2, <3>3
  <2> QED
    BY <2>1, <2>2, <2>3 DEF Keeps
<1> QED
  BY <1>2, <1>3 DEF r

(* What does not concern the queues into the store. *)
LEMMA WaysStay ==
  ASSUME Ways, UNCHANGED <<eventIn, rawIn, buffered, stored, handed>>
  PROVE  Ways'
BY DEF Ways, StoredOf

(* Items stay placed while no channel or store changes.                     *)
LEMMA PlacedStays ==
  ASSUME Placed, UNCHANGED <<eventIn, rawIn, buffered, stored, handed>>, Cleared \subseteq Cleared'
  PROVE  Placed'
BY DEF Placed, StoredOf

(* peek_event and peek_sensor_data. *)
LEMMA PeekStep ==
  ASSUME UploadInv, NEW k \in Kinds, Peek(k),
         UNCHANGED <<ins, stored, handed, upq, pendingUpload, npc, delivered>>
  PROVE  Ways' /\ Placed' /\ Holding' /\ Kept'
<1>0. Ways /\ Placed /\ Holding /\ Kept
  BY DEF UploadInv
<1>a. UNCHANGED <<eventIn, rawIn, buffered, stored, handed>> /\ \A l : StoredOf(l)' = StoredOf(l)
  BY DEF ins, StoredOf
<1>1. CASE UNCHANGED <<queue, initialized, pend, conf, excused>>
  <2>1. Cleared' = Cleared
    BY <1>1 DEF Cleared
  <2>2. Holding'
    BY <1>0, <1>1, <1>a, <2>1, HoldingGrows DEF Holding
  <2> QED
    BY <1>0, <1>1, <1>a, <2>1, <2>2, WaysStay, PlacedStays, KeptGrows
<1>2. ASSUME NEW q, q = Updated(queue[k], conf[k]), NEW res \in PeekNext(q, Len(stored[k])),
             queue' = [queue EXCEPT ![k] = res.q],
             \/ /\ pend' = [pend EXCEPT ![k] =
                              IF res.out = Blocked THEN <<>>
                              ELSE <<[item |-> stored[k][res.out + 1], handle |-> TRUE]>>]
                /\ conf' = [conf EXCEPT ![k] = <<>>]
                /\ UNCHANGED excused
             \/ /\ res.out # Blocked
                /\ \E skip \in BOOLEAN, item \in {stored[k][res.out + 1]} :
                     /\ conf' = [conf EXCEPT ![k] = <<[item |-> item, ok |-> skip]>>]
                     /\ excused' = IF skip THEN excused \cup {item} ELSE excused
                /\ UNCHANGED pend
      PROVE  Ways' /\ Placed' /\ Holding' /\ Kept'
  <2> DEFINE len == Len(stored[k])
             item == stored[k][res.out + 1]
  <2>1. len \in Nat /\ stored[k] \in Seq(Items)
    BY <1>0 DEF Ways
  <2>2. QueueOk(q, len) /\ \A n \in 0 .. len - 1 : stored[k][n + 1] \in Cleared \/ Keeps(q, n)
    BY <1>0, <1>2, UpdateKeeps DEF Kept
  <2>3. PeekOf(q, len, res)
    BY <1>2, <2>1, <2>2, PeekNextLemma
  <2>4. QueueOk(res.q, len) /\ \A n \in 0 .. len - 1 : stored[k][n + 1] \in Cleared \/ Keeps(res.q, n)
    BY <2>1, <2>2, <2>3, PeekKeeps DEF PeekOf
  <2>5. res.out # Blocked => item \in StoredOf(k) /\ item \in Items /\ KindOf(item) = k
    <3> SUFFICES ASSUME res.out # Blocked PROVE item \in StoredOf(k) /\ item \in Items /\ KindOf(item) = k
      OBVIOUS
    <3>1. res.out + 1 \in 1 .. len
      BY <2>1, <2>3 DEF PeekOf
    <3> QED
      BY <1>0, <2>1, <3>1 DEF StoredOf, ToSet, Ways
  <2> HIDE DEF item
  <2>6. Cleared \subseteq Cleared'
    BY <1>2 DEF Cleared
  <2>7. Kept'
    <3>1. queue' \in [Kinds -> QueueType] /\ queue'[k] = res.q /\ \A l \in Kinds \ {k} : queue'[l] = queue[l]
      BY <1>0, <1>2, <2>4 DEF Kept, QueueOk
    <3>2. KeptIn(k)'
      BY <1>a, <2>4, <2>6, <3>1 DEF KeptIn
    <3>3. \A l \in Kinds \ {k} : KeptIn(l)'
      BY <1>0, <1>a, <2>6, <3>1 DEF Kept, KeptIn
    <3> QED
      BY <3>1, <3>2, <3>3 DEF Kept
  <2>8. \A c : HandleOk(c) => HandleOk(c)'
    BY <1>a DEF HandleOk
  <2>9. \A l \in Kinds : \A a : AnswerOk(l, a) => AnswerOk(l, a)'
    BY <1>a, <2>6 DEF AnswerOk
  <2>10. /\ \A c \in ToSet(upq') \cup ToSet(pendingUpload') : HandleOk(c)'
         /\ upq' \in Seq(Confirmable) /\ pendingUpload' \in Seq(Confirmable)
         /\ Len(pendingUpload') <= 1 /\ (npc' = "upload" => pendingUpload' # <<>>)
    BY <1>0, <2>8 DEF Holding
  <2>11. Holding'
    <3>1. CASE /\ pend' = [pend EXCEPT ![k] = IF res.out = Blocked THEN <<>>
                                              ELSE <<[item |-> item, handle |-> TRUE]>>]
               /\ conf' = [conf EXCEPT ![k] = <<>>]
      <4>1. PICK p : /\ pend' = [pend EXCEPT ![k] = p] /\ p \in Seq(Confirmable) /\ Len(p) <= 1
                     /\ \A c \in ToSet(p) : HandleOk(c)' /\ KindOf(c.item) = k
        <5>1. CASE res.out = Blocked
          <6>1. <<>> \in Seq(Confirmable) /\ Len(<<>>) <= 1 /\ ToSet(<<>>) = {}
            BY SetOfElements
          <6>2. pend' = [pend EXCEPT ![k] = <<>>]
            BY <3>1, <5>1
          <6> WITNESS <<>>
          <6> QED
            BY <6>1, <6>2
        <5>2. CASE res.out # Blocked
          <6> SUFFICES ASSUME NEW c, c = [item |-> item, handle |-> TRUE]
                       PROVE  /\ <<c>> \in Seq(Confirmable) /\ Len(<<c>>) <= 1
                              /\ \A d \in ToSet(<<c>>) : HandleOk(d)' /\ KindOf(d.item) = k
            BY <3>1, <5>2
          <6>1. c \in Confirmable /\ HandleOk(c)' /\ KindOf(c.item) = k
            BY <1>a, <2>5, <5>2 DEF Confirmable, HandleOk
          <6>2. <<c>> \in Seq(Confirmable) /\ ToSet(<<c>>) = {c} /\ Len(<<c>>) <= 1
            BY <6>1, OneElement, Zenon
          <6>3. \A d \in ToSet(<<c>>) : HandleOk(d)' /\ KindOf(d.item) = k
            BY <6>1, <6>2, Zenon
          <6> QED
            BY <6>2, <6>3, Zenon
        <5> QED
          BY <5>1, <5>2
      <4>2. /\ pend' \in [Kinds -> Seq(Confirmable)]
            /\ \A l \in Kinds : Len(pend'[l]) <= 1 /\ \A c \in ToSet(pend'[l]) : HandleOk(c)' /\ KindOf(c.item) = l
        BY <1>0, <2>8, <4>1 DEF Holding
      <4>3. /\ conf' \in [Kinds -> Seq(Answers)]
            /\ \A l \in Kinds : \A a \in ToSet(conf'[l]) : AnswerOk(l, a)'
        BY <1>0, <2>9, <3>1, SetOfElements DEF Holding
      <4> QED
        BY <2>10, <4>2, <4>3 DEF Holding
    <3>2. ASSUME NEW skip \in BOOLEAN, res.out # Blocked,
                 conf' = [conf EXCEPT ![k] = <<[item |-> item, ok |-> skip]>>],
                 excused' = IF skip THEN excused \cup {item} ELSE excused,
                 UNCHANGED pend
          PROVE  Holding'
      <4> SUFFICES ASSUME NEW b, b = [item |-> item, ok |-> skip] PROVE Holding'
        OBVIOUS
      <4>1. b \in Answers /\ AnswerOk(k, b)'
        BY <1>a, <2>5, <3>2 DEF Answers, AnswerOk, Cleared
      <4>2. <<b>> \in Seq(Answers) /\ ToSet(<<b>>) = {b}
        BY <4>1, OneElement
      <4>3. conf' = [conf EXCEPT ![k] = <<b>>]
        BY <3>2
      <4>4. conf' \in [Kinds -> Seq(Answers)]
        BY <1>0, <4>2, <4>3 DEF Holding
      <4>5. \A l \in Kinds : \A a \in ToSet(conf'[l]) : AnswerOk(l, a)'
        <5> TAKE l \in Kinds
        <5>1. CASE l = k
          <6>1. conf'[l] = <<b>>
            BY <1>0, <4>3, <5>1 DEF Holding
          <6> QED
            BY <4>1, <4>2, <5>1, <6>1
        <5>2. CASE l # k
          <6>1. conf'[l] = conf[l]
            BY <1>0, <4>3, <5>2 DEF Holding
          <6> QED
            BY <1>0, <2>9, <6>1 DEF Holding
        <5> QED
          BY <5>1, <5>2
      <4>6. /\ pend' \in [Kinds -> Seq(Confirmable)]
            /\ \A l \in Kinds : Len(pend'[l]) <= 1 /\ \A c \in ToSet(pend'[l]) : HandleOk(c)' /\ KindOf(c.item) = l
        BY <1>0, <2>8, <3>2 DEF Holding
      <4> QED
        BY <2>10, <4>4, <4>5, <4>6 DEF Holding
    <3> QED
      BY <1>2, <3>1, <3>2 DEF item
  <2> QED
    BY <1>0, <1>a, <2>6, <2>7, <2>11, WaysStay, PlacedStays
<1>3. \/ UNCHANGED <<queue, initialized, pend, conf, excused>>
      \/ \E q \in {Updated(queue[k], conf[k])} : \E res \in PeekNext(q, Len(stored[k])) :
           /\ queue' = [queue EXCEPT ![k] = res.q]
           /\ \/ /\ pend' = [pend EXCEPT ![k] =
                               IF res.out = Blocked THEN <<>>
                               ELSE <<[item |-> stored[k][res.out + 1], handle |-> TRUE]>>]
                 /\ conf' = [conf EXCEPT ![k] = <<>>]
                 /\ UNCHANGED excused
              \/ /\ res.out # Blocked
                 /\ \E skip \in BOOLEAN, item \in {stored[k][res.out + 1]} :
                      /\ conf' = [conf EXCEPT ![k] = <<[item |-> item, ok |-> skip]>>]
                      /\ excused' = IF skip THEN excused \cup {item} ELSE excused
                 /\ UNCHANGED pend
  BY Zenon DEF Peek
<1> QED
  BY <1>1, <1>2, <1>3, Zenon

-----------------------------------------------------------------------------
(* To the network task.                                                     *)

(* The smaller of two numbers.                                              *)
LEMMA MinOfTwo ==
  ASSUME NEW a \in Int, NEW b \in Int
  PROVE  Min({a, b}) \in {a, b} /\ Min({a, b}) <= a /\ Min({a, b}) <= b
<1>1. \E x \in {a, b} : \A y \in {a, b} : x <= y
  <2>1. CASE a <= b
    BY <2>1
  <2>2. CASE b <= a
    BY <2>2
  <2> QED
    BY <2>1, <2>2
<1> QED
  BY <1>1 DEF Min

(* A sequence of at most one element is empty or a single element.          *)
LEMMA AtMostOne ==
  ASSUME NEW S, NEW s \in Seq(S), Len(s) <= 1
  PROVE  s = <<>> \/ \E x \in S : s = <<x>>
<1>1. Len(s) \in Nat /\ (Len(s) = 0 \/ Len(s) = 1)
  BY LenProperties
<1>2. CASE Len(s) = 0
  BY <1>2, EmptySeq
<1>3. CASE Len(s) = 1
  <2>1. s[1] \in S
    BY <1>3, LenProperties
  <2>2. <<s[1]>> \in Seq(S) /\ Len(<<s[1]>>) = 1 /\ <<s[1]>>[1] = s[1]
    BY <2>1
  <2>3. s = <<s[1]>>
    BY <1>3, <2>2, SeqEqual
  <2> QED
    BY <2>1, <2>3
<1> QED
  BY <1>1, <1>2, <1>3

(* What goes into the upload channel: the event, the data, or both. *)
LEMMA TransmitLemma ==
  ASSUME Holding, Transmit
  PROVE  \/ \E c \in Confirmable :
              /\ pend["event"] = <<c>> /\ upq' = Append(upq, c)
              /\ pend' = [event |-> <<>>, data |-> pend["data"]]
         \/ \E c \in Confirmable :
              /\ pend["data"] = <<c>> /\ upq' = Append(upq, c)
              /\ pend["event"] = <<>> /\ pend' = [event |-> <<>>, data |-> <<>>]
         \/ \E c, d \in Confirmable :
              /\ pend["event"] = <<c>> /\ pend["data"] = <<d>>
              /\ upq' = Append(Append(upq, c), d)
              /\ pend' = [event |-> <<>>, data |-> <<>>]
<1> DEFINE n == Min({Len(Pending), Room})
<1>1. /\ n > 0 /\ upq' = upq \o SubSeq(Pending, 1, n)
      /\ pend' = [event |-> <<>>, data |-> IF n = Len(Pending) THEN <<>> ELSE pend["data"]]
  BY DEF Transmit
<1>2. /\ pend["event"] \in Seq(Confirmable) /\ Len(pend["event"]) <= 1
      /\ pend["data"] \in Seq(Confirmable) /\ Len(pend["data"]) <= 1
      /\ upq \in Seq(Confirmable)
  BY KindLemma DEF Holding
<1>3. Len(Pending) \in Int /\ Room \in Int
  BY <1>2, DispatchAssumption DEF Pending, Room
<1>4. n <= Len(Pending) /\ n \in Int
  BY <1>3, MinOfTwo
<1> HIDE DEF n
<1> DEFINE e == pend["event"]
           d == pend["data"]
<1>5. e \o d \in Seq(Confirmable) /\ Pending = e \o d /\ Len(Pending) = Len(e) + Len(d)
  BY <1>2, ConcatProperties DEF Pending
<1>8. /\ e \in Seq(Confirmable) /\ Len(e) <= 1 /\ d \in Seq(Confirmable) /\ Len(d) <= 1
  BY <1>2 DEF e, d
<1>0. pend' = [event |-> <<>>, data |-> IF n = Len(Pending) THEN <<>> ELSE d]
  BY <1>1
<1> HIDE DEF e, d
<1>6. \/ upq' = upq \o (e \o d) /\ pend' = [event |-> <<>>, data |-> <<>>] /\ Len(e) + Len(d) > 0
      \/ upq' = upq \o e /\ pend' = [event |-> <<>>, data |-> d] /\ Len(e) = 1
  <2>1. CASE n = Len(Pending)
    <3>1. SubSeq(Pending, 1, n) = e \o d
      BY <1>5, <2>1, SubSeqFull
    <3> QED
      BY <1>0, <1>1, <1>5, <2>1, <3>1
  <2>2. CASE n # Len(Pending)
    <3>1. Len(e) \in Nat /\ Len(d) \in Nat
      BY <1>8, LenProperties
    <3>2. n = 1 /\ Len(e) = 1
      <4>1. n > 0 /\ n < Len(e) + Len(d) /\ n \in Int
        BY <1>1, <1>3, <1>4, <1>5, <2>2
      <4> SUFFICES ASSUME NEW x \in Nat, NEW y \in Nat, NEW z \in Int, x <= 1, y <= 1, z > 0, z < x + y
                   PROVE  z = 1 /\ x = 1
        BY <1>8, <3>1, <4>1
      <4> QED
        OBVIOUS
    <3>3. 1 \in 1 .. Len(e)
      BY <3>2
    <3>4. SubSeq(e \o d, 1, 1) = SubSeq(e, 1, 1)
      BY <1>8, <3>3, SubSeqOfConcat1
    <3>5. SubSeq(e, 1, 1) = e
      BY <1>8, <3>2, SubSeqFull
    <3> QED
      BY <1>0, <1>1, <1>5, <2>2, <3>2, <3>4, <3>5
  <2> QED
    BY <2>1, <2>2
<1>7. ASSUME NEW c \in Confirmable PROVE upq \o <<c>> = Append(upq, c) /\ <<c>> \in Seq(Confirmable)
  BY <1>2, AppendIsConcat, OneElement
<1>9. CASE e = <<>> /\ d = <<>>
  BY <1>6, <1>9
<1>10. ASSUME NEW c \in Confirmable, e = <<>>, d = <<c>>
       PROVE  upq' = Append(upq, c) /\ pend' = [event |-> <<>>, data |-> <<>>]
  <2>1. e \o d = <<c>> /\ Len(e) = 0
    BY <1>7, <1>10, ConcatEmptySeq
  <2> QED
    BY <1>6, <1>7, <2>1
<1>11. ASSUME NEW c \in Confirmable, e = <<c>>, d = <<>>
       PROVE  upq' = Append(upq, c) /\ pend' = [event |-> <<>>, data |-> d]
  <2>1. e \o d = <<c>>
    BY <1>7, <1>11, ConcatEmptySeq
  <2> QED
    BY <1>6, <1>7, <1>11, <2>1
<1>12. ASSUME NEW c \in Confirmable, NEW b \in Confirmable, e = <<c>>, d = <<b>>
       PROVE  \/ upq' = Append(upq, c) /\ pend' = [event |-> <<>>, data |-> d]
              \/ upq' = Append(Append(upq, c), b) /\ pend' = [event |-> <<>>, data |-> <<>>]
  <2>1. upq \o (e \o d) = (upq \o <<c>>) \o <<b>>
    BY <1>2, <1>7, <1>12, ConcatAssociative
  <2>2. (upq \o <<c>>) \o <<b>> = Append(Append(upq, c), b)
    BY <1>2, <1>7, AppendIsConcat, AppendProperties
  <2> QED
    BY <1>6, <1>7, <1>12, <2>1, <2>2
<1> QED
  BY <1>8, <1>9, <1>10, <1>11, <1>12, AtMostOne DEF e, d

(* Passing uploads to the network task keeps them held.                     *)
LEMMA TransmitStep ==
  ASSUME Holding, Transmit, UNCHANGED netvars
  PROVE  Holding'
<1>1. /\ pend \in [Kinds -> Seq(Confirmable)] /\ upq \in Seq(Confirmable)
      /\ "event" \in Kinds /\ "data" \in Kinds
      /\ \A k \in Kinds, c \in Confirmable : pend[k] = <<c>> => HandleOk(c)
  <2>1. \A k \in Kinds, c \in Confirmable : pend[k] = <<c>> => ToSet(pend[k]) = {c}
    BY OneElement
  <2> QED
    BY <2>1, KindLemma DEF Holding
<1>2. \A c : HandleOk(c)' <=> HandleOk(c)
  BY DEF Transmit, store, HandleOk, StoredOf
<1>3. \A k, a : AnswerOk(k, a)' <=> AnswerOk(k, a)
  BY DEF Transmit, store, netvars, AnswerOk, StoredOf, Cleared
<1>4. UNCHANGED <<conf, pendingUpload, npc>>
  BY DEF Transmit, netvars
<1> DEFINE Rest(d) == /\ d \in Seq(Confirmable) /\ Len(d) <= 1
                      /\ \A c \in ToSet(d) : HandleOk(c) /\ KindOf(c.item) = "data"
           Moved == /\ upq' \in Seq(Confirmable) /\ \A c \in ToSet(upq') : HandleOk(c)
                    /\ \E d : pend' = [event |-> <<>>, data |-> d] /\ Rest(d)
<1>5. Moved
  <2>1. /\ <<>> \in Seq(Confirmable) /\ Len(<<>>) <= 1 /\ ToSet(<<>>) = {}
    BY SetOfElements
  <2>2. /\ pend["data"] \in Seq(Confirmable) /\ Len(pend["data"]) <= 1
        /\ \A c \in ToSet(pend["data"]) : HandleOk(c) /\ KindOf(c.item) = "data"
    BY <1>1 DEF Holding
  <2>3. /\ \A c \in ToSet(upq) : HandleOk(c)
        /\ \A s \in Seq(Confirmable), c \in Confirmable :
             Append(s, c) \in Seq(Confirmable) /\ ToSet(Append(s, c)) = ToSet(s) \cup {c}
    BY AppendElements DEF Holding
  <2>4. ASSUME NEW c \in Confirmable, pend["event"] = <<c>>, upq' = Append(upq, c),
               pend' = [event |-> <<>>, data |-> pend["data"]]
        PROVE  Moved
    <3>1. upq' \in Seq(Confirmable) /\ ToSet(upq') = ToSet(upq) \cup {c} /\ HandleOk(c)
      BY <1>1, <2>3, <2>4
    <3> QED
      BY <2>2, <2>3, <2>4, <3>1
  <2>5. ASSUME NEW c \in Confirmable, pend["data"] = <<c>>, upq' = Append(upq, c),
               pend' = [event |-> <<>>, data |-> <<>>]
        PROVE  Moved
    <3>1. upq' \in Seq(Confirmable) /\ ToSet(upq') = ToSet(upq) \cup {c} /\ HandleOk(c)
      BY <1>1, <2>3, <2>5
    <3> QED
      BY <2>1, <2>3, <2>5, <3>1
  <2>6. ASSUME NEW c \in Confirmable, NEW d \in Confirmable, pend["event"] = <<c>>, pend["data"] = <<d>>,
               upq' = Append(Append(upq, c), d), pend' = [event |-> <<>>, data |-> <<>>]
        PROVE  Moved
    <3>1. /\ upq' \in Seq(Confirmable) /\ ToSet(upq') = ToSet(upq) \cup {c} \cup {d}
          /\ HandleOk(c) /\ HandleOk(d)
      BY ZenonT(30), <1>1, <2>3, <2>6
    <3> QED
      BY <2>1, <2>3, <2>6, <3>1
  <2> QED
    BY <2>4, <2>5, <2>6, TransmitLemma
<1>6. PICK d : pend' = [event |-> <<>>, data |-> d] /\ Rest(d)
  BY <1>5
<1> HIDE DEF Rest, Moved
<1>7. pend' \in [Kinds -> Seq(Confirmable)] /\ pend'["event"] = <<>> /\ pend'["data"] = d
  <2>1. <<>> \in Seq(Confirmable) /\ d \in Seq(Confirmable)
    BY <1>6, EmptySeq DEF Rest
  <2> QED
    BY <1>6, <2>1, PerKind, Zenon
<1>8. \A k \in Kinds : /\ Len(pend'[k]) <= 1
                       /\ \A c \in ToSet(pend'[k]) : HandleOk(c) /\ KindOf(c.item) = k
  <2>1. Len(<<>>) <= 1 /\ ToSet(<<>>) = {}
    BY SetOfElements
  <2>2. \A k \in Kinds : k = "event" \/ k = "data"
    BY KindLemma
  <2> QED
    BY <1>6, <1>7, <2>1, <2>2, Zenon DEF Rest
<1> QED
  BY <1>2, <1>3, <1>4, <1>5, <1>7, <1>8 DEF Holding, Moved

-----------------------------------------------------------------------------
(* Answers are processed.                                                   *)

(* Processing some of the answers keeps the parts about the store.          *)
LEMMA UpdateStep ==
  ASSUME UploadInv, UNCHANGED <<ins, stored, handed, excused, delivered, pend, upq, pendingUpload, npc>>,
         queue' = [k \in Kinds |-> queue'[k]], conf' \in [Kinds -> Seq(Answers)],
         \A k \in Kinds :
           /\ ToSet(conf'[k]) \subseteq ToSet(conf[k])
           /\ \/ queue'[k] = queue[k]
              \/ \E as : ToSet(as) \subseteq ToSet(conf[k]) /\ queue'[k] = Updated(queue[k], as)
  PROVE  Ways' /\ Placed' /\ Holding' /\ Kept'
<1>0. Ways /\ Placed /\ Holding /\ Kept
  BY DEF UploadInv
<1>1. /\ UNCHANGED <<eventIn, rawIn, buffered, stored, handed>> /\ \A l : StoredOf(l)' = StoredOf(l)
      /\ Cleared' = Cleared
  BY DEF ins, StoredOf, Cleared
<1>2. Ways' /\ Placed'
  BY <1>0, <1>1, WaysStay, PlacedStays
<1>3. Holding'
  <2>1. \A c : HandleOk(c)' <=> HandleOk(c)
    BY <1>1 DEF HandleOk
  <2>2. \A k, a : AnswerOk(k, a)' <=> AnswerOk(k, a)
    BY <1>1 DEF AnswerOk
  <2> QED
    BY <1>0, <2>1, <2>2 DEF Holding
<1>4. Kept'
  <2>1. ASSUME NEW k \in Kinds PROVE queue'[k] \in QueueType /\ KeptIn(k)'
    <3>1. KeptIn(k) /\ queue[k] \in QueueType
      BY <1>0 DEF Kept
    <3>2. CASE queue'[k] = queue[k]
      BY <1>1, <3>1, <3>2 DEF KeptIn
    <3>3. ASSUME NEW as, ToSet(as) \subseteq ToSet(conf[k]), queue'[k] = Updated(queue[k], as)
          PROVE  queue'[k] \in QueueType /\ KeptIn(k)'
      <4> DEFINE r == Updated(queue[k], as)
      <4>1. /\ QueueOk(r, Len(stored[k]))
            /\ \A n \in 0 .. Len(stored[k]) - 1 : stored[k][n + 1] \in Cleared \/ Keeps(r, n)
        BY <1>0, <3>1, <3>3, UpdateKeeps
      <4> HIDE DEF r
      <4>2. queue'[k] = r
        BY <3>3 DEF r
      <4> QED
        BY <1>1, <4>1, <4>2 DEF KeptIn, QueueOk
    <3> QED
      BY <3>2, <3>3
  <2> QED
    BY <2>1 DEF Kept
<1> QED
  BY <1>2, <1>3, <1>4

(* wait_confirmation keeps the parts about the store.                       *)
LEMMA WaitConfirmationStep ==
  ASSUME UploadInv, WaitConfirmation, UNCHANGED netvars
  PROVE  Ways' /\ Placed' /\ Holding' /\ Kept'
<1>1. PICK k \in Kinds : /\ conf[k] # <<>>
                         /\ queue' = [queue EXCEPT ![k] = Updated(@, <<Head(conf[k])>>)]
                         /\ conf' = [conf EXCEPT ![k] = Tail(@)]
  BY DEF WaitConfirmation
<1>2. conf \in [Kinds -> Seq(Answers)] /\ queue \in [Kinds -> QueueType]
  BY DEF UploadInv, Holding, Kept
<1>3. /\ Tail(conf[k]) \in Seq(Answers) /\ ToSet(Tail(conf[k])) \subseteq ToSet(conf[k])
      /\ Head(conf[k]) \in ToSet(conf[k])
  BY <1>1, <1>2, TailElements
<1>4. ToSet(<<Head(conf[k])>>) \subseteq ToSet(conf[k])
  BY <1>3, SetOfElements
<1>5. conf' \in [Kinds -> Seq(Answers)] /\ queue' = [l \in Kinds |-> queue'[l]]
  BY <1>1, <1>2, <1>3
<1>6. \A l \in Kinds :
        /\ ToSet(conf'[l]) \subseteq ToSet(conf[l])
        /\ \/ queue'[l] = queue[l]
           \/ \E as : ToSet(as) \subseteq ToSet(conf[l]) /\ queue'[l] = Updated(queue[l], as)
  <2> TAKE l \in Kinds
  <2>1. CASE l = k
    BY <1>1, <1>2, <1>3, <1>4, <2>1
  <2>2. CASE l # k
    BY <1>1, <1>2, <2>2
  <2> QED
    BY <2>1, <2>2
<1> QED
  BY <1>5, <1>6, UpdateStep DEF WaitConfirmation, netvars, history

(* The check of the barrier keeps the parts about the store.                *)
LEMMA CheckDrainedStep ==
  ASSUME UploadInv, CheckDrained, UNCHANGED netvars
  PROVE  Ways' /\ Placed' /\ Holding' /\ Kept'
<1> DEFINE qs == [k \in Kinds |-> Updated(queue[k], conf[k])]
           seen == IF DrainedStream("event", qs["event"]) THEN Kinds ELSE {"event"}
<1>1. conf \in [Kinds -> Seq(Answers)] /\ queue \in [Kinds -> QueueType]
  BY DEF UploadInv, Holding, Kept
<1>2. \/ /\ queue' = [k \in Kinds |-> IF k \in seen THEN qs[k] ELSE queue[k]]
         /\ conf' = [k \in Kinds |-> IF k \in seen THEN <<>> ELSE conf[k]]
      \/ UNCHANGED <<queue, conf>>
  BY Zenon DEF CheckDrained
<1> HIDE DEF seen
<1>3. \A k \in Kinds : qs[k] = Updated(queue[k], conf[k])
  OBVIOUS
<1> HIDE DEF qs
<1>4. conf' \in [Kinds -> Seq(Answers)] /\ queue' = [k \in Kinds |-> queue'[k]]
  <2>1. <<>> \in Seq(Answers)
    BY EmptySeq
  <2>2. CASE UNCHANGED <<queue, conf>>
    BY <1>1, <2>2
  <2>3. CASE /\ queue' = [k \in Kinds |-> IF k \in seen THEN qs[k] ELSE queue[k]]
             /\ conf' = [k \in Kinds |-> IF k \in seen THEN <<>> ELSE conf[k]]
    BY <1>1, <2>1, <2>3
  <2> QED
    BY <1>2, <2>2, <2>3
<1>5. \A k \in Kinds :
        /\ ToSet(conf'[k]) \subseteq ToSet(conf[k])
        /\ \/ queue'[k] = queue[k]
           \/ \E as : ToSet(as) \subseteq ToSet(conf[k]) /\ queue'[k] = Updated(queue[k], as)
  BY <1>1, <1>2, <1>3, SetOfElements
<1> QED
  BY <1>4, <1>5, UpdateStep DEF CheckDrained, netvars

-----------------------------------------------------------------------------
(* The network task.                                                        *)

(* What it does with the uploads: it takes one, delivers and confirms it, delivers *)
(* it though the connection breaks, or drops it in the end.                        *)
LEMMA NetworkLemma ==
  ASSUME NetworkStep \/ Restart
  PROVE  \/ /\ UNCHANGED <<upq, pendingUpload, conf, delivered>>
            /\ npc' = "upload" => pendingUpload # <<>>
         \/ /\ upq # <<>> /\ pendingUpload = <<>>
            /\ pendingUpload' = <<Head(upq)>> /\ upq' = Tail(upq) /\ UNCHANGED <<conf, delivered>>
         \/ /\ npc = "upload" /\ npc' = "serve"
            /\ delivered' = delivered \cup {Head(pendingUpload).item}
            /\ conf' = Confirmed /\ pendingUpload' = <<>> /\ UNCHANGED upq
         \/ /\ UNCHANGED <<upq, pendingUpload, conf>> /\ delivered \subseteq delivered' /\ npc' = "decide"
         \/ /\ conf' = Dropped /\ pendingUpload' = <<>> /\ UNCHANGED <<upq, delivered>>
            /\ npc' = "ended"
<1>1. CASE Restart
  BY <1>1 DEF Restart, Net!StartTask
<1>2. ASSUME Net!NetworkStep(Confirmed, Dropped)
      PROVE  \/ Net!Connect \/ Net!ConnectFails \/ Net!ConnectTimeout
             \/ Net!OpRead \/ Net!ReadDisconnected \/ Net!Stop \/ Net!ReceiveUpload \/ Net!RetryUpload
             \/ Net!DisconnectHint \/ Net!SendInfo \/ Net!SetTimeout \/ Net!DownloadUpdate \/ Net!Drained
             \/ Net!UploadOk(Confirmed) \/ Net!UploadFails \/ Net!UploadUnserializable
             \/ Net!Decide(Dropped) \/ Net!Delay
  BY <1>2 DEF Net!NetworkStep
<1>3. CASE Net!Connect
  BY <1>3 DEF Net!Connect, Net!task
<1>4. CASE Net!ConnectFails
  BY <1>4 DEF Net!ConnectFails, Net!task
<1>5. CASE Net!ConnectTimeout
  BY <1>5 DEF Net!ConnectTimeout, Net!task
<1>6. CASE Net!OpRead
  BY <1>6 DEF Net!OpRead, Net!nvars, Net!Selecting
<1>7. CASE Net!ReadDisconnected
  BY <1>7 DEF Net!ReadDisconnected, Net!task, Net!Leave
<1>8. CASE Net!Stop
  BY <1>8 DEF Net!Stop, Net!task, Net!Leave
<1>9. CASE Net!ReceiveUpload
  BY <1>9 DEF Net!ReceiveUpload, Net!Selecting
<1>10. CASE Net!RetryUpload
  BY <1>10 DEF Net!RetryUpload, Net!task
<1>11. CASE Net!DisconnectHint
  BY <1>11 DEF Net!DisconnectHint, Net!ActionTaken
<1>12. CASE Net!SendInfo
  BY <1>12 DEF Net!SendInfo, Net!ActionTaken, Net!Leave
<1>13. CASE Net!SetTimeout
  BY <1>13 DEF Net!SetTimeout, Net!ActionTaken
<1>14. CASE Net!DownloadUpdate
  BY <1>14 DEF Net!DownloadUpdate, Net!ActionTaken, Net!Leave
<1>15. CASE Net!Drained
  BY <1>15 DEF Net!Drained, Net!task, Net!Leave
<1>16. CASE Net!UploadOk(Confirmed)
  BY <1>16 DEF Net!UploadOk
<1>17. CASE Net!UploadFails
  BY <1>17 DEF Net!UploadFails, Net!Leave
<1>18. CASE Net!UploadUnserializable
  BY <1>18 DEF Net!UploadUnserializable, Net!task
<1>19. CASE Net!Decide(Dropped)
  BY <1>19 DEF Net!Decide, Net!ReturnTask
<1>20. CASE Net!Delay
  BY <1>20 DEF Net!Delay
<1> QED
  BY <1>1, <1>2, <1>3, <1>4, <1>5, <1>6, <1>7, <1>8, <1>9, <1>10, <1>11, <1>12, <1>13, <1>14, <1>15,
     <1>16, <1>17, <1>18, <1>19, <1>20 DEF NetworkStep

(* The steps of the network task, and a restart, keep every part.           *)
LEMMA NetworkKeeps ==
  ASSUME UploadInv, NetworkStep \/ Restart
  PROVE  Ways' /\ Placed' /\ Holding' /\ Kept' /\ Covering'
<1>0. Ways /\ Placed /\ Holding /\ Kept /\ Covering
  BY DEF UploadInv
<1>1. UNCHANGED dvars
  BY DEF NetworkStep, Restart
<1>2. /\ UNCHANGED <<eventIn, rawIn, buffered, stored, handed, queue, pend, excused>>
      /\ UNCHANGED <<asked, covered, dpc>> /\ \A l : StoredOf(l)' = StoredOf(l)
  BY <1>1 DEF dvars, StoredOf
<1>3. delivered \subseteq delivered'
  BY NetworkLemma, Zenon
<1>4. Cleared \subseteq Cleared'
  BY <1>2, <1>3 DEF Cleared
<1>5. Ways' /\ Placed' /\ Kept' /\ Covering'
  BY <1>0, <1>2, <1>4, WaysStay, PlacedStays, KeptGrows DEF Covering
<1>6. Holding'
  <2>1. \A c : HandleOk(c)' <=> HandleOk(c)
    BY <1>2 DEF HandleOk
  <2>2. \A k, a : AnswerOk(k, a) => AnswerOk(k, a)'
    BY <1>2, <1>4 DEF AnswerOk
  <2>3. /\ upq \in Seq(Confirmable) /\ pendingUpload \in Seq(Confirmable) /\ Len(pendingUpload) <= 1
        /\ conf \in [Kinds -> Seq(Answers)]
        /\ \A c \in ToSet(upq) \cup ToSet(pendingUpload) : HandleOk(c)
        /\ \A k \in Kinds : \A a \in ToSet(conf[k]) : AnswerOk(k, a)'
    BY <1>0, <2>2 DEF Holding
  <2>4. /\ pend' \in [Kinds -> Seq(Confirmable)]
        /\ \A k \in Kinds : Len(pend'[k]) <= 1 /\ \A c \in ToSet(pend'[k]) : HandleOk(c)' /\ KindOf(c.item) = k
    BY <1>0, <1>2, <2>1 DEF Holding
  <2>5. <<>> \in Seq(Confirmable) /\ Len(<<>>) <= 1 /\ ToSet(<<>>) = {}
    BY SetOfElements
  <2>6. CASE UNCHANGED <<upq, pendingUpload, conf>> /\ (npc' = "upload" => pendingUpload # <<>>)
    BY <2>1, <2>3, <2>4, <2>6 DEF Holding
  <2>7. CASE /\ upq # <<>> /\ pendingUpload' = <<Head(upq)>> /\ upq' = Tail(upq) /\ UNCHANGED conf
    <3>1. /\ Head(upq) \in Confirmable /\ Head(upq) \in ToSet(upq) /\ Tail(upq) \in Seq(Confirmable)
          /\ ToSet(Tail(upq)) \subseteq ToSet(upq)
      BY <2>3, <2>7, TailElements
    <3>2. /\ <<Head(upq)>> \in Seq(Confirmable) /\ ToSet(<<Head(upq)>>) = {Head(upq)}
          /\ Len(<<Head(upq)>>) <= 1 /\ <<Head(upq)>> # <<>>
      BY <3>1, OneElement
    <3>3. /\ pendingUpload' \in Seq(Confirmable) /\ Len(pendingUpload') <= 1 /\ pendingUpload' # <<>>
          /\ upq' \in Seq(Confirmable) /\ \A c \in ToSet(upq') \cup ToSet(pendingUpload') : HandleOk(c)
      BY <2>3, <2>7, <3>1, <3>2, Zenon
    <3> QED
      BY <2>1, <2>3, <2>4, <2>7, <3>3 DEF Holding
  <2>8. ASSUME NEW ok \in BOOLEAN, UNCHANGED upq, pendingUpload' = <<>>, npc' # "upload",
               conf' = IF pendingUpload = <<>> THEN conf ELSE Answered(Head(pendingUpload), ok),
               ok => pendingUpload # <<>> /\ Head(pendingUpload).item \in Cleared'
        PROVE  Holding'
    <3>1. /\ conf' \in [Kinds -> Seq(Answers)]
          /\ \A k \in Kinds : \A a \in ToSet(conf'[k]) : AnswerOk(k, a)'
      <4>1. CASE pendingUpload = <<>>
        BY <2>3, <2>8, <4>1
      <4>2. CASE pendingUpload # <<>>
        <5>1. HandleOk(Head(pendingUpload))
          BY <2>3, <4>2, TailElements
        <5>2. conf' = Answered(Head(pendingUpload), ok)
          BY <2>8, <4>2
        <5> QED
          BY <1>0, <1>2, <1>4, <2>8, <5>1, <5>2, AnswersOk
      <4> QED
        BY <4>1, <4>2
    <3>2. /\ pendingUpload' \in Seq(Confirmable) /\ Len(pendingUpload') <= 1
          /\ \A c \in ToSet(upq') \cup ToSet(pendingUpload') : HandleOk(c)
      BY <2>3, <2>5, <2>8, Zenon
    <3> QED
      BY <2>1, <2>3, <2>4, <2>8, <3>1, <3>2 DEF Holding
  <2>9. CASE /\ npc = "upload" /\ npc' = "serve" /\ delivered' = delivered \cup {Head(pendingUpload).item}
             /\ conf' = Confirmed /\ pendingUpload' = <<>> /\ UNCHANGED upq
    <3>1. pendingUpload # <<>> /\ Head(pendingUpload).item \in Cleared'
      BY <1>0, <2>9 DEF Holding, Cleared
    <3> QED
      BY <2>8, <2>9, <3>1 DEF Confirmed
  <2>10. CASE conf' = Dropped /\ pendingUpload' = <<>> /\ UNCHANGED <<upq, delivered>> /\ npc' = "ended"
    BY <2>8, <2>10 DEF Dropped
  <2> QED
    BY <2>6, <2>7, <2>9, <2>10, NetworkLemma
<1> QED
  BY <1>5, <1>6

-----------------------------------------------------------------------------
(* The steps of the dispatch task and of the rest of the firmware.          *)

(* next_packet takes a sample into the buffer. *)
LEMMA ReceiveRawStep ==
  ASSUME UploadInv, ReceiveRaw, UNCHANGED netvars
  PROVE  Ways' /\ Placed' /\ Holding' /\ Kept'
<1>0. Ways /\ Placed /\ Holding /\ Kept
  BY DEF UploadInv
<1> DEFINE i == Head(rawIn)
<1>1. /\ rawIn # <<>> /\ rawIn' = Tail(rawIn) /\ buffered' = Append(buffered, i)
      /\ UNCHANGED <<eventIn, stored, handed, queue, pend, conf, upq, pendingUpload, npc, excused, delivered>>
      /\ Cleared' = Cleared /\ \A l : StoredOf(l)' = StoredOf(l)
  BY DEF ReceiveRaw, store, history, netvars, Cleared, StoredOf
<1>2. /\ i \in Data /\ i \in ToSet(rawIn) /\ rawIn' \in Seq(Data)
      /\ ToSet(rawIn) = {i} \cup ToSet(rawIn') /\ Distinct(rawIn') /\ i \notin ToSet(rawIn')
  BY <1>0, <1>1, TailElements DEF Ways
<1>3. i \notin ToSet(buffered) /\ i \notin StoredOf("data")
  BY <1>0, <1>2 DEF Ways
<1> HIDE DEF i
<1>4. /\ buffered' \in Seq(Data) /\ ToSet(buffered') = ToSet(buffered) \cup {i} /\ Distinct(buffered')
  BY <1>0, <1>1, <1>2, <1>3, AppendElements DEF Ways
<1>5. Ways'
  <2>1. /\ ToSet(rawIn') \cap (ToSet(buffered') \cup StoredOf("data")) = {}
        /\ ToSet(buffered') \cap StoredOf("data") = {}
        /\ ToSet(eventIn) \cup ToSet(rawIn') \cup ToSet(buffered') \subseteq handed
    BY <1>0, <1>2, <1>3, <1>4 DEF Ways
  <2> QED
    BY <1>0, <1>1, <1>2, <1>4, <2>1 DEF Ways
<1>6. Placed'
  BY <1>0, <1>1, <1>2, <1>4 DEF Placed
<1>7. Holding' /\ Kept'
  BY <1>0, <1>1, HoldingGrows, KeptGrows DEF Holding
<1> QED
  BY <1>5, <1>6, <1>7

(* What cannot be serialized is dropped. *)
LEMMA ReceiveFailsStep ==
  ASSUME UploadInv, ReceiveFails, UNCHANGED netvars
  PROVE  Ways' /\ Placed' /\ Holding' /\ Kept'
<1>0. Ways /\ Placed /\ Holding /\ Kept
  BY DEF UploadInv
<1>1. /\ UNCHANGED <<buffered, stored, handed, queue, pend, conf, upq, pendingUpload, npc, delivered>>
      /\ \A l : StoredOf(l)' = StoredOf(l)
  BY DEF ReceiveFails, store, history, netvars, StoredOf
<1>2. PICK i : Taken(i) /\ excused' = excused \cup {i}
  <2>1. CASE eventIn # <<>> /\ eventIn' = Tail(eventIn) /\ excused' = excused \cup {Head(eventIn)} /\ UNCHANGED rawIn
    BY <1>0, <1>1, <2>1, TakenEvent
  <2>2. CASE rawIn # <<>> /\ rawIn' = Tail(rawIn) /\ excused' = excused \cup {Head(rawIn)} /\ UNCHANGED eventIn
    BY <1>0, <1>1, <2>2, TakenRaw
  <2> QED
    BY <2>1, <2>2 DEF ReceiveFails
<1>3. Cleared' = Cleared \cup {i}
  BY <1>1, <1>2 DEF Cleared
<1>4. Ways'
  BY <1>0, <1>1, <1>2 DEF Ways, Taken
<1>5. Placed'
  BY <1>0, <1>1, <1>2, <1>3 DEF Placed, Taken
<1>6. Holding' /\ Kept'
  BY <1>0, <1>1, <1>3, HoldingGrows, KeptGrows DEF Holding
<1> QED
  BY <1>4, <1>5, <1>6

(* An item is handed over. *)
LEMMA HandStep ==
  ASSUME UploadInv, NEW i \in Items, Hand(i), UNCHANGED netvars
  PROVE  Ways' /\ Placed' /\ Holding' /\ Kept'
<1>0. Ways /\ Placed /\ Holding /\ Kept
  BY DEF UploadInv
<1>1. /\ UNCHANGED <<buffered, stored, queue, pend, conf, upq, pendingUpload, npc, delivered, excused>>
      /\ i \notin handed /\ handed' = handed \cup {i}
      /\ Cleared' = Cleared /\ \A l : StoredOf(l)' = StoredOf(l)
  BY DEF Hand, store, netvars, StoredOf, Cleared
<1>2. Holding' /\ Kept'
  BY <1>0, <1>1, HoldingGrows, KeptGrows DEF Holding
<1>3. /\ i \notin ToSet(eventIn) \cup ToSet(rawIn) \cup ToSet(buffered)
      /\ \A k \in Kinds : i \notin StoredOf(k)
  BY <1>0, <1>1 DEF Ways
<1>4. CASE i \in Events
  <2>1. eventIn' = Append(eventIn, i) /\ UNCHANGED rawIn
    BY <1>4 DEF Hand
  <2>2. /\ eventIn' \in Seq(Events) /\ ToSet(eventIn') = ToSet(eventIn) \cup {i} /\ Distinct(eventIn')
    BY <1>0, <1>3, <1>4, <2>1, AppendElements DEF Ways
  <2>3. Ways'
    BY <1>0, <1>1, <1>3, <2>1, <2>2, KindLemma DEF Ways
  <2>4. Placed'
    BY <1>0, <1>1, <2>1, <2>2 DEF Placed
  <2> QED
    BY <1>2, <2>3, <2>4
<1>5. CASE i \notin Events
  <2>1. rawIn' = Append(rawIn, i) /\ UNCHANGED eventIn /\ i \in Data
    BY <1>5 DEF Hand, Items
  <2>2. /\ rawIn' \in Seq(Data) /\ ToSet(rawIn') = ToSet(rawIn) \cup {i} /\ Distinct(rawIn')
    BY <1>0, <1>3, <2>1, AppendElements DEF Ways
  <2>3. Ways'
    BY <1>0, <1>1, <1>3, <2>1, <2>2, KindLemma DEF Ways
  <2>4. Placed'
    BY <1>0, <1>1, <2>1, <2>2 DEF Placed
  <2> QED
    BY <1>2, <2>3, <2>4
<1> QED
  BY <1>4, <1>5

(* A barrier covers what it covered while nothing but its queues gets shorter. *)
LEMMA CoveringStays ==
  ASSUME Covering, UNCHANGED <<asked, covered, handed>>,
         ToSet(eventIn') \subseteq ToSet(eventIn), ToSet(rawIn') \subseteq ToSet(rawIn),
         dpc' = "drain" => buffered' = <<>>
  PROVE  Covering'
BY DEF Covering

(* The steps of the dispatch task and its clients keep barriers covered.    *)
LEMMA CoveringStep ==
  ASSUME UploadInv, Task \/ Environment, UNCHANGED netvars
  PROVE  Covering'
<1>0. Ways /\ Covering
  BY DEF UploadInv
<1>1. CASE PeekEvent
  BY <1>0, <1>1, CoveringStays DEF PeekEvent, ins, history
<1>2. CASE PeekSensorData
  <2>1. dpc' = "drain" => buffered = <<>>
    BY <1>2 DEF PeekSensorData, AfterPeek
  <2> QED
    BY <1>0, <1>2, <2>1, CoveringStays DEF PeekSensorData, ins, history
<1>3. CASE Flush
  BY <1>0, <1>3, CoveringStays DEF Flush, history
<1>4. CASE CheckDrained
  <2>1. covered' \in {covered, {}}
    BY <1>4, Zenon DEF CheckDrained
  <2>2. UNCHANGED <<ins, handed, asked>> /\ dpc' = "select"
    BY <1>4, Zenon DEF CheckDrained
  <2> QED
    BY <1>0, <2>1, <2>2 DEF Covering, ins
<1>5. CASE ReceiveEvent
  <2>1. ToSet(eventIn') \subseteq ToSet(eventIn)
    BY <1>0, <1>5, TailElements DEF ReceiveEvent, Ways
  <2> QED
    BY <1>0, <1>5, <2>1, CoveringStays DEF ReceiveEvent, history
<1>6. CASE ReceiveFails
  <2>1. ToSet(eventIn') \subseteq ToSet(eventIn) /\ ToSet(rawIn') \subseteq ToSet(rawIn)
    <3>1. CASE eventIn # <<>> /\ eventIn' = Tail(eventIn) /\ UNCHANGED rawIn
      <4>1. ToSet(Tail(eventIn)) \subseteq ToSet(eventIn)
        BY <1>0, <3>1, TailElements DEF Ways
      <4> QED
        BY <3>1, <4>1
    <3>2. CASE rawIn # <<>> /\ rawIn' = Tail(rawIn) /\ UNCHANGED eventIn
      <4>1. ToSet(Tail(rawIn)) \subseteq ToSet(rawIn)
        BY <1>0, <3>2, TailElements DEF Ways
      <4> QED
        BY <3>2, <4>1
    <3> QED
      BY <1>6, <3>1, <3>2 DEF ReceiveFails
  <2> QED
    BY <1>0, <1>6, <2>1, CoveringStays DEF ReceiveFails, history
<1>7. CASE ReceiveRaw
  <2>1. ToSet(rawIn') \subseteq ToSet(rawIn)
    BY <1>0, <1>7, TailElements DEF ReceiveRaw, Ways
  <2> QED
    BY <1>0, <1>7, <2>1, CoveringStays DEF ReceiveRaw, history
<1>8. CASE ReceivePacket
  BY <1>0, <1>8, CoveringStays DEF ReceivePacket, history
<1>9. CASE TakeBarrier
  BY <1>0, <1>9, SetOfElements DEF TakeBarrier, Covering, Quiet, ins
<1>10. CASE WaitConfirmation
  BY <1>0, <1>10, CoveringStays DEF WaitConfirmation, ins, history
<1>11. CASE Transmit
  <2>1. UNCHANGED <<ins, history>> /\ dpc' # "drain"
    BY <1>11 DEF Transmit
  <2> QED
    BY <1>0, <2>1, CoveringStays DEF ins, history
<1>12. CASE RetryStore
  BY <1>0, <1>12, CoveringStays DEF RetryStore, ins, history
<1>13. CASE Request
  BY <1>0, <1>13 DEF Request, Covering, ins
<1>14. ASSUME NEW i \in Items, Hand(i) PROVE Covering'
  <2>1. /\ ToSet(eventIn') \subseteq ToSet(eventIn) \cup {i}
        /\ ToSet(rawIn') \subseteq ToSet(rawIn) \cup {i}
    <3>1. i \in Events => ToSet(Append(eventIn, i)) = ToSet(eventIn) \cup {i}
      BY <1>0, AppendElements DEF Ways
    <3>2. i \in Data => ToSet(Append(rawIn, i)) = ToSet(rawIn) \cup {i}
      BY <1>0, AppendElements DEF Ways
    <3> QED
      BY <1>14, <3>1, <3>2 DEF Hand, Items
  <2> QED
    BY <1>0, <1>14, <2>1 DEF Hand, Covering
<1> QED
  BY <1>1, <1>2, <1>3, <1>4, <1>5, <1>6, <1>7, <1>8, <1>9, <1>10, <1>11, <1>12, <1>13, <1>14
  DEF Task, Environment

(* Nothing of the way of the items changes. *)
LEMMA NothingMoves ==
  ASSUME UploadInv, UNCHANGED <<ins, pend, store, conf, upq, handed, excused, pendingUpload, npc, delivered>>
  PROVE  Ways' /\ Placed' /\ Holding' /\ Kept'
<1>1. /\ Ways /\ Placed /\ Holding /\ Kept /\ Cleared' = Cleared
      /\ UNCHANGED <<eventIn, rawIn, buffered, stored, handed>> /\ \A l : StoredOf(l)' = StoredOf(l)
  BY DEF UploadInv, ins, store, Cleared, StoredOf
<1>2. Holding'
  BY <1>1, HoldingGrows DEF Holding
<1> QED
  BY <1>1, <1>2, WaysStay, PlacedStays, KeptGrows DEF store

(* Every step of the dispatch task, and what is handed over to it. *)
LEMMA DispatchStep ==
  ASSUME UploadInv, Task \/ Environment, UNCHANGED netvars
  PROVE  Ways' /\ Placed' /\ Holding' /\ Kept'
<1>0. Ways /\ Placed /\ Holding /\ Kept /\ UNCHANGED <<pendingUpload, npc, delivered>>
  BY DEF UploadInv, netvars
<1>1. CASE PeekEvent
  <2>1. CASE Peek("event")
    BY <1>0, <1>1, <2>1, PeekStep, KindLemma DEF PeekEvent, history
  <2>2. CASE UNCHANGED <<queue, initialized, pend, conf, faults, excused>>
    BY <1>0, <1>1, <2>2, NothingMoves DEF PeekEvent, history, store
  <2> QED
    BY <1>1, <2>1, <2>2 DEF PeekEvent
<1>2. CASE PeekSensorData
  <2>1. CASE Peek("data")
    BY <1>0, <1>2, <2>1, PeekStep, KindLemma DEF PeekSensorData, history
  <2>2. CASE UNCHANGED <<queue, initialized, pend, conf, faults, excused>>
    BY <1>0, <1>2, <2>2, NothingMoves DEF PeekSensorData, history, store
  <2> QED
    BY <1>2, <2>1, <2>2 DEF PeekSensorData
<1>3. CASE Flush
  BY <1>0, <1>3, TakenBuffered, StoreStep DEF Flush, history
<1>4. CASE CheckDrained
  BY <1>4, CheckDrainedStep
<1>5. CASE ReceiveEvent
  BY <1>0, <1>5, TakenEvent, StoreStep DEF ReceiveEvent, history
<1>6. CASE ReceiveFails
  BY <1>6, ReceiveFailsStep
<1>7. CASE ReceiveRaw
  BY <1>7, ReceiveRawStep
<1>8. CASE ReceivePacket
  BY <1>0, <1>8, TakenBuffered, StoreStep DEF ReceivePacket, history
<1>9. CASE TakeBarrier
  BY <1>0, <1>9, NothingMoves DEF TakeBarrier
<1>10. CASE WaitConfirmation
  BY <1>10, WaitConfirmationStep
<1>11. CASE Transmit
  <2>1. UNCHANGED <<ins, store, handed, excused>>
    BY <1>11 DEF Transmit, history
  <2>2. UNCHANGED <<eventIn, rawIn, buffered, stored, queue, handed>> /\ Cleared' = Cleared
    BY <1>0, <2>1 DEF ins, store, Cleared
  <2> QED
    BY <1>0, <1>11, <2>2, TransmitStep, WaysStay, PlacedStays, KeptGrows
<1>12. CASE RetryStore
  BY <1>0, <1>12, NothingMoves DEF RetryStore, history
<1>13. CASE Request
  BY <1>0, <1>13, NothingMoves DEF Request
<1>14. ASSUME NEW i \in Items, Hand(i) PROVE Ways' /\ Placed' /\ Holding' /\ Kept'
  BY <1>14, HandStep
<1> QED
  BY <1>1, <1>2, <1>3, <1>4, <1>5, <1>6, <1>7, <1>8, <1>9, <1>10, <1>11, <1>12, <1>13, <1>14
  DEF Task, Environment

(* Every step keeps the invariant.                                          *)
LEMMA UploadStep == UploadInv /\ [Next]_vars => UploadInv'
<1> SUFFICES ASSUME UploadInv, [Next]_vars PROVE UploadInv'
  OBVIOUS
<1>1. CASE (Task \/ Environment) /\ UNCHANGED netvars
  BY <1>1, DispatchStep, CoveringStep DEF UploadInv
<1>2. CASE NetworkStep \/ Restart
  BY <1>2, NetworkKeeps DEF UploadInv
<1>3. CASE UNCHANGED vars
  <2>1. UNCHANGED <<ins, pend, store, conf, upq, handed, excused, pendingUpload, npc, delivered, asked, covered, dpc>>
    BY <1>3 DEF vars, dvars, netvars, ins, store
  <2>2. Ways' /\ Placed' /\ Holding' /\ Kept'
    BY <2>1, NothingMoves
  <2> QED
    BY <2>1, <2>2 DEF UploadInv, Covering, ins
<1> QED
  BY <1>1, <1>2, <1>3 DEF Next

(* The invariant holds when the tasks start.                                *)
LEMMA UploadInitial == UploadInit => UploadInv
<1> SUFFICES ASSUME UploadInit PROVE UploadInv
  OBVIOUS
<1>1. PICK n \in 0 .. Cardinality(Events) : \E s \in [1 .. n -> Events] :
         /\ \A m \in 1 .. n : {i \in Events : i < s[m]} = {s[l] : l \in 1 .. m - 1}
         /\ stored = [event |-> s, data |-> <<>>]
  BY DEF UploadInit, Init
<1>2. PICK s \in [1 .. n -> Events] :
         /\ \A m \in 1 .. n : {i \in Events : i < s[m]} = {s[l] : l \in 1 .. m - 1}
         /\ stored = [event |-> s, data |-> <<>>]
  BY <1>1
<1>3. n \in Nat
  <2>1. \A x : n \in 0 .. x => n \in Int /\ 0 <= n
    OBVIOUS
  <2> QED
    BY <1>1, <2>1
<1>4. s \in Seq(Events) /\ Len(s) = n /\ DOMAIN s = 1 .. n /\ s \in Seq(Items)
  BY <1>2, <1>3 DEF Items
<1>5. Distinct(s)
  <2>1. ASSUME NEW l \in 1 .. n, NEW m \in 1 .. n, l < m PROVE s[l] # s[m]
    <3>1. s[l] \in {s[o] : o \in 1 .. m - 1}
      BY <1>3, <2>1
    <3>2. s[l] < s[m] /\ s[l] \in Nat /\ s[m] \in Nat
      BY <1>2, <3>1, DispatchAssumption
    <3> QED
      BY <3>2
  <2>2. \A l, m \in 1 .. n : l = m \/ l < m \/ m < l
    BY <1>3
  <2> QED
    BY <1>4, <2>1, <2>2 DEF Distinct
<1>6. /\ eventIn = <<>> /\ rawIn = <<>> /\ buffered = <<>> /\ pend = [k \in Kinds |-> <<>>]
      /\ dpc = "event" /\ handed = ToSet(stored["event"]) /\ queue = [k \in Kinds |-> EmptyQueue]
      /\ conf = [k \in Kinds |-> <<>>] /\ upq = <<>> /\ pendingUpload = <<>> /\ npc = "connect"
      /\ asked = {} /\ covered = {}
  BY DEF UploadInit, Init, Net!NetworkInit
<1>7. \A S : <<>> \in Seq(S)
  BY EmptySeq
<1>8. /\ stored \in [Kinds -> Seq(Items)] /\ stored["event"] = s /\ stored["data"] = <<>>
      /\ StoredOf("event") = ToSet(s) /\ StoredOf("data") = {} /\ ToSet(s) \subseteq Events
      /\ \A k \in Kinds : Len(stored[k]) \in Nat
  <2>1. stored \in [Kinds -> Seq(Items)] /\ stored["event"] = s /\ stored["data"] = <<>>
    BY <1>2, <1>4, <1>7, PerKind
  <2>2. ToSet(s) \subseteq Events /\ ToSet(stored["data"]) = {}
    BY <1>4, <2>1, SetOfElements
  <2> QED
    BY <2>1, <2>2 DEF StoredOf
<1>9. Ways
  <2>1. Distinct(<<>>)
    BY DEF Distinct
  <2> QED
    BY <1>5, <1>6, <1>7, <1>8, <2>1, KindLemma, SetOfElements DEF Ways
<1>10. Placed
  BY <1>6, <1>8, KindLemma DEF Placed
<1>11. Holding
  BY <1>6, <1>7, SetOfElements DEF Holding
<1>12. QueueOk(EmptyQueue, Len(stored["event"])) /\ QueueOk(EmptyQueue, Len(stored["data"])) /\ EmptyQueue.next = 0
  <2>1. \A len \in Nat : QueueOk(EmptyQueue, len)
    BY SlotStatesDiffer DEF QueueOk, QueueType, EmptyQueue
  <2> QED
    BY <1>8, <2>1, KindLemma DEF EmptyQueue
<1>13. Kept
  <2>1. EmptyQueue \in QueueType
    BY <1>12 DEF QueueOk
  <2>2. \A m \in Nat : Keeps(EmptyQueue, m)
    BY <1>12 DEF Keeps
  <2> QED
    BY <1>6, <1>8, <1>12, <2>1, <2>2, KindLemma DEF Kept, KeptIn
<1>14. Covering
  BY <1>6 DEF Covering
<1> QED
  BY <1>9, <1>10, <1>11, <1>13, <1>14 DEF UploadInv

(* Every reachable state is one of UploadInv: items travel into the store one by *)
(* one, handles and answers are those of stored items, and the queue of a stream *)
(* keeps each stored item that has not arrived.                                  *)
THEOREM UploadInvariant == Spec => []UploadInv
<1>1. UploadInit => UploadInv
  BY UploadInitial
<1>2. UploadInv /\ [Next]_vars => UploadInv'
  BY UploadStep
<1> QED
  BY <1>1, <1>2, PTL DEF Spec

(* An item that was handed over is not lost on its way from the channels into the *)
(* task to the server (NothingLost), however many items, faults and retries.      *)
THEOREM NothingIsLost == Spec => []NothingLost
<1>1. UploadInv => NothingLost
  <2> SUFFICES ASSUME UploadInv, NEW i \in handed \ Cleared,
                      i \notin ToSet(eventIn) \cup ToSet(rawIn) \cup ToSet(buffered)
               PROVE  /\ i \in ToSet(stored[KindOf(i)])
                      /\ Keeps(queue[KindOf(i)], NumberOf(i))
                      /\ \A a \in ToSet(conf[KindOf(i)]) : a.item = i => ~ a.ok
    BY Zenon DEF NothingLost, Keeps, Cleared
  <2>1. Ways /\ Placed /\ Holding /\ Kept /\ i \in Items /\ KindOf(i) \in Kinds
    BY KindLemma DEF UploadInv, Ways
  <2>2. i \in StoredOf(KindOf(i))
    BY <2>1 DEF Placed
  <2>3. Keeps(queue[KindOf(i)], NumberOf(i))
    BY <2>1, <2>2, StoredAt DEF Kept, KeptIn
  <2> QED
    BY <2>1, <2>2, <2>3 DEF Holding, AnswerOk, StoredOf
<1> QED
  BY <1>1, UploadInvariant, PTL

(* DispatchDrained is only replied when what the barrier covers has arrived *)
(* (BarrierCovers): is_drained of both streams leaves nothing that waits.   *)
THEOREM BarriersCover == Spec => BarrierCovers
<1>1. ASSUME UploadInv, [Next]_vars, barrierActive, ~ barrierActive'
      PROVE  covered \subseteq delivered \cup excused
  <2>1. CheckDrained
    <3>1. CASE (Task \/ Environment) /\ UNCHANGED netvars
      BY <1>1, <3>1 DEF Task, Environment, PeekEvent, PeekSensorData, Flush, ReceiveEvent, ReceiveFails,
         ReceiveRaw, ReceivePacket, TakeBarrier, WaitConfirmation, Transmit, RetryStore, Request, Hand
    <3>2. CASE NetworkStep \/ Restart \/ UNCHANGED vars
      BY <1>1, <3>2 DEF NetworkStep, Restart, vars, dvars
    <3> QED
      BY <1>1, <3>1, <3>2 DEF Next
  <2>2. dpc = "drain" /\ \A k \in Kinds : DrainedStream(k, Updated(queue[k], conf[k]))
    BY <1>1, <2>1 DEF CheckDrained
  <2>3. Ways /\ Placed /\ Holding /\ Kept /\ Covering
    BY <1>1 DEF UploadInv
  <2> SUFFICES ASSUME NEW i \in covered PROVE i \in Cleared
    BY DEF Cleared
  <2>4. i \in handed /\ i \in Items /\ i \notin ToSet(eventIn) \cup ToSet(rawIn) \cup ToSet(buffered)
    BY <2>2, <2>3, SetOfElements DEF Covering, Ways
  <2>5. CASE i \in StoredOf(KindOf(i))
    <3> DEFINE k == KindOf(i)
               n == NumberOf(i)
    <3>1. k \in Kinds /\ KeptIn(k)
      BY <2>3, <2>4, KindLemma DEF Kept
    <3>2. n \in 0 .. Len(stored[k]) - 1 /\ stored[k][n + 1] = i /\ Len(stored[k]) \in Nat
      BY <2>3, <2>5, <3>1, StoredAt DEF Ways
    <3>3. i \in Cleared \/ Keeps(Updated(queue[k], conf[k]), n)
      BY <2>3, <3>1, <3>2, UpdateKeeps
    <3>4. DrainedStream(k, Updated(queue[k], conf[k]))
      BY <2>2, <3>1
    <3> HIDE DEF n, k
    <3>5. n % MAX_PEEKS \in SlotIds
      BY <3>2, SlotRange
    <3> QED
      BY <3>2, <3>3, <3>4, <3>5, SlotStatesDiffer DEF Keeps, DrainedStream
  <2> QED
    BY <2>3, <2>4, <2>5 DEF Placed
<1>2. UploadInv /\ [Next]_vars => [barrierActive /\ ~ barrierActive' => covered \subseteq delivered \cup excused]_vars
  BY <1>1
<1> QED
  BY <1>2, UploadInvariant, PTL DEF Spec, BarrierCovers

-----------------------------------------------------------------------------
(* The handles.                                                             *)

(* The items whose handles a sequence of Confirmables carries, one at a place. *)
Carried(s) == {s[m].item : m \in {n \in DOMAIN s : s[n].handle}}
Single(s) ==
  \A m, n \in DOMAIN s : s[m].handle /\ s[n].handle /\ s[m].item = s[n].item => m = n

(* The items that a sequence of answers is about, one in an answer. *)
Told(as) == {as[m].item : m \in DOMAIN as}
Apart(as) == \A m, n \in DOMAIN as : as[m].item = as[n].item => m = n

(* The items of a stream that queue q has handed out. *)
OutIn(k, q) == {i \in StoredOf(k) : q.slots[NumberOf(i) % MAX_PEEKS] = Busy(NumberOf(i))}

Out == OutIn("event", queue["event"]) \cup OutIn("data", queue["data"])
InPend == Carried(pend["event"]) \cup Carried(pend["data"])
InConf == Told(conf["event"]) \cup Told(conf["data"])

(* What is handed out is in one place: it is pending, in the upload channel, with *)
(* the network task, or answered.                                                 *)
Handles ==
  /\ Out = InPend \cup Carried(upq) \cup Carried(pendingUpload) \cup InConf
  /\ InPend \cap (Carried(upq) \cup Carried(pendingUpload) \cup InConf) = {}
  /\ Carried(upq) \cap (Carried(pendingUpload) \cup InConf) = {}
  /\ Carried(pendingUpload) \cap InConf = {}
  /\ Single(upq) /\ \A k \in Kinds : Apart(conf[k])

(* The handles and answers of short sequences.                              *)
LEMMA CarriedOne ==
  /\ Carried(<<>>) = {} /\ Single(<<>>) /\ Told(<<>>) = {} /\ Apart(<<>>)
  /\ \A c : Single(<<c>>) /\ Carried(<<c>>) = IF c.handle THEN {c.item} ELSE {}
  /\ \A a : Apart(<<a>>) /\ Told(<<a>>) = {a.item}
BY DEF Carried, Single, Told, Apart

(* Which items have a handle, or an answer, in a sequence.                  *)
LEMMA CarriedMember ==
  ASSUME NEW s, NEW i
  PROVE  /\ i \in Carried(s) <=> \E m \in DOMAIN s : s[m].handle /\ s[m].item = i
         /\ i \in Told(s) <=> \E m \in DOMAIN s : s[m].item = i
BY DEF Carried, Told

(* The handles of two sequences together.                                   *)
LEMMA CarriedConcat ==
  ASSUME NEW s \in Seq(Confirmable), NEW t \in Seq(Confirmable)
  PROVE  /\ s \o t \in Seq(Confirmable)
         /\ Carried(s \o t) = Carried(s) \cup Carried(t)
         /\ Single(s) /\ Single(t) /\ Carried(s) \cap Carried(t) = {} => Single(s \o t)
<1>1. /\ s \o t \in Seq(Confirmable) /\ Len(s) \in Nat /\ Len(t) \in Nat
      /\ DOMAIN s = 1 .. Len(s) /\ DOMAIN t = 1 .. Len(t)
      /\ Len(s \o t) = Len(s) + Len(t) /\ DOMAIN (s \o t) = 1 .. Len(s) + Len(t)
      /\ \A m \in 1 .. Len(s) : (s \o t)[m] = s[m]
      /\ \A m \in 1 .. Len(t) : (s \o t)[m + Len(s)] = t[m]
  <2>1. /\ s \o t \in Seq(Confirmable) /\ Len(s \o t) = Len(s) + Len(t)
        /\ \A i \in 1 .. Len(s) + Len(t) :
             (s \o t)[i] = IF i <= Len(s) THEN s[i] ELSE t[i - Len(s)]
    BY ConcatProperties
  <2> QED
    BY <2>1
<1>0. PICK u : u = s \o t
  OBVIOUS
<1>u. /\ DOMAIN u = 1 .. Len(s) + Len(t)
      /\ \A m \in 1 .. Len(s) : u[m] = s[m] /\ m \in DOMAIN u
      /\ \A m \in 1 .. Len(t) : u[m + Len(s)] = t[m] /\ m + Len(s) \in DOMAIN u
  BY <1>0, <1>1
<1>2. \A m \in DOMAIN u :
        \/ m \in 1 .. Len(s) /\ u[m] = s[m]
        \/ m - Len(s) \in 1 .. Len(t) /\ u[m] = t[m - Len(s)] /\ m \notin 1 .. Len(s)
  <2>1. ASSUME NEW m \in DOMAIN u, m \notin 1 .. Len(s)
        PROVE  m - Len(s) \in 1 .. Len(t) /\ u[m] = t[m - Len(s)]
    <3>1. m - Len(s) \in 1 .. Len(t) /\ (m - Len(s)) + Len(s) = m
      BY <1>1, <1>u, <2>1
    <3>2. \A d \in 1 .. Len(t) : d + Len(s) = m => u[m] = t[d]
      BY <1>u
    <3> QED
      BY <3>1, <3>2, Zenon
  <2>2. \A m \in 1 .. Len(s) : u[m] = s[m]
    BY <1>u
  <2> QED
    BY <2>1, <2>2
<1>3. ASSUME NEW i PROVE i \in Carried(u) <=> i \in Carried(s) \/ i \in Carried(t)
  <2>1. ASSUME NEW m \in DOMAIN u, u[m].handle, u[m].item = i PROVE i \in Carried(s) \/ i \in Carried(t)
    BY <1>1, <1>2, <2>1, CarriedMember
  <2>2. ASSUME NEW m \in DOMAIN s, s[m].handle, s[m].item = i PROVE i \in Carried(u)
    <3>1. m \in DOMAIN u /\ u[m] = s[m]
      BY <1>1, <1>u
    <3> QED
      BY <2>2, <3>1, CarriedMember
  <2>3. ASSUME NEW m \in DOMAIN t, t[m].handle, t[m].item = i PROVE i \in Carried(u)
    <3>1. m + Len(s) \in DOMAIN u /\ u[m + Len(s)] = t[m]
      BY <1>1, <1>u
    <3> QED
      BY <2>3, <3>1, CarriedMember
  <2> QED
    BY <2>1, <2>2, <2>3, CarriedMember
<1>4. ASSUME Single(s), Single(t), Carried(s) \cap Carried(t) = {},
             NEW m \in DOMAIN u, NEW n \in DOMAIN u, u[m].handle, u[n].handle, u[m].item = u[n].item
      PROVE  m = n
  <2>1. m \in Int /\ n \in Int /\ Len(s) \in Int
    BY <1>1, <1>u
  <2>2. CASE m \in 1 .. Len(s) /\ n \in 1 .. Len(s)
    BY <1>1, <1>2, <1>4, <2>2 DEF Single
  <2>3. CASE m \notin 1 .. Len(s) /\ n \notin 1 .. Len(s)
    <3>1. m - Len(s) = n - Len(s)
      BY <1>1, <1>2, <1>4, <2>3 DEF Single
    <3> QED
      BY <2>1, <3>1
  <2>4. ASSUME NEW a \in 1 .. Len(s), NEW b \in 1 .. Len(t), s[a].handle, t[b].handle, s[a].item = t[b].item
        PROVE  FALSE
    <3>1. s[a].item \in Carried(s) /\ s[a].item \in Carried(t)
      BY <1>1, <2>4, CarriedMember
    <3> QED
      BY <1>4, <3>1
  <2> QED
    BY <1>2, <1>4, <2>2, <2>3, <2>4
<1> QED
  BY <1>0, <1>1, <1>3, <1>4 DEF Single

(* The handles that remain when the first upload is taken.                  *)
LEMMA CarriedTail ==
  ASSUME NEW s \in Seq(Confirmable), s # <<>>
  PROVE  /\ Carried(s) = Carried(<<Head(s)>>) \cup Carried(Tail(s))
         /\ Single(s) => Single(Tail(s)) /\ Carried(<<Head(s)>>) \cap Carried(Tail(s)) = {}
<1>1. /\ Len(s) \in Nat /\ Len(s) > 0 /\ Head(s) = s[1] /\ DOMAIN s = 1 .. Len(s)
      /\ DOMAIN Tail(s) = 1 .. Len(s) - 1
      /\ \A m \in 1 .. Len(s) - 1 : Tail(s)[m] = s[m + 1] /\ m + 1 \in DOMAIN s /\ m + 1 # 1 /\ m \in Int
      /\ 1 \in DOMAIN s
      /\ \A m \in DOMAIN s : m = 1 \/ (m - 1 \in 1 .. Len(s) - 1 /\ (m - 1) + 1 = m)
  OBVIOUS
<1> DEFINE t == Tail(s)
           c == Head(s)
<1> HIDE DEF t, c
<1>2. \A i : i \in Carried(<<c>>) <=> c.handle /\ c.item = i
  BY CarriedOne
<1>3. ASSUME NEW i PROVE i \in Carried(s) <=> i \in Carried(<<c>>) \/ i \in Carried(t)
  <2>1. ASSUME NEW m \in DOMAIN s, s[m].handle, s[m].item = i PROVE i \in Carried(<<c>>) \/ i \in Carried(t)
    <3>1. CASE m = 1
      BY <1>1, <1>2, <2>1, <3>1 DEF c
    <3>2. CASE m # 1
      <4>1. m - 1 \in DOMAIN t /\ t[m - 1] = s[m]
        BY <1>1, <3>2 DEF t
      <4> QED
        BY <2>1, <4>1, CarriedMember
    <3> QED
      BY <3>1, <3>2
  <2>2. ASSUME NEW m \in DOMAIN t, t[m].handle, t[m].item = i PROVE i \in Carried(s)
    <3>1. m + 1 \in DOMAIN s /\ t[m] = s[m + 1]
      BY <1>1 DEF t
    <3> QED
      BY <2>2, <3>1, CarriedMember
  <2>3. c.handle /\ c.item = i => i \in Carried(s)
    BY <1>1, CarriedMember DEF c
  <2> QED
    BY <1>2, <2>1, <2>2, <2>3, CarriedMember
<1>4. ASSUME Single(s), NEW m \in DOMAIN t, NEW n \in DOMAIN t, t[m].handle, t[n].handle, t[m].item = t[n].item
      PROVE  m = n
  <2>1. m + 1 = n + 1 /\ m \in Int /\ n \in Int
    BY <1>1, <1>4 DEF t, Single
  <2> QED
    BY <2>1
<1>5. ASSUME Single(s), NEW i, i \in Carried(<<c>>), i \in Carried(t) PROVE FALSE
  <2>1. PICK m \in DOMAIN t : t[m].handle /\ t[m].item = i
    BY <1>5, CarriedMember
  <2>2. m + 1 \in DOMAIN s /\ t[m] = s[m + 1] /\ m + 1 # 1 /\ 1 \in DOMAIN s /\ s[1] = c
    BY <1>1 DEF t, c
  <2> QED
    BY <1>2, <1>5, <2>1, <2>2 DEF Single
<1> QED
  BY <1>3, <1>4, <1>5 DEF Single, t, c

(* The answers that remain when the first is taken.                         *)
LEMMA ToldTail ==
  ASSUME NEW s \in Seq(Answers), s # <<>>, Apart(s)
  PROVE  Told(Tail(s)) = Told(s) \ Told(<<Head(s)>>) /\ Apart(Tail(s)) /\ Head(s).item \in Told(s)
<1>1. /\ Len(s) \in Nat /\ Len(s) > 0 /\ Head(s) = s[1] /\ DOMAIN s = 1 .. Len(s)
      /\ DOMAIN Tail(s) = 1 .. Len(s) - 1
      /\ \A m \in 1 .. Len(s) - 1 : Tail(s)[m] = s[m + 1] /\ m + 1 \in DOMAIN s /\ m + 1 # 1 /\ m \in Int
      /\ 1 \in DOMAIN s
      /\ \A m \in DOMAIN s : m = 1 \/ (m - 1 \in 1 .. Len(s) - 1 /\ (m - 1) + 1 = m)
  OBVIOUS
<1> DEFINE t == Tail(s)
<1>2. \A i : i \in Told(<<Head(s)>>) <=> i = s[1].item
  BY <1>1, CarriedOne
<1> HIDE DEF t
<1>3. ASSUME NEW i, i \in Told(s), i # s[1].item PROVE i \in Told(t)
  <2>1. PICK m \in DOMAIN s : s[m].item = i
    BY <1>3, CarriedMember
  <2>2. m - 1 \in DOMAIN t /\ t[m - 1] = s[m]
    BY <1>1, <1>3, <2>1 DEF t
  <2> QED
    BY <2>1, <2>2, CarriedMember
<1>4. ASSUME NEW i, i \in Told(t) PROVE i \in Told(s) /\ i # s[1].item
  <2>1. PICK m \in DOMAIN t : t[m].item = i
    BY <1>4, CarriedMember
  <2>2. m + 1 \in DOMAIN s /\ t[m] = s[m + 1] /\ m + 1 # 1 /\ 1 \in DOMAIN s
    BY <1>1 DEF t
  <2> QED
    BY <2>1, <2>2, CarriedMember DEF Apart
<1>5. ASSUME NEW m \in DOMAIN t, NEW n \in DOMAIN t, t[m].item = t[n].item PROVE m = n
  <2>1. m + 1 = n + 1 /\ m \in Int /\ n \in Int
    BY <1>1, <1>5 DEF t, Apart
  <2> QED
    BY <2>1
<1>6. s[1].item \in Told(s)
  BY <1>1, CarriedMember
<1> QED
  BY <1>1, <1>2, <1>3, <1>4, <1>5, <1>6 DEF Apart, t

(* The answers when one more is sent.                                       *)
LEMMA ToldAppend ==
  ASSUME NEW s \in Seq(Answers), NEW a \in Answers
  PROVE  /\ Told(Append(s, a)) = Told(s) \cup {a.item}
         /\ Apart(s) /\ a.item \notin Told(s) => Apart(Append(s, a))
<1>1. /\ Len(s) \in Nat /\ DOMAIN s = 1 .. Len(s) /\ DOMAIN Append(s, a) = 1 .. Len(s) + 1
      /\ \A m \in 1 .. Len(s) : Append(s, a)[m] = s[m] /\ m \in 1 .. Len(s) + 1
      /\ Append(s, a)[Len(s) + 1] = a /\ Len(s) + 1 \in 1 .. Len(s) + 1
      /\ \A m \in 1 .. Len(s) + 1 : m \in 1 .. Len(s) \/ m = Len(s) + 1
  OBVIOUS
<1> DEFINE t == Append(s, a)
<1> HIDE DEF t
<1>2. ASSUME NEW i PROVE i \in Told(t) <=> i \in Told(s) \/ i = a.item
  <2>1. ASSUME NEW m \in DOMAIN t, t[m].item = i PROVE i \in Told(s) \/ i = a.item
    BY <1>1, <2>1, CarriedMember DEF t
  <2>2. ASSUME NEW m \in DOMAIN s, s[m].item = i PROVE i \in Told(t)
    <3>1. m \in DOMAIN t /\ t[m] = s[m]
      BY <1>1 DEF t
    <3> QED
      BY <2>2, <3>1, CarriedMember
  <2>3. a.item \in Told(t)
    <3>1. Len(s) + 1 \in DOMAIN t /\ t[Len(s) + 1] = a
      BY <1>1 DEF t
    <3> QED
      BY <3>1, CarriedMember
  <2> QED
    BY <2>1, <2>2, <2>3, CarriedMember
<1>3. ASSUME Apart(s), a.item \notin Told(s), NEW m \in DOMAIN t, NEW n \in DOMAIN t, t[m].item = t[n].item
      PROVE  m = n
  BY <1>1, <1>3, CarriedMember DEF t, Apart
<1> QED
  BY <1>2, <1>3 DEF Apart, t

(* The handles and the answers of a stream are those of its own stored items. *)
LEMMA OwnStream ==
  ASSUME Ways, Holding
  PROVE  /\ StoredOf("event") \cap StoredOf("data") = {}
         /\ \A k \in Kinds : /\ Told(conf[k]) \subseteq StoredOf(k)
                            /\ Carried(pend[k]) \subseteq StoredOf(k)
                            /\ \A q : OutIn(k, q) \subseteq StoredOf(k)
<1>1. StoredOf("event") \cap StoredOf("data") = {}
  BY KindLemma DEF Ways
<1>2. ASSUME NEW k \in Kinds PROVE Told(conf[k]) \subseteq StoredOf(k)
  <2> SUFFICES ASSUME NEW m \in DOMAIN conf[k] PROVE conf[k][m].item \in StoredOf(k)
    BY DEF Told
  <2>1. conf[k][m] \in ToSet(conf[k])
    BY DEF ToSet, Holding
  <2> QED
    BY <2>1 DEF Holding, AnswerOk
<1>3. ASSUME NEW k \in Kinds PROVE Carried(pend[k]) \subseteq StoredOf(k)
  <2> SUFFICES ASSUME NEW m \in DOMAIN pend[k], pend[k][m].handle PROVE pend[k][m].item \in StoredOf(k)
    BY DEF Carried
  <2>1. pend[k][m] \in ToSet(pend[k])
    BY DEF ToSet, Holding
  <2> QED
    BY <2>1 DEF Holding, HandleOk
<1> QED
  BY <1>1, <1>2, <1>3 DEF OutIn

(* The items of a sequence of answers.                                      *)
LEMMA ToldSet ==
  ASSUME NEW as
  PROVE  \A i : i \in Told(as) <=> \E a \in ToSet(as) : a.item = i
BY DEF Told, ToSet

(* The answers of a stream take what they are about from what is handed out. *)
LEMMA UpdateOut ==
  ASSUME Ways, Holding, NEW k \in Kinds, KeptIn(k), NEW as, ToSet(as) \subseteq ToSet(conf[k])
  PROVE  OutIn(k, Updated(queue[k], as)) = OutIn(k, queue[k]) \ Told(as)
<1> DEFINE q == queue[k]
           r == Updated(q, as)
<1>1. Len(stored[k]) \in Nat /\ QueueOk(q, Len(stored[k]))
  BY DEF Ways, KeptIn
<1>2. UpdateOf(q, as, r)
  BY <1>1, UpdatedLemma
<1> HIDE DEF r, q
<1>3. ASSUME NEW i \in StoredOf(k)
      PROVE  r.slots[NumberOf(i) % MAX_PEEKS] = Busy(NumberOf(i))
               <=> q.slots[NumberOf(i) % MAX_PEEKS] = Busy(NumberOf(i)) /\ i \notin Told(as)
  <2> DEFINE n == NumberOf(i)
             j == n % MAX_PEEKS
  <2>1. n \in 0 .. Len(stored[k]) - 1 /\ stored[k][n + 1] = i
    BY StoredAt
  <2>2. j \in SlotIds
    BY <1>1, <2>1, SlotRange
  <2> HIDE DEF n, j
  <2>3. CASE /\ r.slots[j] = q.slots[j]
             /\ \A a \in ToSet(as) : q.slots[j] # Busy(NumberOf(a.item))
    BY ZenonT(30), <2>3, ToldSet DEF n, j
  <2>4. ASSUME NEW a \in ToSet(as), q.slots[j] = Busy(NumberOf(a.item)),
               r.slots[j] = Abort(NumberOf(a.item)) \/ r.slots[j] = None
        PROVE  ~ (q.slots[j] = Busy(n) /\ i \notin Told(as)) /\ r.slots[j] # Busy(n)
    <3>1. a.item \in StoredOf(k)
      BY DEF Holding, AnswerOk
    <3>2. stored[k][NumberOf(a.item) + 1] = a.item
      BY <3>1, StoredAt
    <3>3. q.slots[j] = Busy(n) => i = a.item
      BY <2>1, <2>4, <3>2, SlotStatesDiffer
    <3> QED
      BY <2>4, <3>3, SlotStatesDiffer, ToldSet
  <2>5. \/ /\ r.slots[j] = q.slots[j]
           /\ \A a \in ToSet(as) : q.slots[j] # Busy(NumberOf(a.item))
        \/ \E a \in ToSet(as) :
            /\ q.slots[j] = Busy(NumberOf(a.item))
            /\ r.slots[j] = Abort(NumberOf(a.item)) \/ (a.ok /\ r.slots[j] = None)
    BY <1>2, <2>2 DEF UpdateOf
  <2> QED
    BY <2>3, <2>4, <2>5 DEF n, j
<1> QED
  BY <1>3 DEF OutIn, r, q

(* peek_next hands out one item that was not handed out, or nothing. *)
LEMMA PeekOut ==
  ASSUME Ways, NEW k \in Kinds, NEW q, QueueOk(q, Len(stored[k])),
         NEW res \in PeekNext(q, Len(stored[k]))
  PROVE  \/ res.out = Blocked /\ OutIn(k, res.q) = OutIn(k, q)
         \/ /\ res.out # Blocked /\ stored[k][res.out + 1] \in StoredOf(k)
            /\ stored[k][res.out + 1] \notin OutIn(k, q)
            /\ OutIn(k, res.q) = OutIn(k, q) \cup {stored[k][res.out + 1]}
<1>a. stored[k] \in Seq(Items)
  BY DEF Ways
<1>b. Len(stored[k]) \in Nat /\ DOMAIN stored[k] = 1 .. Len(stored[k])
  BY <1>a, LenProperties
<1>c. PeekOf(q, Len(stored[k]), res)
  BY <1>b, PeekNextLemma, Zenon
<1>1. Len(stored[k]) \in Nat /\ DOMAIN stored[k] = 1 .. Len(stored[k]) /\ PeekOf(q, Len(stored[k]), res)
  BY <1>b, <1>c
<1>2. CASE res.out = Blocked
  BY <1>1, <1>2 DEF PeekOf, OutIn, Blocked
<1>3. CASE res.out # Blocked
  <2> DEFINE o == res.out
             item == stored[k][o + 1]
  <2>1. /\ o \in 0 .. Len(stored[k]) - 1 /\ o % MAX_PEEKS \in SlotIds
        /\ res.q.slots = [q.slots EXCEPT ![o % MAX_PEEKS] = Busy(o)]
        /\ q.slots[o % MAX_PEEKS] \in {Abort(o), None}
        /\ q.slots \in [SlotIds -> SlotStates]
    BY <1>1, <1>3, SlotRange DEF PeekOf, QueueOk, QueueType
  <2>2. item \in StoredOf(k) /\ NumberOf(item) = o
    <3>1. o + 1 \in 1 .. Len(stored[k]) /\ (o + 1) - 1 = o
      BY <1>1, <2>1
    <3>2. NumberOf(item) = (o + 1) - 1
      BY <3>1, NumberLemma
    <3>3. item \in StoredOf(k)
      BY <1>1, <3>1 DEF StoredOf, ToSet
    <3> QED
      BY <3>1, <3>2, <3>3
  <2> HIDE DEF o, item
  <2>3. item \notin OutIn(k, q)
    BY <2>1, <2>2, SlotStatesDiffer DEF OutIn
  <2>4. ASSUME NEW i \in StoredOf(k), i # item
        PROVE  res.q.slots[NumberOf(i) % MAX_PEEKS] = Busy(NumberOf(i))
                 <=> q.slots[NumberOf(i) % MAX_PEEKS] = Busy(NumberOf(i))
    <3> DEFINE n == NumberOf(i)
    <3>1. n \in 0 .. Len(stored[k]) - 1 /\ stored[k][n + 1] = i
      BY StoredAt
    <3>2. n # o /\ n % MAX_PEEKS \in SlotIds
      BY <1>1, <2>4, <3>1, SlotRange DEF item
    <3> HIDE DEF n
    <3> QED
      BY <2>1, <3>2, SlotStatesDiffer DEF n
  <2>5. item \in OutIn(k, res.q)
    BY <2>1, <2>2 DEF OutIn
  <2>6. OutIn(k, res.q) = OutIn(k, q) \cup {item}
    BY <2>3, <2>4, <2>5 DEF OutIn
  <2> QED
    BY <1>3, <2>2, <2>3, <2>6 DEF item, o
<1> QED
  BY <1>2, <1>3

(* An item is stored at one place.                                          *)
LEMMA ChosenPlace ==
  ASSUME NEW s \in Seq(Items), Distinct(s), NEW n \in 1 .. Len(s)
  PROVE  (CHOOSE m \in DOMAIN s : s[m] = s[n]) = n
<1>1. n \in DOMAIN s /\ \A m \in DOMAIN s : s[m] = s[n] => m = n
  BY DEF Distinct
<1> QED
  BY <1>1

(* What is stored now is not handed out yet. *)
LEMMA StoreOut ==
  ASSUME Ways, NEW k \in Kinds, NEW i \in Items, KindOf(i) = k, i \notin StoredOf(k),
         stored'[k] = Append(stored[k], i), NEW q, QueueOk(q, Len(stored[k]))
  PROVE  OutIn(k, q)' = OutIn(k, q)
<1> DEFINE len == Len(stored[k])
<1>0. PICK t : t = stored'[k]
  OBVIOUS
<1>1. /\ stored[k] \in Seq(Items) /\ Distinct(stored[k]) /\ len \in Nat
      /\ q.next \in Nat /\ q.next <= len
  BY DEF Ways, QueueOk, QueueType
<1>2. /\ t \in Seq(Items) /\ Distinct(t) /\ ToSet(t) = ToSet(stored[k]) \cup {i}
      /\ Len(t) = len + 1 /\ t[len + 1] = i
      /\ \A n \in 1 .. len : t[n] = stored[k][n]
  BY <1>0, <1>1, AppendElements DEF StoredOf
<1>3. \A x : KindOf(x) = k => NumberOf(x)' = (CHOOSE m \in DOMAIN t : t[m] = x) - 1
  BY <1>0 DEF NumberOf
<1>4. NumberOf(i)' = len
  <2>1. len + 1 \in 1 .. Len(t) /\ (len + 1) - 1 = len
    BY <1>1, <1>2
  <2>2. (CHOOSE m \in DOMAIN t : t[m] = t[len + 1]) = len + 1
    BY <1>2, <2>1, ChosenPlace
  <2> QED
    BY <1>2, <1>3, <2>1, <2>2
<1>5. q.slots[len % MAX_PEEKS] # Busy(len)
  <2>1. len % MAX_PEEKS \in SlotIds
    BY <1>1, SlotRange
  <2> QED
    BY <1>1, <2>1, SlotStatesDiffer DEF QueueOk
<1>6. StoredOf(k)' = StoredOf(k) \cup {i}
  BY <1>0, <1>2 DEF StoredOf
<1>7. ASSUME NEW x \in StoredOf(k) PROVE NumberOf(x)' = NumberOf(x)
  <2>1. PICK n \in 1 .. len : x = stored[k][n]
    BY <1>1 DEF StoredOf, ToSet
  <2>2. NumberOf(x) = n - 1
    BY <2>1, NumberLemma
  <2>3. n \in 1 .. Len(t) /\ x = t[n] /\ KindOf(x) = k
    BY <1>1, <1>2, <2>1 DEF Ways
  <2>4. (CHOOSE m \in DOMAIN t : t[m] = t[n]) = n
    BY <1>2, <2>3, ChosenPlace
  <2> QED
    BY <1>3, <2>2, <2>3, <2>4
<1>8. \A x : x \in OutIn(k, q)' <=> x \in StoredOf(k)' /\ q.slots[NumberOf(x)' % MAX_PEEKS] = Busy(NumberOf(x)')
  BY DEF OutIn, Busy
<1>9. \A x : x \in OutIn(k, q) <=> x \in StoredOf(k) /\ q.slots[NumberOf(x) % MAX_PEEKS] = Busy(NumberOf(x))
  BY DEF OutIn
<1> HIDE DEF len
<1>10. i \notin OutIn(k, q)'
  BY <1>4, <1>5, <1>8
<1>11. ASSUME NEW x \in StoredOf(k) PROVE x \in OutIn(k, q)' <=> x \in OutIn(k, q)
  BY <1>6, <1>7, <1>8, <1>9
<1> QED
  BY <1>6, <1>8, <1>9, <1>10, <1>11

(* The answer of a handle is one more in the confirm channels. *)
LEMMA AnswerMoves ==
  ASSUME conf \in [Kinds -> Seq(Answers)], NEW c \in Confirmable, NEW ok \in BOOLEAN,
         conf' = Answered(c, ok), \A k \in Kinds : Apart(conf[k]), Carried(<<c>>) \cap InConf = {}
  PROVE  InConf' = InConf \cup Carried(<<c>>) /\ \A k \in Kinds : Apart(conf'[k])
<1>1. Answer(c, ok) \in Answers /\ KindOf(c.item) \in Kinds /\ Answer(c, ok).item = c.item
  BY KindLemma DEF Answer, Answers, Confirmable
<1>2. CASE c.handle
  <2> DEFINE l == KindOf(c.item)
  <2>1. conf' = [conf EXCEPT ![l] = Append(@, Answer(c, ok))]
    BY <1>2 DEF Answered
  <2> HIDE DEF l
  <2>2. l \in Kinds
    BY <1>1 DEF l
  <2>3. Carried(<<c>>) = {c.item}
    BY <1>2, CarriedOne
  <2>4. c.item \notin Told(conf[l])
    BY <2>2, <2>3 DEF InConf, Kinds
  <2>5. conf[l] \in Seq(Answers) /\ conf'[l] = Append(conf[l], Answer(c, ok)) /\ \A m \in Kinds \ {l} : conf'[m] = conf[m]
    BY <2>1, <2>2
  <2>6. Told(conf'[l]) = Told(conf[l]) \cup {c.item} /\ Apart(conf'[l])
    BY <1>1, <2>2, <2>4, <2>5, ToldAppend
  <2>7. InConf' = InConf \cup {c.item}
    BY <2>2, <2>5, <2>6 DEF InConf, Kinds
  <2> QED
    BY <2>2, <2>3, <2>5, <2>6, <2>7
<1>3. CASE ~ c.handle
  BY <1>3, CarriedOne DEF Answered, InConf
<1> QED
  BY <1>2, <1>3

(* What is handed out depends on slots and stored items only.               *)
LEMMA OutStays ==
  ASSUME UNCHANGED stored
  PROVE  \A k, q : OutIn(k, q)' = OutIn(k, q)
BY DEF OutIn, StoredOf, NumberOf, Busy

(* Steps that move no handle and no answer keep the correspondence.         *)
LEMMA HandlesStay ==
  ASSUME Handles, UNCHANGED <<stored, queue, pend, upq, pendingUpload, conf>>
  PROVE  Handles'
<1>1. Out' = Out
  BY OutStays DEF Out
<1> QED
  BY <1>1 DEF Handles, InPend, InConf

(* A handle changes its holder, or becomes an answer, while the store stays. *)
LEMMA StoreHandles ==
  ASSUME UploadInv, Handles, NEW i, Taken(i), StoreItem(i), UNCHANGED <<upq, pendingUpload>>
  PROVE  Handles'
<1> DEFINE k == KindOf(i)
<1>0. Ways /\ Holding /\ Kept /\ i \in Items /\ k \in Kinds /\ i \notin StoredOf(k)
  BY KindLemma DEF UploadInv, Taken
<1>1. CASE stored' = [stored EXCEPT ![k] = Append(@, i)] /\ UNCHANGED <<queue, pend, conf>>
  <2>1. stored'[k] = Append(stored[k], i) /\ \A l \in Kinds \ {k} : stored'[l] = stored[l]
    BY <1>0, <1>1 DEF Ways
  <2>2. \A l \in Kinds : QueueOk(queue[l], Len(stored[l]))
    BY <1>0 DEF Kept, KeptIn
  <2>3. OutIn(k, queue[k])' = OutIn(k, queue[k])
    <3>1. PICK q : q = queue[k]
      OBVIOUS
    <3>2. OutIn(k, q)' = OutIn(k, q)
      BY <1>0, <2>1, <2>2, <3>1, StoreOut
    <3> QED
      BY <1>1, <3>1, <3>2 DEF OutIn
  <2>4. ASSUME NEW l \in Kinds, l # k PROVE OutIn(l, queue[l])' = OutIn(l, queue[l])
    <3>1. StoredOf(l)' = StoredOf(l) /\ stored'[l] = stored[l]
      BY <2>1, <2>4 DEF StoredOf
    <3>2. \A x \in StoredOf(l) : NumberOf(x)' = NumberOf(x)
      BY <1>0, <3>1 DEF NumberOf, Ways
    <3> QED
      BY <1>1, <3>1, <3>2 DEF OutIn, Busy
  <2>5. Out' = Out
    BY <2>3, <2>4, KindLemma DEF Out
  <2> QED
    BY <1>1, <2>5 DEF Handles, InPend, InConf
<1>2. CASE Overwrite(k, i) /\ UNCHANGED <<stored, queue>>
  <2>1. Out' = Out
    BY <1>2, OutStays DEF Out
  <2>2. /\ pend'[k] = <<[item |-> i, handle |-> FALSE]>> /\ \A l \in Kinds \ {k} : pend'[l] = pend[l]
    BY <1>0, <1>2 DEF Overwrite, Holding
  <2>3. Carried(pend'[k]) = {}
    BY <2>2, CarriedOne
  <2>4. InConf' = InConf \cup Carried(pend[k]) /\ \A l \in Kinds : Apart(conf'[l])
    <3>1. CASE pend[k] = <<>>
      BY <1>2, <3>1, CarriedOne DEF Overwrite, InConf, Handles
    <3>2. CASE pend[k] # <<>>
      <4>1. Head(pend[k]) \in Confirmable /\ pend[k] = <<Head(pend[k])>>
        BY <1>0, <3>2, AtMostOne DEF Holding
      <4>2. conf' = Answered(Head(pend[k]), FALSE)
        BY <1>2, <3>2 DEF Overwrite
      <4>3. Carried(<<Head(pend[k])>>) \cap InConf = {}
        BY <1>0, <4>1 DEF Handles, InPend, Kinds
      <4>4. conf \in [Kinds -> Seq(Answers)] /\ \A l \in Kinds : Apart(conf[l])
        BY <1>0 DEF Holding, Handles
      <4> QED
        BY <4>1, <4>2, <4>3, <4>4, AnswerMoves
    <3> QED
      BY <3>1, <3>2
  <2>5. Carried(pend["event"]) \cap Carried(pend["data"]) = {}
    BY <1>0, OwnStream, KindLemma
  <2>6. InPend' = InPend \ Carried(pend[k])
    BY <1>0, <2>2, <2>3, <2>5 DEF InPend, Kinds
  <2>7. Carried(pend[k]) \subseteq InPend
    BY <1>0 DEF InPend, Kinds
  <2> QED
    BY <2>1, <2>4, <2>6, <2>7 DEF Handles
<1> QED
  BY <1>1, <1>2 DEF StoreItem

(* The answers that are taken free what they are about. *)
LEMMA UpdateHandles ==
  ASSUME UploadInv, Handles, UNCHANGED <<stored, pend, upq, pendingUpload>>,
         \A k \in Kinds :
           /\ Apart(conf'[k])
           /\ \/ queue'[k] = queue[k] /\ conf'[k] = conf[k]
              \/ \E as : /\ ToSet(as) \subseteq ToSet(conf[k])
                         /\ queue'[k] = Updated(queue[k], as)
                         /\ Told(conf'[k]) = Told(conf[k]) \ Told(as)
  PROVE  Handles'
<1>0. Ways /\ Holding /\ Kept
  BY DEF UploadInv
<1>1. ASSUME NEW k \in Kinds
      PROVE  \E gone \in SUBSET Told(conf[k]) :
                /\ OutIn(k, queue[k])' = OutIn(k, queue[k]) \ gone
                /\ Told(conf'[k]) = Told(conf[k]) \ gone
  <2>1. CASE queue'[k] = queue[k] /\ conf'[k] = conf[k]
    <3>1. OutIn(k, queue[k])' = OutIn(k, queue[k]) \ {} /\ Told(conf'[k]) = Told(conf[k]) \ {}
      BY <2>1, OutStays
    <3> QED
      BY <3>1
  <2>2. ASSUME NEW as, ToSet(as) \subseteq ToSet(conf[k]),
               queue'[k] = Updated(queue[k], as), Told(conf'[k]) = Told(conf[k]) \ Told(as)
        PROVE  \E gone \in SUBSET Told(conf[k]) :
                  /\ OutIn(k, queue[k])' = OutIn(k, queue[k]) \ gone
                  /\ Told(conf'[k]) = Told(conf[k]) \ gone
    <3>1. OutIn(k, Updated(queue[k], as)) = OutIn(k, queue[k]) \ Told(as)
      BY <1>0, <2>2, UpdateOut DEF Kept
    <3>2. OutIn(k, queue[k])' = OutIn(k, queue[k]) \ Told(as)
      BY <2>2, <3>1, OutStays
    <3>3. Told(as) \subseteq Told(conf[k])
      <4>1. \A i : i \in Told(as) <=> \E a \in ToSet(as) : a.item = i
        BY ToldSet
      <4>2. \A i : i \in Told(conf[k]) <=> \E a \in ToSet(conf[k]) : a.item = i
        BY ToldSet
      <4> QED
        BY <2>2, <4>1, <4>2, Zenon
    <3> QED
      BY <2>2, <3>2, <3>3
  <2> QED
    BY <2>1, <2>2
<1>2. PICK e \in SUBSET Told(conf["event"]) :
                /\ OutIn("event", queue["event"])' = OutIn("event", queue["event"]) \ e
                /\ Told(conf'["event"]) = Told(conf["event"]) \ e
  BY <1>1, KindLemma
<1>3. PICK d \in SUBSET Told(conf["data"]) :
                /\ OutIn("data", queue["data"])' = OutIn("data", queue["data"]) \ d
                /\ Told(conf'["data"]) = Told(conf["data"]) \ d
  BY <1>1, KindLemma
<1>4. Out' = Out \ (e \cup d) /\ InConf' = InConf \ (e \cup d)
  <2>1. /\ StoredOf("event") \cap StoredOf("data") = {}
        /\ e \subseteq StoredOf("event") /\ d \subseteq StoredOf("data")
        /\ OutIn("event", queue["event"]) \subseteq StoredOf("event")
        /\ OutIn("data", queue["data"]) \subseteq StoredOf("data")
        /\ Told(conf["event"]) \subseteq StoredOf("event") /\ Told(conf["data"]) \subseteq StoredOf("data")
    BY <1>0, OwnStream, KindLemma
  <2>2. Out' = Out \ (e \cup d)
    BY <1>2, <1>3, <2>1 DEF Out
  <2>3. InConf' = InConf \ (e \cup d)
    BY <1>2, <1>3, <2>1 DEF InConf
  <2> QED
    BY <2>2, <2>3
<1>5. e \cup d \subseteq InConf /\ InPend' = InPend
  BY DEF InConf, InPend
<1> QED
  BY <1>4, <1>5 DEF Handles

(* The check of the barrier moves answers to the slots.                     *)
LEMMA CheckDrainedHandles ==
  ASSUME UploadInv, Handles, CheckDrained, UNCHANGED netvars
  PROVE  Handles'
<1> DEFINE qs == [k \in Kinds |-> Updated(queue[k], conf[k])]
           seen == IF DrainedStream("event", qs["event"]) THEN Kinds ELSE {"event"}
<1>1. \/ /\ queue' = [k \in Kinds |-> IF k \in seen THEN qs[k] ELSE queue[k]]
         /\ conf' = [k \in Kinds |-> IF k \in seen THEN <<>> ELSE conf[k]]
      \/ UNCHANGED <<queue, conf>>
  BY Zenon DEF CheckDrained
<1> HIDE DEF seen
<1>2. \A k \in Kinds : qs[k] = Updated(queue[k], conf[k])
  OBVIOUS
<1> HIDE DEF qs
<1>3. ASSUME NEW k \in Kinds
      PROVE  /\ Apart(conf'[k])
             /\ \/ queue'[k] = queue[k] /\ conf'[k] = conf[k]
                \/ \E as : /\ ToSet(as) \subseteq ToSet(conf[k])
                           /\ queue'[k] = Updated(queue[k], as)
                           /\ Told(conf'[k]) = Told(conf[k]) \ Told(as)
  <2>1. CASE queue'[k] = queue[k] /\ conf'[k] = conf[k]
    BY <2>1 DEF Handles
  <2>2. CASE queue'[k] = Updated(queue[k], conf[k]) /\ conf'[k] = <<>>
    <3>1. Told(conf'[k]) = Told(conf[k]) \ Told(conf[k]) /\ Apart(conf'[k])
      BY <2>2, CarriedOne
    <3> QED
      BY <2>2, <3>1
  <2>3. \/ queue'[k] = queue[k] /\ conf'[k] = conf[k]
        \/ queue'[k] = Updated(queue[k], conf[k]) /\ conf'[k] = <<>>
    BY <1>1, <1>2
  <2> QED
    BY <2>1, <2>2, <2>3, Zenon
<1>4. UNCHANGED <<stored, pend, upq, pendingUpload>>
  BY DEF CheckDrained, netvars
<1> QED
  BY <1>3, <1>4, UpdateHandles

(* wait_confirmation moves one answer to its slot.                          *)
LEMMA WaitConfirmationHandles ==
  ASSUME UploadInv, Handles, WaitConfirmation, UNCHANGED netvars
  PROVE  Handles'
<1>1. PICK k \in Kinds : /\ conf[k] # <<>>
                         /\ queue' = [queue EXCEPT ![k] = Updated(@, <<Head(conf[k])>>)]
                         /\ conf' = [conf EXCEPT ![k] = Tail(@)]
  BY DEF WaitConfirmation
<1>2. conf \in [Kinds -> Seq(Answers)] /\ queue \in [Kinds -> QueueType]
  BY DEF UploadInv, Holding, Kept
<1>3. /\ queue'[k] = Updated(queue[k], <<Head(conf[k])>>) /\ conf'[k] = Tail(conf[k])
      /\ \A l \in Kinds \ {k} : queue'[l] = queue[l] /\ conf'[l] = conf[l]
  BY <1>1, <1>2
<1>4. Told(conf'[k]) = Told(conf[k]) \ Told(<<Head(conf[k])>>) /\ Apart(conf'[k])
  BY <1>1, <1>2, <1>3, ToldTail DEF Handles
<1>5. ToSet(<<Head(conf[k])>>) \subseteq ToSet(conf[k])
  BY <1>1, <1>2, TailElements, SetOfElements
<1>6. \A l \in Kinds :
        /\ Apart(conf'[l])
        /\ \/ queue'[l] = queue[l] /\ conf'[l] = conf[l]
           \/ \E as : /\ ToSet(as) \subseteq ToSet(conf[l])
                      /\ queue'[l] = Updated(queue[l], as)
                      /\ Told(conf'[l]) = Told(conf[l]) \ Told(as)
  BY <1>3, <1>4, <1>5, Zenon DEF Handles
<1>7. UNCHANGED <<stored, pend, upq, pendingUpload>>
  BY DEF WaitConfirmation, netvars
<1> QED
  BY <1>6, <1>7, UpdateHandles

(* peek: the answers are processed, and the item that is handed out is pending, or, *)
(* when it cannot be read, answered at once.                                        *)
LEMMA PeekHandles ==
  ASSUME UploadInv, Handles, NEW k \in Kinds, Peek(k), ~ IsPending(k),
         UNCHANGED <<stored, upq, pendingUpload>>
  PROVE  Handles'
<1>0. Ways /\ Holding /\ Kept
  BY DEF UploadInv
<1>1. CASE UNCHANGED <<queue, pend, conf>>
  BY <1>1, HandlesStay
<1>2. ASSUME NEW q, q = Updated(queue[k], conf[k]), NEW res \in PeekNext(q, Len(stored[k])),
             queue' = [queue EXCEPT ![k] = res.q],
             \/ /\ pend' = [pend EXCEPT ![k] =
                            IF res.out = Blocked THEN <<>>
                            ELSE <<[item |-> stored[k][res.out + 1], handle |-> TRUE]>>]
                /\ conf' = [conf EXCEPT ![k] = <<>>]
             \/ /\ res.out # Blocked /\ UNCHANGED pend
                /\ \E ok \in BOOLEAN :
                     conf' = [conf EXCEPT ![k] = <<[item |-> stored[k][res.out + 1], ok |-> ok]>>]
      PROVE  Handles'
  <2>1. PICK o \in Kinds : o # k /\ Kinds = {k, o}
    BY DEF Kinds
  <2> DEFINE new == IF res.out = Blocked THEN {} ELSE {stored[k][res.out + 1]}
             Ok == OutIn(k, queue[k])
             Oo == OutIn(o, queue[o])
  <2>2. /\ QueueOk(q, Len(stored[k])) /\ OutIn(k, q) = Ok \ Told(conf[k])
    <3>1. KeptIn(k)
      BY <1>0 DEF Kept
    <3> QED
      BY <1>0, <1>2, <3>1, UpdateKeeps, UpdateOut
  <2>3. /\ OutIn(k, res.q) = OutIn(k, q) \cup new /\ new \cap OutIn(k, q) = {} /\ new \subseteq StoredOf(k)
    BY <1>0, <1>2, <2>2, PeekOut
  <2>4. queue'[k] = res.q /\ queue'[o] = queue[o] /\ queue \in [Kinds -> QueueType]
    BY <1>0, <1>2, <2>1 DEF Kept
  <2>5. OutIn(k, queue[k])' = (Ok \ Told(conf[k])) \cup new /\ OutIn(o, queue[o])' = Oo
    BY <2>2, <2>3, <2>4, OutStays
  <2>6. /\ Out' = (Ok \ Told(conf[k])) \cup new \cup Oo /\ Out = Ok \cup Oo
        /\ InPend = Carried(pend[k]) \cup Carried(pend[o]) /\ InConf = Told(conf[k]) \cup Told(conf[o])
        /\ InPend' = Carried(pend'[k]) \cup Carried(pend'[o]) /\ InConf' = Told(conf'[k]) \cup Told(conf'[o])
    <3>1. (k = "event" /\ o = "data") \/ (k = "data" /\ o = "event")
      BY <2>1 DEF Kinds
    <3>2. CASE k = "event" /\ o = "data"
      BY <2>5, <3>2 DEF Out, InPend, InConf
    <3>3. CASE k = "data" /\ o = "event"
      BY <2>5, <3>3 DEF Out, InPend, InConf
    <3> QED
      BY <3>1, <3>2, <3>3
  <2>7. /\ StoredOf(k) \cap StoredOf(o) = {} /\ Oo \subseteq StoredOf(o) /\ Ok \subseteq StoredOf(k)
        /\ Told(conf[o]) \subseteq StoredOf(o) /\ Told(conf[k]) \subseteq StoredOf(k)
    BY <1>0, <2>1, OwnStream DEF Kinds
  <2>8. Carried(pend[k]) = {}
    BY CarriedOne DEF IsPending
  <2>9. /\ \A l \in Kinds : Apart(conf'[l])
        /\ Carried(pend'[o]) = Carried(pend[o]) /\ Told(conf'[o]) = Told(conf[o])
        /\ \/ Carried(pend'[k]) = new /\ Told(conf'[k]) = {}
           \/ Carried(pend'[k]) = {} /\ Told(conf'[k]) = new
    <3>1. pend \in [Kinds -> Seq(Confirmable)] /\ conf \in [Kinds -> Seq(Answers)] /\ \A l \in Kinds : Apart(conf[l])
      BY <1>0 DEF Holding, Handles
    <3>2. CASE /\ pend' = [pend EXCEPT ![k] =
                            IF res.out = Blocked THEN <<>>
                            ELSE <<[item |-> stored[k][res.out + 1], handle |-> TRUE]>>]
               /\ conf' = [conf EXCEPT ![k] = <<>>]
      <4>1. /\ pend'[o] = pend[o] /\ conf'[o] = conf[o] /\ conf'[k] = <<>>
            /\ pend'[k] = IF res.out = Blocked THEN <<>>
                          ELSE <<[item |-> stored[k][res.out + 1], handle |-> TRUE]>>
        BY <2>1, <3>1, <3>2
      <4>2. Carried(pend'[k]) = new
        BY <4>1, CarriedOne
      <4> QED
        BY <2>1, <3>1, <4>1, <4>2, CarriedOne
    <3>3. ASSUME res.out # Blocked, UNCHANGED pend, NEW ok \in BOOLEAN,
                 conf' = [conf EXCEPT ![k] = <<[item |-> stored[k][res.out + 1], ok |-> ok]>>]
          PROVE  /\ \A l \in Kinds : Apart(conf'[l])
                 /\ Carried(pend'[o]) = Carried(pend[o]) /\ Told(conf'[o]) = Told(conf[o])
                 /\ Carried(pend'[k]) = {} /\ Told(conf'[k]) = new
      <4>1. /\ pend'[o] = pend[o] /\ conf'[o] = conf[o]
            /\ conf'[k] = <<[item |-> stored[k][res.out + 1], ok |-> ok]>>
        BY <2>1, <3>1, <3>3
      <4>2. Told(conf'[k]) = new /\ Apart(conf'[k])
        BY <3>3, <4>1, CarriedOne
      <4> QED
        BY <2>1, <2>8, <3>1, <3>3, <4>1, <4>2
    <3> QED
      BY <1>2, <3>2, <3>3
  <2> HIDE DEF new, Ok, Oo
  <2>10. Single(upq)
    BY DEF Handles
  <2>11. /\ new \cap (Carried(pend[o]) \cup Carried(upq) \cup Carried(pendingUpload) \cup Told(conf[o])) = {}
         /\ Told(conf[k]) \cap Told(conf[o]) = {}
    BY <2>2, <2>3, <2>6, <2>7 DEF Handles
  <2>12. Out' = Carried(pend[o]) \cup new \cup Carried(upq) \cup Carried(pendingUpload) \cup Told(conf[o])
    BY <2>2, <2>3, <2>6, <2>7, <2>8, <2>11 DEF Handles
  <2> QED
    BY <2>6, <2>8, <2>9, <2>10, <2>11, <2>12 DEF Handles
<1> QED
  BY <1>1, <1>2 DEF Peek

(* What is pending goes into the upload channel. *)
LEMMA TransmitHandles ==
  ASSUME UploadInv, Handles, Transmit, UNCHANGED netvars
  PROVE  Handles'
<1>0. Ways /\ Holding
  BY DEF UploadInv
<1>1. UNCHANGED <<stored, queue, conf, pendingUpload>>
  BY DEF Transmit, store, netvars
<1>2. Out' = Out /\ InConf' = InConf
  BY <1>1, OutStays DEF Out, InConf
<1>3. Carried(pend["event"]) \cap Carried(pend["data"]) = {}
  BY <1>0, OwnStream, KindLemma
<1>4. upq \in Seq(Confirmable) /\ pend["data"] \in Seq(Confirmable) /\ <<>> \in Seq(Confirmable)
  BY <1>0, KindLemma, EmptySeq DEF Holding
<1>5. ASSUME NEW s \in Seq(Confirmable), NEW c \in Confirmable
      PROVE  /\ Carried(Append(s, c)) = Carried(s) \cup Carried(<<c>>) /\ Append(s, c) \in Seq(Confirmable)
             /\ Single(s) /\ Carried(s) \cap Carried(<<c>>) = {} => Single(Append(s, c))
  <2>1. Append(s, c) = s \o <<c>> /\ <<c>> \in Seq(Confirmable)
    BY AppendIsConcat
  <2>2. Single(<<c>>)
    BY CarriedOne
  <2> QED
    BY ZenonT(30), <2>1, <2>2, CarriedConcat
<1>6. ASSUME NEW c \in Confirmable, pend["event"] = <<c>>, upq' = Append(upq, c),
             pend' = [event |-> <<>>, data |-> pend["data"]]
      PROVE  Handles'
  <2>1. pend'["event"] = <<>> /\ pend'["data"] = pend["data"]
    BY <1>4, <1>6, PerKind, Zenon
  <2>2. InPend' = Carried(pend["data"]) /\ InPend = Carried(<<c>>) \cup Carried(pend["data"])
    BY <1>6, <2>1, CarriedOne DEF InPend
  <2>3. Carried(upq') = Carried(upq) \cup Carried(<<c>>) /\ Single(upq')
    BY <1>4, <1>5, <1>6, <2>2 DEF Handles
  <2> QED
    BY <1>1, <1>2, <1>3, <1>6, <2>2, <2>3 DEF Handles
<1>7. ASSUME NEW c \in Confirmable, pend["data"] = <<c>>, pend["event"] = <<>>, upq' = Append(upq, c),
             pend' = [event |-> <<>>, data |-> <<>>]
      PROVE  Handles'
  <2>1. pend'["event"] = <<>> /\ pend'["data"] = <<>>
    BY <1>4, <1>7, PerKind, Zenon
  <2>2. InPend' = {} /\ InPend = Carried(<<c>>)
    BY <1>7, <2>1, CarriedOne DEF InPend
  <2>3. Carried(upq') = Carried(upq) \cup Carried(<<c>>) /\ Single(upq')
    BY <1>4, <1>5, <1>7, <2>2 DEF Handles
  <2> QED
    BY <1>1, <1>2, <2>2, <2>3 DEF Handles
<1>8. ASSUME NEW c \in Confirmable, NEW d \in Confirmable, pend["event"] = <<c>>, pend["data"] = <<d>>,
             upq' = Append(Append(upq, c), d), pend' = [event |-> <<>>, data |-> <<>>]
      PROVE  Handles'
  <2>1. pend'["event"] = <<>> /\ pend'["data"] = <<>>
    BY <1>4, <1>8, PerKind, Zenon
  <2>2. InPend' = {} /\ InPend = Carried(<<c>>) \cup Carried(<<d>>)
    BY <1>8, <2>1, CarriedOne DEF InPend
  <2>3. /\ Carried(Append(upq, c)) = Carried(upq) \cup Carried(<<c>>) /\ Single(Append(upq, c))
        /\ Append(upq, c) \in Seq(Confirmable)
    BY <1>4, <1>5, <2>2 DEF Handles
  <2>4. Carried(Append(upq, c)) \cap Carried(<<d>>) = {}
    BY <1>3, <1>8, <2>2, <2>3 DEF Handles
  <2>5. Carried(upq') = Carried(upq) \cup Carried(<<c>>) \cup Carried(<<d>>) /\ Single(upq')
    BY <1>5, <1>8, <2>3, <2>4
  <2> QED
    BY <1>1, <1>2, <2>2, <2>5 DEF Handles
<1> QED
  BY <1>0, <1>6, <1>7, <1>8, TransmitLemma

(* The network task takes an upload and answers it. *)
LEMMA NetworkHandles ==
  ASSUME UploadInv, Handles, NetworkStep \/ Restart
  PROVE  Handles'
<1>0. Holding
  BY DEF UploadInv
<1>1. UNCHANGED <<stored, queue, pend>>
  BY DEF NetworkStep, Restart, dvars
<1>2. Out' = Out /\ InPend' = InPend
  BY <1>1, OutStays DEF Out, InPend
<1>3. /\ upq \in Seq(Confirmable) /\ conf \in [Kinds -> Seq(Answers)]
      /\ pendingUpload = <<>> \/ \E c \in Confirmable : pendingUpload = <<c>>
  BY <1>0, AtMostOne DEF Holding
<1>4. CASE UNCHANGED <<upq, pendingUpload, conf>>
  BY <1>1, <1>4, HandlesStay
<1>5. CASE /\ upq # <<>> /\ pendingUpload = <<>>
           /\ pendingUpload' = <<Head(upq)>> /\ upq' = Tail(upq) /\ UNCHANGED <<conf, delivered>>
  <2>1. /\ Carried(upq) = Carried(pendingUpload') \cup Carried(upq') /\ Single(upq')
        /\ Carried(pendingUpload') \cap Carried(upq') = {}
    BY <1>3, <1>5, CarriedTail DEF Handles
  <2>2. Carried(pendingUpload) = {} /\ InConf' = InConf
    BY <1>5, CarriedOne DEF InConf
  <2> QED
    BY <1>2, <1>5, <2>1, <2>2 DEF Handles
<1>6. ASSUME NEW ok \in BOOLEAN, pendingUpload' = <<>>, UNCHANGED upq,
             conf' = IF pendingUpload = <<>> THEN conf ELSE Answered(Head(pendingUpload), ok)
      PROVE  Handles'
  <2>1. CASE pendingUpload = <<>>
    BY <1>1, <1>6, <2>1, HandlesStay
  <2>2. ASSUME NEW c \in Confirmable, pendingUpload = <<c>> PROVE Handles'
    <3>1. conf' = Answered(c, ok)
      BY <1>6, <2>2
    <3>2. InConf' = InConf \cup Carried(pendingUpload) /\ \A k \in Kinds : Apart(conf'[k])
      BY <1>3, <2>2, <3>1, AnswerMoves DEF Handles
    <3>3. Carried(pendingUpload') = {}
      BY <1>6, CarriedOne
    <3> QED
      BY <1>2, <1>6, <3>2, <3>3 DEF Handles
  <2> QED
    BY <1>3, <2>1, <2>2
<1>7. CASE conf' = Confirmed /\ pendingUpload' = <<>> /\ UNCHANGED upq
  BY <1>6, <1>7 DEF Confirmed
<1>8. CASE conf' = Dropped /\ pendingUpload' = <<>> /\ UNCHANGED upq
  BY <1>6, <1>8 DEF Dropped
<1> QED
  BY <1>4, <1>5, <1>7, <1>8, NetworkLemma, Zenon

(* Every step keeps the correspondence.                                     *)
LEMMA HandlesStep == UploadInv /\ Handles /\ [Next]_vars => Handles'
<1> SUFFICES ASSUME UploadInv, Handles, [Next]_vars PROVE Handles'
  OBVIOUS
<1>0. Ways
  BY DEF UploadInv
<1>1. CASE NetworkStep \/ Restart
  BY <1>1, NetworkHandles
<1>2. CASE UNCHANGED vars
  BY <1>2, HandlesStay DEF vars, dvars, netvars
<1>3. ASSUME UNCHANGED netvars, PeekEvent PROVE Handles'
  <2>1. UNCHANGED <<stored, upq, pendingUpload>>
    BY <1>3 DEF PeekEvent, netvars
  <2>2. CASE ~ IsPending("event") /\ Peek("event")
    BY <2>1, <2>2, PeekHandles, KindLemma
  <2>3. CASE UNCHANGED <<queue, pend, conf>>
    BY <2>1, <2>3, HandlesStay
  <2> QED
    BY <1>3, <2>2, <2>3 DEF PeekEvent
<1>4. ASSUME UNCHANGED netvars, PeekSensorData PROVE Handles'
  <2>1. UNCHANGED <<stored, upq, pendingUpload>>
    BY <1>4 DEF PeekSensorData, netvars
  <2>2. CASE ~ IsPending("data") /\ Peek("data")
    BY <2>1, <2>2, PeekHandles, KindLemma
  <2>3. CASE UNCHANGED <<queue, pend, conf>>
    BY <2>1, <2>3, HandlesStay
  <2> QED
    BY <1>4, <2>2, <2>3 DEF PeekSensorData
<1>5. ASSUME UNCHANGED netvars, Flush \/ ReceivePacket PROVE Handles'
  BY <1>0, <1>5, TakenBuffered, StoreHandles DEF Flush, ReceivePacket, netvars
<1>6. ASSUME UNCHANGED netvars, ReceiveEvent PROVE Handles'
  BY <1>0, <1>6, TakenEvent, StoreHandles DEF ReceiveEvent, netvars
<1>7. ASSUME UNCHANGED netvars, CheckDrained PROVE Handles'
  BY <1>7, CheckDrainedHandles
<1>8. ASSUME UNCHANGED netvars, WaitConfirmation PROVE Handles'
  BY <1>8, WaitConfirmationHandles
<1>9. ASSUME UNCHANGED netvars, Transmit PROVE Handles'
  BY <1>9, TransmitHandles
<1>10. ASSUME UNCHANGED netvars, ReceiveFails \/ ReceiveRaw \/ TakeBarrier \/ RetryStore \/ Request PROVE Handles'
  BY <1>10, HandlesStay DEF ReceiveFails, ReceiveRaw, TakeBarrier, RetryStore, Request, store, netvars
<1>11. ASSUME UNCHANGED netvars, NEW i \in Items, Hand(i) PROVE Handles'
  BY <1>11, HandlesStay DEF Hand, store, netvars
<1> QED
  BY <1>1, <1>2, <1>3, <1>4, <1>5, <1>6, <1>7, <1>8, <1>9, <1>10, <1>11 DEF Next, Task, Environment

(* At the start nothing is handed out.                                      *)
LEMMA HandlesInitial == UploadInit => Handles
<1> SUFFICES ASSUME UploadInit PROVE Handles
  OBVIOUS
<1>1. /\ pend = [k \in Kinds |-> <<>>] /\ queue = [k \in Kinds |-> EmptyQueue]
      /\ conf = [k \in Kinds |-> <<>>] /\ upq = <<>> /\ pendingUpload = <<>>
  BY DEF UploadInit, Init, Net!NetworkInit
<1>2. UploadInv
  BY UploadInitial
<1>3. ASSUME NEW k \in Kinds PROVE OutIn(k, queue[k]) = {}
  <2>1. \A i \in StoredOf(k) : NumberOf(i) % MAX_PEEKS \in SlotIds
    BY <1>2, StoredAt, SlotRange DEF UploadInv
  <2>2. \A j \in SlotIds : EmptyQueue.slots[j] = None
    BY DEF EmptyQueue
  <2> QED
    BY <1>1, <2>1, <2>2, SlotStatesDiffer DEF OutIn
<1>4. Out = {}
  BY <1>3, KindLemma DEF Out
<1>5. InPend = {} /\ InConf = {} /\ \A k \in Kinds : Apart(conf[k])
  BY <1>1, CarriedOne, KindLemma DEF InPend, InConf
<1> QED
  BY <1>1, <1>4, <1>5, CarriedOne DEF Handles

(* Without repetition, an item is counted once.                             *)
LEMMA CountOne ==
  ASSUME NEW s, NEW i
  PROVE  /\ Single(s) => Cardinality({m \in DOMAIN s : s[m].item = i /\ s[m].handle})
                            = IF i \in Carried(s) THEN 1 ELSE 0
         /\ Apart(s) => Cardinality({m \in DOMAIN s : s[m].item = i}) = IF i \in Told(s) THEN 1 ELSE 0
<1>1. Cardinality({}) = 0 /\ \A x : Cardinality({x}) = 1
  BY FS_EmptySet, FS_Singleton
<1>2. ASSUME Single(s)
      PROVE  Cardinality({m \in DOMAIN s : s[m].item = i /\ s[m].handle}) = IF i \in Carried(s) THEN 1 ELSE 0
  <2> DEFINE M == {m \in DOMAIN s : s[m].item = i /\ s[m].handle}
  <2>1. CASE i \in Carried(s)
    <3>1. PICK m \in DOMAIN s : s[m].handle /\ s[m].item = i
      BY <2>1, CarriedMember
    <3>2. M = {m}
      BY <1>2, <3>1 DEF Single
    <3> QED
      BY <1>1, <2>1, <3>2
  <2>2. CASE i \notin Carried(s)
    <3>1. M = {}
      BY <2>2, CarriedMember
    <3> QED
      BY <1>1, <2>2, <3>1
  <2> QED
    BY <2>1, <2>2
<1>3. ASSUME Apart(s)
      PROVE  Cardinality({m \in DOMAIN s : s[m].item = i}) = IF i \in Told(s) THEN 1 ELSE 0
  <2> DEFINE M == {m \in DOMAIN s : s[m].item = i}
  <2>1. CASE i \in Told(s)
    <3>1. PICK m \in DOMAIN s : s[m].item = i
      BY <2>1, CarriedMember
    <3>2. M = {m}
      BY <1>3, <3>1 DEF Apart
    <3> QED
      BY <1>1, <2>1, <3>2
  <2>2. CASE i \notin Told(s)
    <3>1. M = {}
      BY <2>2, CarriedMember
    <3> QED
      BY <1>1, <2>2, <3>1
  <2> QED
    BY <2>1, <2>2
<1> QED
  BY <1>2, <1>3

(* A peeked item has one handle, in one place, or one answer (OneHolder): however *)
(* the tasks cancel, fail, drop and end, for every number of items and slots.     *)
THEOREM HoldersAreUnique == Spec => []OneHolder
<1>1. UploadInit => UploadInv /\ Handles
  BY UploadInitial, HandlesInitial
<1>2. UploadInv /\ Handles /\ [Next]_vars => (UploadInv /\ Handles)'
  BY UploadStep, HandlesStep
<1>3. UploadInv /\ Handles => OneHolder
  <2> SUFFICES ASSUME UploadInv, Handles, NEW k \in Kinds, NEW i \in Items, i \in ToSet(stored[k])
               PROVE  Cardinality({m \in DOMAIN Holders : Holders[m].item = i /\ Holders[m].handle})
                        + Cardinality({m \in DOMAIN conf[k] : conf[k][m].item = i})
                        = IF Busy(NumberOf(i)) \in Range(queue[k].slots) THEN 1 ELSE 0
    BY Zenon DEF OneHolder
  <2>0. Ways /\ Holding /\ Kept /\ i \in StoredOf(k)
    BY DEF UploadInv, StoredOf
  <2>1. /\ pend["event"] \in Seq(Confirmable) /\ pend["data"] \in Seq(Confirmable)
        /\ upq \in Seq(Confirmable) /\ pendingUpload \in Seq(Confirmable)
        /\ Single(pend["event"]) /\ Single(pend["data"]) /\ Single(upq) /\ Single(pendingUpload)
    <3>1. \A s \in Seq(Confirmable) : Len(s) <= 1 => Single(s)
      BY AtMostOne, CarriedOne
    <3> QED
      BY <2>0, <3>1, KindLemma DEF Holding, Handles
  <2>2. Carried(pend["event"]) \cap Carried(pend["data"]) = {}
    BY <2>0, OwnStream, KindLemma
  <2>3. Single(Holders) /\ Carried(Holders) = InPend \cup Carried(upq) \cup Carried(pendingUpload)
    <3> DEFINE p == pend["event"] \o pend["data"]
    <3>1. p \in Seq(Confirmable) /\ Single(p) /\ Carried(p) = InPend
      BY <2>1, <2>2, CarriedConcat DEF InPend
    <3> HIDE DEF p
    <3>2. p \o upq \in Seq(Confirmable) /\ Single(p \o upq) /\ Carried(p \o upq) = InPend \cup Carried(upq)
      BY <2>1, <3>1, CarriedConcat DEF Handles
    <3>3. Holders = (p \o upq) \o pendingUpload
      BY DEF Holders, p
    <3>4. (InPend \cup Carried(upq)) \cap Carried(pendingUpload) = {}
      BY DEF Handles
    <3>5. /\ Carried((p \o upq) \o pendingUpload) = Carried(p \o upq) \cup Carried(pendingUpload)
          /\ Single((p \o upq) \o pendingUpload)
      BY <2>1, <3>2, <3>4, CarriedConcat
    <3> QED
      BY <3>2, <3>3, <3>5
  <2>4. i \in Told(conf[k]) <=> i \in InConf
    BY <2>0, OwnStream, KindLemma DEF InConf, Kinds
  <2>5. i \in OutIn(k, queue[k]) <=> i \in Out
    BY <2>0, OwnStream, KindLemma DEF Out, Kinds
  <2>6. i \in OutIn(k, queue[k]) <=> Busy(NumberOf(i)) \in Range(queue[k].slots)
    <3> DEFINE n == NumberOf(i)
               q == queue[k]
    <3>1. n \in 0 .. Len(stored[k]) - 1 /\ n % MAX_PEEKS \in SlotIds
      BY <2>0, StoredAt, SlotRange
    <3>2. QueueOk(q, Len(stored[k])) /\ DOMAIN q.slots = SlotIds
      BY <2>0 DEF Kept, KeptIn, QueueOk, QueueType
    <3> HIDE DEF n, q
    <3>3. \A j \in SlotIds : q.slots[j] = Busy(n) => j = n % MAX_PEEKS
      BY <3>2, SlotStatesDiffer DEF QueueOk
    <3>4. Busy(n) \in Range(q.slots) <=> q.slots[n % MAX_PEEKS] = Busy(n)
      BY <3>1, <3>2, <3>3 DEF Range
    <3> QED
      BY <2>0, <3>4 DEF OutIn, n, q
  <2>7. Apart(conf[k])
    BY DEF Handles
  <2>8. /\ Cardinality({m \in DOMAIN Holders : Holders[m].item = i /\ Holders[m].handle})
              = IF i \in Carried(Holders) THEN 1 ELSE 0
        /\ Cardinality({m \in DOMAIN conf[k] : conf[k][m].item = i}) = IF i \in Told(conf[k]) THEN 1 ELSE 0
    <3>1. Cardinality({m \in DOMAIN Holders : Holders[m].item = i /\ Holders[m].handle})
            = IF i \in Carried(Holders) THEN 1 ELSE 0
      BY <2>3, CountOne, Zenon
    <3>2. Cardinality({m \in DOMAIN conf[k] : conf[k][m].item = i}) = IF i \in Told(conf[k]) THEN 1 ELSE 0
      BY <2>7, CountOne, Zenon
    <3> QED
      BY <3>1, <3>2, Zenon
  <2>9. /\ i \in Out <=> i \in Carried(Holders) \/ i \in InConf
        /\ ~ (i \in Carried(Holders) /\ i \in InConf)
    BY <2>3 DEF Handles
  <2> QED
    BY <2>4, <2>5, <2>6, <2>8, <2>9
<1> QED
  BY <1>1, <1>2, <1>3, PTL DEF Spec

=============================================================================
