----------------------------- MODULE StreamStore -----------------------------
(***************************************************************************)
(* storage/flash_db/circular_store.rs and storage/common/stream_store.rs:  *)
(* a queue of items that survives restarts.                                *)
(*                                                                         *)
(* The fragments are in a circular buffer on the blocks that               *)
(* block_layer.rs provides, whose calls are taken as BlockSpec specifies   *)
(* them: one step, which succeeds, or fails and leaves the old, a broken   *)
(* or the new contents. Of a fragment only its status matters here. The    *)
(* buffer keeps no state in memory: where reading and writing continue     *)
(* after a restart is found by scanning the blocks.                        *)
(*                                                                         *)
(* The stream store composes it with the bookkeeping in memory (Queue).    *)
(* One task enqueues and peeks; others confirm or drop the handles         *)
(* meanwhile. Every call of the flash can fail, and the power can be cut   *)
(* between and during calls: a cut during a call is a failure followed by  *)
(* Restart. The last block of the stream, its spare, is unused.            *)
(***************************************************************************)
EXTENDS Integers, Sequences

CONSTANTS
  BlockCount,         \* blocks of the buffer, without the spare block
  FragmentsPerBlock,
  SeqMod,             \* sequence numbers are u32: arithmetic modulo SeqMod
  OverwriteOnFull,    \* Circular::overwrite_on_full
  Free,               \* in place of a header: the block has none
  Foreign             \* a header with another object id or fragment size

FragmentCount == BlockCount * FragmentsPerBlock
SeqNo == 0 .. SeqMod - 1
Blocks == 0 .. BlockCount - 1
SlotIds == 0 .. FragmentsPerBlock - 1

ASSUME CircularAssumption ==
  /\ BlockCount \in Nat \ {0}
  /\ FragmentsPerBlock \in Nat \ {0}
  /\ SeqMod \in Nat /\ SeqMod > 2 * FragmentCount
  /\ OverwriteOnFull \in BOOLEAN
  /\ Free # Foreign /\ {Free, Foreign} \cap Int = {}

VARIABLE block        \* first sequence number and fragment states of every block

(* Mutant: + for wrapping_add. *)
AddUnwrapped(a, b) == a + b

Add(a, b) == (a + b) % SeqMod     \* u32 wrapping_add
Sub(a, b) == (a - b) % SeqMod     \* u32 wrapping_sub

Status == {"Empty", "Valid", "Invalid", "Obsolete"}
Formatted(first) == [first |-> first, frag |-> [i \in SlotIds |-> "Empty"]]

-----------------------------------------------------------------------------
(* Where a fragment is stored.                                              *)

(* Mutant: the spare block is subtracted once more. *)
BlockOfOneLess(s) == (s \div FragmentsPerBlock) % (BlockCount - 1)

(* find_block_no_for_seq_no *)
BlockOf(s) == (s % FragmentCount) \div FragmentsPerBlock
SlotOf(s) == s % FragmentsPerBlock

(* find_block_for_seq_no *)
FindBlock(s) ==
  LET first == block[BlockOf(s)].first
  IN  IF first = Free THEN "None"
      ELSE IF first = Foreign THEN "Corrupt"
      ELSE IF s # Add(first, SlotOf(s)) THEN "NotFound"
      ELSE "Found"

StatusOf(s) == block[BlockOf(s)].frag[SlotOf(s)]

(* read_circular_fragment succeeds, if the flash does *)
Readable(s) == FindBlock(s) = "Found" /\ StatusOf(s) = "Valid"

SetStatus(s, st) == [block EXCEPT ![BlockOf(s)].frag[SlotOf(s)] = st]
SetBlock(s, b) == [block EXCEPT ![BlockOf(s)] = b]

-----------------------------------------------------------------------------
(* write_circular_fragment: format the block when it holds nothing of       *)
(* value, then write; and delete_circular_fragment.                         *)

(* block_find_valid_fragment *)
HasValid(b) == \E i \in SlotIds : block[b].frag[i] = "Valid"

(* Mutant: overwrite_on_full is ignored. *)
NeedsFormatAlways(s) == FindBlock(s) # "Found"

NeedsFormat(s) ==
  \/ FindBlock(s) \in {"None", "Corrupt"}
  \/ FindBlock(s) = "NotFound" /\ (OverwriteOnFull \/ ~ HasValid(BlockOf(s)))

(* The first fragment of a block formats it; any other one is refused. *)
CanFormat(s) == NeedsFormat(s) /\ SlotOf(s) = 0

NotWriteable(s) ==
  \/ NeedsFormat(s) /\ SlotOf(s) # 0
  \/ FindBlock(s) = "Found" /\ StatusOf(s) # "Empty"

CanWrite(s) == FindBlock(s) = "Found" /\ StatusOf(s) = "Empty"

FormatOk(s) == block' = SetBlock(s, Formatted(s))
FormatFails(s) == block' \in {block, SetBlock(s, Formatted(Free)), SetBlock(s, Formatted(s))}

WriteOk(s) == block' = SetStatus(s, "Valid")
WriteFails(s) == block' \in {block, SetStatus(s, "Invalid"), SetStatus(s, "Valid")}

CanDelete(s) == FindBlock(s) = "Found" /\ StatusOf(s) \in {"Empty", "Valid"}
DeleteOk(s) == block' = SetStatus(s, "Obsolete")
DeleteFails(s) == block' \in {block, SetStatus(s, "Invalid"), SetStatus(s, "Obsolete")}

-----------------------------------------------------------------------------
(* find_circular_range                                                      *)

MAX_FRAGMENTS_PER_OBJECT == (SeqMod - 1) \div 2

(* fragment_gte *)
FragmentGte(large, small) == Sub(large, small) < MAX_FRAGMENTS_PER_OBJECT

Mine == {b \in Blocks : block[b].first \in SeqNo}

(* The last fragment that is not Invalid decides what a block is taken for. *)
Deciding(b, i) ==
  /\ block[b].frag[i] # "Invalid"
  /\ \A j \in SlotIds : j > i => block[b].frag[j] = "Invalid"

AllEmpty(b) ==
  \E i \in SlotIds :
    Deciding(b, i) /\ block[b].frag[i] = "Empty" /\ block[b].frag[0] = "Empty"

(* Mutant: a block that ends in an Empty fragment is taken for empty. *)
MayContainDataIfFull(b) ==
  \E i \in SlotIds : Deciding(b, i) /\ block[b].frag[i] = "Valid"

MayContainData(b) ==
  \E i \in SlotIds :
    /\ Deciding(b, i)
    /\ \/ block[b].frag[i] = "Valid"
       \/ block[b].frag[i] = "Empty" /\ block[b].frag[0] # "Empty"

(* Scan the blocks of S in order; a block replaces the choice so far if     *)
(* Better holds of their first fragments.                                   *)
Scan(S, Better(_, _)) ==
  LET choice[n \in 0 .. BlockCount] ==
        IF n = 0 THEN Free
        ELSE LET b == n - 1 IN
             IF b \in S /\ (choice[b] = Free \/ Better(block[b].first, choice[b]))
               THEN block[b].first ELSE choice[b]
  IN  choice[BlockCount]

(* Mutant: the comparison is the wrong way round. *)
LowestReversed(S) == Scan(S, LAMBDA new, old : FragmentGte(new, old))

Lowest(S) == Scan(S, LAMBDA new, old : ~ FragmentGte(new, old))
Highest(S) == Scan(S, LAMBDA new, old : FragmentGte(new, old))

(* Number of fragments at the start of a block that have a status in T. *)
Leading(b, T) ==
  CHOOSE n \in 0 .. FragmentsPerBlock :
    /\ \A i \in SlotIds : i < n => block[b].frag[i] \in T
    /\ n \in SlotIds => block[b].frag[n] \notin T

FindCircularRange ==
  LET data  == {b \in Mine : MayContainData(b)}
      empty == {b \in Mine : AllEmpty(b)}
      at(n) == [start |-> n, end |-> n]
  IN  IF data # {} THEN
        LET read  == Lowest(data)
            write == Highest(data)
        IN  [start |-> Add(read, Leading(BlockOf(read), {"Invalid", "Obsolete"})),
             end   |-> Add(write, Leading(BlockOf(write), Status \ {"Empty"}))]
      ELSE IF empty # {} THEN at(Lowest(empty))
      ELSE IF Mine # {} THEN at(Add(Highest(Mine), FragmentsPerBlock))
      ELSE at(0)

-----------------------------------------------------------------------------
(* The stream store.                                                        *)

CONSTANTS
  MAX_PEEKS,    \* handles that can exist at a time
  MaxFaults,    \* bound on the number of flash failures and restarts
  NoSeq         \* no sequence number

ASSUME StreamAssumption ==
  /\ MAX_PEEKS \in Nat \ {0} /\ MAX_PEEKS < SeqMod
  /\ MaxFaults \in Nat
  /\ NoSeq \notin SeqNo

VARIABLES
  read_index_min, read_index_next, reader_slots, slot_index, write_index,
  channel, handles, pc, iter, result, pending,   \* see Queue
  call,         \* the call that is being executed
  oldest,       \* peek_next: next fragment to be cleaned up
  held,         \* peek_next: item whose handle is not yet given to the caller
  stored,       \* history: items enqueued with Ok, neither confirmed nor erased
  faults        \* number of failures and restarts so far

Q == INSTANCE Queue WITH Capacity <- FragmentCount, Granularity <- FragmentsPerBlock

queue == <<read_index_min, read_index_next, reader_slots, slot_index, write_index, channel,
           handles, pc, iter, result, pending>>
vars == <<block, queue, call, oldest, held, stored, faults>>

Fault == faults < MaxFaults /\ faults' = faults + 1
NoFault == UNCHANGED faults

-----------------------------------------------------------------------------
(* enqueue: write at the write index, then advance it. An item that is too  *)
(* large or finds no space changes nothing.                                 *)

Format ==
  /\ call = "none"
  /\ Q!NoneTooOld               \* a bound of Queue
  /\ CanFormat(write_index)
  /\ \/ FormatOk(write_index) /\ call' = "write" /\ NoFault
     \/ FormatFails(write_index) /\ UNCHANGED call /\ Fault
  /\ stored' = {s \in stored : BlockOf(s) # BlockOf(write_index) \/ block' = block}
  /\ UNCHANGED <<queue, oldest, held>>

Write ==
  /\ call \in {"none", "write"}
  /\ CanWrite(write_index)
  /\ call' = "none"
  /\ \/ /\ WriteOk(write_index)
        /\ Q!Enqueue
        /\ stored' = IF result' = "enqueued" THEN stored \cup {write_index} ELSE stored
        /\ NoFault
     \/ /\ WriteFails(write_index)
        /\ Fault
        /\ UNCHANGED <<queue, stored>>
  /\ UNCHANGED <<oldest, held>>

(* FragmentNotWriteable: the next item uses the next sequence number *)
SkipUnwriteable ==
  /\ call = "none"
  /\ NotWriteable(write_index)
  /\ Q!Enqueue
  /\ UNCHANGED <<block, call, oldest, held, stored, faults>>

-----------------------------------------------------------------------------
(* peek_next: let the queue choose an item, clean up what is confirmed,     *)
(* then read the item.                                                      *)

Peek ==
  /\ call = "none"
  /\ Q!PeekNext
  /\ call' = IF pc' = "peek" THEN "peek" ELSE "none"
  /\ oldest' = IF pc' = "peek" THEN read_index_min ELSE NoSeq
  /\ UNCHANGED <<block, held, stored, faults>>

Choose ==
  /\ call = "peek"
  /\ \/ (Q!UpdateReaderSlots \/ Q!FindReader) /\ UNCHANGED <<call, held>>
     \/ /\ Q!Find
        /\ call' = IF pc' = "idle" THEN "cleanup" ELSE "peek"
        /\ held' = IF handles' = handles THEN NoSeq ELSE CHOOSE s \in handles' : s \notin handles
  /\ UNCHANGED <<block, oldest, stored, faults>>

PeekReturns == call' = "none" /\ oldest' = NoSeq /\ held' = NoSeq

(* An error ends peek_next and drops the handle, if there is one. *)
Fail ==
  /\ PeekReturns
  /\ IF held = NoSeq THEN UNCHANGED queue ELSE Q!Drop(held)

(* Mutant: items that are peeked but not confirmed are cleaned up too. *)
CleanupPeeked ==
  /\ call = "cleanup"
  /\ oldest # read_index_next
  /\ oldest' = Add(oldest, 1)
  /\ IF CanDelete(oldest) THEN DeleteOk(oldest) ELSE UNCHANGED block
  /\ UNCHANGED <<queue, call, held, stored, faults>>

Cleanup ==
  /\ call = "cleanup"
  /\ oldest # read_index_min
  /\ \/ /\ FindBlock(oldest) # "Corrupt"
        /\ oldest' = Add(oldest, 1)
        /\ IF CanDelete(oldest) THEN DeleteOk(oldest) ELSE UNCHANGED block
        /\ NoFault
        /\ UNCHANGED <<queue, call, held>>
     \/ /\ IF CanDelete(oldest) THEN DeleteFails(oldest) ELSE UNCHANGED block
        /\ IF FindBlock(oldest) = "Corrupt" THEN NoFault ELSE Fault
        /\ Fail
  /\ UNCHANGED stored

Read ==
  /\ call = "cleanup"
  /\ oldest = read_index_min
  /\ \/ /\ held # NoSeq => Readable(held)
        /\ PeekReturns
        /\ NoFault
        /\ UNCHANGED queue
     \/ /\ held # NoSeq /\ ~ Readable(held)    \* skipped
        /\ PeekReturns
        /\ NoFault
        /\ Q!Confirm(held)
     \/ /\ held # NoSeq                        \* Error::Flash
        /\ Fault
        /\ Fail
  /\ UNCHANGED <<block, stored>>

-----------------------------------------------------------------------------
(* The handles, is_drained and wait_confirmation.                           *)

Confirm(s) ==
  /\ s \in handles \ {held}
  /\ Q!Confirm(s)
  /\ stored' = stored \ {s}
  /\ UNCHANGED <<block, call, oldest, held, faults>>

Drop(s) ==
  /\ s \in handles \ {held}
  /\ Q!Drop(s)
  /\ UNCHANGED <<block, call, oldest, held, stored, faults>>

IsDrained ==
  /\ call = "none"
  /\ Q!IsDrained
  /\ call' = "drained"
  /\ UNCHANGED <<block, oldest, held, stored, faults>>

IsDrainedReturn ==
  /\ call = "drained"
  /\ \/ Q!UpdateReaderSlots /\ UNCHANGED call
     \/ Q!IsDrainedReturn /\ call' = "none"
  /\ UNCHANGED <<block, oldest, held, stored, faults>>

WaitConfirmation ==
  /\ call = "none"
  /\ Q!WaitConfirmation
  /\ UNCHANGED <<block, call, oldest, held, stored, faults>>

-----------------------------------------------------------------------------
(* A restart at any moment loses everything but the flash; initialize then  *)
(* scans it.                                                                *)

Restart ==
  /\ Fault
  /\ LET range == FindCircularRange
     IN  /\ read_index_min' = range.start
         /\ read_index_next' = range.start
         /\ slot_index' = Q!SlotOf(range.start)
         /\ write_index' = range.end
         /\ pending' = Q!Between(range.start, range.end)
  /\ reader_slots' = [i \in Q!SlotIds |-> Q!None]
  /\ channel' = <<>>
  /\ handles' = {}
  /\ pc' = "idle" /\ iter' = 0 /\ result' = "none"
  /\ PeekReturns
  /\ UNCHANGED <<block, stored>>

(* A device that comes from the factory, or from firmware with another      *)
(* layout of the flash.                                                     *)
Init ==
  /\ block \in [Blocks -> {Formatted(Free), Formatted(Foreign)}]
  /\ Q!Reinit(FindCircularRange.start, FindCircularRange.end)
  /\ channel = <<>> /\ handles = {}
  /\ pc = "idle" /\ iter = 0 /\ result = "none"
  /\ call = "none" /\ oldest = NoSeq /\ held = NoSeq
  /\ stored = {} /\ faults = 0

Next ==
  \/ Format \/ Write \/ SkipUnwriteable
  \/ Peek \/ Choose \/ Cleanup \/ Read
  \/ \E s \in handles : Confirm(s) \/ Drop(s)
  \/ IsDrained \/ IsDrainedReturn \/ WaitConfirmation
  \/ Restart

Spec == Init /\ [][Next]_vars

(* The task that owns the store goes on with a call that it began, and      *)
(* peeks in every round of its loop; every handle is confirmed or dropped,  *)
(* and an item that is uploaded over and over succeeds some day.            *)
Fairness ==
  /\ SF_vars(Peek)
  /\ WF_vars(Choose) /\ WF_vars(Cleanup) /\ WF_vars(Read)
  /\ WF_vars(IsDrainedReturn) /\ WF_vars(call = "write" /\ Write)
  /\ \A s \in SeqNo : WF_vars(Confirm(s) \/ Drop(s)) /\ SF_vars(Confirm(s))

LiveSpec == Spec /\ Fairness

-----------------------------------------------------------------------------
(* Properties.                                                              *)

BlockType == [first : SeqNo \cup {Free, Foreign}, frag : [SlotIds -> Status]]

(* The flash, the queue in memory and the running call have their types:    *)
(* sequence numbers never leave the range of u32.                           *)
TypeOK ==
  /\ Q!TypeOK
  /\ block \in [Blocks -> BlockType]
  /\ call \in {"none", "write", "peek", "cleanup", "drained"}
  /\ oldest \in SeqNo \cup {NoSeq}
  /\ held \in SeqNo \cup {NoSeq}
  /\ stored \subseteq SeqNo
  /\ faults \in 0 .. MaxFaults

(* An item that was stored can be read until it is confirmed or its block   *)
(* is overwritten: no cleanup, failed write or failed delete touches it.    *)
StoredIsReadable == \A s \in stored : Readable(s)

(* Whenever the power is cut, the scan finds every stored item: it is in    *)
(* the range that initialize restores, and the next item gets another       *)
(* sequence number.                                                         *)
StoredIsFound ==
  stored \subseteq Q!Between(FindCircularRange.start, FindCircularRange.end)

(* The queue in memory has not given up a stored item either. *)
StoredIsQueued == stored \subseteq Q!Between(read_index_min, write_index)

(* An item that was stored is safe in all three respects. *)
StoredIsSafe == StoredIsReadable /\ StoredIsQueued /\ StoredIsFound

(* Unconfirmed items are only erased when the buffer is full, and then the  *)
(* oldest ones.                                                             *)
OldestOverwrittenFirst ==
  [][\A s \in stored \ stored' :
       BlockOf(s) # BlockOf(write_index) \/ block' = block
         \/ /\ OverwriteOnFull
            /\ Sub(write_index, s) > FragmentCount - FragmentsPerBlock
            /\ Sub(write_index, s) <= FragmentCount]_vars

(* Every stored item is confirmed some day, or overwritten, whatever fails  *)
(* and however often the device restarts meanwhile.                         *)
EventuallyDelivered == \A s \in SeqNo : s \in stored ~> s \notin stored
=============================================================================
