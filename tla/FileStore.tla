------------------------------ MODULE FileStore ------------------------------
(***************************************************************************)
(* storage/flash_db/file_store.rs with the object functions of flash_db.rs:*)
(* one file, written as a whole, deleted and read.                         *)
(*                                                                         *)
(* A file has data blocks and a spare block. The first fragment of the     *)
(* spare block is the lock of the file, its version says which data blocks *)
(* belong to the file. The calls of the block layer are taken as BlockSpec *)
(* specifies them. A call on the file holds the arbiter until it returns,  *)
(* so it is interrupted only by a failing flash or by a power cut.         *)
(***************************************************************************)
EXTENDS Integers, Sequences

CONSTANTS
  DataBlocks,         \* number of blocks without the spare block
  FragmentsPerBlock,
  VersionMod,         \* versions are u8: arithmetic modulo VersionMod
  MaxCalls,           \* bound on the calls of write_file and delete
  MaxFaults,          \* bound on flash failures and power cuts
  Free                \* no header, no version

FragmentCount == DataBlocks * FragmentsPerBlock
Blocks == 0 .. DataBlocks
SlotIds == 0 .. FragmentsPerBlock - 1
Versions == 0 .. VersionMod - 1
FirstBlock == 0
SpareBlock == DataBlocks

VARIABLES
  block,      \* version and fragments of every block
  call,       \* the call that is being executed and its next step
  ret,        \* what the last call returned
  lens,       \* history: number of fragments of every write so far, 0 for a delete
  complete,   \* history: the last call returned Ok
  faults      \* number of failures and power cuts so far

vars == <<block, call, ret, lens, complete, faults>>

-----------------------------------------------------------------------------
(* Blocks. A fragment that is written remembers which write_file did it.    *)

Frag(st) == [st |-> st, by |-> 0]
Written(w) == [st |-> "Valid", by |-> w]
Formatted(v) == [ver |-> v, frag |-> [i \in SlotIds |-> Frag("Empty")]]

SetFrag(b, i, f) == [block EXCEPT ![b].frag[i] = f]
SetBlock(b, v) == [block EXCEPT ![b] = Formatted(v)]

Fault == faults < MaxFaults /\ faults' = faults + 1
NoFault == UNCHANGED faults

Goto(c) == call' = c /\ UNCHANGED <<ret, complete>>

Idle == [kind |-> "none"]
Return(r) == call' = Idle /\ ret' = r /\ complete' = (r = "ok")

(* A formatting or deleting step: go on, or return the error. *)
FormatStep(b, v, c) ==
  \/ block' = SetBlock(b, v) /\ NoFault /\ Goto(c)
  \/ block' \in {block, SetBlock(b, Free), SetBlock(b, v)} /\ Fault /\ Return("err")

-----------------------------------------------------------------------------
(* Locks and versions.                                                      *)

(* Database::lock_status *)
Locked ==
  \/ block[SpareBlock].ver = Free
  \/ block[SpareBlock].frag[0].st # "Empty"

(* Mutants: + for wrapping_add; the version is not incremented. *)
NextVersionUnwrapped ==
  LET spare == block[SpareBlock].ver IN IF spare = Free THEN VersionMod ELSE spare + 1

NextVersionSame ==
  LET spare == block[SpareBlock].ver IN IF spare = Free THEN 0 ELSE spare

(* Database::delete_object: both headers go to element 0 of versions, so    *)
(* that element 1 keeps its initial value 0xFF.                             *)
NextVersion ==
  LET spare == block[SpareBlock].ver
      first == block[FirstBlock].ver
      v0 == IF spare # Free THEN spare ELSE IF first # Free THEN first ELSE VersionMod - 1
      v1 == VersionMod - 1
      existing == IF v1 - v0 > VersionMod \div 2 THEN v0 ELSE v1
  IN  (existing + 1) % VersionMod

-----------------------------------------------------------------------------
(* read_file and read_file_fragment                                         *)

ReadableFragment(i) ==
  LET b == block[i \div FragmentsPerBlock]
  IN  ~ Locked /\ b.ver = block[SpareBlock].ver
        /\ b.frag[i % FragmentsPerBlock].st = "Valid"

WrittenBy(i) == block[i \div FragmentsPerBlock].frag[i % FragmentsPerBlock].by

FragIndices == 0 .. FragmentCount - 1

(* What read_file returns: the fragments before the first unreadable one;   *)
(* none is an error.                                                        *)
ReadFile ==
  {i \in FragIndices : \A j \in 0 .. i : ReadableFragment(j)}

-----------------------------------------------------------------------------
(* write_file and delete                                                    *)

WriteFile(n) ==
  /\ call = Idle
  /\ Len(lens) < MaxCalls
  /\ lens' = Append(lens, n)
  /\ call' = [kind |-> "write", step |-> "lock", ver |-> 0, idx |-> 0]
  /\ ret' = "none"
  /\ complete' = FALSE
  /\ UNCHANGED <<block, faults>>

Delete ==
  /\ call = Idle
  /\ Len(lens) < MaxCalls
  /\ lens' = Append(lens, 0)
  /\ call' = [kind |-> "delete", step |-> "first", ver |-> NextVersion, idx |-> 0]
  /\ ret' = "none"
  /\ complete' = FALSE
  /\ UNCHANGED <<block, faults>>

At(s) == call # Idle /\ call.step = s

(* Database::lock deletes the first fragment of a valid spare block; then   *)
(* delete_object chooses the version.                                       *)
Lock ==
  LET c == [call EXCEPT !.step = "first", !.ver = NextVersion]
      spare == block[SpareBlock]
  IN  /\ At("lock")
      /\ \/ /\ spare.ver = Free \/ spare.frag[0].st \in {"Invalid", "Obsolete"}
            /\ NoFault /\ Goto(c)
            /\ UNCHANGED block
         \/ /\ spare.ver # Free /\ spare.frag[0].st = "Empty"
            /\ \/ /\ block' = SetFrag(SpareBlock, 0, Frag("Obsolete"))
                  /\ NoFault /\ Goto(c)
               \/ /\ block' \in {block, SetFrag(SpareBlock, 0, Frag("Invalid")),
                                 SetFrag(SpareBlock, 0, Frag("Obsolete"))}
                  /\ Fault /\ Return("err")
      /\ UNCHANGED lens

FormatFirst ==
  /\ At("first")
  /\ FormatStep(FirstBlock, call.ver, [call EXCEPT !.step = "spare"])
  /\ UNCHANGED lens

(* This also unlocks the file. *)
FormatSpare ==
  /\ At("spare")
  /\ FormatStep(SpareBlock, call.ver, [call EXCEPT !.step = "prepare"])
  /\ UNCHANGED lens

MoreToWrite == call.kind = "write" /\ call.idx < lens[Len(lens)]

(* Mutant: a block of an earlier version is not formatted. *)
PrepareAnyVersion ==
  LET b == call.idx \div FragmentsPerBlock
      c == [call EXCEPT !.step = "data"]
  IN  /\ At("prepare") /\ MoreToWrite
      /\ \/ block[b].ver # Free /\ Goto(c) /\ UNCHANGED <<block, faults>>
         \/ block[b].ver = Free /\ FormatStep(b, call.ver, c)
      /\ UNCHANGED lens

(* Database::prepare_writeable_block *)
Prepare ==
  LET b == call.idx \div FragmentsPerBlock
      c == [call EXCEPT !.step = "data"]
  IN  /\ At("prepare") /\ MoreToWrite
      /\ \/ block[b].ver = call.ver /\ Goto(c) /\ UNCHANGED <<block, faults>>
         \/ block[b].ver # call.ver /\ FormatStep(b, call.ver, c)
      /\ UNCHANGED lens

(* write_file_fragment, with the block ready *)
WriteFragment ==
  LET b == call.idx \div FragmentsPerBlock
      i == call.idx % FragmentsPerBlock
      f == Written(Len(lens))
  IN  /\ At("data")
      /\ \/ /\ block[b].frag[i].st # "Empty"
            /\ Return("FragmentNotWriteable") /\ NoFault
            /\ UNCHANGED block
         \/ /\ block[b].frag[i].st = "Empty"
            /\ block' = SetFrag(b, i, f)
            /\ NoFault /\ Goto([call EXCEPT !.step = "prepare", !.idx = @ + 1])
         \/ /\ block[b].frag[i].st = "Empty"
            /\ block' \in {block, SetFrag(b, i, Frag("Invalid")), SetFrag(b, i, f)}
            /\ Fault /\ Return("err")
      /\ UNCHANGED lens

(* Database::unlock formats the spare block if the file is still locked;    *)
(* delete has unlocked it.                                                  *)
Finish ==
  /\ At("prepare") /\ ~ MoreToWrite
  /\ IF Locked /\ call.kind = "write" THEN block' = SetBlock(SpareBlock, call.ver) ELSE UNCHANGED block
  /\ Return("ok")
  /\ UNCHANGED <<lens, faults>>

(* The power is cut, or a read of the flash fails, between two steps. *)
Abort ==
  /\ call # Idle
  /\ Fault
  /\ Return("err")
  /\ UNCHANGED <<block, lens>>

(* read_file changes nothing. *)
Read == call = Idle /\ UNCHANGED vars

-----------------------------------------------------------------------------

Init ==
  /\ block = [b \in Blocks |-> Formatted(Free)]
  /\ call = Idle
  /\ ret = "none"
  /\ lens = <<>>
  /\ complete = FALSE
  /\ faults = 0

Next ==
  \/ \E n \in 0 .. FragmentCount : WriteFile(n)
  \/ Delete
  \/ Lock \/ FormatFirst \/ FormatSpare \/ Prepare \/ WriteFragment \/ Finish
  \/ Abort
  \/ Read

Spec == Init /\ [][Next]_vars

-----------------------------------------------------------------------------
(* Properties.                                                              *)

FragType == {Frag(st) : st \in {"Empty", "Invalid", "Obsolete"}}
              \cup {Written(w) : w \in 1 .. MaxCalls}

Calls == [kind : {"write", "delete"}, step : {"lock", "first", "spare", "prepare", "data"},
          ver : Versions, idx : 0 .. FragmentCount]

(* The blocks, the running call and the history have their types: versions  *)
(* never leave the range of u8, and a call never passes the last fragment.  *)
TypeOK ==
  /\ block \in [Blocks -> [ver : Versions \cup {Free}, frag : [SlotIds -> FragType]]]
  /\ call \in Calls \cup {Idle}
  /\ ret \in {"none", "ok", "err", "FragmentNotWriteable"}
  /\ lens \in Seq(0 .. FragmentCount) /\ Len(lens) <= MaxCalls
  /\ complete \in BOOLEAN
  /\ faults \in 0 .. MaxFaults

(* A file whose write_file returned Ok is read back completely, a deleted   *)
(* one not at all, and nothing that an earlier and longer version left in   *)
(* the data blocks follows.                                                 *)
CompletedIsRead ==
  complete => /\ ReadFile = 0 .. lens[Len(lens)] - 1
              /\ \A i \in ReadFile : WrittenBy(i) = Len(lens)

(* read_file never returns fragments of two versions of the file, whatever  *)
(* call was interrupted.                                                    *)
NoMixture ==
  call = Idle => \A i, j \in ReadFile : WrittenBy(i) = WrittenBy(j)

Whole(w) == ReadFile = 0 .. lens[w] - 1

(* read_file observes the previous version, an empty file or the new        *)
(* version as a whole, even if the write was interrupted.                   *)
WholeFile ==
  call = Idle /\ ReadFile # {} =>
    \E w \in 1 .. Len(lens) : Whole(w) /\ \A i \in ReadFile : WrittenBy(i) = w

(* A deleted file can be written again: without a failure of the flash, no  *)
(* fragment is refused.                                                     *)
RewriteSucceeds == ret # "FragmentNotWriteable"
=============================================================================
