----------------------------- MODULE BlockLayer ------------------------------
(***************************************************************************)
(* storage/flash_db/block_layer.rs: blocks and fragments on NOR flash.     *)
(*                                                                         *)
(* Every flash command of format_block, write_fragment and delete_fragment *)
(* is a step of its own, and each can fail, or be cut off by a power loss, *)
(* leaving the cells it was programming in an undetermined state. A cell   *)
(* is what one command programs: the 900D marker, the BAAD marker, the     *)
(* rest of the block header, each byte of a fragment header, the data.     *)
(***************************************************************************)
EXTENDS Integers

CONSTANTS
  Blocks,       \* block identifiers, 0 .. blocks_total - 1
  BlockSize,    \* size of an erase block in bytes
  FragSizes,    \* fragment sizes that callers ask for
  SeqMod,       \* fragment numbers are u32: arithmetic modulo SeqMod
  FirstFrags,   \* fragment numbers that callers start a block at
  Lens, Vals,   \* lengths and values of what is written
  FF,           \* an erased cell
  Junk          \* a cell holding neither 0xFF nor what was to be written

VARIABLES
  cell,         \* the flash, one record per block
  op,           \* the call that is being executed
  step,         \* the flash command it executes next
  ret           \* what the last call returned

vars == <<cell, op, step, ret>>

BLOCK_HEADER_SIZE == 16
FRAG_HEADER_SIZE == 3

(* calculate_fragments_per_block *)
FragmentsPerBlock(size) == (BlockSize - BLOCK_HEADER_SIZE) \div (size + FRAG_HEADER_SIZE)

SlotIds == UNION {0 .. FragmentsPerBlock(size) - 1 : size \in FragSizes}
Headers == [size : FragSizes, first : FirstFrags]
Data == [len : Lens, val : Vals]

ASSUME ConstantsAssumption ==
  /\ BlockSize \in Nat /\ BlockSize >= BLOCK_HEADER_SIZE
  /\ FragSizes \subseteq Nat
  /\ SeqMod \in Nat \ {0}
  /\ FirstFrags \subseteq 0 .. SeqMod - 1
  /\ \A d \in Data : d.len \in Nat

ASSUME CellsAssumption ==
  /\ FF # Junk
  /\ {FF, Junk} \cap ({"set"} \cup Headers \cup Data) = {}

-----------------------------------------------------------------------------
(* The flash.                                                               *)

Marker == {FF, Junk, "set"}

Uniform(x) ==
  [good |-> x, baad |-> x, hdr |-> x,
   frag |-> [s \in SlotIds |-> [wip |-> x, done |-> x, gone |-> x, data |-> x]]]

(* Only erased cells take a new value (backend/in_memory.rs). *)
Program(old, new) == IF old = FF THEN new ELSE old

(* What a write that fails or is cut off may leave behind. *)
Torn(old, new) == IF old = FF THEN {FF, Junk, new} ELSE {old}

(* An interrupted erase is taken as the repository's flash simulation takes *)
(* it: done, not begun, or every cell undetermined.                         *)
TornErase(b) == {cell[b], Uniform(FF), Uniform(Junk)}

-----------------------------------------------------------------------------
(* Reading.                                                                 *)

(* BlockValid::from_bytes: 900D not followed by BAAD *)
BlockValid(c) == c.good = "set" /\ c.baad = FF

(* Reader::block_header; a size that fits no fragment makes it None *)
BlockHeader(c) ==
  IF BlockValid(c) /\ c.hdr \in Headers /\ FragmentsPerBlock(c.hdr.size) > 0
    THEN c.hdr ELSE FF

(* FragmentStatus::from(FragmentHeader) *)
FragmentStatus(f) ==
  IF f.wip = FF /\ f.done = FF /\ f.gone = FF            THEN "Empty"
  ELSE IF f.wip = "set" /\ f.done = "set" /\ f.gone = FF THEN "Valid"
  ELSE IF f.gone = "set"                                 THEN "Obsolete"
  ELSE "Invalid"

(* Position of a fragment number in a block, u32 wrapping_sub *)
RelFrag(h, frag_no) == (frag_no - h.first) % SeqMod

(* read_fragment: the data, or FF for every read error *)
ReadFragment(c, s) == IF FragmentStatus(c.frag[s]) = "Valid" THEN c.frag[s].data ELSE FF

-----------------------------------------------------------------------------
(* Steps.                                                                   *)

Idle == [kind |-> "idle"]

Return(r) ==
  /\ op' = Idle
  /\ step' = "idle"
  /\ ret' = r

Goto(s) ==
  /\ step' = s
  /\ UNCHANGED <<op, ret>>

Begin(o, s) ==
  /\ op = Idle
  /\ op' = o
  /\ step' = s
  /\ ret' = "none"
  /\ UNCHANGED cell

Refuse(r) ==
  /\ op = Idle
  /\ ret' = r
  /\ UNCHANGED <<cell, op, step>>

At(kind, s) == op.kind = kind /\ step = s

FragNow == cell[op.b].frag[op.slot]

SetFrag(f) == cell' = [cell EXCEPT ![op.b].frag[op.slot] = f]

-----------------------------------------------------------------------------
(* format_block                                                             *)

FormatBlock(b, h) == Begin([kind |-> "format", b |-> b, hdr |-> h], "mark")

(* 1. BAAD marker; a failing write is ignored, a power cut is not *)
FormatMark ==
  /\ At("format", "mark")
  /\ \/ /\ cell' = [cell EXCEPT ![op.b].baad = Program(@, "set")]
        /\ Goto("erase")
     \/ \E x \in Torn(cell[op.b].baad, "set") :
          /\ cell' = [cell EXCEPT ![op.b].baad = x]
          /\ Goto("erase") \/ Return("lost")

(* Mutant: a failing erase is ignored, like a failing BAAD marker. *)
FormatEraseIgnored ==
  /\ At("format", "erase")
  /\ cell' \in {[cell EXCEPT ![op.b] = c] : c \in TornErase(op.b)}
  /\ Goto("header")

(* 2. erase *)
FormatErase ==
  /\ At("format", "erase")
  /\ \/ /\ cell' = [cell EXCEPT ![op.b] = Uniform(FF)]
        /\ Goto("header")
     \/ \E c \in TornErase(op.b), r \in {"err", "lost"} :
          /\ cell' = [cell EXCEPT ![op.b] = c]
          /\ Return(r)

(* Mutant: a failing header write is ignored. *)
FormatHeaderIgnored ==
  /\ At("format", "header")
  /\ cell' \in {[cell EXCEPT ![op.b].hdr = x] : x \in Torn(cell[op.b].hdr, op.hdr)}
  /\ Goto("valid")

(* 3. header, refused when no fragment of this size fits *)
FormatHeader ==
  /\ At("format", "header")
  /\ \/ /\ FragmentsPerBlock(op.hdr.size) = 0
        /\ Return("err")
        /\ UNCHANGED cell
     \/ /\ FragmentsPerBlock(op.hdr.size) > 0
        /\ cell' = [cell EXCEPT ![op.b].hdr = Program(@, op.hdr)]
        /\ Goto("valid")
     \/ \E x \in Torn(cell[op.b].hdr, op.hdr), r \in {"err", "lost"} :
          /\ FragmentsPerBlock(op.hdr.size) > 0
          /\ cell' = [cell EXCEPT ![op.b].hdr = x]
          /\ Return(r)

(* 4. 900D marker *)
FormatValid ==
  /\ At("format", "valid")
  /\ \/ /\ cell' = [cell EXCEPT ![op.b].good = Program(@, "set")]
        /\ Return("ok")
     \/ \E x \in Torn(cell[op.b].good, "set"), r \in {"err", "lost"} :
          /\ cell' = [cell EXCEPT ![op.b].good = x]
          /\ Return(r)

-----------------------------------------------------------------------------
(* write_fragment                                                           *)

WriteFragment(b, frag_no, d) ==
  LET h == BlockHeader(cell[b])
      s == RelFrag(h, frag_no)
      writeable ==
            /\ d.len <= h.size
            /\ s < FragmentsPerBlock(h.size)
            /\ FragmentStatus(cell[b].frag[s]) = "Empty"
  IN  /\ h # FF
      /\ \/ writeable /\ Begin([kind |-> "write", b |-> b, slot |-> s, data |-> d], "mark")
         \/ Refuse("err")   \* also when reading the status fails

(* Mutant: a failing write of the first marker is ignored. *)
WriteMarkIgnored ==
  /\ At("write", "mark")
  /\ \E x \in Torn(FragNow.wip, "set") : SetFrag([FragNow EXCEPT !.wip = x])
  /\ Goto("data")

(* 1. mark as incomplete *)
WriteMark ==
  /\ At("write", "mark")
  /\ \/ SetFrag([FragNow EXCEPT !.wip = Program(FragNow.wip, "set")]) /\ Goto("data")
     \/ \E x \in Torn(FragNow.wip, "set"), r \in {"err", "lost"} :
          SetFrag([FragNow EXCEPT !.wip = x]) /\ Return(r)

(* 2. data; the flash may also report success and hold something else *)
WriteData ==
  /\ At("write", "data")
  /\ \/ \E x \in {op.data, Junk} :
          SetFrag([FragNow EXCEPT !.data = Program(FragNow.data, x)]) /\ Goto("verify")
     \/ \E x \in Torn(FragNow.data, op.data), r \in {"err", "lost"} :
          SetFrag([FragNow EXCEPT !.data = x]) /\ Return(r)

(* Mutant: what was written is not compared. *)
WriteUnverified ==
  /\ At("write", "verify")
  /\ Goto("valid")
  /\ UNCHANGED cell

(* 3. read back and compare *)
WriteVerify ==
  /\ At("write", "verify")
  /\ \/ FragNow.data = op.data /\ Goto("valid")
     \/ FragNow.data # op.data /\ Return("err")
     \/ \E r \in {"err", "lost"} : Return(r)
  /\ UNCHANGED cell

(* 4. mark as complete *)
WriteValid ==
  /\ At("write", "valid")
  /\ \/ SetFrag([FragNow EXCEPT !.done = Program(FragNow.done, "set")]) /\ Return("ok")
     \/ \E x \in Torn(FragNow.done, "set"), r \in {"err", "lost"} :
          SetFrag([FragNow EXCEPT !.done = x]) /\ Return(r)

-----------------------------------------------------------------------------
(* delete_fragment                                                          *)

DeleteFragment(b, frag_no) ==
  LET h == BlockHeader(cell[b])
      s == RelFrag(h, frag_no)
      st == FragmentStatus(cell[b].frag[s])
  IN  /\ h # FF
      /\ \/ Refuse("err")   \* not in this block, or reading the status fails
         \/ /\ s < FragmentsPerBlock(h.size)
            /\ \/ st \in {"Invalid", "Obsolete"} /\ Refuse("ok")
               \/ /\ st \in {"Empty", "Valid"}
                  /\ Begin([kind |-> "delete", b |-> b, slot |-> s], "mark")

(* Mutant: the marker is written without the offset of the fragment in its block. *)
DeleteMarkFirst ==
  /\ At("delete", "mark")
  /\ cell' = [cell EXCEPT ![op.b].frag[0].gone = Program(@, "set")]
  /\ Return("ok")

DeleteMark ==
  /\ At("delete", "mark")
  /\ \/ SetFrag([FragNow EXCEPT !.gone = Program(FragNow.gone, "set")]) /\ Return("ok")
     \/ \E x \in Torn(FragNow.gone, "set"), r \in {"err", "lost"} :
          SetFrag([FragNow EXCEPT !.gone = x]) /\ Return(r)

-----------------------------------------------------------------------------

(* A device that was never written: every cell erased. *)
Init ==
  /\ cell = [b \in Blocks |-> Uniform(FF)]
  /\ op = Idle
  /\ step = "idle"
  /\ ret = "none"

Next ==
  \/ \E b \in Blocks, h \in Headers : FormatBlock(b, h)
  \/ FormatMark \/ FormatErase \/ FormatHeader \/ FormatValid
  \/ \E b \in Blocks, n \in 0 .. SeqMod - 1, d \in Data : WriteFragment(b, n, d)
  \/ WriteMark \/ WriteData \/ WriteVerify \/ WriteValid
  \/ \E b \in Blocks, n \in 0 .. SeqMod - 1 : DeleteFragment(b, n)
  \/ DeleteMark

Spec == Init /\ [][Next]_vars

-----------------------------------------------------------------------------
(* What a reader sees of a block, and the refinement of BlockSpec.          *)

FragmentView(c, s) ==
  IF BlockHeader(c) = FF
    THEN [st |-> "Empty", data |-> FF]
    ELSE [st |-> FragmentStatus(c.frag[s]), data |-> ReadFragment(c, s)]

BlockView(c) == [hdr |-> BlockHeader(c), frag |-> [s \in SlotIds |-> FragmentView(c, s)]]

view == [b \in Blocks |-> BlockView(cell[b])]

Abstract == INSTANCE BlockSpec WITH block <- view, busy <- op

(* Whatever flash command fails or is cut off by a power loss, each of      *)
(* format_block, write_fragment and delete_fragment leaves its block or     *)
(* fragment as it was, invalid, or complete, and complete if it returned    *)
(* Ok: the three states that the documentation of trait Writer names.       *)
ThreeStates == Abstract!Spec

-----------------------------------------------------------------------------
(* Properties.                                                              *)

FragCell == [wip : Marker, done : Marker, gone : Marker, data : Data \cup {FF, Junk}]
BlockCell == [good : Marker, baad : Marker, hdr : Headers \cup {FF, Junk},
              frag : [SlotIds -> FragCell]]

Calls == [kind : {"format"}, b : Blocks, hdr : Headers]
           \cup [kind : {"write"}, b : Blocks, slot : SlotIds, data : Data]
           \cup [kind : {"delete"}, b : Blocks, slot : SlotIds]

StepOK ==
  /\ op.kind = "format" => step \in {"mark", "erase", "header", "valid"}
  /\ op.kind = "write"  => step \in {"mark", "data", "verify", "valid"}
  /\ op.kind = "delete" => step = "mark"
  /\ op.kind = "idle"   => step = "idle"

(* The flash, the running call and its next command have their types: in    *)
(* particular a call only ever addresses a fragment that exists.            *)
TypeOK ==
  /\ cell \in [Blocks -> BlockCell]
  /\ op \in Calls \cup {Idle}
  /\ StepOK
  /\ ret \in {"none", "ok", "err", "lost"}

(* A fragment that reads as Empty is erased down to its data, so that       *)
(* write_fragment, which only looks at the three header bytes, never        *)
(* programs over the remains of an interrupted write.                       *)
EmptyIsErased ==
  \A b \in Blocks, s \in SlotIds :
    BlockHeader(cell[b]) # FF /\ FragmentStatus(cell[b].frag[s]) = "Empty"
      => cell[b].frag[s].data = FF

(* A block that reads as valid has a header that was completely written,    *)
(* and every fragment that reads as Valid holds data that was verified.     *)
ValidIsComplete ==
  \A b \in Blocks : BlockValid(cell[b]) =>
    /\ cell[b].hdr \in Headers /\ FragmentsPerBlock(cell[b].hdr.size) > 0
    /\ \A s \in SlotIds : FragmentStatus(cell[b].frag[s]) = "Valid"
                            => cell[b].frag[s].data \in Data

(* What each flash command finds when it is issued: the header and the 900D *)
(* marker go to an erased block, and the markers of a fragment are written  *)
(* one after the other, the last one only over data that was verified.      *)
CommandOrder ==
  /\ op.kind = "format" /\ step = "header" => cell[op.b] = Uniform(FF)
  /\ op.kind = "format" /\ step = "valid" =>
       /\ cell[op.b] = [Uniform(FF) EXCEPT !.hdr = op.hdr]
       /\ FragmentsPerBlock(op.hdr.size) > 0
  /\ op.kind \in {"write", "delete"} =>
       /\ BlockHeader(cell[op.b]) # FF
       /\ FragNow.gone = FF
  /\ op.kind = "write" =>
       /\ FragNow.done = FF
       /\ FragNow.wip = IF step = "mark" THEN FF ELSE "set"
       /\ step \in {"mark", "data"} => FragNow.data = FF
       /\ step = "valid" => FragNow.data = op.data
  /\ op.kind = "delete" => FragmentStatus(FragNow) \in {"Empty", "Valid"}

(* Data that can be read stays readable and the same until its own fragment *)
(* is deleted or its own block formatted, whatever else fails meanwhile.    *)
ReadableIsKept ==
  \A b \in Blocks, s \in SlotIds :
       LET d == FragmentView(cell[b], s).data
       IN  d # FF /\ FragmentView(cell[b], s).data' # d =>
             /\ op # Idle /\ op.b = b
             /\ op.kind = "delete" => op.slot = s
             /\ op.kind # "write"

(* A fragment that is Obsolete or Invalid stays unreadable until its block  *)
(* is formatted: a deleted or half-written fragment does not come back.     *)
NoResurrection ==
  \A b \in Blocks, s \in SlotIds :
       LET f == cell[b].frag[s]
       IN  /\ BlockHeader(cell[b]) # FF
           /\ FragmentStatus(f) \in {"Obsolete", "Invalid"}
           /\ FragmentStatus(f)' \in {"Empty", "Valid"}
           => /\ op # Idle /\ op.b = b
              /\ \/ op.kind = "format"
                 \/ op.kind = "write" /\ op.slot = s /\ step = "valid"

(* Both in every step: readable data is kept, and what is unreadable stays  *)
(* so, until the fragment is deleted or the block formatted.                *)
KeptUntilErased == [][ReadableIsKept /\ NoResurrection]_vars

=============================================================================
