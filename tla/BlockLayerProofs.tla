-------------------------- MODULE BlockLayerProofs ---------------------------
(***************************************************************************)
(* BlockLayer for any number of blocks, any block and fragment sizes and   *)
(* any fragment contents: its invariants, and that it implements BlockSpec.*)
(***************************************************************************)
EXTENDS BlockLayer, TLAPS

(* What holds of the contents of every block: a fragment that reads as     *)
(* Empty is erased down to its data, also in a block that is not valid, a  *)
(* Valid one holds data, and a valid block has a complete header.          *)
BlockOK(c) ==
  /\ BlockValid(c) => c.hdr \in Headers /\ FragmentsPerBlock(c.hdr.size) > 0
  /\ \A s \in SlotIds :
       /\ FragmentStatus(c.frag[s]) = "Empty" => c.frag[s].data = FF
       /\ FragmentStatus(c.frag[s]) = "Valid" => c.frag[s].data \in Data

FlashOK == \A b \in Blocks : BlockOK(cell[b])

IInv == TypeOK /\ FlashOK /\ CommandOrder

-----------------------------------------------------------------------------
(* The number of fragments of a block is a natural number: the header size *)
(* never exceeds the block (calculate_fragments_per_block).                *)
LEMMA FragmentCount ==
  ASSUME NEW size \in Nat
  PROVE  FragmentsPerBlock(size) \in Nat
BY ConstantsAssumption DEF FragmentsPerBlock, BLOCK_HEADER_SIZE, FRAG_HEADER_SIZE

(* A fragment number that passes the bounds check of write_fragment and    *)
(* delete_fragment is a position of the block, also when the subtraction   *)
(* wraps.                                                                  *)
LEMMA SlotInBlock ==
  ASSUME NEW h \in Headers, NEW n \in 0 .. SeqMod - 1,
         RelFrag(h, n) < FragmentsPerBlock(h.size)
  PROVE  RelFrag(h, n) \in SlotIds
<1>1. h.size \in FragSizes /\ h.size \in Nat /\ h.first \in 0 .. SeqMod - 1
  BY ConstantsAssumption DEF Headers
<1>2. FragmentsPerBlock(h.size) \in Nat
  BY <1>1, FragmentCount
<1>3. RelFrag(h, n) \in Nat
  BY <1>1, ConstantsAssumption DEF RelFrag
<1>4. RelFrag(h, n) \in 0 .. FragmentsPerBlock(h.size) - 1
  BY <1>2, <1>3
<1> QED
  BY <1>1, <1>4 DEF SlotIds

(* An erased block and an undetermined one are flash contents; neither     *)
(* reads as valid, and the first has only Empty fragments.                 *)
LEMMA UniformBlock ==
  ASSUME NEW x \in {FF, Junk}
  PROVE  /\ Uniform(x) \in BlockCell
         /\ ~ BlockValid(Uniform(x))
         /\ \A s \in SlotIds :
              /\ FragmentStatus(Uniform(x).frag[s]) = IF x = FF THEN "Empty" ELSE "Invalid"
              /\ Uniform(x).frag[s].data = x
BY CellsAssumption DEF Uniform, BlockCell, FragCell, Marker, BlockValid, FragmentStatus

(* The erased device, on which no call runs, satisfies the invariant.       *)
LEMMA Initial == Init => IInv
<1> SUFFICES ASSUME Init PROVE IInv
  OBVIOUS
<1>1. TypeOK
  BY UniformBlock DEF Init, TypeOK, StepOK, Idle
<1>2. FlashOK
  BY UniformBlock DEF Init, FlashOK, BlockOK
<1>3. CommandOrder
  BY DEF Init, CommandOrder, Idle
<1> QED
  BY <1>1, <1>2, <1>3 DEF IInv

-----------------------------------------------------------------------------
(* The invariant is preserved by every step.                               *)

(* Replacing one block by sound contents keeps the device sound.           *)
LEMMA ReplaceBlock ==
  ASSUME IInv, NEW b \in Blocks, NEW c \in BlockCell, BlockOK(c),
         cell' = [cell EXCEPT ![b] = c]
  PROVE  cell' \in [Blocks -> BlockCell] /\ FlashOK' /\ cell'[b] = c
<1>1. cell \in [Blocks -> BlockCell]
  BY DEF IInv, TypeOK
<1>2. cell' \in [Blocks -> BlockCell] /\ \A x \in Blocks : cell'[x] = IF x = b THEN c ELSE cell[x]
  BY <1>1
<1>3. FlashOK'
  BY <1>2 DEF IInv, FlashOK
<1> QED
  BY <1>2, <1>3

(* Rewriting one fragment leaves the header of the block and the other     *)
(* fragments as they are.                                                  *)
LEMMA ReplaceFrag ==
  ASSUME IInv, op.kind \in {"write", "delete"}, NEW f \in FragCell, SetFrag(f),
         FragmentStatus(f) = "Empty" => f.data = FF,
         FragmentStatus(f) = "Valid" => f.data \in Data
  PROVE  /\ op.b \in Blocks /\ op.slot \in SlotIds
         /\ cell' \in [Blocks -> BlockCell]
         /\ FlashOK'
         /\ BlockHeader(cell'[op.b]) = BlockHeader(cell[op.b])
         /\ cell'[op.b].frag[op.slot] = f
<1>1. op.b \in Blocks /\ op.slot \in SlotIds
  BY DEF IInv, TypeOK, Calls, Idle
<1>2. cell[op.b] \in BlockCell
  BY <1>1 DEF IInv, TypeOK
<1>3. PICK b \in Blocks : b = op.b
  BY <1>1
<1>4. PICK c \in BlockCell : c = [cell[b] EXCEPT !.frag[op.slot] = f]
  BY <1>1, <1>2, <1>3 DEF BlockCell
<1>5. /\ c.good = cell[b].good /\ c.baad = cell[b].baad /\ c.hdr = cell[b].hdr
      /\ \A s \in SlotIds : c.frag[s] = IF s = op.slot THEN f ELSE cell[b].frag[s]
  BY <1>1, <1>2, <1>3, <1>4 DEF BlockCell
<1>6. cell' = [cell EXCEPT ![b] = c]
  BY <1>3, <1>4 DEF SetFrag
<1>7. BlockOK(c)
  BY <1>5 DEF IInv, FlashOK, BlockOK, BlockValid
<1>8. cell' \in [Blocks -> BlockCell] /\ FlashOK' /\ cell'[b] = c
  BY <1>6, <1>7, ReplaceBlock
<1>9. BlockHeader(cell'[b]) = BlockHeader(cell[b])
  BY <1>5, <1>8 DEF BlockHeader, BlockValid
<1> QED
  BY <1>1, <1>3, <1>5, <1>8, <1>9

(* A running write_fragment or delete_fragment addresses an existing        *)
(* fragment.                                                                *)
LEMMA TypeOfFrag ==
  ASSUME IInv, op.kind \in {"write", "delete"}
  PROVE  FragNow \in FragCell /\ op.b \in Blocks /\ op.slot \in SlotIds
BY DEF IInv, TypeOK, Calls, Idle, FragNow, BlockCell

(* Returning from a call leaves only the flash to be looked at.            *)
LEMMA AfterReturn ==
  ASSUME NEW r \in {"ok", "err", "lost"}, Return(r),
         cell' \in [Blocks -> BlockCell], FlashOK'
  PROVE  IInv'
<1>1. TypeOK'
  BY DEF Return, TypeOK, StepOK, Idle
<1>2. CommandOrder'
  BY DEF Return, CommandOrder, Idle
<1> QED
  BY <1>1, <1>2 DEF IInv

-----------------------------------------------------------------------------

(* Every flash command of format_block keeps the invariant, whether it      *)
(* succeeds, fails or is cut off.                                           *)
LEMMA FormatSteps ==
  ASSUME IInv, FormatMark \/ FormatErase \/ FormatHeader \/ FormatValid
  PROVE  IInv'
<1>1. op.kind = "format"
  BY DEF FormatMark, FormatErase, FormatHeader, FormatValid, At
<1>2. op.b \in Blocks /\ op.hdr \in Headers /\ cell[op.b] \in BlockCell /\ op \in Calls
  BY <1>1 DEF IInv, TypeOK, Calls, Idle
<1>3. PICK b \in Blocks : b = op.b
  BY <1>2
<1>4. BlockOK(cell[b])
  BY DEF IInv, FlashOK
<1>5. CASE FormatMark
  <2>1. PICK x \in {FF, Junk, "set", cell[b].baad} :
          /\ cell' = [cell EXCEPT ![b] = [cell[b] EXCEPT !.baad = x]]
          /\ cell[b].baad # FF => x = cell[b].baad
          /\ Goto("erase") \/ Return("lost")
    <3>1. \E x \in {FF, Junk, "set", cell[b].baad} :
            /\ cell' = [cell EXCEPT ![b].baad = x]
            /\ cell[b].baad # FF => x = cell[b].baad
            /\ Goto("erase") \/ Return("lost")
      BY <1>3, <1>5, CellsAssumption DEF FormatMark, Program, Torn
    <3> QED BY <3>1
  <2>2. x \in Marker
    BY <1>2, <1>3 DEF BlockCell, Marker
  <2>3. PICK c \in BlockCell : c = [cell[b] EXCEPT !.baad = x]
    BY <1>2, <1>3, <2>2 DEF BlockCell
  <2>4. c.good = cell[b].good /\ c.hdr = cell[b].hdr /\ c.frag = cell[b].frag /\ c.baad = x
    BY <1>2, <1>3, <2>3 DEF BlockCell
  <2>5. BlockOK(c)
    BY <1>4, <2>1, <2>4 DEF BlockOK, BlockValid
  <2>6. cell' \in [Blocks -> BlockCell] /\ FlashOK'
    BY <2>1, <2>3, <2>5, ReplaceBlock
  <2>7. CASE Goto("erase")
    BY <1>1, <1>2, <2>6, <2>7 DEF Goto, IInv, TypeOK, StepOK, CommandOrder
  <2> QED
    BY <2>1, <2>6, <2>7, AfterReturn
<1>6. CASE FormatErase
  <2>1. PICK c \in {cell[b], Uniform(FF), Uniform(Junk)} :
          /\ cell' = [cell EXCEPT ![b] = c]
          /\ \/ c = Uniform(FF) /\ Goto("header")
             \/ \E r \in {"err", "lost"} : Return(r)
    BY <1>3, <1>6 DEF FormatErase, TornErase
  <2>2. c \in BlockCell /\ BlockOK(c)
    BY <1>2, <1>3, <1>4, UniformBlock, CellsAssumption DEF BlockOK
  <2>3. cell' \in [Blocks -> BlockCell] /\ FlashOK' /\ cell'[b] = c
    BY <2>1, <2>2, ReplaceBlock
  <2>4. CASE c = Uniform(FF) /\ Goto("header")
    BY <1>1, <1>2, <1>3, <2>3, <2>4 DEF Goto, IInv, TypeOK, StepOK, CommandOrder
  <2> QED
    BY <2>1, <2>3, <2>4, AfterReturn
<1>7. CASE FormatHeader
  <2>1. step = "header" /\ cell[b] = Uniform(FF)
    BY <1>1, <1>3, <1>7 DEF FormatHeader, At, IInv, CommandOrder
  <2>2. cell[b].hdr = FF
    BY <2>1 DEF Uniform
  <2>3. CASE Return("err") /\ UNCHANGED cell
    BY <2>3, AfterReturn DEF IInv, TypeOK, FlashOK
  <2>4. CASE ~ (Return("err") /\ UNCHANGED cell)
    <3>1. PICK x \in {FF, Junk, op.hdr} :
            /\ FragmentsPerBlock(op.hdr.size) > 0
            /\ cell' = [cell EXCEPT ![b] = [Uniform(FF) EXCEPT !.hdr = x]]
            /\ \/ x = op.hdr /\ Goto("valid")
               \/ \E r \in {"err", "lost"} : Return(r)
      BY <1>3, <1>7, <2>1, <2>2, <2>4 DEF FormatHeader, Program, Torn
    <3>2. PICK c \in BlockCell : c = [Uniform(FF) EXCEPT !.hdr = x]
      BY <1>2, UniformBlock DEF BlockCell
    <3>3. c.good = FF /\ c.frag = Uniform(FF).frag
      BY <3>2 DEF Uniform
    <3>4. BlockOK(c)
      BY <1>3, <1>4, <2>1, <3>3, CellsAssumption DEF BlockOK, BlockValid
    <3>5. cell' \in [Blocks -> BlockCell] /\ FlashOK' /\ cell'[b] = c
      BY <3>1, <3>2, <3>4, ReplaceBlock
    <3>6. CASE x = op.hdr /\ Goto("valid")
      BY <1>1, <1>2, <1>3, <3>1, <3>2, <3>5, <3>6 DEF Goto, IInv, TypeOK, StepOK, CommandOrder
    <3> QED
      BY <3>1, <3>5, <3>6, AfterReturn
  <2> QED
    BY <2>3, <2>4
<1>8. CASE FormatValid
  <2>1. cell[b] = [Uniform(FF) EXCEPT !.hdr = op.hdr] /\ FragmentsPerBlock(op.hdr.size) > 0
    BY <1>1, <1>3, <1>8 DEF FormatValid, At, IInv, CommandOrder
  <2>2. cell[b].hdr = op.hdr /\ cell[b].good = FF
    BY <2>1 DEF Uniform
  <2>3. PICK x \in {FF, Junk, "set"} :
          /\ cell' = [cell EXCEPT ![b] = [cell[b] EXCEPT !.good = x]]
          /\ \E r \in {"ok", "err", "lost"} : Return(r)
    BY <1>2, <1>3, <1>8, <2>2 DEF FormatValid, Program, Torn
  <2>4. PICK c \in BlockCell : c = [cell[b] EXCEPT !.good = x]
    BY <1>2, <1>3 DEF BlockCell, Marker
  <2>5. c.hdr = op.hdr /\ c.frag = cell[b].frag
    BY <1>2, <1>3, <2>2, <2>4 DEF BlockCell
  <2>6. BlockOK(c)
    BY <1>2, <1>4, <2>1, <2>5 DEF BlockOK
  <2>7. cell' \in [Blocks -> BlockCell] /\ FlashOK'
    BY <2>3, <2>4, <2>6, ReplaceBlock
  <2> QED
    BY <2>3, <2>7, AfterReturn
<1> QED
  BY <1>5, <1>6, <1>7, <1>8

(* Every flash command of write_fragment keeps the invariant, whether it    *)
(* succeeds, fails or is cut off.                                           *)
LEMMA WriteSteps ==
  ASSUME IInv, WriteMark \/ WriteData \/ WriteVerify \/ WriteValid
  PROVE  IInv'
<1>1. op.kind = "write"
  BY DEF WriteMark, WriteData, WriteVerify, WriteValid, At
<1>2. FragNow \in FragCell /\ op.b \in Blocks /\ op.slot \in SlotIds
  BY <1>1, TypeOfFrag
<1>3. op \in Calls /\ op.data \in Data /\ op.data # FF /\ op.data # Junk
  BY <1>1, CellsAssumption DEF IInv, TypeOK, Calls, Idle
<1>4. FragNow.gone = FF /\ FragNow.done = FF /\ BlockHeader(cell[op.b]) # FF
  BY <1>1 DEF IInv, CommandOrder
<1>5. CASE WriteMark
  <2>1. FragNow.wip = FF /\ FragNow.data = FF
    BY <1>1, <1>5 DEF WriteMark, At, IInv, CommandOrder
  <2>2. PICK x \in {FF, Junk, "set"} :
          /\ SetFrag([FragNow EXCEPT !.wip = x])
          /\ (x = "set" /\ Goto("data")) \/ \E r \in {"err", "lost"} : Return(r)
    BY <1>5, <2>1 DEF WriteMark, Program, Torn
  <2>3. PICK f \in FragCell : f = [FragNow EXCEPT !.wip = x]
    BY <1>2 DEF FragCell, Marker
  <2>4. f.wip = x /\ f.done = FF /\ f.gone = FF /\ f.data = FF
    BY <1>2, <1>4, <2>1, <2>3 DEF FragCell
  <2>5. FragmentStatus(f) # "Valid"
    BY <2>4, CellsAssumption DEF FragmentStatus
  <2>6. /\ cell' \in [Blocks -> BlockCell] /\ FlashOK'
        /\ BlockHeader(cell'[op.b]) = BlockHeader(cell[op.b])
        /\ cell'[op.b].frag[op.slot] = f
    BY <1>1, <2>2, <2>3, <2>4, <2>5, ReplaceFrag
  <2>7. CASE x = "set" /\ Goto("data")
    BY <1>1, <1>3, <1>4, <2>4, <2>6, <2>7
       DEF Goto, IInv, TypeOK, StepOK, CommandOrder, FragNow
  <2> QED
    BY <2>2, <2>6, <2>7, AfterReturn
<1>6. CASE WriteData
  <2>1. FragNow.wip = "set" /\ FragNow.data = FF
    BY <1>1, <1>6 DEF WriteData, At, IInv, CommandOrder
  <2>2. PICK x \in {FF, Junk, op.data} :
          /\ SetFrag([FragNow EXCEPT !.data = x])
          /\ Goto("verify") \/ \E r \in {"err", "lost"} : Return(r)
    BY <1>6, <2>1 DEF WriteData, Program, Torn
  <2>3. PICK f \in FragCell : f = [FragNow EXCEPT !.data = x]
    BY <1>2, <1>3 DEF FragCell
  <2>4. f.wip = "set" /\ f.done = FF /\ f.gone = FF
    BY <1>2, <1>4, <2>1, <2>3 DEF FragCell
  <2>5. FragmentStatus(f) = "Invalid"
    BY <2>4, CellsAssumption DEF FragmentStatus
  <2>6. /\ cell' \in [Blocks -> BlockCell] /\ FlashOK'
        /\ BlockHeader(cell'[op.b]) = BlockHeader(cell[op.b])
        /\ cell'[op.b].frag[op.slot] = f
    BY <1>1, <2>2, <2>3, <2>5, ReplaceFrag
  <2>7. CASE Goto("verify")
    BY <1>1, <1>3, <1>4, <2>4, <2>6, <2>7
       DEF Goto, IInv, TypeOK, StepOK, CommandOrder, FragNow
  <2> QED
    BY <2>2, <2>6, <2>7, AfterReturn
<1>7. CASE WriteVerify
  <2>1. UNCHANGED cell /\ step = "verify"
    BY <1>7 DEF WriteVerify, At
  <2>2. cell' \in [Blocks -> BlockCell] /\ FlashOK'
    BY <2>1 DEF IInv, TypeOK, FlashOK
  <2>3. CASE FragNow.data = op.data /\ Goto("valid")
    BY <1>1, <1>3, <1>4, <2>1, <2>2, <2>3
       DEF Goto, IInv, TypeOK, StepOK, CommandOrder, FragNow
  <2>4. CASE \E r \in {"err", "lost"} : Return(r)
    BY <2>2, <2>4, AfterReturn
  <2> QED
    BY <1>7, <2>3, <2>4 DEF WriteVerify
<1>8. CASE WriteValid
  <2>1. FragNow.wip = "set" /\ FragNow.data = op.data
    BY <1>1, <1>8 DEF WriteValid, At, IInv, CommandOrder
  <2>2. PICK x \in {FF, Junk, "set"} :
          /\ SetFrag([FragNow EXCEPT !.done = x])
          /\ \E r \in {"ok", "err", "lost"} : Return(r)
    BY <1>4, <1>8 DEF WriteValid, Program, Torn
  <2>3. PICK f \in FragCell : f = [FragNow EXCEPT !.done = x]
    BY <1>2 DEF FragCell, Marker
  <2>4. f.wip = "set" /\ f.data \in Data
    BY <1>2, <1>3, <2>1, <2>3 DEF FragCell
  <2>5. FragmentStatus(f) # "Empty"
    BY <2>4, CellsAssumption DEF FragmentStatus
  <2>6. cell' \in [Blocks -> BlockCell] /\ FlashOK'
    BY <1>1, <2>2, <2>3, <2>4, <2>5, ReplaceFrag
  <2> QED
    BY <2>2, <2>6, AfterReturn
<1> QED
  BY <1>5, <1>6, <1>7, <1>8

(* The marker that delete_fragment writes keeps the invariant, whether the  *)
(* write succeeds, fails or is cut off.                                     *)
LEMMA DeleteSteps ==
  ASSUME IInv, DeleteMark
  PROVE  IInv'
<1>1. op.kind = "delete"
  BY DEF DeleteMark, At
<1>2. FragNow \in FragCell /\ FragNow.gone = FF
  BY <1>1, TypeOfFrag DEF IInv, CommandOrder
<1>3. PICK x \in {FF, Junk, "set"} :
        /\ SetFrag([FragNow EXCEPT !.gone = x])
        /\ \E r \in {"ok", "err", "lost"} : Return(r)
  BY <1>2 DEF DeleteMark, Program, Torn
<1>4. PICK f \in FragCell : f = [FragNow EXCEPT !.gone = x]
  BY <1>2 DEF FragCell, Marker
<1>5. /\ f.wip = FragNow.wip /\ f.done = FragNow.done /\ f.data = FragNow.data
      /\ f.gone = x
  BY <1>2, <1>4 DEF FragCell
<1>6. /\ FragmentStatus(FragNow) = "Empty" => FragNow.data = FF
      /\ FragmentStatus(FragNow) = "Valid" => FragNow.data \in Data
  BY <1>1, TypeOfFrag DEF IInv, FlashOK, BlockOK, FragNow
<1>7. /\ FragmentStatus(f) = "Empty" => f.data = FF
      /\ FragmentStatus(f) = "Valid" => f.data \in Data
  BY <1>2, <1>5, <1>6 DEF FragmentStatus
<1>8. cell' \in [Blocks -> BlockCell] /\ FlashOK'
  BY <1>1, <1>3, <1>4, <1>7, ReplaceFrag
<1> QED
  BY <1>3, <1>8, AfterReturn

(* A call that starts, or is refused, leaves the flash alone.              *)
LEMMA Calling ==
  ASSUME IInv,
         \/ \E b \in Blocks, h \in Headers : FormatBlock(b, h)
         \/ \E b \in Blocks, n \in 0 .. SeqMod - 1, d \in Data : WriteFragment(b, n, d)
         \/ \E b \in Blocks, n \in 0 .. SeqMod - 1 : DeleteFragment(b, n)
  PROVE  IInv'
<1>1. ASSUME NEW r \in {"ok", "err"}, Refuse(r)
      PROVE  IInv'
  BY <1>1 DEF Refuse, IInv, TypeOK, StepOK, FlashOK, CommandOrder, FragNow, Idle
<1>2. ASSUME NEW b \in Blocks, NEW h \in Headers, FormatBlock(b, h)
      PROVE  IInv'
  BY <1>2 DEF FormatBlock, Begin, IInv, TypeOK, StepOK, FlashOK, CommandOrder, Calls
<1>3. ASSUME NEW b \in Blocks, NEW n \in 0 .. SeqMod - 1, NEW d \in Data, WriteFragment(b, n, d)
      PROVE  IInv'
  <2> DEFINE h == BlockHeader(cell[b])
             s == RelFrag(h, n)
  <2>1. CASE Refuse("err")
    BY <1>1, <2>1
  <2>2. CASE /\ h # FF /\ s < FragmentsPerBlock(h.size)
             /\ FragmentStatus(cell[b].frag[s]) = "Empty"
             /\ Begin([kind |-> "write", b |-> b, slot |-> s, data |-> d], "mark")
    <3>1. h \in Headers
      BY <2>2 DEF BlockHeader
    <3>2. s \in SlotIds
      BY <2>2, <3>1, SlotInBlock
    <3>3. cell[b].frag[s] \in FragCell
      BY <3>2 DEF IInv, TypeOK, BlockCell
    <3>4. /\ cell[b].frag[s].gone = FF /\ cell[b].frag[s].done = FF /\ cell[b].frag[s].wip = FF
          /\ cell[b].frag[s].data = FF
      BY <2>2, <3>2, <3>3 DEF FragmentStatus, IInv, FlashOK, BlockOK
    <3>5. /\ op' = [kind |-> "write", b |-> b, slot |-> s, data |-> d]
          /\ step' = "mark" /\ ret' = "none" /\ cell' = cell
      BY <2>2 DEF Begin
    <3> HIDE DEF s
    <3>6. op' \in Calls /\ op'.kind = "write" /\ op'.b = b /\ op'.slot = s
      BY <3>2, <3>5 DEF Calls
    <3>7. TypeOK'
      BY <3>5, <3>6 DEF IInv, TypeOK, StepOK
    <3>8. FlashOK'
      BY <3>5 DEF IInv, FlashOK
    <3>9. CommandOrder'
      BY <2>2, <3>4, <3>5, <3>6 DEF CommandOrder, FragNow
    <3> QED
      BY <3>7, <3>8, <3>9 DEF IInv
  <2> QED
    BY <1>3, <2>1, <2>2 DEF WriteFragment
<1>4. ASSUME NEW b \in Blocks, NEW n \in 0 .. SeqMod - 1, DeleteFragment(b, n)
      PROVE  IInv'
  <2> DEFINE h == BlockHeader(cell[b])
             s == RelFrag(h, n)
  <2>1. CASE Refuse("err") \/ Refuse("ok")
    BY <1>1, <2>1
  <2>2. CASE /\ h # FF /\ s < FragmentsPerBlock(h.size)
             /\ FragmentStatus(cell[b].frag[s]) \in {"Empty", "Valid"}
             /\ Begin([kind |-> "delete", b |-> b, slot |-> s], "mark")
    <3>1. h \in Headers
      BY <2>2 DEF BlockHeader
    <3>2. s \in SlotIds
      BY <2>2, <3>1, SlotInBlock
    <3>3. cell[b].frag[s].gone = FF
      BY <2>2 DEF FragmentStatus
    <3>4. /\ op' = [kind |-> "delete", b |-> b, slot |-> s]
          /\ step' = "mark" /\ ret' = "none" /\ cell' = cell
      BY <2>2 DEF Begin
    <3> HIDE DEF s
    <3>5. op' \in Calls /\ op'.kind = "delete" /\ op'.b = b /\ op'.slot = s
      BY <3>2, <3>4 DEF Calls
    <3>6. TypeOK' /\ FlashOK'
      BY <3>4, <3>5 DEF IInv, TypeOK, StepOK, FlashOK
    <3>7. CommandOrder'
      BY <2>2, <3>3, <3>4, <3>5 DEF CommandOrder, FragNow
    <3> QED
      BY <3>6, <3>7 DEF IInv
  <2> QED
    BY <1>4, <2>1, <2>2 DEF DeleteFragment
<1> QED
  BY <1>2, <1>3, <1>4

(* The invariant depends on nothing but the state.                          *)
LEMMA Stuttering == IInv /\ UNCHANGED vars => IInv'
BY DEF vars, IInv, TypeOK, StepOK, FlashOK, CommandOrder, FragNow

(* The flash invariants and the order of the flash commands hold in every  *)
(* state, whatever flash command fails or is cut off by a power loss.      *)
THEOREM Inductive == Spec => []IInv
<1>1. ASSUME IInv, Next PROVE IInv'
  BY <1>1, Calling, FormatSteps, WriteSteps, DeleteSteps DEF Next
<1> QED
  BY Initial, Stuttering, <1>1, PTL DEF Spec

(* The flash, the running call and its next command have their types.      *)
THEOREM TypeCorrect == Spec => []TypeOK
<1>1. IInv => TypeOK
  BY DEF IInv
<1> QED
  BY Inductive, <1>1, PTL

(* write_fragment never programs over the remains of an interrupted write. *)
THEOREM EmptyFragmentsErased == Spec => []EmptyIsErased
<1>1. IInv => EmptyIsErased
  BY DEF IInv, FlashOK, BlockOK, EmptyIsErased
<1> QED
  BY Inductive, <1>1, PTL

(* What reads as valid was completely written and verified.                *)
THEOREM ValidBlocksComplete == Spec => []ValidIsComplete
<1>1. IInv => ValidIsComplete
  BY DEF IInv, FlashOK, BlockOK, ValidIsComplete
<1> QED
  BY Inductive, <1>1, PTL

(* Every flash command is issued on the flash contents it relies on.       *)
THEOREM CommandsInOrder == Spec => []CommandOrder
<1>1. IInv => CommandOrder
  BY DEF IInv
<1> QED
  BY Inductive, <1>1, PTL

-----------------------------------------------------------------------------
(* BlockLayer implements BlockSpec.                                        *)

(* Rewriting one block of the flash changes what is read of that block      *)
(* only.                                                                    *)
LEMMA ViewOfReplaced ==
  ASSUME IInv, NEW b \in Blocks, NEW c, cell' = [cell EXCEPT ![b] = c]
  PROVE  view' = [view EXCEPT ![b] = BlockView(c)]
BY DEF IInv, TypeOK, view

(* A block without a valid header reads as an unformatted one, whatever its *)
(* fragments hold.                                                          *)
LEMMA ViewOfUnformatted ==
  ASSUME NEW c, BlockHeader(c) = FF
  PROVE  BlockView(c) = Abstract!Unformatted
BY DEF BlockView, FragmentView, Abstract!Unformatted, Abstract!Formatted, Abstract!EmptyFrag

(* Rewriting one fragment of a valid block changes what is read of that     *)
(* fragment only.                                                           *)
LEMMA ViewOfFrag ==
  ASSUME IInv, op.kind \in {"write", "delete"}, NEW f \in FragCell, SetFrag(f),
         BlockHeader(cell[op.b]) # FF
  PROVE  view' = Abstract!SetFrag(op.b, op.slot,
                   [st |-> FragmentStatus(f),
                    data |-> IF FragmentStatus(f) = "Valid" THEN f.data ELSE FF])
<1>1. op.b \in Blocks /\ op.slot \in SlotIds
  BY DEF IInv, TypeOK, Calls, Idle
<1>2. PICK b \in Blocks, s \in SlotIds : b = op.b /\ s = op.slot
  BY <1>1
<1>3. cell[b] \in BlockCell
  BY DEF IInv, TypeOK
<1>4. PICK c \in BlockCell : c = [cell[b] EXCEPT !.frag[s] = f]
  BY <1>3 DEF BlockCell
<1>5. /\ c.good = cell[b].good /\ c.baad = cell[b].baad /\ c.hdr = cell[b].hdr
      /\ \A t \in SlotIds : c.frag[t] = IF t = s THEN f ELSE cell[b].frag[t]
  BY <1>3, <1>4 DEF BlockCell
<1>6. cell' = [cell EXCEPT ![b] = c]
  BY <1>2, <1>4 DEF SetFrag
<1>7. view' = [view EXCEPT ![b] = BlockView(c)]
  BY <1>6, ViewOfReplaced
<1>8. BlockHeader(c) = BlockHeader(cell[b]) /\ BlockHeader(c) # FF
  BY <1>2, <1>5 DEF BlockHeader, BlockValid
<1> DEFINE a == [st |-> FragmentStatus(f), data |-> IF FragmentStatus(f) = "Valid" THEN f.data ELSE FF]
<1>9. \A t \in SlotIds : FragmentView(c, t) = IF t = s THEN a ELSE FragmentView(cell[b], t)
  BY <1>5, <1>8 DEF FragmentView, ReadFragment
<1> HIDE DEF a
<1>10. BlockView(c) = [BlockView(cell[b]) EXCEPT !.frag[s] = a]
  <2> DEFINE g == [t \in SlotIds |-> FragmentView(cell[b], t)]
             k == [t \in SlotIds |-> FragmentView(c, t)]
  <2>1. k = [g EXCEPT ![s] = a]
    BY <1>9
  <2> HIDE DEF g, k
  <2>2. [hdr |-> BlockHeader(c), frag |-> k]
          = [[hdr |-> BlockHeader(cell[b]), frag |-> g] EXCEPT !.frag[s] = a]
    BY <1>8, <2>1
  <2> QED
    BY <2>2 DEF BlockView, g, k
<1>11. view[b] = BlockView(cell[b])
  BY DEF view
<1>12. view' = [view EXCEPT ![b].frag[s] = a]
  BY <1>7, <1>10, <1>11
<1> QED
  BY <1>2, <1>12 DEF Abstract!SetFrag, a

(* A command that leaves its fragment unreadable, or as it was, is a step  *)
(* of BlockSpec while the call goes on, and one of its ways to end.        *)
LEMMA MapReturn ==
  ASSUME op # Idle, NEW r \in {"ok", "err", "lost"}, Return(r),
         \/ view' = Abstract!Done(op)
         \/ r # "ok" /\ view' \in {view, Abstract!Broken(op)}
  PROVE  Abstract!Next
<1>1. op # Abstract!Idle /\ op' = Abstract!Idle /\ ret' = r
  BY DEF Return, Idle, Abstract!Idle
<1> QED
  BY <1>1 DEF Abstract!Next, Abstract!Return

(* A command that leaves what is read as it was, or broken, and is followed *)
(* by another command of the call is a Progress step of BlockSpec, or a     *)
(* stutter.                                                                 *)
LEMMA MapProgress ==
  ASSUME op # Idle, NEW s, Goto(s), view' = view \/ view' = Abstract!Broken(op)
  PROVE  [Abstract!Next]_(Abstract!vars)
BY DEF Goto, Abstract!Next, Abstract!Progress, Abstract!vars, Idle, Abstract!Idle

(* Every flash command of format_block is a step of BlockSpec.              *)
LEMMA MapFormat ==
  ASSUME IInv, FormatMark \/ FormatErase \/ FormatHeader \/ FormatValid
  PROVE  [Abstract!Next]_(Abstract!vars)
<1>1. op.kind = "format" /\ op # Idle
  BY DEF FormatMark, FormatErase, FormatHeader, FormatValid, At, Idle
<1>2. op.b \in Blocks /\ op.hdr \in Headers /\ cell[op.b] \in BlockCell
  BY <1>1 DEF IInv, TypeOK, Calls, Idle
<1>3. PICK b \in Blocks : b = op.b
  BY <1>2
<1>4. /\ Abstract!Broken(op) = [view EXCEPT ![b] = Abstract!Unformatted]
      /\ Abstract!Done(op) = [view EXCEPT ![b] = Abstract!Formatted(op.hdr)]
  BY <1>1, <1>3 DEF Abstract!Broken, Abstract!Done
<1>5. ASSUME NEW c, cell' = [cell EXCEPT ![b] = c], BlockHeader(c) = FF
      PROVE  view' = Abstract!Broken(op)
  <2>1. view' = [view EXCEPT ![b] = BlockView(c)]
    BY <1>5, ViewOfReplaced
  <2>2. BlockView(c) = Abstract!Unformatted
    BY <1>5, ViewOfUnformatted
  <2> QED
    BY <1>4, <2>1, <2>2
<1>6. ASSUME cell' = cell
      PROVE  view' = view
  BY <1>6 DEF view
<1>7. CASE FormatMark
  <2>1. PICK x :
          /\ cell' = [cell EXCEPT ![b].baad = x]
          /\ cell[b].baad # FF => x = cell[b].baad
          /\ Goto("erase") \/ Return("lost")
    BY <1>3, <1>7 DEF FormatMark, Program, Torn
  <2>2. CASE x = cell[b].baad
    <3>1. cell' = cell
      BY <1>2, <1>3, <2>1, <2>2 DEF IInv, TypeOK, BlockCell
    <3> QED
      BY <1>1, <1>6, <2>1, <3>1, MapProgress, MapReturn
  <2>3. CASE x # cell[b].baad
    <3>1. PICK c : c = [cell[b] EXCEPT !.baad = x]
      OBVIOUS
    <3>2. c.baad # FF
      BY <1>2, <1>3, <2>1, <2>3, <3>1 DEF BlockCell
    <3>3. cell' = [cell EXCEPT ![b] = c] /\ BlockHeader(c) = FF
      BY <2>1, <3>1, <3>2 DEF BlockHeader, BlockValid
    <3> QED
      BY <1>1, <1>5, <2>1, <3>3, MapProgress, MapReturn
  <2> QED
    BY <2>2, <2>3
<1>8. CASE FormatErase
  <2>1. PICK c \in {cell[b], Uniform(FF), Uniform(Junk)} :
          /\ cell' = [cell EXCEPT ![b] = c]
          /\ Goto("header") \/ \E r \in {"err", "lost"} : Return(r)
    BY <1>3, <1>8 DEF FormatErase, TornErase
  <2>2. view' = view \/ view' = Abstract!Broken(op)
    <3>1. CASE c = cell[b]
      BY <1>6, <2>1, <3>1 DEF IInv, TypeOK
    <3>2. CASE c \in {Uniform(FF), Uniform(Junk)}
      BY <1>5, <2>1, <3>2, UniformBlock DEF BlockHeader
    <3> QED
      BY <3>1, <3>2
  <2> QED
    BY <1>1, <2>1, <2>2, MapProgress, MapReturn
<1>9. CASE FormatHeader
  <2>1. cell[b] = Uniform(FF) /\ cell[b].hdr = FF
    BY <1>1, <1>3, <1>9 DEF FormatHeader, At, IInv, CommandOrder, Uniform
  <2>2. view' = view \/ view' = Abstract!Broken(op)
    <3>1. CASE UNCHANGED cell
      BY <1>6, <3>1
    <3>2. CASE \E x : cell' = [cell EXCEPT ![b].hdr = x]
      <4>1. PICK x, c : c = [Uniform(FF) EXCEPT !.hdr = x] /\ cell' = [cell EXCEPT ![b] = c]
        BY <2>1, <3>2
      <4>2. c.good = FF
        BY <4>1 DEF Uniform
      <4>3. BlockHeader(c) = FF
        BY <4>2, CellsAssumption DEF BlockHeader, BlockValid
      <4> QED
        BY <1>5, <4>1, <4>3
    <3> QED
      BY <1>3, <1>9, <3>1, <3>2 DEF FormatHeader
  <2>3. Goto("valid") \/ \E r \in {"err", "lost"} : Return(r)
    BY <1>9 DEF FormatHeader
  <2> QED
    BY <1>1, <2>2, <2>3, MapProgress, MapReturn
<1>10. CASE FormatValid
  <2>1. cell[b] = [Uniform(FF) EXCEPT !.hdr = op.hdr] /\ FragmentsPerBlock(op.hdr.size) > 0
    BY <1>1, <1>3, <1>10 DEF FormatValid, At, IInv, CommandOrder
  <2>2. /\ cell[b].hdr = op.hdr /\ cell[b].good = FF /\ cell[b].baad = FF
        /\ cell[b].frag = Uniform(FF).frag
    BY <2>1 DEF Uniform
  <2>3. PICK x \in {FF, Junk, "set"} :
          /\ cell' = [cell EXCEPT ![b] = [cell[b] EXCEPT !.good = x]]
          /\ \/ x = "set" /\ Return("ok")
             \/ \E r \in {"err", "lost"} : Return(r)
    BY <1>2, <1>3, <1>10, <2>2 DEF FormatValid, Program, Torn
  <2>4. PICK c : c = [cell[b] EXCEPT !.good = x]
    OBVIOUS
  <2>5. c.hdr = op.hdr /\ c.good = x /\ c.baad = FF /\ c.frag = Uniform(FF).frag
    BY <1>2, <1>3, <2>2, <2>4 DEF BlockCell
  <2>6. CASE x # "set"
    <3>1. BlockHeader(c) = FF
      BY <2>5, <2>6 DEF BlockHeader, BlockValid
    <3> QED
      BY <1>1, <1>5, <2>3, <2>4, <2>6, <3>1, MapReturn
  <2>7. CASE x = "set"
    <3>1. BlockHeader(c) = op.hdr /\ op.hdr # FF
      BY <1>2, <2>1, <2>5, <2>7, CellsAssumption DEF BlockHeader, BlockValid
    <3>2. \A s \in SlotIds : FragmentView(c, s) = [st |-> "Empty", data |-> FF]
      BY <2>5, <3>1, UniformBlock DEF FragmentView, ReadFragment
    <3>3. BlockView(c) = Abstract!Formatted(op.hdr)
      BY <3>1, <3>2 DEF BlockView, Abstract!Formatted, Abstract!EmptyFrag
    <3>4. view' = Abstract!Done(op)
      BY ZenonT(30), <1>4, <2>3, <2>4, <3>3, ViewOfReplaced
    <3> QED
      BY <1>1, <2>3, <3>4, MapReturn
  <2> QED
    BY <2>6, <2>7
<1> QED
  BY <1>7, <1>8, <1>9, <1>10

(* What the fragment of the running call reads as, before and after.       *)
LEMMA MapFrag ==
  ASSUME IInv, op.kind \in {"write", "delete"}, NEW f \in FragCell, SetFrag(f)
  PROVE  /\ FragmentStatus(f) = "Invalid" => view' = Abstract!Broken(op)
         /\ FragmentStatus(f) = "Obsolete" /\ op.kind = "delete" => view' = Abstract!Done(op)
         /\ /\ FragmentStatus(f) = "Valid" /\ op.kind = "write" /\ f.data = op.data
            => view' = Abstract!Done(op)
         /\ f = FragNow => view' = view
<1>1. BlockHeader(cell[op.b]) # FF
  BY DEF IInv, CommandOrder
<1>2. view' = Abstract!SetFrag(op.b, op.slot,
                [st |-> FragmentStatus(f),
                 data |-> IF FragmentStatus(f) = "Valid" THEN f.data ELSE FF])
  BY <1>1, ViewOfFrag
<1>3. /\ Abstract!Broken(op) = Abstract!SetFrag(op.b, op.slot, Abstract!InvalidFrag)
      /\ op.kind = "write" =>
           Abstract!Done(op) = Abstract!SetFrag(op.b, op.slot, Abstract!ValidFrag(op.data))
      /\ op.kind = "delete" =>
           Abstract!Done(op) = Abstract!SetFrag(op.b, op.slot, Abstract!ObsoleteFrag)
  BY DEF Abstract!Broken, Abstract!Done
<1>4. FragmentStatus(f) = "Invalid" => view' = Abstract!Broken(op)
  BY <1>2, <1>3 DEF Abstract!InvalidFrag
<1>5. FragmentStatus(f) = "Obsolete" /\ op.kind = "delete" => view' = Abstract!Done(op)
  BY <1>2, <1>3 DEF Abstract!ObsoleteFrag
<1>6. FragmentStatus(f) = "Valid" /\ op.kind = "write" /\ f.data = op.data
        => view' = Abstract!Done(op)
  BY <1>2, <1>3 DEF Abstract!ValidFrag
<1>7. f = FragNow => view' = view
  <2>1. f = FragNow => cell' = cell
    BY TypeOfFrag DEF SetFrag, FragNow, IInv, TypeOK, BlockCell
  <2> QED
    BY <2>1 DEF view
<1> QED
  BY <1>4, <1>5, <1>6, <1>7

(* Every flash command of write_fragment is a step of BlockSpec.            *)
LEMMA MapWrite ==
  ASSUME IInv, WriteMark \/ WriteData \/ WriteVerify \/ WriteValid
  PROVE  [Abstract!Next]_(Abstract!vars)
<1>1. op.kind = "write" /\ op # Idle
  BY DEF WriteMark, WriteData, WriteVerify, WriteValid, At, Idle
<1>2. FragNow \in FragCell
  BY <1>1, TypeOfFrag
<1>3. op.data \in Data /\ op.data # FF /\ op.data # Junk
  BY <1>1, CellsAssumption DEF IInv, TypeOK, Calls, Idle
<1>4. FragNow.gone = FF /\ FragNow.done = FF
  BY <1>1 DEF IInv, CommandOrder
<1>5. CASE WriteMark
  <2>1. FragNow.wip = FF
    BY <1>1, <1>5 DEF WriteMark, At, IInv, CommandOrder
  <2>2. PICK x \in {FF, Junk, "set"} :
          /\ SetFrag([FragNow EXCEPT !.wip = x])
          /\ Goto("data") \/ \E r \in {"err", "lost"} : Return(r)
    BY <1>5, <2>1 DEF WriteMark, Program, Torn
  <2>3. PICK f \in FragCell : f = [FragNow EXCEPT !.wip = x]
    BY <1>2 DEF FragCell, Marker
  <2>4. x = FF => f = FragNow
    BY <1>2, <2>1, <2>3 DEF FragCell
  <2>5. x # FF => FragmentStatus(f) = "Invalid"
    BY <1>2, <1>4, <2>3, CellsAssumption DEF FragCell, FragmentStatus
  <2>6. view' = view \/ view' = Abstract!Broken(op)
    BY <1>1, <2>2, <2>3, <2>4, <2>5, MapFrag
  <2> QED
    BY <1>1, <2>2, <2>6, MapProgress, MapReturn
<1>6. CASE WriteData
  <2>1. FragNow.wip = "set" /\ FragNow.data = FF
    BY <1>1, <1>6 DEF WriteData, At, IInv, CommandOrder
  <2>2. PICK x \in {FF, Junk, op.data} :
          /\ SetFrag([FragNow EXCEPT !.data = x])
          /\ Goto("verify") \/ \E r \in {"err", "lost"} : Return(r)
    BY <1>6, <2>1 DEF WriteData, Program, Torn
  <2>3. PICK f \in FragCell : f = [FragNow EXCEPT !.data = x]
    BY <1>2, <1>3 DEF FragCell
  <2>4. FragmentStatus(f) = "Invalid"
    BY <1>2, <1>4, <2>1, <2>3, CellsAssumption DEF FragCell, FragmentStatus
  <2>5. view' = Abstract!Broken(op)
    BY <1>1, <2>2, <2>3, <2>4, MapFrag
  <2> QED
    BY <1>1, <2>2, <2>5, MapProgress, MapReturn
<1>7. CASE WriteVerify
  <2>1. view' = view
    BY <1>7 DEF WriteVerify, view
  <2>2. Goto("valid") \/ \E r \in {"err", "lost"} : Return(r)
    BY <1>7 DEF WriteVerify
  <2> QED
    BY <1>1, <2>1, <2>2, MapProgress, MapReturn
<1>8. CASE WriteValid
  <2>1. FragNow.wip = "set" /\ FragNow.data = op.data
    BY <1>1, <1>8 DEF WriteValid, At, IInv, CommandOrder
  <2>2. PICK x \in {FF, Junk, "set"} :
          /\ SetFrag([FragNow EXCEPT !.done = x])
          /\ (x = "set" /\ Return("ok")) \/ \E r \in {"err", "lost"} : Return(r)
    BY <1>4, <1>8 DEF WriteValid, Program, Torn
  <2>3. PICK f \in FragCell : f = [FragNow EXCEPT !.done = x]
    BY <1>2 DEF FragCell, Marker
  <2>4. f.data = op.data /\ FragmentStatus(f) = IF x = "set" THEN "Valid" ELSE "Invalid"
    BY <1>2, <1>4, <2>1, <2>3, CellsAssumption DEF FragCell, FragmentStatus
  <2>5. IF x = "set" THEN view' = Abstract!Done(op) ELSE view' = Abstract!Broken(op)
    BY <1>1, <2>2, <2>3, <2>4, MapFrag
  <2> QED
    BY <1>1, <2>2, <2>5, MapReturn
<1> QED
  BY <1>5, <1>6, <1>7, <1>8

(* The marker that delete_fragment writes is a step of BlockSpec.           *)
LEMMA MapDelete ==
  ASSUME IInv, DeleteMark
  PROVE  [Abstract!Next]_(Abstract!vars)
<1>1. op.kind = "delete" /\ op # Idle
  BY DEF DeleteMark, At, Idle
<1>2. FragNow \in FragCell /\ FragNow.gone = FF
  BY <1>1, TypeOfFrag DEF IInv, CommandOrder
<1>3. PICK x \in {FF, Junk, "set"} :
        /\ SetFrag([FragNow EXCEPT !.gone = x])
        /\ (x = "set" /\ Return("ok")) \/ \E r \in {"err", "lost"} : Return(r)
  BY <1>2 DEF DeleteMark, Program, Torn
<1>4. PICK f \in FragCell : f = [FragNow EXCEPT !.gone = x]
  BY <1>2 DEF FragCell, Marker
<1>5. x = FF => f = FragNow
  BY <1>2, <1>4 DEF FragCell
<1>6. x # FF => FragmentStatus(f) = IF x = "set" THEN "Obsolete" ELSE "Invalid"
  BY <1>2, <1>4, CellsAssumption DEF FragCell, FragmentStatus
<1>7. /\ x = FF => view' = view
      /\ x = Junk => view' = Abstract!Broken(op)
      /\ x = "set" => view' = Abstract!Done(op)
  BY <1>1, <1>3, <1>4, <1>5, <1>6, MapFrag, CellsAssumption
<1> QED
  BY <1>1, <1>3, <1>7, CellsAssumption, MapReturn

(* Accepting or refusing a call of format_block, write_fragment or          *)
(* delete_fragment is a step of BlockSpec.                                  *)
LEMMA MapCalls ==
  ASSUME IInv,
         \/ \E b \in Blocks, h \in Headers : FormatBlock(b, h)
         \/ \E b \in Blocks, n \in 0 .. SeqMod - 1, d \in Data : WriteFragment(b, n, d)
         \/ \E b \in Blocks, n \in 0 .. SeqMod - 1 : DeleteFragment(b, n)
  PROVE  [Abstract!Next]_(Abstract!vars)
<1>1. ASSUME NEW r \in {"ok", "err"}, Refuse(r)
      PROVE  Abstract!Next
  BY <1>1 DEF Refuse, Abstract!Next, Abstract!Reject, view, Idle, Abstract!Idle
<1>2. ASSUME NEW o \in Calls, NEW s, Begin(o, s), Abstract!Acceptable(o)
      PROVE  Abstract!Next
  <2>1. /\ op = Abstract!Idle /\ op' = o /\ ret' = "none" /\ view' = view
        /\ o \in Abstract!Ops
    BY <1>2 DEF Begin, view, Idle, Abstract!Idle, Calls, Abstract!Ops
  <2> QED
    BY <1>2, <2>1 DEF Abstract!Next, Abstract!Begin
<1>3. ASSUME NEW b \in Blocks, NEW h \in Headers, FormatBlock(b, h)
      PROVE  Abstract!Next
  <2>1. [kind |-> "format", b |-> b, hdr |-> h] \in Calls
    BY DEF Calls
  <2> QED
    BY <1>2, <1>3, <2>1 DEF FormatBlock, Abstract!Acceptable
<1>4. ASSUME NEW b \in Blocks, NEW s \in SlotIds, BlockHeader(cell[b]) # FF
      PROVE  view[b].hdr # FF /\ view[b].frag[s].st = FragmentStatus(cell[b].frag[s])
  BY <1>4 DEF view, BlockView, FragmentView
<1>5. ASSUME NEW b \in Blocks, NEW n \in 0 .. SeqMod - 1, NEW d \in Data, WriteFragment(b, n, d)
      PROVE  Abstract!Next
  <2> DEFINE h == BlockHeader(cell[b])
             s == RelFrag(h, n)
             o == [kind |-> "write", b |-> b, slot |-> s, data |-> d]
  <2>1. CASE Refuse("err")
    BY <1>1, <2>1
  <2>2. CASE /\ h # FF /\ s < FragmentsPerBlock(h.size)
             /\ FragmentStatus(cell[b].frag[s]) = "Empty"
             /\ Begin(o, "mark")
    <3>1. h \in Headers
      BY <2>2 DEF BlockHeader
    <3>2. s \in SlotIds
      BY <2>2, <3>1, SlotInBlock
    <3>3. view[b].hdr # FF /\ view[b].frag[s].st = "Empty"
      BY <1>4, <2>2, <3>2
    <3> HIDE DEF s
    <3>4. o \in Calls /\ o.b = b /\ o.slot = s
      BY <3>2 DEF Calls
    <3>5. Abstract!Acceptable(o)
      BY <3>3, <3>4 DEF Abstract!Acceptable
    <3> HIDE DEF o
    <3> QED
      BY <1>2, <2>2, <3>4, <3>5
  <2> QED
    BY <1>5, <2>1, <2>2 DEF WriteFragment
<1>6. ASSUME NEW b \in Blocks, NEW n \in 0 .. SeqMod - 1, DeleteFragment(b, n)
      PROVE  Abstract!Next
  <2> DEFINE h == BlockHeader(cell[b])
             s == RelFrag(h, n)
             o == [kind |-> "delete", b |-> b, slot |-> s]
  <2>1. CASE Refuse("err") \/ Refuse("ok")
    BY <1>1, <2>1
  <2>2. CASE /\ h # FF /\ s < FragmentsPerBlock(h.size)
             /\ FragmentStatus(cell[b].frag[s]) \in {"Empty", "Valid"}
             /\ Begin(o, "mark")
    <3>1. h \in Headers
      BY <2>2 DEF BlockHeader
    <3>2. s \in SlotIds
      BY <2>2, <3>1, SlotInBlock
    <3>3. view[b].hdr # FF /\ view[b].frag[s].st \in {"Empty", "Valid"}
      BY <1>4, <2>2, <3>2
    <3> HIDE DEF s
    <3>4. o \in Calls /\ o.kind = "delete" /\ o.b = b /\ o.slot = s
      BY <3>2 DEF Calls
    <3>5. Abstract!Acceptable(o)
      BY <3>3, <3>4 DEF Abstract!Acceptable
    <3> HIDE DEF o
    <3> QED
      BY <1>2, <2>2, <3>4, <3>5
  <2> QED
    BY <1>6, <2>1, <2>2 DEF DeleteFragment
<1> QED
  BY <1>3, <1>5, <1>6

(* The block layer implements BlockSpec: format_block, write_fragment and  *)
(* delete_fragment are atomic up to the three documented states, for every *)
(* device, whatever flash command fails or is cut off by a power loss.     *)
THEOREM Refinement == Spec => ThreeStates
<1>1. Init => Abstract!Init
  <2> SUFFICES ASSUME Init PROVE Abstract!Init
    OBVIOUS
  <2>1. BlockHeader(Uniform(FF)) = FF
    BY UniformBlock DEF BlockHeader
  <2>2. view = [b \in Blocks |-> Abstract!Unformatted]
    BY <2>1, ViewOfUnformatted DEF Init, view
  <2> QED
    BY <2>2 DEF Init, Abstract!Init, Idle, Abstract!Idle
<1>2. IInv /\ [Next]_vars => [Abstract!Next]_(Abstract!vars)
  <2> SUFFICES ASSUME IInv, [Next]_vars PROVE [Abstract!Next]_(Abstract!vars)
    OBVIOUS
  <2>1. CASE Next
    BY <2>1, MapFormat, MapWrite, MapDelete, MapCalls DEF Next
  <2>2. CASE UNCHANGED vars
    BY <2>2 DEF vars, Abstract!vars, view
  <2> QED
    BY <2>1, <2>2
<1> QED
  BY Inductive, <1>1, <1>2, PTL DEF Spec, ThreeStates, Abstract!Spec

-----------------------------------------------------------------------------
(* Data is kept until it is erased.                                         *)

(* A step of format_block touches no other block.                           *)
LEMMA FormatTouches ==
  ASSUME IInv, FormatMark \/ FormatErase \/ FormatHeader \/ FormatValid
  PROVE  /\ op # Idle /\ op.kind = "format" /\ op.b \in Blocks
         /\ \A x \in Blocks : x # op.b => cell'[x] = cell[x]
<1>1. op.kind = "format" /\ op # Idle
  BY DEF FormatMark, FormatErase, FormatHeader, FormatValid, At, Idle
<1>2. op.b \in Blocks /\ cell \in [Blocks -> BlockCell]
  BY <1>1 DEF IInv, TypeOK, Calls, Idle
<1>3. CASE FormatMark
  BY <1>1, <1>2, <1>3 DEF FormatMark
<1>4. CASE FormatErase
  BY <1>1, <1>2, <1>4 DEF FormatErase
<1>5. CASE FormatHeader
  BY <1>1, <1>2, <1>5 DEF FormatHeader
<1>6. CASE FormatValid
  BY <1>1, <1>2, <1>6 DEF FormatValid
<1> QED
  BY <1>3, <1>4, <1>5, <1>6

(* A marker or data written to one fragment touches no other fragment and   *)
(* no header.                                                               *)
LEMMA FragTouches ==
  ASSUME IInv, op.kind \in {"write", "delete"}, NEW f \in FragCell, SetFrag(f),
         NEW b \in Blocks, NEW s \in SlotIds
  PROVE  /\ BlockHeader(cell'[b]) = BlockHeader(cell[b])
         /\ cell'[b].frag[s] = IF b = op.b /\ s = op.slot THEN f ELSE cell[b].frag[s]
<1>1. op.b \in Blocks /\ op.slot \in SlotIds /\ cell \in [Blocks -> BlockCell]
  BY TypeOfFrag DEF IInv, TypeOK
<1>2. cell[op.b] \in BlockCell
  BY <1>1
<1>3. PICK c : c = [cell[op.b] EXCEPT !.frag[op.slot] = f]
  OBVIOUS
<1>4. /\ c.good = cell[op.b].good /\ c.baad = cell[op.b].baad /\ c.hdr = cell[op.b].hdr
      /\ \A t \in SlotIds : c.frag[t] = IF t = op.slot THEN f ELSE cell[op.b].frag[t]
  BY <1>1, <1>2, <1>3 DEF BlockCell
<1>5. cell'[b] = IF b = op.b THEN c ELSE cell[b]
  BY <1>1, <1>3 DEF SetFrag
<1> QED
  BY <1>4, <1>5 DEF BlockHeader, BlockValid

(* Rewriting a fragment that could not be read, and that does not become    *)
(* readable or Empty again, harms nothing.                                  *)
LEMMA FragKept ==
  ASSUME IInv, op.kind \in {"write", "delete"}, NEW f \in FragCell, SetFrag(f),
         op.kind = "write" => FragmentStatus(FragNow) # "Valid",
         \/ FragmentStatus(FragNow) \notin {"Obsolete", "Invalid"}
         \/ FragmentStatus(f) \notin {"Empty", "Valid"}
         \/ op.kind = "write" /\ step = "valid"
  PROVE  ReadableIsKept /\ NoResurrection
<1>1. op.b \in Blocks /\ op.slot \in SlotIds /\ op # Idle
  BY TypeOfFrag DEF Idle
<1>2. ASSUME NEW b \in Blocks, NEW s \in SlotIds
      PROVE  /\ BlockHeader(cell'[b]) = BlockHeader(cell[b])
             /\ cell'[b].frag[s] = IF b = op.b /\ s = op.slot THEN f ELSE cell[b].frag[s]
  BY <1>2, FragTouches
<1>3. ReadableIsKept
  BY <1>1, <1>2 DEF ReadableIsKept, FragmentView, ReadFragment, FragNow
<1>4. NoResurrection
  BY <1>1, <1>2 DEF NoResurrection, FragNow
<1> QED
  BY <1>3, <1>4

(* A step of format_block harms only the block that is formatted.           *)
LEMMA FormatKept ==
  ASSUME IInv, FormatMark \/ FormatErase \/ FormatHeader \/ FormatValid
  PROVE  ReadableIsKept /\ NoResurrection
<1>1. /\ op # Idle /\ op.kind = "format"
      /\ \A x \in Blocks : x # op.b => cell'[x] = cell[x]
  BY FormatTouches
<1> QED
  BY <1>1 DEF ReadableIsKept, NoResurrection, FragmentView, ReadFragment

(* A step of write_fragment or delete_fragment harms only its fragment.     *)
LEMMA WriteKept ==
  ASSUME IInv, WriteMark \/ WriteData \/ WriteValid \/ DeleteMark
  PROVE  ReadableIsKept /\ NoResurrection
<1>1. op.kind \in {"write", "delete"}
  BY DEF WriteMark, WriteData, WriteValid, DeleteMark, At
<1>2. FragNow \in FragCell /\ FragNow.gone = FF
  BY <1>1, TypeOfFrag DEF IInv, CommandOrder
<1>3. op.kind = "write" => FragNow.done = FF
  BY DEF IInv, CommandOrder
<1>4. op.kind = "write" => FragmentStatus(FragNow) # "Valid"
  BY <1>3, CellsAssumption DEF FragmentStatus
<1>5. CASE WriteMark
  <2>1. op.kind = "write" /\ FragNow.wip = FF
    BY <1>5 DEF WriteMark, At, IInv, CommandOrder
  <2>2. PICK x \in {FF, Junk, "set"} : SetFrag([FragNow EXCEPT !.wip = x])
    BY <1>5, <2>1 DEF WriteMark, Program, Torn
  <2>3. PICK f \in FragCell : f = [FragNow EXCEPT !.wip = x]
    BY <1>2 DEF FragCell, Marker
  <2>4. FragmentStatus(FragNow) = "Empty"
    BY <1>2, <1>3, <2>1 DEF FragmentStatus
  <2> QED
    BY <1>1, <1>4, <2>2, <2>3, <2>4, FragKept
<1>6. CASE WriteData
  <2>1. op.kind = "write" /\ FragNow.wip = "set" /\ FragNow.data = FF
    BY <1>6 DEF WriteData, At, IInv, CommandOrder
  <2>2. op.data \in Data
    BY <2>1 DEF IInv, TypeOK, Calls, Idle
  <2>3. PICK x \in {FF, Junk, op.data} : SetFrag([FragNow EXCEPT !.data = x])
    BY <1>6, <2>1 DEF WriteData, Program, Torn
  <2>4. PICK f \in FragCell : f = [FragNow EXCEPT !.data = x]
    BY <1>2, <2>2 DEF FragCell
  <2>5. FragmentStatus(f) = "Invalid"
    BY <1>2, <1>3, <2>1, <2>4, CellsAssumption DEF FragCell, FragmentStatus
  <2> QED
    BY <1>1, <1>4, <2>3, <2>4, <2>5, FragKept
<1>7. CASE WriteValid
  <2>1. op.kind = "write" /\ step = "valid"
    BY <1>7 DEF WriteValid, At
  <2>2. PICK x \in {FF, Junk, "set"} : SetFrag([FragNow EXCEPT !.done = x])
    BY <1>3, <1>7, <2>1 DEF WriteValid, Program, Torn
  <2>3. PICK f \in FragCell : f = [FragNow EXCEPT !.done = x]
    BY <1>2 DEF FragCell, Marker
  <2> QED
    BY <1>1, <1>4, <2>1, <2>2, <2>3, FragKept
<1>8. CASE DeleteMark
  <2>1. op.kind = "delete" /\ FragmentStatus(FragNow) \in {"Empty", "Valid"}
    BY <1>8 DEF DeleteMark, At, IInv, CommandOrder
  <2>2. PICK x \in {FF, Junk, "set"} : SetFrag([FragNow EXCEPT !.gone = x])
    BY <1>2, <1>8 DEF DeleteMark, Program, Torn
  <2>3. PICK f \in FragCell : f = [FragNow EXCEPT !.gone = x]
    BY <1>2 DEF FragCell, Marker
  <2> QED
    BY <1>1, <2>1, <2>2, <2>3, FragKept
<1> QED
  BY <1>5, <1>6, <1>7, <1>8

(* Accepting or refusing a call and comparing what was written changes      *)
(* nothing in the flash.                                                    *)
LEMMA ReadingKept ==
  ASSUME cell' = cell
  PROVE  ReadableIsKept /\ NoResurrection
BY DEF ReadableIsKept, NoResurrection, FragmentView, ReadFragment

(* Readable data stays readable and the same, and what is unreadable does   *)
(* not come back, until the fragment is deleted or its block formatted, for *)
(* any number of blocks and whatever flash command fails or is cut off.     *)
THEOREM DataKept == Spec => KeptUntilErased
<1>1. IInv /\ [Next]_vars => [ReadableIsKept /\ NoResurrection]_vars
  <2> SUFFICES ASSUME IInv, Next PROVE ReadableIsKept /\ NoResurrection
    OBVIOUS
  <2>1. CASE FormatMark \/ FormatErase \/ FormatHeader \/ FormatValid
    BY <2>1, FormatKept
  <2>2. CASE WriteMark \/ WriteData \/ WriteValid \/ DeleteMark
    BY <2>2, WriteKept
  <2>3. CASE WriteVerify
    BY <2>3, ReadingKept DEF WriteVerify
  <2>4. ASSUME NEW b \in Blocks, NEW h \in Headers, FormatBlock(b, h)
        PROVE  cell' = cell
    BY <2>4 DEF FormatBlock, Begin
  <2>5. ASSUME NEW b \in Blocks, NEW n \in 0 .. SeqMod - 1, NEW d \in Data, WriteFragment(b, n, d)
        PROVE  cell' = cell
    BY <2>5 DEF WriteFragment, Begin, Refuse
  <2>6. ASSUME NEW b \in Blocks, NEW n \in 0 .. SeqMod - 1, DeleteFragment(b, n)
        PROVE  cell' = cell
    BY <2>6 DEF DeleteFragment, Begin, Refuse
  <2> QED
    BY <2>1, <2>2, <2>3, <2>4, <2>5, <2>6, ReadingKept DEF Next
<1> QED
  BY Inductive, <1>1, PTL DEF Spec, KeptUntilErased

=============================================================================
