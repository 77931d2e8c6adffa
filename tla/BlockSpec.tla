------------------------------ MODULE BlockSpec ------------------------------
(***************************************************************************)
(* What storage/flash_db/block_layer.rs promises to the layers above it.   *)
(*                                                                         *)
(* A block is either not formatted or carries a header and a list of       *)
(* fragments, each Empty, Valid (with its data), Invalid or Obsolete.      *)
(* format_block, write_fragment and delete_fragment each take effect in    *)
(* one step, or leave what the documentation of trait Writer allows: the   *)
(* block or fragment as it was, or one that reads as invalid.              *)
(* BlockLayer, which works on the single flash writes, implements this.    *)
(***************************************************************************)
EXTENDS Naturals

CONSTANTS
  Blocks,     \* block identifiers of the device
  SlotIds,    \* positions of fragments inside a block
  Headers,    \* contents of a block header
  Data,       \* what can be stored in a fragment
  FF          \* an erased cell; here: no header, no data

VARIABLES
  block,      \* what every block reads as
  busy,       \* the operation that is being executed
  ret         \* how the last operation ended: ok, err, or lost to a power cut

vars == <<block, busy, ret>>

Idle == [kind |-> "idle"]

EmptyFrag    == [st |-> "Empty",    data |-> FF]
InvalidFrag  == [st |-> "Invalid",  data |-> FF]
ObsoleteFrag == [st |-> "Obsolete", data |-> FF]
ValidFrag(d) == [st |-> "Valid",    data |-> d]

Frag == [st : {"Empty", "Invalid", "Obsolete"}, data : {FF}]
          \cup [st : {"Valid"}, data : Data]

Formatted(h) == [hdr |-> h, frag |-> [s \in SlotIds |-> EmptyFrag]]
Unformatted  == Formatted(FF)

Block == [hdr : Headers \cup {FF}, frag : [SlotIds -> Frag]]

Ops == [kind : {"format"}, b : Blocks, hdr : Headers]
         \cup [kind : {"write"}, b : Blocks, slot : SlotIds, data : Data]
         \cup [kind : {"delete"}, b : Blocks, slot : SlotIds]

(* Blocks, the running operation and its result have their types. *)
TypeOK ==
  /\ block \in [Blocks -> Block]
  /\ busy \in Ops \cup {Idle}
  /\ ret \in {"none", "ok", "err", "lost"}

Init ==
  /\ block = [b \in Blocks |-> Unformatted]
  /\ busy = Idle
  /\ ret = "none"

(***************************************************************************)
(* The block of operation o once o has taken effect, and the block of an   *)
(* operation that stopped half way.                                        *)
(***************************************************************************)
SetFrag(b, s, f) == [block EXCEPT ![b].frag[s] = f]

Done(o) ==
  CASE o.kind = "format" -> [block EXCEPT ![o.b] = Formatted(o.hdr)]
    [] o.kind = "write"  -> SetFrag(o.b, o.slot, ValidFrag(o.data))
    [] o.kind = "delete" -> SetFrag(o.b, o.slot, ObsoleteFrag)

Broken(o) ==
  CASE o.kind = "format" -> [block EXCEPT ![o.b] = Unformatted]
    [] OTHER             -> SetFrag(o.b, o.slot, InvalidFrag)

(***************************************************************************)
(* An operation starts on a block that can take it: a fragment is written  *)
(* only when it is Empty and deleted only when it is Empty or Valid.       *)
(***************************************************************************)
Acceptable(o) ==
  o.kind # "format" =>
    /\ block[o.b].hdr # FF
    /\ \/ block[o.b].frag[o.slot].st = "Empty"
       \/ o.kind = "delete" /\ block[o.b].frag[o.slot].st = "Valid"

Begin ==
  /\ busy = Idle
  /\ \E o \in Ops : Acceptable(o) /\ busy' = o
  /\ ret' = "none"
  /\ UNCHANGED block

(* Refused (err), or nothing to do (ok): the device is not touched. *)
Reject ==
  /\ busy = Idle
  /\ ret' \in {"ok", "err"}
  /\ UNCHANGED <<block, busy>>

(* While the operation runs, its block or fragment reads as invalid. *)
Progress ==
  /\ busy # Idle
  /\ block' = Broken(busy)
  /\ UNCHANGED <<busy, ret>>

Return ==
  /\ busy # Idle
  /\ busy' = Idle
  /\ \/ ret' = "ok" /\ block' = Done(busy)
     \/ ret' \in {"err", "lost"} /\ block' \in {block, Broken(busy), Done(busy)}

Next == Begin \/ Reject \/ Progress \/ Return

Spec == Init /\ [][Next]_vars
=============================================================================
