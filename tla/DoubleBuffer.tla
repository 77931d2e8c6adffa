---------------------------- MODULE DoubleBuffer -----------------------------
(***************************************************************************)
(* sync/mod.rs: DoubleBuffer, a value that is read without locks while one *)
(* thread writes the next version of it.                                   *)
(*                                                                         *)
(* Every access to an atomic, and every access to a field of the value in  *)
(* one of the two buffers, is a step of its own: threads and interrupt     *)
(* handlers interleave between them. Accesses to the atomics are taken as  *)
(* sequentially consistent, which their orderings give on one core.        *)
(***************************************************************************)
EXTENDS Integers

CONSTANTS
  Threads,      \* threads, tasks and interrupt handlers that use the buffer
  Fields,       \* parts of the value that are copied one after the other
  VersionMod,   \* data_version is u32: arithmetic modulo VersionMod
  MaxWrites,    \* bound on the number of writes
  NoValue       \* nothing was read

ASSUME BufferAssumption ==
  /\ MaxWrites \in Nat
  /\ VersionMod \in Nat /\ VersionMod > MaxWrites
  /\ NoValue \notin [Fields -> 0 .. MaxWrites]

VARIABLES
  state,          \* 0 and 2: idle, 1 and 3: one thread writes
  data_version,   \* number of writes that were finished, modulo VersionMod
  buffer,         \* the two buffers
  pc,             \* what a thread executes
  op,             \* the call that it executes, read or try_write
  st, ver,        \* read: state and version that it has loaded
  copy,           \* read: its copy of the value
  left,           \* fields that are not yet copied
  wi,             \* WriteLockGuard::write_index
  known,          \* BufferVersion that the thread keeps
  got,            \* what the last read returned
  seen,           \* history: values that were current during the read
  quiet,          \* history: no other thread was writing since try_write began
  writes          \* number of writes so far; a write leaves it in its fields

shared == <<state, data_version, buffer, writes>>
local == <<pc, op, st, ver, copy, left, wi>>
history == <<known, got, seen, quiet>>
vars == <<shared, local, history>>

-----------------------------------------------------------------------------
(* State: it always advances 0, 1, 2, 3, 0.                                 *)

ReadIndex(s) == IF s \in {0, 1} THEN 0 ELSE 1
WriteIndex(s) == IF s = 3 THEN 0 ELSE 1
FromWriteIndex(i) == IF i = 0 THEN 3 ELSE 1

(* Mutant: the state is not masked. *)
NextStateUnmasked(s) == s + 1

NextState(s) == (s + 1) % 4

Latest == buffer[ReadIndex(state)]

Goto(t, p) == pc' = [pc EXCEPT ![t] = p]

Reading == {t \in Threads : op[t] = "read" /\ pc[t] # "idle"}

(* Threads that hold the right to write. *)
Writing == {t \in Threads : op[t] = "write" /\ pc[t] \notin {"idle", "retry", "none"}}

(* A call returns, and its local variables go out of scope. *)
ZeroValue == [f \in Fields |-> 0]
EndCall(t) ==
  /\ Goto(t, "idle")
  /\ op' = [op EXCEPT ![t] = "read"]
  /\ st' = [st EXCEPT ![t] = 0]
  /\ ver' = [ver EXCEPT ![t] = 0]
  /\ copy' = [copy EXCEPT ![t] = ZeroValue]
  /\ left' = [left EXCEPT ![t] = {}]
  /\ wi' = [wi EXCEPT ![t] = 0]

-----------------------------------------------------------------------------
(* read                                                                     *)

Read(t) ==
  /\ pc[t] = "idle"
  /\ Goto(t, "load")
  /\ op' = [op EXCEPT ![t] = "read"]
  /\ got' = [got EXCEPT ![t] = NoValue]
  /\ seen' = [seen EXCEPT ![t] = {Latest}]
  /\ UNCHANGED <<shared, st, ver, copy, left, wi, known, quiet>>

LoadState(t) ==
  /\ pc[t] = "load"
  /\ st' = [st EXCEPT ![t] = state]
  /\ Goto(t, "version")
  /\ UNCHANGED <<shared, op, ver, copy, left, wi, history>>

LoadVersion(t) ==
  /\ pc[t] = "version"
  /\ ver' = [ver EXCEPT ![t] = data_version]
  /\ left' = [left EXCEPT ![t] = Fields]
  /\ Goto(t, "copy")
  /\ UNCHANGED <<shared, op, st, copy, wi, history>>

CopyField(t, f) ==
  /\ pc[t] = "copy"
  /\ f \in left[t]
  /\ copy' = [copy EXCEPT ![t][f] = buffer[ReadIndex(st[t])][f]]
  /\ left' = [left EXCEPT ![t] = @ \ {f}]
  /\ UNCHANGED <<shared, pc, op, st, ver, wi, history>>

(* Mutants: the reader waits until nobody writes; the state is not compared. *)
CheckStateWaits(t) ==
  /\ pc[t] = "copy" /\ left[t] = {}
  /\ Goto(t, IF state = st[t] /\ state \in {0, 2} THEN "check" ELSE "load")
  /\ UNCHANGED <<shared, op, st, ver, copy, left, wi, history>>

CheckStateSkipped(t) ==
  /\ pc[t] = "copy" /\ left[t] = {}
  /\ Goto(t, "check")
  /\ UNCHANGED <<shared, op, st, ver, copy, left, wi, history>>

CheckState(t) ==
  /\ pc[t] = "copy" /\ left[t] = {}
  /\ Goto(t, IF ReadIndex(state) = ReadIndex(st[t]) THEN "check" ELSE "load")
  /\ UNCHANGED <<shared, op, st, ver, copy, left, wi, history>>

(* The copy is returned to the caller, or to try_write, which stores it in  *)
(* the buffer that it is going to write.                                    *)
Return(t) ==
  IF op[t] = "read"
    THEN /\ EndCall(t)
         /\ got' = [got EXCEPT ![t] = copy[t]]
         /\ seen' = [seen EXCEPT ![t] = {}]
    ELSE /\ Goto(t, "init")
         /\ left' = [left EXCEPT ![t] = Fields]
         /\ UNCHANGED <<op, st, ver, copy, wi, got, seen>>

(* Mutant: the version is not compared. *)
CheckVersionSkipped(t) ==
  /\ pc[t] = "check"
  /\ Return(t)
  /\ UNCHANGED <<shared, known, quiet>>

CheckVersion(t) ==
  /\ pc[t] = "check"
  /\ IF data_version = ver[t]
       THEN Return(t)
       ELSE Goto(t, "load") /\ UNCHANGED <<op, st, ver, copy, left, wi, got, seen>>
  /\ UNCHANGED <<shared, known, quiet>>

-----------------------------------------------------------------------------
(* try_write, the guard that it returns, and the end of the write           *)

(* A successful compare_exchange; it also ends the quiet of the others. *)
Acquire(t) ==
  /\ state' = NextState(state)
  /\ wi' = [wi EXCEPT ![t] = WriteIndex(state')]
  /\ writes' = writes + 1
  /\ quiet' = [u \in Threads |-> u = t /\ quiet[u]]
  /\ Goto(t, "load")

(* Mutant: the first exchange does not compare. *)
TryWriteAlways(t) ==
  /\ pc[t] = "idle" /\ writes < MaxWrites
  /\ op' = [op EXCEPT ![t] = "write"]
  /\ Acquire(t)
  /\ UNCHANGED <<data_version, buffer, st, ver, copy, left, known, got, seen>>

(* The first compare_exchange *)
TryWrite(t) ==
  /\ pc[t] = "idle"
  /\ state = 0 => writes < MaxWrites
  /\ op' = [op EXCEPT ![t] = "write"]
  /\ IF state = 0
       THEN Acquire(t)
       ELSE /\ Goto(t, "retry")
            /\ quiet' = [quiet EXCEPT ![t] = state = 2]
            /\ UNCHANGED <<state, wi, writes>>
  /\ UNCHANGED <<data_version, buffer, st, ver, copy, left, known, got, seen>>

(* Mutant: the second exchange expects the state of the first. *)
TryWriteAgainSame(t) ==
  /\ pc[t] = "retry"
  /\ state = 0 => writes < MaxWrites
  /\ IF state = 0
       THEN Acquire(t)
       ELSE Goto(t, "none") /\ UNCHANGED <<state, wi, writes, quiet>>
  /\ UNCHANGED <<data_version, buffer, op, st, ver, copy, left, known, got, seen>>

(* The second compare_exchange *)
TryWriteAgain(t) ==
  /\ pc[t] = "retry"
  /\ state = 2 => writes < MaxWrites
  /\ IF state = 2
       THEN Acquire(t)
       ELSE Goto(t, "none") /\ UNCHANGED <<state, wi, writes, quiet>>
  /\ UNCHANGED <<data_version, buffer, op, st, ver, copy, left, known, got, seen>>

ReturnNone(t) ==
  /\ pc[t] = "none"
  /\ EndCall(t)
  /\ UNCHANGED <<shared, history>>

(* Mutant: the last known value is not copied. *)
InitFieldSkipped(t, f) ==
  /\ pc[t] = "init"
  /\ f \in left[t]
  /\ left' = [left EXCEPT ![t] = @ \ {f}]
  /\ UNCHANGED <<shared, pc, op, st, ver, copy, wi, history>>

(* The buffer is initialized with the last known value. *)
InitField(t, f) ==
  /\ pc[t] = "init"
  /\ f \in left[t]
  /\ buffer' = [buffer EXCEPT ![wi[t]][f] = copy[t][f]]
  /\ left' = [left EXCEPT ![t] = @ \ {f}]
  /\ UNCHANGED <<state, data_version, writes, pc, op, st, ver, copy, wi, history>>

(* The owner of the guard writes a field through it. *)
WriteField(t, f) ==
  /\ pc[t] = "init" /\ left[t] = {}
  /\ buffer' = [buffer EXCEPT ![wi[t]][f] = writes]
  /\ UNCHANGED <<state, data_version, writes, local, history>>

(* finish_writing, when the guard is dropped: first the version, *)
FinishVersion(t) ==
  /\ pc[t] = "init" /\ left[t] = {}
  /\ data_version' = (data_version + 1) % VersionMod
  /\ Goto(t, "finish")
  /\ UNCHANGED <<state, buffer, writes, op, st, ver, copy, left, wi, history>>

(* then the state. *)
FinishState(t) ==
  /\ pc[t] = "finish"
  /\ state' = NextState(FromWriteIndex(wi[t]))
  /\ EndCall(t)
  /\ seen' = [u \in Threads |->
                IF u \in Reading THEN seen[u] \cup {buffer[ReadIndex(state')]} ELSE seen[u]]
  /\ UNCHANGED <<data_version, buffer, writes, known, got, quiet>>

-----------------------------------------------------------------------------

(* new_data_available_since remembers the version that it has seen. *)
NewDataAvailableSince(t) ==
  /\ pc[t] = "idle"
  /\ known' = [known EXCEPT ![t] = data_version]
  /\ got' = [got EXCEPT ![t] = NoValue]
  /\ UNCHANGED <<shared, local, seen, quiet>>

Init ==
  /\ state = 0
  /\ data_version = 0
  /\ buffer = [i \in {0, 1} |-> ZeroValue]
  /\ pc = [t \in Threads |-> "idle"]
  /\ op = [t \in Threads |-> "read"]
  /\ st = [t \in Threads |-> 0]
  /\ ver = [t \in Threads |-> 0]
  /\ copy = [t \in Threads |-> ZeroValue]
  /\ left = [t \in Threads |-> {}]
  /\ wi = [t \in Threads |-> 0]
  /\ known = [t \in Threads |-> 0]
  /\ got = [t \in Threads |-> NoValue]
  /\ seen = [t \in Threads |-> {}]
  /\ quiet = [t \in Threads |-> TRUE]
  /\ writes = 0

Reader(t) ==
  \/ Read(t) \/ LoadState(t) \/ LoadVersion(t) \/ CheckState(t) \/ CheckVersion(t)
  \/ \E f \in Fields : CopyField(t, f)

Writer(t) ==
  \/ TryWrite(t) \/ TryWriteAgain(t) \/ ReturnNone(t)
  \/ FinishVersion(t) \/ FinishState(t)
  \/ \E f \in Fields : InitField(t, f) \/ WriteField(t, f)

Next == \E t \in Threads : Reader(t) \/ Writer(t) \/ NewDataAvailableSince(t)

Spec == Init /\ [][Next]_vars

(* A thread goes on with a read that it has begun; nothing is assumed of    *)
(* threads that write.                                                      *)
ReadingStep(t) == op[t] = "read" /\ pc[t] # "idle" /\ Reader(t)

-----------------------------------------------------------------------------
(* Properties.                                                              *)

Values == [Fields -> 0 .. MaxWrites]
PCs == {"idle", "load", "version", "copy", "check", "retry", "none", "init", "finish"}

(* The state only takes its four values, the version counts the writes, and *)
(* the locals of the threads have their types.                              *)
TypeOK ==
  /\ state \in 0 .. 3
  /\ writes \in 0 .. MaxWrites
  /\ data_version \in 0 .. writes
  /\ buffer \in [{0, 1} -> Values]
  /\ pc \in [Threads -> PCs]
  /\ op \in [Threads -> {"read", "write"}]
  /\ st \in [Threads -> 0 .. 3]
  /\ ver \in [Threads -> 0 .. MaxWrites]
  /\ copy \in [Threads -> Values]
  /\ left \in [Threads -> SUBSET Fields]
  /\ wi \in [Threads -> {0, 1}]
  /\ known \in [Threads -> 0 .. MaxWrites]
  /\ got \in [Threads -> Values \cup {NoValue}]
  /\ seen \in [Threads -> SUBSET Values]
  /\ quiet \in [Threads -> BOOLEAN]

(* At most one WriteLockGuard exists, and it owns the buffer that readers   *)
(* are not sent to.                                                         *)
OneWriter ==
  /\ \A t, u \in Writing : t = u
  /\ \A t \in Writing : state = FromWriteIndex(wi[t])

(* What read returns was the current value at some moment during the call:  *)
(* never a mixture of two writes, and never a value that was replaced       *)
(* before the call began.                                                   *)
GivesCurrent == \A t \in Threads : got'[t] \in {got[t], NoValue} \cup seen[t]

(* A write replaces the fields that the owner of the guard has written and  *)
(* keeps the others, although the buffer held an older value.               *)
KeepsTheRest == \A f \in Fields : Latest'[f] \in {Latest[f], writes}

ReadsCurrentValue == [][GivesCurrent]_vars
WritesKeepTheRest == [][KeepsTheRest]_vars

(* try_write returns None only if another thread was writing meanwhile.     *)
NoneMeansBusy == \A t \in Threads : pc[t] = "none" => ~ quiet[t]

(* What the users of a DoubleBuffer rely on: at most one of them writes, is *)
(* refused only while another one does, and replaces what it set and no     *)
(* more; a read gives a value that was current during the call.             *)
BufferIsConsistent ==
  /\ [](OneWriter /\ NoneMeansBusy)
  /\ [][GivesCurrent /\ KeepsTheRest]_vars

(* A read ends, even if a thread that writes is stopped for ever: readers   *)
(* wait for nobody. It relies on the number of writes being bounded.        *)
ReadReturned(t) == op[t] = "read" => pc[t] = "idle"

(* As long as the version is the one that was seen before a read, another   *)
(* read would yield the same value.                                         *)
VersionTellsNewData ==
  \A t \in Threads :
    got[t] # NoValue /\ known[t] = data_version => got[t] = Latest
=============================================================================
