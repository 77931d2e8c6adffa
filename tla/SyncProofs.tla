------------------------------ MODULE SyncProofs ------------------------------
(***************************************************************************)
(* The cells and channels that tasks and interrupt handlers share (sync/*  *)
(* and active_config.rs), for any number of users and every capacity:      *)
(* DoubleBuffer, SharedCells, SessionChannel.                              *)
(***************************************************************************)
EXTENDS DoubleBuffer, SharedCells, SessionChannel,
        FiniteSetTheorems, SequenceTheorems, TLAPS

(* The shared cells between two tasks: a reservation guarantees room and no wake-up *)
(* of the sender is lost (reserving_sender.rs), a reference is to a value that      *)
(* nobody writes any more (once_lock.rs).                                           *)
SharingIsSafe == ReservationHolds /\ NoLostWakeup /\ ReferencesAreSafe

-----------------------------------------------------------------------------
(* DoubleBuffer: at most one thread writes, and what a read returns was the *)
(* current value during the read.                                           *)

(* Which steps belong to which call. *)
Calls ==
  \A t \in Threads :
    /\ op[t] = "read" => pc[t] \in {"idle", "load", "version", "copy", "check"}
    /\ pc[t] = "idle" => op[t] = "read"
    /\ pc[t] = "check" => left[t] = {}

(* The version is behind the number of writes while one is in progress. *)
Unfinished == \A t \in Writing : pc[t] # "finish" => data_version < writes

(* A buffer that is not written to: readers are sent to it, or a finished   *)
(* write is about to send them there.                                       *)
Frozen(i) ==
  \/ ReadIndex(state) = i
  \/ \E w \in Writing : pc[w] = "finish" /\ wi[w] = i

(* As long as the version is the one that a thread has loaded, and its      *)
(* buffer is frozen, what it has copied is still there.                     *)
CopiesMatch ==
  \A t \in Threads : pc[t] \in {"copy", "check"} =>
    /\ ver[t] <= data_version
    /\ ver[t] = data_version /\ Frozen(ReadIndex(st[t])) =>
         \A f \in Fields \ left[t] : copy[t][f] = buffer[ReadIndex(st[t])][f]

(* A read that compares the version last has a current value if it matches. *)
ReadersSee ==
  \A t \in Reading :
    /\ Latest \in seen[t]
    /\ pc[t] = "check" /\ ver[t] = data_version => copy[t] \in seen[t]

(* The state cannot change while a thread prepares its write, so it copies  *)
(* the latest value, and keeps the fields that it does not write.           *)
WriterKeeps ==
  \A t \in Writing :
    /\ pc[t] \in {"version", "copy", "check"} => ReadIndex(st[t]) = ReadIndex(state)
    /\ pc[t] = "init" => copy[t] = Latest
    /\ pc[t] \in {"init", "finish"} =>
         \A f \in Fields \ left[t] : buffer[wi[t]][f] \in {Latest[f], writes}
    /\ pc[t] = "finish" => left[t] = {}

(* While try_write is between its two exchanges and nobody else writes, the *)
(* second one finds what it expects.                                        *)
QuietIsIdle == \A t \in Threads : pc[t] = "retry" /\ quiet[t] => state = 2

IInv ==
  /\ TypeOK /\ Calls /\ OneWriter /\ Unfinished
  /\ CopiesMatch /\ ReadersSee /\ WriterKeeps
  /\ QuietIsIdle /\ NoneMeansBusy

-----------------------------------------------------------------------------
(* The new buffer, of which nothing was written or read, satisfies the      *)
(* invariant.                                                               *)
LEMMA Initial == Init => IInv
<1> SUFFICES ASSUME Init PROVE IInv
  OBVIOUS
<1>1. ZeroValue \in Values
  BY BufferAssumption DEF ZeroValue, Values
<1>2. TypeOK
  BY <1>1, BufferAssumption DEF Init, TypeOK, PCs
<1>3. Writing = {} /\ Reading = {}
  BY DEF Init, Writing, Reading
<1> QED
  BY <1>2, <1>3
  DEF Init, IInv, Calls, OneWriter, Unfinished, CopiesMatch, ReadersSee, WriterKeeps, QuietIsIdle,
      NoneMeansBusy

-----------------------------------------------------------------------------
(* Every step of a read keeps the invariant.                                *)

(* Beginning a read: the value that is current is the first one it may      *)
(* return.                                                                  *)
LEMMA ReadStep ==
  ASSUME IInv, NEW t \in Threads, Read(t)
  PROVE  IInv'
<1>1. Latest \in Values /\ Latest' = Latest
  BY DEF IInv, TypeOK, Latest, ReadIndex, Read, shared
<1>2. TypeOK'
  BY <1>1 DEF IInv, TypeOK, Read, shared, Goto, PCs
<1>3. Writing' = Writing /\ t \notin Writing
  BY DEF IInv, TypeOK, Calls, Read, Goto, Writing
<1>4. Reading' = Reading \cup {t}
  BY DEF IInv, TypeOK, Read, Goto, Reading
<1>5. (Calls /\ QuietIsIdle /\ NoneMeansBusy)'
  BY DEF IInv, TypeOK, Calls, Read, Goto, shared, QuietIsIdle, NoneMeansBusy
<1>6. (OneWriter /\ Unfinished /\ WriterKeeps)'
  BY <1>1, <1>3 DEF IInv, TypeOK, OneWriter, Unfinished, WriterKeeps, Read, Goto, shared
<1>7. CopiesMatch'
  BY <1>3 DEF IInv, TypeOK, CopiesMatch, Frozen, Read, Goto, shared
<1>8. ReadersSee'
  BY <1>1, <1>4 DEF IInv, TypeOK, ReadersSee, Read, Goto, shared
<1> QED
  BY <1>2, <1>5, <1>6, <1>7, <1>8 DEF IInv

(* Loading the state: a thread that writes loads the state that it has set. *)
LEMMA LoadStateStep ==
  ASSUME IInv, NEW t \in Threads, LoadState(t)
  PROVE  IInv'
<1>1. Latest' = Latest
  BY DEF Latest, LoadState, shared
<1>2. TypeOK'
  BY DEF IInv, TypeOK, LoadState, shared, history, Goto, PCs
<1>3. Writing' = Writing /\ Reading' = Reading
  BY DEF IInv, TypeOK, LoadState, Goto, Writing, Reading
<1>4. (Calls /\ QuietIsIdle /\ NoneMeansBusy)'
  BY DEF IInv, TypeOK, Calls, LoadState, Goto, shared, history, QuietIsIdle, NoneMeansBusy
<1>5. (OneWriter /\ Unfinished /\ WriterKeeps)'
  BY <1>1, <1>3
  DEF IInv, TypeOK, OneWriter, Unfinished, WriterKeeps, LoadState, Goto, shared, Writing
<1>6. CopiesMatch'
  BY <1>3 DEF IInv, TypeOK, CopiesMatch, Frozen, LoadState, Goto, shared, Writing
<1>7. ReadersSee'
  BY <1>1, <1>3 DEF IInv, TypeOK, ReadersSee, LoadState, Goto, shared, history, Reading
<1> QED
  BY <1>2, <1>4, <1>5, <1>6, <1>7 DEF IInv

(* Loading the version: nothing is copied yet.                              *)
LEMMA LoadVersionStep ==
  ASSUME IInv, NEW t \in Threads, LoadVersion(t)
  PROVE  IInv'
<1>1. Latest' = Latest
  BY DEF Latest, LoadVersion, shared
<1>2. TypeOK'
  <2>1. data_version \in 0 .. MaxWrites
    BY BufferAssumption DEF IInv, TypeOK
  <2> QED
    BY <2>1 DEF IInv, TypeOK, LoadVersion, shared, history, Goto, PCs
<1>3. Writing' = Writing /\ Reading' = Reading
  BY DEF IInv, TypeOK, LoadVersion, Goto, Writing, Reading
<1>4. (Calls /\ QuietIsIdle /\ NoneMeansBusy)'
  BY DEF IInv, TypeOK, Calls, LoadVersion, Goto, shared, history, QuietIsIdle, NoneMeansBusy
<1>5. (OneWriter /\ Unfinished /\ WriterKeeps)'
  BY <1>1, <1>3
  DEF IInv, TypeOK, OneWriter, Unfinished, WriterKeeps, LoadVersion, Goto, shared, Writing
<1>6. CopiesMatch'
  <2>1. pc'[t] = "copy" /\ left'[t] = Fields /\ ver'[t] = data_version
    BY DEF IInv, TypeOK, LoadVersion, Goto
  <2>2. \A u \in Threads \ {t} : pc'[u] = pc[u] /\ left'[u] = left[u] /\ ver'[u] = ver[u]
    BY DEF IInv, TypeOK, LoadVersion, Goto
  <2>3. \A i \in {0, 1} : Frozen(i)' => Frozen(i)
    BY <1>3, <2>1, <2>2 DEF Frozen, LoadVersion, shared, Writing
  <2> QED
    BY <2>1, <2>2, <2>3 DEF IInv, TypeOK, CopiesMatch, LoadVersion, shared, ReadIndex
<1>7. ReadersSee'
  BY <1>1, <1>3 DEF IInv, TypeOK, ReadersSee, LoadVersion, Goto, shared, history, Reading
<1> QED
  BY <1>2, <1>4, <1>5, <1>6, <1>7 DEF IInv

(* Copying one field from the buffer that the loaded state names.           *)
LEMMA CopyFieldStep ==
  ASSUME IInv, NEW t \in Threads, NEW f \in Fields, CopyField(t, f)
  PROVE  IInv'
<1>1. Latest' = Latest
  BY DEF Latest, CopyField, shared
<1>2. TypeOK'
  <2>1. buffer[ReadIndex(st[t])][f] \in 0 .. MaxWrites
    BY DEF IInv, TypeOK, ReadIndex, Values
  <2>2. copy' \in [Threads -> Values]
    BY <2>1 DEF IInv, TypeOK, CopyField, Values
  <2> QED
    BY <2>2 DEF IInv, TypeOK, CopyField, shared, history, PCs
<1>3. Writing' = Writing /\ Reading' = Reading
  BY DEF IInv, TypeOK, CopyField, Writing, Reading
<1>4. (Calls /\ QuietIsIdle /\ NoneMeansBusy)'
  BY DEF IInv, TypeOK, Calls, CopyField, shared, history, QuietIsIdle, NoneMeansBusy
<1>5. (OneWriter /\ Unfinished /\ WriterKeeps)'
  BY <1>1, <1>3
  DEF IInv, TypeOK, OneWriter, Unfinished, WriterKeeps, CopyField, shared, Writing
<1>6. CopiesMatch'
  <2>1. \A i \in {0, 1} : Frozen(i)' = Frozen(i)
    BY <1>3 DEF Frozen, CopyField, shared
  <2>2. copy[t] \in Values /\ copy'[t] = [copy[t] EXCEPT ![f] = buffer[ReadIndex(st[t])][f]]
    BY DEF IInv, TypeOK, CopyField
  <2>3. \A u \in Threads \ {t} : copy'[u] = copy[u] /\ left'[u] = left[u]
    BY DEF IInv, TypeOK, CopyField
  <2> QED
    BY <2>1, <2>2, <2>3 DEF IInv, TypeOK, CopiesMatch, CopyField, shared, ReadIndex, Values
<1>7. ReadersSee'
  BY <1>1, <1>3 DEF IInv, TypeOK, ReadersSee, CopyField, shared, history, Reading
<1> QED
  BY <1>2, <1>4, <1>5, <1>6, <1>7 DEF IInv

(* Comparing the state: if the version still matches, the copy is what the  *)
(* buffer of the latest value holds.                                        *)
LEMMA CheckStateStep ==
  ASSUME IInv, NEW t \in Threads, CheckState(t)
  PROVE  IInv'
<1>1. Latest' = Latest
  BY DEF Latest, CheckState, shared
<1>2. TypeOK'
  BY DEF IInv, TypeOK, CheckState, shared, history, Goto, PCs
<1>3. Writing' = Writing /\ Reading' = Reading
  BY DEF IInv, TypeOK, CheckState, Goto, Writing, Reading
<1>4. (Calls /\ QuietIsIdle /\ NoneMeansBusy)'
  BY DEF IInv, TypeOK, Calls, CheckState, Goto, shared, history, QuietIsIdle, NoneMeansBusy
<1>5. (OneWriter /\ Unfinished /\ WriterKeeps)'
  BY <1>1, <1>3
  DEF IInv, TypeOK, OneWriter, Unfinished, WriterKeeps, CheckState, Goto, shared, Writing
<1>6. CopiesMatch'
  BY <1>3 DEF IInv, TypeOK, CopiesMatch, Frozen, CheckState, Goto, shared, Writing
<1>7. ReadersSee'
  <2>1. ver[t] = data_version /\ ReadIndex(state) = ReadIndex(st[t]) => copy[t] = Latest
    <3>1. copy[t] \in Values /\ buffer[ReadIndex(st[t])] \in Values
      BY DEF IInv, TypeOK, ReadIndex
    <3>2. ver[t] = data_version /\ ReadIndex(state) = ReadIndex(st[t]) =>
            \A f \in Fields : copy[t][f] = buffer[ReadIndex(st[t])][f]
      BY DEF IInv, CopiesMatch, Frozen, CheckState
    <3> QED
      BY <3>1, <3>2 DEF Values, Latest
  <2> QED
    BY <1>1, <1>3, <2>1 DEF IInv, TypeOK, ReadersSee, CheckState, Goto, shared, history, Reading
<1> QED
  BY <1>2, <1>4, <1>5, <1>6, <1>7 DEF IInv

(* Comparing the version ends a read, or try_write goes on with the latest  *)
(* value, which has not changed since this thread set the state.            *)
LEMMA CheckVersionStep ==
  ASSUME IInv, NEW t \in Threads, CheckVersion(t)
  PROVE  IInv'
<1>1. Latest' = Latest /\ UNCHANGED <<state, data_version, buffer, writes, known, quiet>>
  BY DEF Latest, CheckVersion, shared
<1>2. pc[t] = "check" /\ left[t] = {}
  BY DEF IInv, Calls, CheckVersion
<1>3. CASE data_version # ver[t]
  <2>1. Goto(t, "load") /\ UNCHANGED <<op, st, ver, copy, left, wi, got, seen>>
    BY <1>3 DEF CheckVersion
  <2>2. TypeOK'
    BY <1>1, <2>1 DEF IInv, TypeOK, Goto, PCs
  <2>3. Writing' = Writing /\ Reading' = Reading
    BY <1>2, <2>1 DEF IInv, TypeOK, Goto, Writing, Reading
  <2>4. (Calls /\ QuietIsIdle /\ NoneMeansBusy)'
    BY <1>1, <1>2, <2>1 DEF IInv, TypeOK, Calls, Goto, QuietIsIdle, NoneMeansBusy
  <2>5. (OneWriter /\ Unfinished /\ WriterKeeps)'
    BY <1>1, <1>2, <2>1, <2>3 DEF IInv, TypeOK, OneWriter, Unfinished, WriterKeeps, Goto, Writing
  <2>6. CopiesMatch'
    BY <1>1, <1>2, <2>1, <2>3 DEF IInv, TypeOK, CopiesMatch, Frozen, Goto, Writing
  <2>7. ReadersSee'
    BY <1>1, <2>1, <2>3 DEF IInv, TypeOK, ReadersSee, Goto, Reading
  <2> QED
    BY <2>2, <2>4, <2>5, <2>6, <2>7 DEF IInv
<1>4. CASE data_version = ver[t] /\ op[t] = "read"
  <2>1. EndCall(t) /\ got' = [got EXCEPT ![t] = copy[t]] /\ seen' = [seen EXCEPT ![t] = {}]
    BY <1>4 DEF CheckVersion, Return
  <2>2. TypeOK'
    <3>1. ZeroValue \in Values
      BY BufferAssumption DEF ZeroValue, Values
    <3> QED
      BY <1>1, <2>1, <3>1, BufferAssumption DEF IInv, TypeOK, EndCall, Goto, PCs
  <2>3. Writing' = Writing /\ Reading' = Reading \ {t} /\ t \notin Writing
    BY <1>4, <2>1 DEF IInv, TypeOK, EndCall, Goto, Writing, Reading
  <2>4. (Calls /\ QuietIsIdle /\ NoneMeansBusy)'
    BY <1>1, <2>1 DEF IInv, TypeOK, Calls, EndCall, Goto, QuietIsIdle, NoneMeansBusy
  <2>5. (OneWriter /\ Unfinished /\ WriterKeeps)'
    BY <1>1, <2>1, <2>3 DEF IInv, TypeOK, OneWriter, Unfinished, WriterKeeps, EndCall, Goto, Writing
  <2>6. CopiesMatch'
    <3>1. /\ pc'[t] = "idle"
          /\ \A u \in Threads \ {t} : /\ pc'[u] = pc[u] /\ left'[u] = left[u] /\ ver'[u] = ver[u]
                                     /\ st'[u] = st[u] /\ copy'[u] = copy[u] /\ wi'[u] = wi[u]
      BY <2>1 DEF IInv, TypeOK, EndCall, Goto
    <3>2. \A i : Frozen(i)' => Frozen(i)
      BY <1>1, <2>3, <3>1 DEF Frozen, Writing
    <3> QED
      BY <1>1, <3>1, <3>2 DEF IInv, CopiesMatch
  <2>7. ReadersSee'
    BY <1>1, <2>1, <2>3 DEF IInv, TypeOK, ReadersSee, EndCall, Goto, Reading
  <2> QED
    BY <2>2, <2>4, <2>5, <2>6, <2>7 DEF IInv
<1>5. CASE data_version = ver[t] /\ op[t] # "read"
  <2>1. /\ Goto(t, "init") /\ left' = [left EXCEPT ![t] = Fields]
        /\ UNCHANGED <<op, st, ver, copy, wi, got, seen>>
    BY <1>5 DEF CheckVersion, Return
  <2>2. TypeOK'
    BY <1>1, <2>1 DEF IInv, TypeOK, Goto, PCs
  <2>3. Writing' = Writing /\ Reading' = Reading /\ t \in Writing
    BY <1>2, <1>5, <2>1 DEF IInv, TypeOK, Goto, Writing, Reading
  <2>4. (Calls /\ QuietIsIdle /\ NoneMeansBusy)'
    BY <1>1, <1>2, <1>5, <2>1 DEF IInv, TypeOK, Calls, Goto, QuietIsIdle, NoneMeansBusy
  <2>5. copy[t] = Latest
    <3>1. copy[t] \in Values /\ buffer[ReadIndex(st[t])] \in Values
      BY DEF IInv, TypeOK, ReadIndex
    <3>2. ReadIndex(st[t]) = ReadIndex(state)
      BY <1>2, <2>3 DEF IInv, WriterKeeps
    <3>3. \A f \in Fields : copy[t][f] = buffer[ReadIndex(st[t])][f]
      BY <1>2, <1>5, <3>2 DEF IInv, CopiesMatch, Frozen
    <3> QED
      BY <3>1, <3>2, <3>3 DEF Values, Latest
  <2>6. (OneWriter /\ Unfinished)'
    BY <1>1, <1>2, <2>1, <2>3 DEF IInv, TypeOK, OneWriter, Unfinished, Goto, Writing
  <2>7. WriterKeeps'
    BY <1>1, <1>2, <2>1, <2>3, <2>5 DEF IInv, TypeOK, OneWriter, WriterKeeps, Goto
  <2>8. CopiesMatch'
    BY <1>1, <1>2, <2>1, <2>3 DEF IInv, TypeOK, CopiesMatch, Frozen, Goto, Writing
  <2>9. ReadersSee'
    BY <1>1, <1>5, <2>1, <2>3 DEF IInv, TypeOK, ReadersSee, Goto, Reading
  <2> QED
    BY <2>2, <2>4, <2>6, <2>7, <2>8, <2>9 DEF IInv
<1> QED
  BY <1>3, <1>4, <1>5

-----------------------------------------------------------------------------
(* Every step of a write keeps the invariant.                               *)

(* A thread whose exchange succeeds is the only one that writes.            *)
LEMMA AcquireStep ==
  ASSUME IInv, NEW t \in Threads, Acquire(t), state \in {0, 2}, writes < MaxWrites,
         pc[t] \in {"idle", "retry"}, op' = [op EXCEPT ![t] = "write"],
         UNCHANGED <<data_version, buffer, st, ver, copy, left, known, got, seen>>
  PROVE  IInv'
<1>1. ReadIndex(state') = ReadIndex(state) /\ Latest' = Latest
  BY DEF Acquire, NextState, ReadIndex, Latest
<1>2. /\ state' = FromWriteIndex(wi'[t]) /\ wi'[t] \in {0, 1} /\ state' \in 0 .. 3
      /\ wi' = [wi EXCEPT ![t] = wi'[t]]
  BY DEF IInv, TypeOK, Acquire, NextState, WriteIndex, FromWriteIndex
<1>3. TypeOK'
  <2>1. /\ quiet' \in [Threads -> BOOLEAN] /\ pc' \in [Threads -> PCs]
        /\ op' \in [Threads -> {"read", "write"}] /\ wi' \in [Threads -> {0, 1}]
    BY <1>2 DEF IInv, TypeOK, Acquire, Goto, PCs
  <2>2. writes' \in 0 .. MaxWrites /\ data_version' \in 0 .. writes'
    BY BufferAssumption DEF IInv, TypeOK, Acquire
  <2> QED
    BY <1>2, <2>1, <2>2 DEF IInv, TypeOK
<1>4. Writing = {}
  BY DEF IInv, OneWriter, FromWriteIndex
<1>5. Writing' = {t} /\ Reading' = Reading
  BY <1>4 DEF IInv, TypeOK, Calls, Acquire, Goto, Writing, Reading
<1>6. pc'[t] = "load" /\ \A u \in Threads \ {t} : pc'[u] = pc[u] /\ op'[u] = op[u]
  BY DEF IInv, TypeOK, Acquire, Goto
<1>7. (Calls /\ NoneMeansBusy)'
  BY <1>6 DEF IInv, TypeOK, Calls, Acquire, NoneMeansBusy
<1>8. QuietIsIdle'
  BY <1>6 DEF Acquire, QuietIsIdle
<1>9. (OneWriter /\ WriterKeeps)'
  BY <1>2, <1>5, <1>6 DEF OneWriter, WriterKeeps
<1>10. Unfinished'
  BY <1>5, BufferAssumption DEF IInv, TypeOK, Unfinished, Acquire
<1>11. CopiesMatch'
  BY <1>1, <1>4, <1>5, <1>6 DEF IInv, CopiesMatch, Frozen
<1>12. ReadersSee'
  BY <1>1, <1>5, <1>6 DEF IInv, ReadersSee, Reading
<1> QED
  BY <1>3, <1>7, <1>8, <1>9, <1>10, <1>11, <1>12 DEF IInv

(* A step of try_write that leaves the shared state alone: the exchange     *)
(* failed, and the call goes on with the second one or returns None.        *)
LEMMA RefusedStep ==
  ASSUME IInv, NEW t \in Threads, NEW p \in {"retry", "none"}, Goto(t, p),
         pc[t] \in {"idle", "retry"}, op' = [op EXCEPT ![t] = "write"],
         quiet' \in [Threads -> BOOLEAN], \A u \in Threads \ {t} : quiet'[u] = quiet[u],
         p = "retry" /\ quiet'[t] => state = 2,
         p = "none" => ~ quiet'[t],
         UNCHANGED <<shared, st, ver, copy, left, wi, known, got, seen>>
  PROVE  IInv'
<1>1. Latest' = Latest /\ UNCHANGED <<state, data_version, buffer, writes>>
  BY DEF Latest, shared
<1>2. TypeOK'
  BY <1>1 DEF IInv, TypeOK, Goto, PCs
<1>3. pc'[t] = p /\ op'[t] = "write" /\ \A u \in Threads \ {t} : pc'[u] = pc[u] /\ op'[u] = op[u]
  BY DEF IInv, TypeOK, Goto
<1>4. Writing' = Writing /\ Reading' = Reading /\ t \notin Writing
  BY <1>3 DEF IInv, Calls, Writing, Reading
<1>5. Calls'
  BY <1>3 DEF IInv, Calls
<1>6. (QuietIsIdle /\ NoneMeansBusy)'
  BY <1>1, <1>3 DEF IInv, QuietIsIdle, NoneMeansBusy
<1>7. (OneWriter /\ Unfinished /\ WriterKeeps)'
  BY <1>1, <1>3, <1>4 DEF IInv, OneWriter, Unfinished, WriterKeeps, Writing
<1>8. CopiesMatch'
  <2>1. \A i : Frozen(i)' => Frozen(i)
    BY <1>1, <1>3, <1>4 DEF Frozen, Writing
  <2> QED
    BY <1>1, <1>3, <2>1 DEF IInv, CopiesMatch
<1>9. ReadersSee'
  BY <1>1, <1>3, <1>4 DEF IInv, ReadersSee, Reading
<1> QED
  BY <1>2, <1>5, <1>6, <1>7, <1>8, <1>9 DEF IInv

(* The first compare_exchange of try_write.                                 *)
LEMMA TryWriteStep ==
  ASSUME IInv, NEW t \in Threads, TryWrite(t)
  PROVE  IInv'
<1>1. CASE state = 0
  BY <1>1, AcquireStep DEF TryWrite
<1>2. CASE state # 0
  <2>1. quiet' = [quiet EXCEPT ![t] = (state = 2)] /\ quiet \in [Threads -> BOOLEAN]
    BY <1>2 DEF TryWrite, IInv, TypeOK
  <2>2. quiet' \in [Threads -> BOOLEAN]
    BY <2>1
  <2>3. quiet'[t] => state = 2
    BY <2>1
  <2>4. \A u \in Threads \ {t} : quiet'[u] = quiet[u]
    BY <2>1
  <2>5. /\ Goto(t, "retry") /\ pc[t] = "idle" /\ op' = [op EXCEPT ![t] = "write"]
        /\ UNCHANGED <<shared, st, ver, copy, left, wi, known, got, seen>>
    BY <1>2 DEF TryWrite, shared
  <2> QED
    BY <2>2, <2>3, <2>4, <2>5, RefusedStep
<1> QED
  BY <1>1, <1>2

(* The second compare_exchange of try_write.                                *)
LEMMA TryWriteAgainStep ==
  ASSUME IInv, NEW t \in Threads, TryWriteAgain(t)
  PROVE  IInv'
<1>1. op' = [op EXCEPT ![t] = "write"]
  BY DEF IInv, TypeOK, Calls, TryWriteAgain
<1>2. CASE state = 2
  BY <1>1, <1>2, AcquireStep DEF TryWriteAgain
<1>3. CASE state # 2
  <2>1. quiet' = quiet /\ quiet' \in [Threads -> BOOLEAN]
    BY <1>3 DEF TryWriteAgain, IInv, TypeOK
  <2>2. /\ Goto(t, "none") /\ pc[t] = "retry"
        /\ UNCHANGED <<shared, st, ver, copy, left, wi, known, got, seen>>
    BY <1>3 DEF TryWriteAgain, shared
  <2>3. ~ quiet'[t]
    BY <1>3, <2>1, <2>2 DEF IInv, QuietIsIdle
  <2> QED
    BY <1>1, <2>1, <2>2, <2>3, RefusedStep
<1> QED
  BY <1>2, <1>3

(* Returning None to the caller of try_write.                               *)
LEMMA ReturnNoneStep ==
  ASSUME IInv, NEW t \in Threads, ReturnNone(t)
  PROVE  IInv'
<1>1. Latest' = Latest /\ UNCHANGED <<state, data_version, buffer, writes, known, got, seen, quiet>>
  BY DEF Latest, ReturnNone, shared, history
<1>2. TypeOK'
  <2>1. ZeroValue \in Values
    BY BufferAssumption DEF ZeroValue, Values
  <2> QED
    BY <1>1, <2>1, BufferAssumption DEF IInv, TypeOK, ReturnNone, EndCall, Goto, PCs
<1>3. /\ pc[t] = "none" /\ pc'[t] = "idle" /\ op'[t] = "read"
      /\ \A u \in Threads \ {t} : /\ pc'[u] = pc[u] /\ op'[u] = op[u] /\ st'[u] = st[u]
                                  /\ ver'[u] = ver[u] /\ copy'[u] = copy[u]
                                  /\ left'[u] = left[u] /\ wi'[u] = wi[u]
  BY DEF IInv, TypeOK, ReturnNone, EndCall, Goto
<1>4. Writing' = Writing /\ t \notin Writing /\ Reading' = Reading /\ t \notin Reading
  BY <1>3 DEF IInv, Calls, Writing, Reading
<1>5. Calls'
  BY <1>3 DEF IInv, Calls
<1>6. (QuietIsIdle /\ NoneMeansBusy)'
  BY <1>1, <1>3 DEF IInv, QuietIsIdle, NoneMeansBusy
<1>7. (OneWriter /\ Unfinished /\ WriterKeeps)'
  BY <1>1, <1>3, <1>4 DEF IInv, OneWriter, Unfinished, WriterKeeps, Writing
<1>8. CopiesMatch'
  <2>1. \A i : Frozen(i)' => Frozen(i)
    BY <1>1, <1>3, <1>4 DEF Frozen, Writing
  <2> QED
    BY <1>1, <1>3, <2>1 DEF IInv, CopiesMatch
<1>9. ReadersSee'
  BY <1>1, <1>3, <1>4 DEF IInv, ReadersSee, Reading
<1> QED
  BY <1>2, <1>5, <1>6, <1>7, <1>8, <1>9 DEF IInv

(* A thread that writes changes only the buffer that no reader is sent to,  *)
(* and that nobody has finished writing.                                    *)
LEMMA OwnBuffer ==
  ASSUME IInv, NEW t \in Writing, pc[t] = "init"
  PROVE  wi[t] \in {0, 1} /\ wi[t] # ReadIndex(state) /\ ~ Frozen(wi[t])
<1>1. wi[t] \in {0, 1} /\ state = FromWriteIndex(wi[t])
  BY DEF IInv, TypeOK, OneWriter, Writing
<1>2. wi[t] # ReadIndex(state)
  BY <1>1 DEF FromWriteIndex, ReadIndex
<1> QED
  BY <1>1, <1>2 DEF IInv, OneWriter, Frozen

(* Writing one field of that buffer, to initialize it or through the guard. *)
LEMMA FieldStep ==
  ASSUME IInv, NEW t \in Writing, NEW f \in Fields, NEW v \in {Latest[f], writes},
         pc[t] = "init",
         buffer' = [buffer EXCEPT ![wi[t]][f] = v],
         left' = [left EXCEPT ![t] = @ \ {f}],
         UNCHANGED <<state, data_version, writes, pc, op, st, ver, copy, wi, history>>
  PROVE  IInv'
<1>1. wi[t] \in {0, 1} /\ wi[t] # ReadIndex(state) /\ ~ Frozen(wi[t]) /\ t \in Threads
  BY OwnBuffer DEF Writing
<1>2. v \in 0 .. MaxWrites
  BY DEF IInv, TypeOK, Latest, ReadIndex, Values
<1>3. /\ buffer' \in [{0, 1} -> Values]
      /\ \A i \in {0, 1} : i # wi[t] => buffer'[i] = buffer[i]
      /\ buffer'[wi[t]] = [buffer[wi[t]] EXCEPT ![f] = v]
  BY <1>1, <1>2 DEF IInv, TypeOK, Values
<1>4. Latest' = Latest
  BY <1>1, <1>3 DEF Latest, ReadIndex
<1>5. TypeOK'
  BY <1>3 DEF IInv, TypeOK, history
<1>6. Writing' = Writing /\ Reading' = Reading /\ \A i : Frozen(i)' = Frozen(i)
  BY DEF Writing, Reading, Frozen
<1>7. (Calls /\ OneWriter /\ Unfinished /\ QuietIsIdle /\ NoneMeansBusy)'
  BY <1>1, <1>6 DEF IInv, TypeOK, Calls, OneWriter, Unfinished, QuietIsIdle, NoneMeansBusy, history
<1>8. CopiesMatch'
  <2>1. \A u \in Threads : pc[u] \in {"copy", "check"} => left'[u] = left[u]
    BY DEF IInv, TypeOK
  <2>2. \A u \in Threads : Frozen(ReadIndex(st[u])) =>
          buffer'[ReadIndex(st[u])] = buffer[ReadIndex(st[u])]
    BY <1>1, <1>3 DEF IInv, TypeOK, ReadIndex
  <2> QED
    BY <1>6, <2>1, <2>2 DEF IInv, CopiesMatch
<1>9. ReadersSee'
  BY <1>4, <1>6 DEF IInv, ReadersSee, history
<1>10. WriterKeeps'
  <2>1. \A u \in Writing : u = t
    BY DEF IInv, OneWriter
  <2>2. left'[t] = left[t] \ {f}
    BY <1>1 DEF IInv, TypeOK
  <2>3. \A g \in Fields \ left'[t] : buffer'[wi[t]][g] \in {Latest[g], writes}
    BY <1>1, <1>3, <2>2 DEF IInv, TypeOK, WriterKeeps, Values
  <2> QED
    BY <1>4, <1>6, <2>1, <2>3 DEF IInv, WriterKeeps
<1> QED
  BY <1>5, <1>7, <1>8, <1>9, <1>10 DEF IInv

(* finish_writing, the version: copies that were begun before do not match  *)
(* it any more, and the buffer is frozen from here on.                      *)
LEMMA FinishVersionStep ==
  ASSUME IInv, NEW t \in Threads, FinishVersion(t)
  PROVE  IInv'
<1>1. Latest' = Latest /\ UNCHANGED <<state, buffer, writes, op, st, ver, copy, left, wi, history>>
  BY DEF Latest, FinishVersion
<1>2. pc[t] = "init" /\ left[t] = {} /\ t \in Writing
  BY DEF IInv, TypeOK, Calls, FinishVersion, Writing
<1>3. data_version' = data_version + 1 /\ data_version' \in 0 .. writes
  BY <1>2, BufferAssumption DEF IInv, TypeOK, Unfinished, FinishVersion
<1>4. pc'[t] = "finish" /\ \A u \in Threads \ {t} : pc'[u] = pc[u]
  BY DEF IInv, TypeOK, FinishVersion, Goto
<1>5. TypeOK'
  BY <1>1, <1>3 DEF IInv, TypeOK, FinishVersion, Goto, PCs, history
<1>6. Writing' = Writing /\ Reading' = Reading
  BY <1>1, <1>2, <1>4 DEF Writing, Reading
<1>7. \A u \in Writing : u = t
  BY <1>2 DEF IInv, OneWriter
<1>8. (Calls /\ QuietIsIdle /\ NoneMeansBusy)'
  BY <1>1, <1>2, <1>4 DEF IInv, Calls, QuietIsIdle, NoneMeansBusy, history, Writing
<1>9. (OneWriter /\ Unfinished /\ WriterKeeps)'
  BY <1>1, <1>2, <1>4, <1>6, <1>7 DEF IInv, OneWriter, Unfinished, WriterKeeps
<1>10. CopiesMatch'
  <2>1. \A u \in Threads : pc'[u] \in {"copy", "check"} =>
          pc[u] \in {"copy", "check"} /\ ver[u] \in Int /\ ver[u] <= data_version
    BY <1>4 DEF IInv, TypeOK, CopiesMatch
  <2>2. data_version \in Int
    BY DEF IInv, TypeOK
  <2> QED
    BY <1>1, <1>3, <2>1, <2>2 DEF CopiesMatch
<1>11. ReadersSee'
  <2>1. \A u \in Reading : pc[u] = "check" => ver[u] \in Int /\ ver[u] <= data_version
    BY DEF IInv, TypeOK, CopiesMatch, Reading
  <2>2. data_version \in Int
    BY DEF IInv, TypeOK
  <2> QED
    BY <1>1, <1>3, <1>4, <1>6, <2>1, <2>2 DEF IInv, ReadersSee, Reading, history
<1> QED
  BY <1>5, <1>8, <1>9, <1>10, <1>11 DEF IInv

(* finish_writing, the state: readers are sent to the frozen buffer.        *)
LEMMA FinishStateStep ==
  ASSUME IInv, NEW t \in Threads, FinishState(t)
  PROVE  IInv'
<1>1. pc[t] = "finish" /\ t \in Writing /\ wi[t] \in {0, 1} /\ \A u \in Writing : u = t
  BY DEF IInv, TypeOK, Calls, OneWriter, FinishState, Writing
<1>2. ReadIndex(state') = wi[t] /\ state' \in {0, 2} /\ state = FromWriteIndex(wi[t])
  BY <1>1 DEF IInv, OneWriter, FinishState, NextState, FromWriteIndex, ReadIndex
<1>3. /\ pc'[t] = "idle" /\ op'[t] = "read"
      /\ \A u \in Threads \ {t} : /\ pc'[u] = pc[u] /\ op'[u] = op[u] /\ st'[u] = st[u]
                                  /\ ver'[u] = ver[u] /\ copy'[u] = copy[u]
                                  /\ left'[u] = left[u] /\ wi'[u] = wi[u]
  BY DEF IInv, TypeOK, FinishState, EndCall, Goto
<1>4. Latest' = buffer[wi[t]] /\ Latest' \in Values
  BY <1>1, <1>2 DEF IInv, TypeOK, Latest, FinishState
<1>5. TypeOK'
  <2>1. ZeroValue \in Values
    BY BufferAssumption DEF ZeroValue, Values
  <2>2. seen' \in [Threads -> SUBSET Values]
    BY <1>4 DEF IInv, TypeOK, FinishState, Latest
  <2> QED
    BY <1>2, <2>1, <2>2, BufferAssumption DEF IInv, TypeOK, FinishState, EndCall, Goto, PCs
<1>6. Writing' = {} /\ Reading' = Reading /\ t \notin Reading
  BY <1>1, <1>3 DEF Writing, Reading
<1>7. Calls'
  BY <1>3 DEF IInv, Calls
<1>8. (QuietIsIdle /\ NoneMeansBusy)'
  BY <1>1, <1>2, <1>3 DEF IInv, QuietIsIdle, NoneMeansBusy, FinishState, FromWriteIndex
<1>9. (OneWriter /\ Unfinished /\ WriterKeeps)'
  BY <1>6 DEF OneWriter, Unfinished, WriterKeeps
<1>10. CopiesMatch'
  <2>1. \A i : Frozen(i)' => Frozen(i)
    BY <1>1, <1>2, <1>6 DEF Frozen
  <2> QED
    BY <1>1, <1>3, <2>1 DEF IInv, CopiesMatch, FinishState
<1>11. ReadersSee'
  <2>1. \A u \in Reading : seen'[u] = seen[u] \cup {Latest'}
    BY DEF FinishState, Reading, Latest
  <2> QED
    BY <1>3, <1>6, <2>1 DEF IInv, ReadersSee, Reading, FinishState
<1> QED
  BY <1>5, <1>7, <1>8, <1>9, <1>10, <1>11 DEF IInv

(* The step of new_data_available_since only concerns its caller.           *)
LEMMA NewDataStep ==
  ASSUME IInv, NEW t \in Threads, NewDataAvailableSince(t)
  PROVE  IInv'
<1>1. data_version \in 0 .. MaxWrites
  BY BufferAssumption DEF IInv, TypeOK
<1>2. TypeOK'
  BY <1>1 DEF IInv, TypeOK, NewDataAvailableSince, shared, local
<1>3. /\ UNCHANGED <<shared, local, seen, quiet>>
      /\ Latest' = Latest /\ Writing' = Writing /\ Reading' = Reading
      /\ \A i : Frozen(i)' = Frozen(i)
  BY DEF NewDataAvailableSince, shared, local, Latest, Writing, Reading, Frozen
<1> QED
  BY <1>2, <1>3
  DEF IInv, Calls, OneWriter, Unfinished, CopiesMatch, ReadersSee, WriterKeeps, QuietIsIdle,
      NoneMeansBusy, shared, local

(* A step in which the buffer does nothing.                                 *)
LEMMA Stutter ==
  ASSUME IInv, UNCHANGED vars
  PROVE  IInv'
<1>1. /\ UNCHANGED <<shared, local, seen, quiet>>
      /\ Latest' = Latest /\ Writing' = Writing /\ Reading' = Reading
      /\ \A i : Frozen(i)' = Frozen(i)
  BY DEF vars, shared, local, history, Latest, Writing, Reading, Frozen
<1>2. TypeOK'
  BY DEF IInv, TypeOK, vars, shared, local, history
<1> QED
  BY <1>1, <1>2
  DEF IInv, Calls, OneWriter, Unfinished, CopiesMatch, ReadersSee, WriterKeeps, QuietIsIdle,
      NoneMeansBusy, shared, local

(* Initializing a field of the buffer with the latest value.                *)
LEMMA InitFieldStep ==
  ASSUME IInv, NEW t \in Threads, NEW f \in Fields, InitField(t, f)
  PROVE  IInv'
<1>1. t \in Writing /\ pc[t] = "init"
  BY DEF IInv, TypeOK, Calls, InitField, Writing
<1>2. copy[t][f] \in {Latest[f], writes}
  BY <1>1 DEF IInv, WriterKeeps
<1> QED
  BY <1>1, <1>2, FieldStep DEF InitField

(* Writing a field through the guard.                                       *)
LEMMA WriteFieldStep ==
  ASSUME IInv, NEW t \in Threads, NEW f \in Fields, WriteField(t, f)
  PROVE  IInv'
<1>1. t \in Writing /\ pc[t] = "init"
  BY DEF IInv, TypeOK, Calls, WriteField, Writing
<1>2. left' = [left EXCEPT ![t] = @ \ {f}]
  BY DEF IInv, TypeOK, WriteField, local
<1>3. UNCHANGED <<state, data_version, writes, pc, op, st, ver, copy, wi, history>>
  BY DEF WriteField, local
<1> QED
  BY <1>1, <1>2, <1>3, FieldStep DEF WriteField

(* Every step of any thread keeps the invariant.                            *)
LEMMA NextStep ==
  ASSUME IInv, [Next]_vars
  PROVE  IInv'
<1>1. CASE UNCHANGED vars
  BY <1>1, Stutter
<1>2. CASE Next
  <2>1. PICK t \in Threads : Reader(t) \/ Writer(t) \/ NewDataAvailableSince(t)
    BY <1>2 DEF Next
  <2>2. CASE Reader(t)
    BY <2>2, ReadStep, LoadStateStep, LoadVersionStep, CopyFieldStep, CheckStateStep,
       CheckVersionStep DEF Reader
  <2>3. CASE Writer(t)
    BY <2>3, TryWriteStep, TryWriteAgainStep, ReturnNoneStep, FinishVersionStep,
       FinishStateStep, InitFieldStep, WriteFieldStep DEF Writer
  <2>4. CASE NewDataAvailableSince(t)
    BY <2>4, NewDataStep
  <2> QED
    BY <2>1, <2>2, <2>3, <2>4
<1> QED
  BY <1>1, <1>2

-----------------------------------------------------------------------------
(* The invariant holds in every state of every behaviour of the buffer.     *)
THEOREM Inductive == Spec => []IInv
<1>1. Init => IInv
  BY Initial
<1>2. IInv /\ [Next]_vars => IInv'
  BY NextStep
<1> QED
  BY <1>1, <1>2, PTL DEF Spec

(* The state, the version and the locals of read and try_write keep their   *)
(* types for any number of threads.                                         *)
THEOREM TypeCorrect == Spec => []TypeOK
<1>1. IInv => TypeOK
  BY DEF IInv
<1> QED
  BY <1>1, Inductive, PTL

(* The exchanges of try_write let at most one thread write, in the buffer   *)
(* that readers are not sent to.                                            *)
THEOREM AtMostOneWriter == Spec => []OneWriter
<1>1. IInv => OneWriter
  BY DEF IInv
<1> QED
  BY <1>1, Inductive, PTL

(* try_write returns None only if another thread was writing: the gap       *)
(* between its two exchanges does not matter.                               *)
THEOREM NoneOnlyIfBusy == Spec => []NoneMeansBusy
<1>1. IInv => NoneMeansBusy
  BY DEF IInv
<1> QED
  BY <1>1, Inductive, PTL

(* What read returns was the current value during the call, whatever the    *)
(* other threads did: the two comparisons at its end are enough.            *)
THEOREM ReadsAreCurrent == Spec => ReadsCurrentValue
<1> DEFINE Good == \A t \in Threads : got'[t] \in {got[t], NoValue} \cup seen[t]
<1>1. IInv /\ [Next]_vars => [GivesCurrent]_vars
  <2> SUFFICES ASSUME IInv, Next PROVE Good
    BY DEF GivesCurrent
  <2>1. PICK t \in Threads : Reader(t) \/ Writer(t) \/ NewDataAvailableSince(t)
    BY DEF Next
  <2>2. CASE CheckVersion(t)
    <3>1. got' = got \/ (got' = [got EXCEPT ![t] = copy[t]] /\ op[t] = "read" /\ ver[t] = data_version)
      BY <2>2 DEF CheckVersion, Return
    <3>2. op[t] = "read" /\ ver[t] = data_version => copy[t] \in seen[t]
      BY <2>2 DEF IInv, ReadersSee, Reading, CheckVersion
    <3> QED
      BY <3>1, <3>2 DEF IInv, TypeOK
  <2>3. CASE Read(t) \/ NewDataAvailableSince(t)
    BY <2>3 DEF IInv, TypeOK, Read, NewDataAvailableSince
  <2>4. CASE LoadState(t) \/ LoadVersion(t) \/ CheckState(t) \/ \E f \in Fields : CopyField(t, f)
    BY <2>4 DEF LoadState, LoadVersion, CheckState, CopyField, history
  <2>5. CASE Writer(t)
    BY <2>5 DEF Writer, TryWrite, TryWriteAgain, ReturnNone, FinishVersion, FinishState, InitField,
                WriteField, history
  <2> QED
    BY <2>1, <2>2, <2>3, <2>4, <2>5 DEF Reader
<1> QED
  BY <1>1, Inductive, PTL DEF Spec, ReadsCurrentValue

(* A finished write leaves the fields that were not written as they were.   *)
THEOREM WritesKeepRest == Spec => WritesKeepTheRest
<1> DEFINE Good == \A f \in Fields : Latest'[f] \in {Latest[f], writes}
<1>1. IInv /\ [Next]_vars => [KeepsTheRest]_vars
  <2> SUFFICES ASSUME IInv, Next PROVE Good
    BY DEF KeepsTheRest
  <2>1. PICK t \in Threads : Reader(t) \/ Writer(t) \/ NewDataAvailableSince(t)
    BY DEF Next
  <2>2. CASE FinishState(t)
    <3>1. pc[t] = "finish" /\ t \in Writing /\ wi[t] \in {0, 1} /\ left[t] = {}
      BY <2>2 DEF IInv, TypeOK, Calls, FinishState, Writing, WriterKeeps
    <3>2. Latest' = buffer[wi[t]]
      BY <2>2, <3>1 DEF FinishState, NextState, FromWriteIndex, ReadIndex, Latest
    <3> QED
      BY <3>1, <3>2 DEF IInv, WriterKeeps
  <2>3. CASE TryWrite(t) \/ TryWriteAgain(t)
    <3>1. ReadIndex(state') = ReadIndex(state) /\ buffer' = buffer
      BY <2>3 DEF TryWrite, TryWriteAgain, Acquire, NextState, ReadIndex
    <3> QED
      BY <3>1 DEF Latest
  <2>4. CASE \E f \in Fields : InitField(t, f) \/ WriteField(t, f)
    <3>1. t \in Writing /\ pc[t] = "init" /\ state' = state
      BY <2>4 DEF IInv, TypeOK, Calls, InitField, WriteField, Writing
    <3>2. buffer'[ReadIndex(state)] = buffer[ReadIndex(state)]
      BY <2>4, <3>1, OwnBuffer DEF IInv, TypeOK, InitField, WriteField, ReadIndex
    <3> QED
      BY <3>1, <3>2 DEF Latest
  <2>5. CASE Reader(t) \/ NewDataAvailableSince(t) \/ ReturnNone(t) \/ FinishVersion(t)
    <3>1. state' = state /\ buffer' = buffer
      BY <2>5 DEF Reader, Read, LoadState, LoadVersion, CopyField, CheckState, CheckVersion,
                  NewDataAvailableSince, ReturnNone, FinishVersion, shared
    <3> QED
      BY <3>1 DEF Latest
  <2> QED
    BY <2>1, <2>2, <2>3, <2>4, <2>5 DEF Writer
<1> QED
  BY <1>1, Inductive, PTL DEF Spec, WritesKeepTheRest

(* The promise of double_buffer.rs to its users, for any number of threads, *)
(* fields and writes.                                                       *)
THEOREM Consistent == Spec => BufferIsConsistent
BY AtMostOneWriter, NoneOnlyIfBusy, ReadsAreCurrent, WritesKeepRest, PTL
   DEF BufferIsConsistent, ReadsCurrentValue, WritesKeepTheRest

-----------------------------------------------------------------------------
(* ReservingChannel, for every capacity.                                    *)

(* The states that the two sides keep to: the room in the channel is counted, and *)
(* both properties.                                                               *)
ReservingInv ==
  /\ used \in 0 .. Capacity
  /\ notified \in BOOLEAN
  /\ wpc \in {"idle", "look", "await", "reserved"}
  /\ rcv \in {"idle", "taken"}
  /\ ReservationHolds /\ NoLostWakeup

(* Every step of the sender and of the receiver keeps the invariant. *)
LEMMA ReservingStep ==
  ASSUME ReservingInv, ReservingNext
  PROVE  ReservingInv'
<1> USE ReservingAssumption DEF ReservingInv, ReservationHolds, NoLostWakeup
<1>1. CASE Reserve
  BY <1>1 DEF Reserve, IsReady
<1>2. CASE AwaitChange
  BY <1>2 DEF AwaitChange
<1>3. CASE Cancel
  BY <1>3 DEF Cancel
<1>4. CASE TrySend
  BY <1>4 DEF TrySend
<1>5. CASE Recv
  BY <1>5 DEF Recv
<1>6. CASE Notify
  BY <1>6 DEF Notify
<1> QED
  BY <1>1, <1>2, <1>3, <1>4, <1>5, <1>6 DEF ReservingNext

(* reserving_sender.rs, for every capacity: a reservation guarantees room and no *)
(* wake-up of the waiting sender is lost.                                        *)
THEOREM ReservationsAreSafe == ReservingSpec => [](ReservationHolds /\ NoLostWakeup)
<1>1. ReservingInit => ReservingInv
  <2>1. ReservingInit => used \in 0 .. Capacity
    BY ReservingAssumption DEF ReservingInit
  <2> QED
    BY <2>1, Zenon DEF ReservingInit, ReservingInv, ReservationHolds, NoLostWakeup
<1>2. ReservingInv /\ [ReservingNext]_reservingVars => ReservingInv'
  <2> SUFFICES ASSUME ReservingInv, UNCHANGED reservingVars PROVE ReservingInv'
    BY ReservingStep
  <2> QED
    BY DEF reservingVars, ReservingInv, ReservationHolds, NoLostWakeup
<1>3. ReservingInv => ReservationHolds /\ NoLostWakeup
  BY DEF ReservingInv
<1> QED
  BY <1>1, <1>2, <1>3, PTL DEF ReservingSpec

-----------------------------------------------------------------------------
(* OnceLock, for any number of threads.                                     *)

(* Whoever writes has moved the atomic to Busy and is alone; Done is stored after *)
(* the value was written, and a reference is given out after Done.                *)
OnceInv ==
  /\ initialized \in {"None", "Busy", "Done"}
  /\ cell \in 0 .. 2
  /\ upc \in [Users -> {"idle", "err", "write", "store", "get", "ref", "none"}]
  /\ \A u \in Users : upc[u] \in {"write", "store"} => initialized = "Busy"
  /\ \A u, v \in Users :
       upc[u] \in {"write", "store"} /\ upc[v] \in {"write", "store"} => u = v
  /\ \A u \in Users : upc[u] = "store" => cell = 2
  /\ initialized = "Done" => cell = 2
  /\ \A u \in Users : upc[u] = "ref" => initialized = "Done"

(* Every access of a thread keeps the invariant. *)
LEMMA OnceStep ==
  ASSUME OnceInv, OnceNext
  PROVE  OnceInv'
<1> USE DEF OnceInv
<1>1. PICK u \in Users : CompareExchange(u) \/ Write(u) \/ StoreDone(u) \/ Get(u) \/ ReturnCall(u)
  BY DEF OnceNext
<1>2. CASE CompareExchange(u)
  BY <1>2 DEF CompareExchange
<1>3. CASE Write(u)
  BY <1>3 DEF Write
<1>4. CASE StoreDone(u)
  BY <1>4 DEF StoreDone
<1>5. CASE Get(u)
  BY <1>5 DEF Get
<1>6. CASE ReturnCall(u)
  BY <1>6 DEF ReturnCall
<1> QED
  BY <1>1, <1>2, <1>3, <1>4, <1>5, <1>6

(* once_lock.rs, for any number of threads: one of them writes, and a reference is *)
(* to a complete value that nobody writes any more.                                *)
THEOREM ReferencesStaySafe == OnceSpec => []ReferencesAreSafe
<1>1. OnceInit => OnceInv
  BY DEF OnceInit, OnceInv
<1>2. OnceInv /\ [OnceNext]_onceVars => OnceInv'
  <2> SUFFICES ASSUME OnceInv, UNCHANGED onceVars PROVE OnceInv'
    BY OnceStep
  <2> QED
    BY DEF onceVars, OnceInv
<1>3. ASSUME OnceInv PROVE ReferencesAreSafe
  <2> DEFINE W == {u \in Users : upc[u] \in {"write", "store"}}
  <2>1. Cardinality(W) <= 1
    <3>1. CASE W = {}
      BY <3>1, FS_EmptySet
    <3>2. CASE W # {}
      <4>1. PICK w : W = {w}
        BY <1>3, <3>2 DEF OnceInv
      <4> QED
        BY <4>1, FS_Singleton
    <3> QED
      BY <3>1, <3>2
  <2>2. (\E u \in Users : upc[u] = "ref") =>
          cell = 2 /\ \A u \in Users : upc[u] \notin {"write", "store", "swap"}
    BY <1>3 DEF OnceInv
  <2> QED
    BY <2>1, <2>2 DEF ReferencesAreSafe
<1> QED
  BY <1>1, <1>2, <1>3, PTL DEF OnceSpec

(* The two cells through which tasks share, for every capacity and any number of   *)
(* threads: a reservation guarantees room, no wake-up is lost, and a reference is  *)
(* to a complete value that nobody writes any more.                                *)
THEOREM CellsAreShared == ReservingSpec /\ OnceSpec => []SharingIsSafe
BY ReservationsAreSafe, ReferencesStaySafe, PTL DEF SharingIsSafe

-----------------------------------------------------------------------------
(* ActiveConfig, for every set of configurations and any number of bindings. *)

(* The counter counts the bindings; while one exists the active configuration is *)
(* the one it carries, and a pending one is set only while one exists.           *)
ConfigInv ==
  /\ active \in Configs \cup {NoConfig} /\ pending \in Configs \cup {NoConfig}
  /\ pending_set \in BOOLEAN
  /\ cfg \in [Bindings -> Configs \cup {NoConfig}]
  /\ live \subseteq Bindings /\ IsFiniteSet(live) /\ in_use_count = Cardinality(live)
  /\ BoundIsActive
  /\ pending_set => live # {} /\ pending = published
  /\ ~pending_set => active = published

(* A new binding is one more, with the active configuration. *)
LEMMA OneMore ==
  ASSUME ConfigInv, NEW b \in Bindings, b \notin live,
         in_use_count' = in_use_count + 1, cfg' = [cfg EXCEPT ![b] = active],
         live' = live \cup {b}, UNCHANGED <<active, pending, pending_set, published>>
  PROVE  ConfigInv'
<1>1. IsFiniteSet(live') /\ Cardinality(live') = Cardinality(live) + 1
  BY FS_AddElement DEF ConfigInv
<1>2. /\ cfg' \in [Bindings -> Configs \cup {NoConfig}]
      /\ \A x \in live' : cfg'[x] = active
  BY DEF ConfigInv, BoundIsActive
<1>3. live' \subseteq Bindings /\ live' # {}
  BY DEF ConfigInv
<1> QED
  BY <1>1, <1>2, <1>3 DEF ConfigInv, BoundIsActive

(* Every method of ActiveConfig keeps the invariant. *)
LEMMA ConfigStep ==
  ASSUME ConfigInv, ConfigNext
  PROVE  ConfigInv'
<1>1. ASSUME NEW b \in Bindings, AcquireBinding(b) PROVE ConfigInv'
  BY <1>1, OneMore DEF AcquireBinding
<1>2. ASSUME NEW b \in Bindings, NEW other \in Bindings, Clone(b, other) PROVE ConfigInv'
  <2>1. cfg[b] = active
    BY <1>2 DEF Clone, ConfigInv, BoundIsActive
  <2> QED
    BY <1>2, <2>1, OneMore DEF Clone
<1>3. ASSUME NEW b \in Bindings, DropBinding(b) PROVE ConfigInv'
  <2>1. IsFiniteSet(live') /\ Cardinality(live') = Cardinality(live) - 1
    BY <1>3, FS_RemoveElement DEF DropBinding, ConfigInv
  <2>2. in_use_count - 1 = 0 <=> live' = {}
    BY <2>1, FS_EmptySet DEF ConfigInv
  <2>3. /\ cfg' \in [Bindings -> Configs \cup {NoConfig}]
        /\ \A x \in live' : cfg'[x] = active
        /\ live' \subseteq Bindings /\ in_use_count' = Cardinality(live')
    BY <1>3, <2>1 DEF DropBinding, ConfigInv, BoundIsActive
  <2>4. TryPromote(in_use_count - 1, pending, pending_set) /\ published' = published
    BY <1>3 DEF DropBinding
  <2>5. CASE in_use_count - 1 = 0 /\ pending_set
    <3>1. active' = published' /\ active' \in Configs \cup {NoConfig}
          /\ pending' = NoConfig /\ pending_set' = FALSE
      BY <2>4, <2>5, Zenon DEF TryPromote, ConfigInv
    <3> QED
      BY <2>1, <2>2, <2>3, <2>5, <3>1 DEF ConfigInv, BoundIsActive
  <2>6. CASE ~(in_use_count - 1 = 0 /\ pending_set)
    <3>1. active' = active /\ pending' = pending /\ pending_set' = pending_set
      BY <2>4, <2>6, Zenon DEF TryPromote
    <3> QED
      BY <2>1, <2>2, <2>3, <2>4, <2>6, <3>1 DEF ConfigInv, BoundIsActive
  <2> QED
    BY <2>5, <2>6
<1>4. ASSUME NEW new \in Configs \cup {NoConfig}, SetPending(new) PROVE ConfigInv'
  <2>1. /\ published' = new /\ in_use_count' = in_use_count /\ cfg' = cfg /\ live' = live
        /\ TryPromote(in_use_count, new, TRUE)
    BY <1>4 DEF SetPending
  <2>2. in_use_count = 0 <=> live = {}
    BY FS_EmptySet DEF ConfigInv
  <2>3. CASE in_use_count = 0
    <3>1. active' = new /\ pending' = NoConfig /\ pending_set' = FALSE
      BY <2>1, <2>3, Zenon DEF TryPromote
    <3> QED
      BY <2>1, <2>2, <2>3, <3>1 DEF ConfigInv, BoundIsActive
  <2>4. CASE in_use_count # 0
    <3>1. active' = active /\ pending' = new /\ pending_set' = TRUE
      BY <2>1, <2>4, Zenon DEF TryPromote
    <3> QED
      BY <2>1, <2>2, <2>4, <3>1 DEF ConfigInv, BoundIsActive
  <2> QED
    BY <2>3, <2>4
<1> QED
  BY <1>1, <1>2, <1>3, <1>4 DEF ConfigNext

(* active_config.rs, for any number of bindings: who holds one holds the active      *)
(* configuration, and what was published last is active as soon as nobody holds one. *)
THEOREM ConfigurationsApply == ConfigSpec => []ConfigIsCurrent
<1>1. ConfigInit => ConfigInv
  <2> SUFFICES ASSUME ConfigInit PROVE ConfigInv
    OBVIOUS
  <2>1. live = {} /\ IsFiniteSet(live) /\ in_use_count = Cardinality(live)
    BY FS_EmptySet DEF ConfigInit
  <2> QED
    BY <2>1, Zenon DEF ConfigInit, ConfigInv, BoundIsActive
<1>2. ConfigInv /\ [ConfigNext]_configVars => ConfigInv'
  <2> SUFFICES ASSUME ConfigInv, UNCHANGED configVars PROVE ConfigInv'
    BY ConfigStep
  <2> QED
    BY DEF configVars, ConfigInv, BoundIsActive
<1>3. ConfigInv => ConfigIsCurrent
  BY Zenon DEF ConfigInv, ConfigIsCurrent, PublishedApplies
<1> QED
  BY <1>1, <1>2, <1>3, PTL DEF ConfigSpec

-----------------------------------------------------------------------------
(* SessionChannel, for every capacity, any number of sessions and of items  *)
(* in them.                                                                 *)

SessionMessages == [kind : {"Data", "Reset", "End"}, session : Nat]
States == [st : {"Started", "Finished"}, id : Nat]

SessionTypeOK ==
  /\ data \in Seq(SessionMessages) /\ received \in Seq(SessionMessages)
  /\ life \in States /\ sstate \in States
  /\ changed \in BOOLEAN /\ shouldFinish \in BOOLEAN /\ early \in BOOLEAN /\ lost \in BOOLEAN
  /\ spc \in {"wait", "send", "finish", "Ok", "OutOfSync", "Restarted"}
  /\ rpc \in {"idle", "active", "finish", "drop"}
  /\ sent \in Nat /\ nextId \in Nat /\ activeId \in Nat \cup {-1}
  /\ rpc # "idle" => activeId \in 0 .. nextId - 1

(* A session that was answered is over: the receiver has another one, none, or only *)
(* the drop of this one left.                                                       *)
Over(s) == s.id < nextId /\ (activeId # s.id \/ rpc = "drop")

AnswerInv ==
  /\ spc \in {"send", "finish", "Restarted"} => sstate.st = "Started"
  /\ spc = "Ok" => Over(sstate)
  /\ life.st = "Finished" /\ changed => Over(life)

Open == rpc = "active" /\ ~ shouldFinish

(* The sender has heard of the session and has not ended it. *)
Sending ==
  /\ spc \in {"send", "Restarted"} /\ Open
  /\ \A n \in 1 .. Len(data) : data[n].kind # "End"

(* The End is the last item in the channel, or was the last that was taken. *)
Ending ==
  /\ spc = "finish"
  /\ IF Open THEN /\ data # <<>>
                 /\ \A n \in 1 .. Len(data) : data[n].kind = "End" <=> n = Len(data)
             ELSE data = <<>>

(* The sender is in the session of the receiver. *)
During ==
  /\ life = Started(nextId - 1) /\ ~ changed /\ sstate = life
  /\ rpc # "idle" /\ activeId = nextId - 1
  /\ \A n \in 1 .. Len(data) : data[n].session = nextId - 1
  /\ Sending \/ Ending

(* It has not heard of the session yet. *)
Before ==
  /\ life = Started(nextId - 1) /\ changed /\ Open /\ activeId = nextId - 1
  /\ data = <<>> /\ spc \in {"wait", "Ok", "finish"}

(* The session was answered, once or twice. *)
After ==
  /\ life.st = "Finished" /\ rpc \in {"idle", "drop"}
  /\ rpc = "drop" => activeId = life.id
  /\ data = <<>> /\ spc \in {"wait", "Ok", "finish"}
  /\ spc = "finish" => changed /\ life.id = sstate.id

Apart ==
  /\ ~ lost
  /\ \A n \in 1 .. Len(received) : received[n].session = nextId - 1
  /\ During \/ Before \/ After

SessionInv == SessionTypeOK /\ AnswerInv /\ (~ early => Apart)

(* The types are kept. *)
LEMMA SessionTypes ==
  ASSUME SessionTypeOK, SessionNext
  PROVE  SessionTypeOK'
<1> USE DEF SessionTypeOK, SessionMessages, States, sender, receiver, Hear, Announce, Msg
<1>1. CASE WaitStarted
  BY <1>1 DEF WaitStarted, Started, Finished, FinishedOf
<1>2. CASE Send
  BY <1>2 DEF Send, Started, Finished, FinishedOf
<1>3. CASE Finish
  BY <1>3 DEF Finish, Started, Finished, FinishedOf
<1>4. CASE FinishWait
  BY <1>4 DEF FinishWait, Started, Finished, FinishedOf
<1>5. CASE NextSession
  BY <1>5 DEF NextSession, Started, Finished, FinishedOf
<1>6. CASE Start
  <2>1. /\ life' = [st |-> "Started", id |-> nextId] /\ activeId' = nextId
        /\ nextId' = nextId + 1 /\ rpc' = "active" /\ received' = <<>>
        /\ UNCHANGED <<data, sstate, spc, sent>>
    BY <1>6 DEF Start, Started
  <2>2. /\ changed' \in BOOLEAN /\ shouldFinish' \in BOOLEAN
        /\ early' \in BOOLEAN /\ lost' \in BOOLEAN
    BY <1>6, Zenon DEF Start
  <2> QED
    BY <2>1, <2>2
<1>7. CASE RecvItem
  <2>1. /\ shouldFinish' \in BOOLEAN /\ changed' \in BOOLEAN
        /\ early' \in BOOLEAN /\ lost' \in BOOLEAN
    BY <1>7, Zenon DEF RecvItem
  <2>2. received' \in Seq(SessionMessages) /\ data' \in Seq(SessionMessages)
    <3>1. data \in Seq(SessionMessages) /\ data # <<>> /\ received \in Seq(SessionMessages)
      BY <1>7 DEF RecvItem
    <3>2. received' = Append(received, Head(data)) /\ data' = Tail(data)
      BY <1>7 DEF RecvItem
    <3> HIDE DEF SessionMessages
    <3>3. Head(data) \in SessionMessages /\ Tail(data) \in Seq(SessionMessages)
      BY <3>1
    <3> QED
      BY <3>1, <3>2, <3>3
  <2> QED
    BY <1>7, <2>1, <2>2 DEF RecvItem
<1>8. CASE Empty
  BY <1>8 DEF Empty, Started, Finished, FinishedOf
<1>9. CASE InnerFinish
  BY <1>9 DEF InnerFinish, Started, Finished, FinishedOf
<1>10. CASE FinishActive
  BY <1>10 DEF FinishActive, Started, Finished, FinishedOf
<1> QED
  BY <1>1, <1>2, <1>3, <1>4, <1>5, <1>6, <1>7, <1>8, <1>9, <1>10 DEF SessionNext, SessionSenderStep, SessionReceiverStep

(* Ok is only answered for a session that is over, and stays true of it. *)
LEMMA Answers ==
  ASSUME SessionTypeOK, AnswerInv, SessionNext
  PROVE  AnswerInv'
<1> USE DEF SessionTypeOK, States, AnswerInv, Over, sender, receiver, Hear, Announce
<1>1. CASE WaitStarted
  BY <1>1 DEF WaitStarted, Started, Finished, FinishedOf
<1>2. CASE Send
  BY <1>2 DEF Send, Started, Finished, FinishedOf
<1>3. CASE Finish
  BY <1>3 DEF Finish, Started, Finished, FinishedOf
<1>4. CASE FinishWait
  BY <1>4 DEF FinishWait, Started, Finished, FinishedOf
<1>5. CASE NextSession
  BY <1>5 DEF NextSession, Started, Finished, FinishedOf
<1>6. CASE Start
  BY <1>6 DEF Start, Started, Finished, FinishedOf
<1>7. CASE RecvItem
  BY <1>7 DEF RecvItem, Started, Finished, FinishedOf
<1>8. CASE Empty
  BY <1>8 DEF Empty, Started, Finished, FinishedOf
<1>9. CASE InnerFinish
  BY <1>9 DEF InnerFinish, Started, Finished, FinishedOf
<1>10. CASE FinishActive
  BY <1>10 DEF FinishActive, Started, Finished, FinishedOf
<1> QED
  BY <1>1, <1>2, <1>3, <1>4, <1>5, <1>6, <1>7, <1>8, <1>9, <1>10 DEF SessionNext, SessionSenderStep, SessionReceiverStep

(* While the receiver drops no session before its End, the two are in the same  *)
(* session, or the sender has still to hear of it, or of its end.               *)
LEMMA SenderApart ==
  ASSUME SessionInv, Apart, SessionSenderStep
  PROVE  Apart'
<1> USE DEF SessionInv, SessionTypeOK, SessionMessages, States, Open, Started, Finished, sender, receiver
<1>1. CASE WaitStarted
  BY <1>1 DEF WaitStarted, Hear, Apart, During, Before, After, Sending, Ending
<1>2. CASE Send
  BY <1>2 DEF Send, Msg, Apart, During, Before, After, Sending, Ending
<1>3. CASE Finish
  BY SMTT(30), <1>3 DEF Finish, Msg, AnswerInv, Apart, During, Before, After, Sending, Ending
<1>4. CASE FinishWait
  BY <1>4 DEF FinishWait, FinishedOf, Hear, Apart, During, Before, After, Sending, Ending
<1>5. CASE NextSession
  BY <1>5 DEF NextSession, Apart, During, Before, After, Sending, Ending
<1> QED
  BY <1>1, <1>2, <1>3, <1>4, <1>5 DEF SessionSenderStep

(* The same for the receiver, as long as it finishes a session after its End. *)
LEMMA ReceiverApart ==
  ASSUME SessionInv, Apart, SessionReceiverStep, ~ early'
  PROVE  Apart'
<1> USE DEF SessionInv, SessionTypeOK, SessionMessages, States, Open, Started, Finished, sender, receiver
<1>1. CASE Start
  BY <1>1 DEF Start, Announce, Apart, During, Before, After, Sending, Ending
<1>2. CASE RecvItem
  <2>1. During
    BY <1>2 DEF RecvItem, Apart, Before, After
  <2>2. /\ Len(data) >= 1 /\ Head(data) = data[1] /\ Len(data') = Len(data) - 1
        /\ \A n \in 1 .. Len(data') : data'[n] = data[n + 1]
        /\ data' = <<>> <=> Len(data) = 1
    <3>1. data \in Seq(SessionMessages) /\ data # <<>> /\ data' = Tail(data)
      BY <1>2 DEF RecvItem
    <3> HIDE DEF SessionMessages
    <3>2. /\ Tail(data) \in Seq(SessionMessages) /\ Len(Tail(data)) = Len(data) - 1
          /\ \A n \in 1 .. Len(Tail(data)) : Tail(data)[n] = data[n + 1]
      BY <3>1, HeadTailProperties
    <3>3. Len(data) >= 1 /\ Head(data) = data[1]
      BY <3>1
    <3>4. Tail(data) = <<>> <=> Len(data) = 1
      <4>1. Len(data) \in Nat
        BY <3>1, LenProperties
      <4>2. Tail(data) = <<>> => Len(Tail(data)) = 0
        BY EmptySeq, Zenon
      <4>3. Tail(data) # <<>> => Len(Tail(data)) # 0
        BY <3>2, EmptySeq
      <4> QED
        BY <3>2, <4>1, <4>2, <4>3
    <3> QED
      BY <3>1, <3>2, <3>3, <3>4, Zenon
  <2>3. ASSUME NEW n \in 1 .. Len(data')
        PROVE  n + 1 \in 1 .. Len(data) /\ data'[n] = data[n + 1]
    BY <2>2, <2>3
  <2>4. 1 \in 1 .. Len(data) /\ Len(data) \in Nat /\ Len(data') = Len(data) - 1
    BY <2>2
  <2>5. /\ shouldFinish' <=> data[1].kind = "End"
        /\ Open /\ (Open' <=> ~ shouldFinish')
    <3>1. (shouldFinish' <=> Head(data).kind = "End") /\ Open /\ (Open' <=> ~ shouldFinish')
      BY <1>2, Zenon DEF RecvItem
    <3> QED
      BY <2>2, <3>1
  <2>6. /\ UNCHANGED <<life, changed, rpc, activeId, nextId, early, lost, spc, sstate, sent>>
        /\ received' = Append(received, Head(data))
    BY <1>2 DEF RecvItem
  <2>7. data[1].session = nextId - 1
    BY <2>1, <2>2 DEF During
  <2>8. ~ lost' /\ \A n \in 1 .. Len(received') : received'[n].session = nextId' - 1
    <3>1. Len(received') = Len(received) + 1 /\ received'[Len(received) + 1] = data[1]
          /\ \A n \in 1 .. Len(received) : received'[n] = received[n]
      BY <2>2, <2>6
    <3> QED
      BY SMTT(30), <2>6, <2>7, <3>1 DEF Apart
  <2>9. Sending' \/ Ending'
    <3>1. CASE Sending
      <4>1. ~ shouldFinish' /\ \A n \in 1 .. Len(data') : data'[n].kind # "End"
        <5>1. data[1].kind # "End" /\ \A n \in 1 .. Len(data') : data'[n].kind # "End"
          <6>1. \A n \in 1 .. Len(data) : data[n].kind # "End"
            BY <3>1 DEF Sending
          <6> QED
            BY <2>3, <2>4, <6>1
        <5> QED
          BY <2>5, <5>1, Zenon
      <4> QED
        BY <2>5, <2>6, <3>1, <4>1 DEF Sending
    <3>2. CASE Ending
      <4>1. spc' = "finish" /\ \A n \in 1 .. Len(data) : data[n].kind = "End" <=> n = Len(data)
        BY <2>5, <2>6, <3>2 DEF Ending
      <4>2. Open' <=> Len(data) # 1
        <5>1. data[1].kind = "End" <=> Len(data) = 1
          BY <2>2, <4>1
        <5> QED
          BY <2>5, <5>1, Zenon
      <4>3. \A n \in 1 .. Len(data') : data'[n].kind = "End" <=> n = Len(data')
        <5> SUFFICES ASSUME NEW n \in 1 .. Len(data')
                     PROVE  data'[n].kind = "End" <=> n = Len(data')
          OBVIOUS
        <5>1. n + 1 \in 1 .. Len(data) /\ data'[n] = data[n + 1]
          BY <2>3
        <5>2. data'[n].kind = "End" <=> n + 1 = Len(data)
          BY <4>1, <5>1
        <5> QED
          BY <2>4, <5>2
      <4> HIDE DEF Open
      <4> QED
        BY <2>2, <4>1, <4>2, <4>3 DEF Ending
    <3> QED
      BY <2>1, <3>1, <3>2 DEF During
  <2>10. During'
    <3>1. \A n \in 1 .. Len(data') : data'[n].session = nextId - 1
      <4>1. \A n \in 1 .. Len(data) : data[n].session = nextId - 1
        BY <2>1 DEF During
      <4> QED
        BY <2>3, <4>1
    <3>2. /\ life = Started(nextId - 1) /\ ~ changed /\ sstate = life
          /\ rpc # "idle" /\ activeId = nextId - 1
      BY <2>1 DEF During
    <3>3. /\ (life = Started(nextId - 1))' /\ ~ changed' /\ sstate' = life'
          /\ rpc' # "idle" /\ activeId' = nextId' - 1 /\ nextId' = nextId
      BY <2>6, <3>2
    <3> HIDE DEF SessionInv, SessionTypeOK, Started
    <3> QED
      BY <2>9, <3>1, <3>3 DEF During
  <2> QED
    BY <2>8, <2>10 DEF Apart
<1>3. CASE Empty
  BY <1>3 DEF Empty, Apart, During, Before, After, Sending, Ending
<1>4. CASE InnerFinish
  BY <1>4 DEF InnerFinish, Announce, Apart, During, Before, After, Sending, Ending
<1>5. CASE FinishActive
  BY <1>5 DEF FinishActive, Apart, During, Before, After, Sending, Ending
<1> QED
  BY <1>1, <1>2, <1>3, <1>4, <1>5 DEF SessionReceiverStep

(* session_channel.rs, for every capacity and any number of sessions: as long as the *)
(* receiver takes each session to its End, no data of one is thrown away or reaches   *)
(* another; and Ok from finish_and_wait means that the receiver is done.              *)
THEOREM SessionsStayApart == SessionSpec => []SessionsAreApart
<1>1. SessionInit => SessionInv
  <2> SUFFICES ASSUME SessionInit PROVE SessionInv
    OBVIOUS
  <2>1. /\ changed \in BOOLEAN /\ shouldFinish \in BOOLEAN /\ early \in BOOLEAN
        /\ lost \in BOOLEAN /\ ~ changed /\ ~ lost
    BY Zenon DEF SessionInit
  <2>2. SessionTypeOK
    BY <2>1 DEF SessionInit, SessionTypeOK, SessionMessages, States, Finished
  <2>3. AnswerInv /\ Apart
    BY <2>1 DEF SessionInit, Finished, AnswerInv, Apart, After
  <2> QED
    BY <2>2, <2>3 DEF SessionInv
<1>2. SessionInv /\ [SessionNext]_sessionVars => SessionInv'
  <2> SUFFICES ASSUME SessionInv, [SessionNext]_sessionVars PROVE SessionInv'
    OBVIOUS
  <2>1. CASE SessionNext
    <3>1. SessionTypeOK' /\ AnswerInv'
      BY <2>1, SessionTypes, Answers DEF SessionInv
    <3>2. ~ early' => ~ early
      BY <2>1, Zenon DEF SessionNext, SessionSenderStep, SessionReceiverStep, WaitStarted, Send, Finish,
              FinishWait, NextSession, Start, RecvItem, Empty, InnerFinish, FinishActive, receiver
    <3>3. ~ early' => Apart'
      BY <2>1, <3>2, SenderApart, ReceiverApart DEF SessionNext, SessionInv
    <3> QED
      BY <3>1, <3>3 DEF SessionInv
  <2>2. CASE UNCHANGED sessionVars
    BY <2>2 DEF sessionVars, SessionInv, SessionTypeOK, AnswerInv, Over, Apart, During, Before, After,
                Sending, Ending, Open
  <2> QED
    BY <2>1, <2>2
<1>3. SessionInv => SessionsAreApart
  BY DEF SessionsAreApart, SessionInv, SessionTypeOK, AnswerInv, Over, Apart, SessionsApart, OkMeansFinished
<1> QED
  BY <1>1, <1>2, <1>3, PTL DEF SessionSpec

=============================================================================
