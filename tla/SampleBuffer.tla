----------------------------- MODULE SampleBuffer -----------------------------
(***************************************************************************)
(* The buffer in which a device gathers samples before it sends them       *)
(* (logic/dispatch/buffer.rs): SerializingBuffer decides whether a batch   *)
(* still fits the running packet, BufferManager closes packets around it.  *)
(* A batch is its number, the time of its first sample and its length;     *)
(* time is counted in sample intervals, so that t_delta_us is 2.  The      *)
(* serializer is external: it returns a packet or an error.                *)
(***************************************************************************)
EXTENDS Integers, Sequences, SequencesExt

CONSTANTS
    MAX_INPUT_SIZE,     \* samples that fit the buffer
    BatchLens,          \* lengths of the batches of the sensor
    Gaps,               \* from the last sample of a batch to the next batch
    Timeouts,           \* values given to set_timeout
    MaxBatches,         \* bound: batches pushed
    MaxSerFaults        \* bound: serializations that fail

VARIABLES
    sbuf,       \* sample_buffer: the batches that wait
    timeout,    \* timeout_us
    pushed,     \* the batches given to push_data, in order
    packets,    \* the packets handed to the caller, in order
    serLost,    \* batches cleared after a failed serialization
    serFaults,  \* serializations that failed
    calm        \* the last call was a push and timeout has not changed since

sampleVars == <<sbuf, timeout, pushed, packets, serLost, serFaults, calm>>

T_DELTA == 2

LastOf(b) == b.t + b.len - 1

SumLen(s) == FoldLeft(LAMBDA n, b : n + b.len, 0, s)

-----------------------------------------------------------------------------
\* A plausible slip: the gap is not looked at.
PushStatusGapless(b, s) ==
    IF SumLen(s) + b.len > MAX_INPUT_SIZE THEN "NotEnoughSpace"
    ELSE IF LastOf(b) - Head(Append(s, b)).t > timeout THEN "Timeout"
    ELSE IF SumLen(s) + 2 * b.len > MAX_INPUT_SIZE THEN "NotEnoughSpaceForNext"
    ELSE "Ok"

\* A plausible slip: the time range is measured before the batch is added.
PushStatusLate(b, s) ==
    IF SumLen(s) + b.len > MAX_INPUT_SIZE THEN "NotEnoughSpace"
    ELSE IF s # <<>> /\ b.t > LastOf(Last(s)) + T_DELTA THEN "NotContiguous"
    ELSE IF s # <<>> /\ LastOf(Last(s)) - Head(s).t > timeout THEN "Timeout"
    ELSE IF SumLen(s) + 2 * b.len > MAX_INPUT_SIZE THEN "NotEnoughSpaceForNext"
    ELSE "Ok"

(***************************************************************************)
(* SerializingBuffer::push: the status and the buffer it leaves.           *)
(***************************************************************************)
PushStatus(b, s) ==
    IF SumLen(s) + b.len > MAX_INPUT_SIZE THEN "NotEnoughSpace"
    ELSE IF s # <<>> /\ b.t > LastOf(Last(s)) + T_DELTA THEN "NotContiguous"
    ELSE IF LastOf(b) - Head(Append(s, b)).t > timeout THEN "Timeout"
    ELSE IF SumLen(s) + 2 * b.len > MAX_INPUT_SIZE THEN "NotEnoughSpaceForNext"
    ELSE "Ok"

Inserted(status) == status \notin {"NotContiguous", "NotEnoughSpace"}

-----------------------------------------------------------------------------
\* A plausible slip: a packet is closed also when one is kept already.
ShouldSerializeTwice(status, s, have) ==
    \/ ~Inserted(status)
    \/ status = "Ok" /\ SumLen(s) = MAX_INPUT_SIZE
    \/ status \in {"NotEnoughSpaceForNext", "Timeout"}

(***************************************************************************)
(* BufferManager::push_data as a run of its loop from the buffer s: have   *)
(* tells that a packet is kept already, which a second one would replace.  *)
(* The loop ends at the latest on its second turn, when the buffer is      *)
(* empty and the batch fits.                                               *)
(***************************************************************************)
ShouldSerialize(status, s, have) ==
    \/ ~Inserted(status)
    \/ status = "Ok" /\ SumLen(s) = MAX_INPUT_SIZE
    \/ status \in {"NotEnoughSpaceForNext", "Timeout"} /\ ~have

(***************************************************************************)
(* One turn: w is the state of the loop, its buffer, the packet it keeps   *)
(* and the batches lost, and ok the serializer's answer.                   *)
(***************************************************************************)
Turn(b, w, ok) ==
    LET status == PushStatus(b, w.buf)
        grown == IF Inserted(status) THEN Append(w.buf, b) ELSE w.buf
        closes == ShouldSerialize(status, grown, w.packet # <<>>)
    IN  [buf    |-> IF closes THEN <<>> ELSE grown,
         packet |-> IF closes /\ ok THEN grown ELSE w.packet,
         lost   |-> IF closes /\ ~ok THEN w.lost \cup ToSet(grown) ELSE w.lost,
         failed |-> IF closes /\ ~ok THEN w.failed + 1 ELSE w.failed,
         done   |-> Inserted(status)]

PushData(t, len) ==
    /\ Len(pushed) < MaxBatches
    /\ \E ok1, ok2 \in BOOLEAN :
        LET b == [n |-> Len(pushed) + 1, t |-> t, len |-> len]
            w0 == [buf |-> sbuf, packet |-> <<>>, lost |-> {}, failed |-> 0,
                   done |-> FALSE]
            w1 == Turn(b, w0, ok1)
            w == IF w1.done THEN w1 ELSE Turn(b, w1, ok2)
        IN  /\ serFaults + w.failed <= MaxSerFaults
            /\ sbuf' = w.buf
            /\ packets' = IF w.packet = <<>> THEN packets
                          ELSE Append(packets, w.packet)
            /\ serLost' = serLost \cup w.lost
            /\ serFaults' = serFaults + w.failed
            /\ pushed' = Append(pushed, b)
            /\ calm' = TRUE
            /\ UNCHANGED timeout

\* The sensor's next batch: its clock may also have been set back.
Push ==
    \E gap \in Gaps, len \in BatchLens :
        PushData(IF pushed = <<>> THEN 0 ELSE LastOf(Last(pushed)) + gap, len)

ForceSerialize ==
    /\ sbuf # <<>>
    /\ \E ok \in BOOLEAN :
        /\ ok \/ serFaults < MaxSerFaults
        /\ packets' = IF ok THEN Append(packets, sbuf) ELSE packets
        /\ serLost' = IF ok THEN serLost ELSE serLost \cup ToSet(sbuf)
        /\ serFaults' = IF ok THEN serFaults ELSE serFaults + 1
    /\ sbuf' = <<>>
    /\ UNCHANGED <<timeout, pushed, calm>>

SetTimeout ==
    /\ timeout' \in Timeouts \ {timeout}
    /\ calm' = FALSE
    /\ UNCHANGED <<sbuf, pushed, packets, serLost, serFaults>>

SampleInit ==
    /\ sbuf = <<>> /\ pushed = <<>> /\ packets = <<>>
    /\ serLost = {} /\ serFaults = 0 /\ calm = FALSE
    /\ timeout \in Timeouts

SampleNext == Push \/ ForceSerialize \/ SetTimeout

SampleSpec == SampleInit /\ [][SampleNext]_sampleVars

-----------------------------------------------------------------------------
(***************************************************************************)
(* Every batch that was pushed is in exactly one packet or in the buffer,  *)
(* in the order of the pushes, unless the packet it was in could not be    *)
(* serialized: closing a packet around a batch that does not fit drops and *)
(* repeats nothing ("or we will lose a packet", push_data).                *)
(***************************************************************************)
EveryBatchOnce ==
    FlattenSeq(packets) \o sbuf = SelectSeq(pushed, LAMBDA b : b \notin serLost)

(***************************************************************************)
(* The receiver gives the i-th sample of a packet the time of the first    *)
(* one plus i intervals.  A sample is never more than one interval per     *)
(* batch later than that: a larger hole in the stream ends the packet.     *)
(***************************************************************************)
StampsFollow ==
    \A p \in ToSet(packets) \cup {sbuf} : \A i \in 1..Len(p) :
        p[i].t - (p[1].t + SumLen(SubSeq(p, 1, i - 1))) <= i - 1

(***************************************************************************)
(* After a push the buffer never spans more than the timeout, except when  *)
(* it holds nothing but the batch just pushed: set_timeout "guarantees a   *)
(* maximum data latency".                                                  *)
(***************************************************************************)
LatencyBounded ==
    calm /\ Len(sbuf) > 1 => LastOf(Last(sbuf)) - Head(sbuf).t <= timeout

=============================================================================
