--------------------------------- MODULE Q15 ---------------------------------
(***************************************************************************)
(* sensor-link-protocol, samples.rs and samples/{q15xl,serializer,         *)
(* deserialize}.rs: a set of samples is compressed to 16-bit fixed point   *)
(* with one exponent per channel, written to a message that must fit its   *)
(* buffer, and read back by the server, which may get only the front of    *)
(* it. Every width is a constant: a byte is a digit of base Byte, an i16   *)
(* two of them, an i8 one, the i64 timestamp runs to MaxStamp; a sample is *)
(* a whole number of 1/Unit, NaN and the infinities are one value.         *)
(***************************************************************************)
EXTENDS Integers, Sequences, FiniteSets

CONSTANTS
  N_CH, MAX_N_SAMPLES,
  Byte,             \* values of a byte: 256
  EXPONENT_MIN, EXPONENT_MAX,
  Unit,             \* samples are multiples of 1/Unit
  Samples,          \* the finite samples of the instance, in units
  NaN,              \* a value that is not a finite sample
  Second, MaxStamp, \* 1_000_000 us, i64::MAX
  Stamps, Rates     \* timestamps and sample frequencies of the instance

VARIABLES
  stage,            \* "input" | "sent" | "parsed"
  input,            \* UniformSamples: t, fs and the samples of each channel
  bytes,            \* the message, as much of it as arrived
  cut,              \* the bytes that were lost at its end
  result            \* what the server parsed

q15Vars == <<stage, input, bytes, cut, result>>

I16Max == ((Byte * Byte) \div 2) - 1
I16Min == - I16Max - 1

Q15_OVERHEAD_PER_PACKET == 2
Q15_OVERHEAD_PER_CHANNEL == 1
Q15_BYTES_PER_SAMPLE == 2
UNIFORM_HEADER_OVERHEAD == 2        \* one byte each for the timestamp and the frequency

Minimum(S) == CHOOSE x \in S : \A y \in S : x <= y
Maximum(S) == CHOOSE x \in S : \A y \in S : y <= x

(* UniformSamples::len: a set without a timestamp is empty, otherwise its shortest channel. *)
SampleLen(s) ==
  IF s.t = 0 THEN 0 ELSE Minimum({MAX_N_SAMPLES} \cup {Len(s.ch[c]) : c \in 1..N_CH})

-----------------------------------------------------------------------------
(* Sizes *)

SizePerChannel(n) == IF n = 0 THEN 0 ELSE Q15_OVERHEAD_PER_CHANNEL + Q15_BYTES_PER_SAMPLE * n

SerializedSize(n) ==
  UNIFORM_HEADER_OVERHEAD
    + (IF N_CH = 0 \/ n = 0 THEN 0 ELSE Q15_OVERHEAD_PER_PACKET + N_CH * SizePerChannel(n))

(* Mutant: the exponent is counted once for all channels. *)
MaxNumInputSamplesOneExponent(size) ==
  LET overhead == UNIFORM_HEADER_OVERHEAD + Q15_OVERHEAD_PER_PACKET
      available == size - overhead IN
  IF size < overhead \/ N_CH = 0 \/ available < N_CH * (Q15_OVERHEAD_PER_CHANNEL + Q15_BYTES_PER_SAMPLE)
  THEN 0
  ELSE ((available - Q15_OVERHEAD_PER_CHANNEL) \div N_CH) \div Q15_BYTES_PER_SAMPLE

MaxNumInputSamples(size) ==
  LET overhead == UNIFORM_HEADER_OVERHEAD + Q15_OVERHEAD_PER_PACKET
      available == size - overhead IN
  IF size < overhead \/ N_CH = 0 \/ available < N_CH * (Q15_OVERHEAD_PER_CHANNEL + Q15_BYTES_PER_SAMPLE)
  THEN 0
  ELSE ((available \div N_CH) - Q15_OVERHEAD_PER_CHANNEL) \div Q15_BYTES_PER_SAMPLE

-----------------------------------------------------------------------------
(* Fixed point. Pow(e) is 2^e in units of 2^EXPONENT_MIN, a whole number. *)

Pow(e) == 2 ^ (e - EXPONENT_MIN)
Whole == 2 ^ (- EXPONENT_MIN)       \* 1.0 in that unit

Abs(x) == IF x < 0 THEN - x ELSE x

AbsMaxFinite(samples) == Maximum({0} \cup {Abs(samples[i]) : i \in {j \in DOMAIN samples : samples[j] # NaN}})

(* Mutant: the exponent is rounded down. *)
FindMaxExponentFloor(max) ==
  LET below == {e \in EXPONENT_MIN..EXPONENT_MAX : Pow(e) * Unit <= max * Whole} IN
  IF below = {} THEN EXPONENT_MIN ELSE Maximum(below)

(* ceil(log2(max)), clamped; the logarithm of 0 is minus infinity. *)
FindMaxExponent(max) ==
  LET enough == {e \in EXPONENT_MIN..EXPONENT_MAX : max * Whole <= Pow(e) * Unit} IN
  IF enough = {} THEN EXPONENT_MAX ELSE Minimum(enough)

(* roundf(n / d): half away from zero. *)
Round(n, d) == IF n < 0 THEN - ((2 * (- n) + d) \div (2 * d)) ELSE (2 * n + d) \div (2 * d)

(* I16::from_f32 of a scaled sample: saturated, with the least value kept for NaN. *)
FromF32(s, e) ==
  IF s = NaN
  THEN I16Min
  ELSE Maximum({I16Min + 1, Minimum({I16Max, Round(s * I16Max * Whole, Unit * Pow(e))})})

(* Q15Channel::from_slice *)
ChannelFromSlice(samples) ==
  LET e == FindMaxExponent(AbsMaxFinite(samples)) IN
  [exponent |-> e, values |-> [i \in DOMAIN samples |-> FromF32(samples[i], e)]]

FromUniform(s) ==
  [t |-> s.t, fs |-> s.fs, num |-> SampleLen(s),
   ch |-> [c \in 1..N_CH |-> ChannelFromSlice(SubSeq(s.ch[c], 1, SampleLen(s)))]]

-----------------------------------------------------------------------------
(* Bytes, least significant first, in two's complement. *)

U16Bytes(n) == <<n % Byte, (n \div Byte) % Byte>>
I16Bytes(v) == U16Bytes((v + Byte * Byte) % (Byte * Byte))
I16FromBytes(b) == LET u == b[1] + Byte * b[2] IN IF u > I16Max THEN u - Byte * Byte ELSE u
I8Byte(v) == (v + Byte) % Byte
I8FromByte(b) == IF b >= Byte \div 2 THEN b - Byte ELSE b

(* Q15XL::to_bytes, what it writes; an empty set has no length field. *)
ChannelBytes(ch, n) ==
  [i \in 1..SizePerChannel(n) |->
     IF i = 1 THEN I8Byte(ch.exponent) ELSE I16Bytes(ch.values[i \div 2])[1 + (i % 2)]]

ToBytes(q) ==
  IF q.num = 0 \/ N_CH = 0
  THEN <<>>
  ELSE U16Bytes(q.num)
         \o [i \in 1..(N_CH * SizePerChannel(q.num)) |->
               LET c == 1 + ((i - 1) \div SizePerChannel(q.num)) IN
               ChannelBytes(q.ch[c], q.num)[1 + ((i - 1) % SizePerChannel(q.num))]]

(* Uniform::as_topic_data *)
AsTopicData(q) == <<q.t, q.fs>> \o ToBytes(q)

-----------------------------------------------------------------------------
(* The server: parse_q15xl_to_nchannel_impl. *)

SampleTimestamp(t, fs, i) == t + (Second \div fs) * (i - 1)

Value(v, e) == IF v = I16Min THEN NaN ELSE v * Pow(e)   \* in units of 2^EXPONENT_MIN / I16Max

Empty(fs) == [ok |-> TRUE, fs |-> fs, t |-> <<>>, ch |-> [c \in 1..N_CH |-> <<>>]]
Error == [ok |-> FALSE, fs |-> 0, t |-> <<>>, ch |-> [c \in 1..N_CH |-> <<>>]]

(* Mutant: a message is checked against the size of one channel. *)
EnoughOneChannel(data, n) == Len(data) >= Q15_OVERHEAD_PER_PACKET + SizePerChannel(n)

Enough(data, n) == Len(data) >= Q15_OVERHEAD_PER_PACKET + N_CH * SizePerChannel(n)

(* What a read beyond the message would give, were it not checked. *)
At(data, i) == IF i <= Len(data) THEN data[i] ELSE 0

ParsedChannel(data, c, n) ==
  LET first == Q15_OVERHEAD_PER_PACKET + (c - 1) * SizePerChannel(n) + 1
      e == I8FromByte(At(data, first)) IN
  [i \in 1..n |-> Value(I16FromBytes(<<At(data, first + 2 * i - 1), At(data, first + 2 * i)>>), e)]

Parse(msg, allow_nan) ==
  IF Len(msg) < UNIFORM_HEADER_OVERHEAD \/ msg[1] <= 0 \/ msg[2] <= 0
  THEN Error
  ELSE LET data == SubSeq(msg, UNIFORM_HEADER_OVERHEAD + 1, Len(msg))
           n == IF Len(data) < 2 THEN 0 ELSE data[1] + Byte * data[2] IN
       IF n = 0
       THEN Empty(msg[2])
       ELSE IF ~Enough(data, n)
       THEN Error
       ELSE LET ch == [c \in 1..N_CH |-> ParsedChannel(data, c, n)]
                t == [i \in 1..n |-> SampleTimestamp(msg[1], msg[2], i)] IN
            IF \/ ~allow_nan /\ \E c \in 1..N_CH : \E i \in 1..n : ch[c][i] = NaN
               \/ \E i \in 1..n : t[i] > MaxStamp
            THEN Error
            ELSE [ok |-> TRUE, fs |-> msg[2], t |-> t, ch |-> ch]

-----------------------------------------------------------------------------
Channel == UNION {[1..n -> Samples \cup {NaN}] : n \in 0..MAX_N_SAMPLES}

Q15Init ==
  /\ stage = "input"
  /\ input \in [t : Stamps, fs : Rates, ch : [1..N_CH -> Channel]]
  /\ bytes = <<>> /\ cut = 0 /\ result = Error

(* UniformSampleSerializer::serialize; a prefix of the message arrives. *)
Serialize ==
  /\ stage = "input"
  /\ LET all == AsTopicData(FromUniform(input)) IN
     \E k \in 0..Len(all) :
       /\ bytes' = SubSeq(all, 1, Len(all) - k) /\ cut' = k
  /\ stage' = "sent" /\ UNCHANGED <<input, result>>

Deserialize ==
  /\ stage = "sent"
  /\ \E allow_nan \in BOOLEAN : result' = Parse(bytes, allow_nan)
  /\ stage' = "parsed" /\ UNCHANGED <<input, bytes, cut>>

Q15Next == Serialize \/ Deserialize

Q15Spec == Q15Init /\ [][Q15Next]_q15Vars

-----------------------------------------------------------------------------
(* What arrives whole is what was measured: every finite sample is within half a step of     *)
(* its value, the step being at most that of the smallest power of two that holds the        *)
(* channel's largest sample; what was no number stays none; and timestamps follow the rate.  *)
DecodedIsClose ==
  stage = "parsed" /\ cut = 0 /\ result.ok =>
    LET n == SampleLen(input) IN
    /\ Len(result.t) = n /\ \A i \in 1..n : result.t[i] = SampleTimestamp(input.t, input.fs, i)
    /\ \A c \in 1..N_CH :
         LET s == SubSeq(input.ch[c], 1, n)
             r == result.ch[c]
             max == AbsMaxFinite(s)
             top == Minimum({Pow(e) : e \in {e \in EXPONENT_MIN..EXPONENT_MAX :
                                              max * Whole <= Pow(e) * Unit \/ e = EXPONENT_MAX}}) IN
         /\ Len(r) = n
         /\ \A i \in 1..n :
              IF s[i] = NaN
              THEN r[i] = NaN
              ELSE \/ 2 * Abs(r[i] * Unit - s[i] * I16Max * Whole) <= top * Unit
                   \/ /\ Abs(s[i]) * Whole > Pow(EXPONENT_MAX) * Unit    \* out of range: saturated
                      /\ Abs(r[i]) = I16Max * Pow(EXPONENT_MAX) /\ (r[i] > 0 <=> s[i] > 0)

(* A message whose end was lost is refused or is empty: bytes that are not there are never   *)
(* taken for samples.                                                                        *)
TruncatedGivesNothing ==
  stage = "parsed" /\ cut > 0 /\ result.ok => result.t = <<>>

(* MAX_INPUT_LEN is exact: that many samples fit a buffer of the size, and no more do, for   *)
(* every size around the message at hand.                                                    *)
MaxInputIsExact ==
  stage = "sent" /\ cut = 0 =>
    \A size \in (Len(bytes) - 1)..(Len(bytes) + N_CH * Q15_BYTES_PER_SAMPLE) :
      LET n == MaxNumInputSamples(size) IN
      SerializedSize(n + 1) > size /\ (n > 0 => SerializedSize(n) <= size)

=============================================================================
