------------------------------- MODULE Encoder -------------------------------
(***************************************************************************)
(* The coders of a batch of points (tffiles/encoder.go): raw, delta and    *)
(* delta of delta, and what their decoders make of the bytes, all of them  *)
(* or only the first ones.                                                 *)
(*                                                                         *)
(* Bytes and words keep their arithmetic on a smaller scale: a byte has    *)
(* Bits bits and a word (int64, float64) WordBytes bytes, the code's 8 and *)
(* 8.  A value counts units of 1/(Scale * Fine), so that it has Fine steps *)
(* below the third decimal, and its Float64bits are the bits of the count. *)
(* Every result of float64 arithmetic is rounded to a float64.             *)
(***************************************************************************)
EXTENDS Integers, Sequences, SequencesExt, FiniteSetsExt

CONSTANTS Bits, WordBytes,
          Scale, Fine,              \* Scale is 1000 in the code
          Mantissa, MaxExponent,    \* float64: 2^53, and bound: how often its steps double
          Top,          \* the largest value of a sample
          Reach, Slack, \* what a rounding costs at most, up to what size
          Samples,      \* the points a batch is made of
          MaxBatch,     \* the longest batch
          MaxSpare      \* the most capacity a buffer has beyond its length

\* x to the power of k, for k up to n.
Powers(x, n) == LET p[k \in 0 .. n] == IF k = 0 THEN 1 ELSE x * p[k - 1] IN p
Power(x, n) == Powers(x, n)[n]

Byte == Power(2, Bits)
Word == Power(Byte, WordBytes)
High == Byte \div 2                     \* 0x80, the continuation bit
Nibble == Power(2, Bits \div 2)         \* half a byte of flags

\* int64, as what a word stands for and as what an integer becomes in it.
Int64 == - (Word \div 2) .. Word \div 2 - 1
Signed(u) == IF u >= Word \div 2 THEN u - Word ELSE u
Wrap(x) == Signed(x % Word)

\* What is left of u after each division by the radix; u has less than Word digits.
Rests(u, radix) ==
    LET rest[k \in 0 .. Word] == IF k = 0 THEN u ELSE rest[k - 1] \div radix IN rest

Digits(u, radix, n) == [i \in 1 .. n |-> Rests(u, radix)[i - 1] % radix]

\* The number whose digits, the lowest first, are ds, from the last j of them.
Numbers(ds, radix) ==
    LET val[j \in 0 .. Len(ds)] ==
            IF j = 0 THEN 0 ELSE ds[Len(ds) + 1 - j] + radix * val[j - 1]
    IN  val
Number(ds, radix) == Numbers(ds, radix)[Len(ds)]

\* How many groups of Bits - 1 bits encodeVarint makes of u, and of the longest.
VarintLen(u) ==
    CHOOSE n \in 1 .. Word :
        Rests(u, High)[n - 1] < High /\ \A m \in 1 .. n - 1 : Rests(u, High)[m - 1] >= High
MaxVarint == VarintLen(Word - 1)

encodeVarint(x) ==
    LET u == x % Word
        n == VarintLen(u)
    IN  [i \in 1 .. n |-> Digits(u, High, n)[i] + (IF i < n THEN High ELSE 0)]

\* Decoding stops at a byte without the continuation bit, and takes the whole
\* of the last byte there can be.
decodeVarint(s) ==
    LET stops == {i \in DOMAIN s : s[i] < High \/ i = MaxVarint}
        n == IF stops = {} THEN Len(s) ELSE Min(stops)
        Group(i) == IF i = MaxVarint THEN s[i] ELSE s[i] % High
    IN  Wrap(Number([i \in 1 .. n |-> Group(i)], High))

Distance(a, b) == IF a < b THEN b - a ELSE a - b

\* float64: the multiples of 1/Fine up to Mantissa of them, every second one up to
\* twice as many, and so on.  A result is rounded to the nearest, of two to the even.
Grain(x) ==
    LET p == Powers(2, MaxExponent)
        wide == {e \in 0 .. MaxExponent : Distance(x, 0) <= Mantissa * Scale * p[e]}
    IN  Scale * p[Min(wide \union {MaxExponent})]
Nearest(x, g) ==
    LET m == x \div g
        rest == x % g
    IN  g * (IF 2 * rest < g \/ (2 * rest = g /\ m % 2 = 0) THEN m ELSE m + 1)
Float(x) == Nearest(x, Grain(x))

\* int64(delta * 1000), which drops what is below a thousandth, and
\* float64(n) / 1000.
Thousandths(d) ==
    LET e == Float(Scale * d)
        unit == Scale * Fine
    IN  IF e >= 0 THEN e \div unit ELSE - ((- e) \div unit)
FromThousandths(n) == Float(Float(Scale * (Fine * n)) \div Scale)

\* By how much a value gets worse from one point decoded to the next: what is below a
\* thousandth, and the roundings of a subtraction, a multiplication, a conversion, a
\* division and an addition.
Loss == Fine + 5 * Slack

FixedWord(x) == Digits(x % Word, Byte, WordBytes)
ReadWord(s) == Wrap(Number(s, Byte))

\* The lengths of two varints fit a byte of flags.  The conversion of a float64
\* beyond int64 is not defined by the language and is left out.
ASSUME EncoderAssumption ==
    /\ Bits \in Nat /\ Bits > 1 /\ Bits % 2 = 0
    /\ WordBytes \in Nat \ {0} /\ Scale \in Nat \ {0} /\ Fine \in Nat \ {0}
    /\ MaxVarint < Nibble
    /\ Samples \subseteq [time : Int64, value : Int64]
    /\ \A p, q \in Samples : Thousandths(Float(p.value - q.value)) \in Int64
    /\ MaxBatch \in Nat /\ MaxSpare \in Nat

\* The values, and what the decoder makes of them, are within reach of the bound on
\* what a rounding costs.
ASSUME FloatAssumption ==
    /\ Mantissa \in Nat /\ MaxExponent \in Nat
    /\ Top \in Nat /\ Reach \in Nat /\ Slack \in Nat
    /\ \A p \in Samples : Distance(p.value, 0) <= Top
    /\ 2 * Top + (MaxBatch + 1) * Loss <= Reach
    /\ \A x \in - Reach .. Reach :
          /\ Distance(Float(x), x) <= Slack
          /\ Distance(Float(Scale * x), Scale * x) <= Scale * Slack

VARIABLES
    mode,           \* "raw", "delta" or "deltadelta"
    points,         \* the batch, the argument of EncodeBatch
    data, spare,    \* its encoding, and cap(data) - len(data)
    cut,            \* the bytes missing at the end of data
    codecPc,        \* "idle", "encoded", "decoding", "returned", "panic"
    decoded,        \* the points decoded so far
    offset,         \* offset in data of the decoder
    lastDelta       \* lastTimeDelta and lastValueDelta

codecVars == <<mode, points, data, spare, cut, codecPc, decoded, offset, lastDelta>>

-----------------------------------------------------------------------------
(* Encoding: the bytes of one point after the other are appended to the     *)
(* buffer.                                                                  *)

\* The buffer after k of the byte strings ss.
Joins(ss) == LET buf[k \in 0 .. Len(ss)] == IF k = 0 THEN <<>> ELSE buf[k - 1] \o ss[k] IN buf
Joined(ss) == Joins(ss)[Len(ss)]

PointCode(p) == FixedWord(p.time) \o FixedWord(p.value)

\* The flags and the two differences.
Entry(timeDelta, valueDelta) ==
    LET t == encodeVarint(timeDelta)
        v == encodeVarint(Thousandths(valueDelta))
    IN  <<Len(t) * Nibble + Len(v)>> \o t \o v

TimeDelta(ps, i) == Wrap(ps[i].time - ps[i - 1].time)
ValueDelta(ps, i) == Float(ps[i].value - ps[i - 1].value)

\* What encodeRaw, encodeDelta and encodeDeltaDelta append for the point i; delta
\* of delta writes the first differences ahead of the third point.
RawCode(ps, i) == PointCode(ps[i])
DeltaCode(ps, i) ==
    IF i = 1 THEN PointCode(ps[i]) ELSE Entry(TimeDelta(ps, i), ValueDelta(ps, i))
Bases(ps) == encodeVarint(TimeDelta(ps, 2)) \o encodeVarint(Thousandths(ValueDelta(ps, 2)))
DeltaDeltaCode(ps, i) ==
    IF i <= 2 THEN PointCode(ps[i])
    ELSE (IF i = 3 THEN Bases(ps) ELSE <<>>)
         \o Entry(Wrap(TimeDelta(ps, i) - TimeDelta(ps, i - 1)),
                  Float(ValueDelta(ps, i) - ValueDelta(ps, i - 1)))

Code(m, ps, i) ==
    CASE m = "raw"        -> RawCode(ps, i)
      [] m = "delta"      -> DeltaCode(ps, i)
      [] m = "deltadelta" -> DeltaDeltaCode(ps, i)
Codes(m, ps) == [i \in 1 .. Len(ps) |-> Code(m, ps, i)]

\* nil for no points.
Encoding(m, ps) == Joined(Codes(m, ps))

CodecInit ==
    /\ mode = "raw" /\ points = <<>> /\ data = <<>> /\ spare = 0 /\ cut = 0
    /\ codecPc = "idle" /\ decoded = <<>> /\ offset = 0
    /\ lastDelta = [time |-> 0, value |-> 0]

\* How much room append left behind the bytes is up to the runtime.
EncodeBatch ==
    /\ codecPc = "idle"
    /\ \E m \in {"raw", "delta", "deltadelta"}, ps \in SeqOf(Samples, MaxBatch),
          s \in 0 .. MaxSpare :
        /\ mode' = m /\ points' = ps /\ data' = Encoding(m, ps) /\ spare' = s
    /\ codecPc' = "encoded"
    /\ UNCHANGED <<cut, decoded, offset, lastDelta>>

\* The bytes are stored or sent, and only the first of them come back.
Truncate ==
    /\ codecPc = "encoded" /\ cut = 0
    /\ cut' \in 1 .. Len(data)
    /\ data' = SubSeq(data, 1, Len(data) - cut')
    /\ UNCHANGED <<mode, points, spare, codecPc, decoded, offset, lastDelta>>

-----------------------------------------------------------------------------
(* Decoding.                                                                *)

\* data[at : at + n]; a slice may reach beyond the length, up to the capacity,
\* where the bytes are zero.
Slice(at, n) == [i \in 1 .. n |-> IF at + i <= Len(data) THEN data[at + i] ELSE 0]

PointAt(at) == [time |-> ReadWord(Slice(at, WordBytes)),
                value |-> ReadWord(Slice(at + WordBytes, WordBytes))]

PointBytes == 2 * WordBytes

\* decodeRaw, and the returns of the other two for too few bytes.
DecodeAtOnce ==
    /\ codecPc = "encoded"
    /\ \/ mode = "raw"
       \/ mode = "delta" /\ Len(data) < PointBytes
       \/ mode = "deltadelta" /\ Len(data) <= 2 * PointBytes
    /\ decoded' = IF mode = "raw" \/ (mode = "deltadelta" /\ Len(data) = 2 * PointBytes)
                  THEN [i \in 1 .. Len(data) \div PointBytes |-> PointAt((i - 1) * PointBytes)]
                  ELSE <<>>
    /\ codecPc' = "returned"
    /\ UNCHANGED <<mode, points, data, spare, cut, offset, lastDelta>>

\* decodeDelta up to its loop.
DecodeFirst ==
    /\ codecPc = "encoded" /\ mode = "delta" /\ Len(data) >= PointBytes
    /\ decoded' = <<PointAt(0)>>
    /\ offset' = PointBytes
    /\ codecPc' = "decoding"
    /\ UNCHANGED <<mode, points, data, spare, cut, lastDelta>>

\* decodeDeltaDelta up to its loop: the first differences were written as
\* varints and are read from two words, beyond the end if need be; beyond the
\* capacity the slice panics.
DecodeBases ==
    /\ codecPc = "encoded" /\ mode = "deltadelta" /\ Len(data) > 2 * PointBytes
    /\ decoded' = <<PointAt(0), PointAt(PointBytes)>>
    /\ \/ /\ 3 * PointBytes <= Len(data) + spare
          /\ lastDelta' = [time  |-> decodeVarint(Slice(2 * PointBytes, WordBytes)),
                           value |-> FromThousandths(decodeVarint(
                                        Slice(2 * PointBytes + WordBytes, WordBytes)))]
          /\ offset' = 3 * PointBytes
          /\ codecPc' = "decoding"
       \/ /\ 3 * PointBytes > Len(data) + spare
          /\ codecPc' = "panic"
          /\ UNCHANGED <<offset, lastDelta>>
    /\ UNCHANGED <<mode, points, data, spare, cut>>

TimeLen == data[offset + 1] \div Nibble
ValueLen == data[offset + 1] % Nibble

\* Mutant: an entry that ends where the data ends is not taken for whole.
WholeBefore == offset < Len(data) /\ offset + 1 + TimeLen + ValueLen < Len(data)

\* The entry at the offset is there to its last byte.
Whole == offset < Len(data) /\ offset + 1 + TimeLen + ValueLen <= Len(data)

\* One round of either loop; decodeDelta adds the difference it reads,
\* decodeDeltaDelta the sum of the differences so far.
DecodeEntry ==
    /\ codecPc = "decoding" /\ Whole
    /\ LET t == decodeVarint(Slice(offset + 1, TimeLen))
           v == FromThousandths(decodeVarint(Slice(offset + 1 + TimeLen, ValueLen)))
           delta == IF mode = "delta" THEN [time |-> t, value |-> v]
                    ELSE [time  |-> Wrap(lastDelta.time + t),
                          value |-> Float(lastDelta.value + v)]
       IN  /\ decoded' = Append(decoded, [time  |-> Wrap(Last(decoded).time + delta.time),
                                          value |-> Float(Last(decoded).value + delta.value)])
           /\ lastDelta' = IF mode = "deltadelta" THEN delta ELSE lastDelta
    /\ offset' = offset + 1 + TimeLen + ValueLen
    /\ UNCHANGED <<mode, points, data, spare, cut, codecPc>>

\* The end of the data, or a break at an entry that is not whole.
DecodeEnd ==
    /\ codecPc = "decoding" /\ ~ Whole
    /\ codecPc' = "returned"
    /\ UNCHANGED <<mode, points, data, spare, cut, decoded, offset, lastDelta>>

CodecNext ==
    EncodeBatch \/ Truncate \/ DecodeAtOnce \/ DecodeFirst \/ DecodeBases
    \/ DecodeEntry \/ DecodeEnd

CodecSpec == CodecInit /\ [][CodecNext]_codecVars

-----------------------------------------------------------------------------
(* The decoders against the batch they are to give back.  Delta of delta    *)
(* gives back a batch of two points, and the two first of a longer one or   *)
(* of none of it; a single point it never gives back.                       *)

\* Raw points come back as they were.  With delta coding the times come back
\* exactly, although differences wrap around, and a value is off by no more than
\* a thousandth and five roundings for each point decoded before it: what is lost
\* of one difference is never made up in a later one.  None of this depends on
\* the end of the bytes being there: a point that is decoded is a point of the
\* batch, in its place.
DecodedPointsAreBatch ==
    /\ mode # "deltadelta" => Len(decoded) <= Len(points)
    /\ \A i \in DOMAIN decoded : i <= 2 \/ mode # "deltadelta" =>
        /\ decoded[i].time = points[i].time
        /\ Distance(decoded[i].value, points[i].value)
                <= (IF mode = "delta" THEN (i - 1) * Loss ELSE 0)

\* Bytes that are all there decode to as many points as were encoded, and
\* missing bytes cost only the points whose bytes are missing.
NoPointLost ==
    codecPc = "returned" /\ (mode = "deltadelta" => Len(points) \in {0, 2} /\ cut = 0) =>
        \/ Len(decoded) = Len(points)
        \/ cut > 0 /\ Len(data) < Len(Encoding(mode, SubSeq(points, 1, Len(decoded) + 1)))

\* What comes out of the decoder is the batch, whole or up to the missing bytes,
\* with the loss of precision the format has (encode and decode of all modes).
DecodingFaithful == DecodedPointsAreBatch /\ NoPointLost

=============================================================================
