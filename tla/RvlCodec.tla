------------------------------ MODULE RvlCodec ------------------------------
(***************************************************************************)
(* The lossless depth codec: RvlEncoder::encode writes an image as a stream *)
(* of values (length of a run of zeros, length of a run of non-zeros, the   *)
(* zigzag-coded difference of each of its pixels to the one before), every  *)
(* value as 4-bit groups of three bits and a continuation bit, and          *)
(* RvlDepthDecoder::decode reads them back.                                 *)
(*                                                                         *)
(* Both loops are modelled group by group.  BitWriter and BitReader move    *)
(* bits, but only ever four at a time and high bits first, so that a byte   *)
(* is two groups.  The image is rows of pixels with padding at the end.     *)
(***************************************************************************)
EXTENDS Integers, Sequences

CONSTANTS Width, Height, \* of the image
          Stride,        \* cells of a row: its pixels and its padding
          Samples,       \* depths that occur
          Padding,       \* what the padding holds
          PixelMax,      \* the largest uint16_t
          IntMax         \* the largest int: run lengths are cast to it

ASSUME RvlAssumption ==
    /\ Width \in Nat /\ Height \in Nat /\ Stride \in Nat /\ Width <= Stride
    /\ PixelMax \in Nat /\ Samples \subseteq 0..PixelMax /\ Padding \in 0..PixelMax
    /\ IntMax \in Nat /\ 2 * PixelMax <= IntMax /\ Width * Height <= IntMax

Row == 0..(Height - 1)
Column == 0..(Width - 1)
PixelCount == Width * Height
Pixel == 0..(PixelCount - 1)

VARIABLES
    frame,   \* frame[row][cell]: the DepthFrame's data
    enc,     \* where the encoder is; "write": in write_vle
    i, j,    \* its pixel, and the end of the run of non-zeros
    prev,
    rest,    \* what is left of the value in write_vle
    encNext, \* where the encoder goes from there
    groups,  \* the groups written
    wrote,   \* history: where write_vle was when it wrote each of them
    dec,     \* where the decoder is; "read": in read_vle
    at,      \* its pixel i
    left,    \* what is left of nonzero_run
    last,    \* its prev
    pos,     \* groups read
    value, weight, \* of read_vle; weight is 2^shift
    decNext,
    out      \* result.data as pixels

stream == <<groups, wrote>>
encoder == <<enc, i, j, prev, rest, encNext, stream>>
decoder == <<dec, at, left, last, pos, value, weight, decNext, out>>
vars == <<frame, encoder, decoder>>

Padded(image) == [r \in Row |-> [c \in 0..(Stride - 1) |->
                    IF c \in Column THEN image[r][c] ELSE Padding]]

Init ==
    /\ frame \in {Padded(image) : image \in [Row -> [Column -> Samples]]}
    /\ enc = (IF PixelCount > 0 THEN "zeros" ELSE "done")
    /\ i = 0 /\ j = 0 /\ prev = 0
    /\ rest = 0 /\ encNext = "nonzeros" /\ groups = <<>> /\ wrote = <<>>
    /\ dec = "off" /\ at = 0 /\ left = 0 /\ last = 0
    /\ pos = 0 /\ value = 0 /\ weight = 1 /\ decNext = "zeros"
    /\ out = [p \in Pixel |-> 0]

-----------------------------------------------------------------------------
\* RvlEncoder::encode

\* Mutant: the stride is taken for the width.
DepthIgnoringStride(p) == frame[p \div Stride][p % Stride]

\* pixels[p] of the encoder's flat copy, without the padding.
Depth(p) == frame[p \div Width][p % Width]

\* write_vle(v), after which the encoder goes to next.
WriteValue(v, next) == enc' = "write" /\ rest' = v /\ encNext' = next

\* The run from i on of zeros, or of non-zeros, ends at k.
RunEndsAt(k, zeros) ==
    /\ \A p \in i..(k - 1) : (Depth(p) = 0) = zeros
    /\ k < PixelCount => (Depth(k) = 0) # zeros

\* Mutant: no break when the zeros reach the end of the image.
WriteZerosOnly ==
    /\ enc = "zeros"
    /\ \E k \in i..PixelCount :
        /\ RunEndsAt(k, TRUE)
        /\ WriteValue(k - i, "nonzeros")
        /\ i' = k
    /\ UNCHANGED <<frame, j, prev, stream, decoder>>

WriteZeros ==
    /\ enc = "zeros"
    /\ \E k \in i..PixelCount :
        /\ RunEndsAt(k, TRUE)
        /\ WriteValue(k - i, IF k < PixelCount THEN "nonzeros" ELSE "done")
        /\ i' = k
    /\ UNCHANGED <<frame, j, prev, stream, decoder>>

WriteNonzeros ==
    /\ enc = "nonzeros"
    /\ \E k \in i..PixelCount :
        /\ RunEndsAt(k, FALSE)
        /\ WriteValue(k - i, "deltas")
        /\ j' = k
    /\ UNCHANGED <<frame, i, prev, stream, decoder>>

\* Mutant: negative differences are not coded.
ZigzagOfPositive(delta) == 2 * delta

Zigzag(delta) == IF delta >= 0 THEN 2 * delta ELSE -2 * delta - 1

WriteDelta ==
    /\ enc = "deltas"
    /\ i < j
    /\ WriteValue(Zigzag(Depth(i) - prev), "deltas")
    /\ prev' = Depth(i) /\ i' = i + 1
    /\ UNCHANGED <<frame, j, stream, decoder>>

EndDeltas ==
    /\ enc = "deltas"
    /\ i >= j
    /\ enc' = IF i < PixelCount THEN "zeros" ELSE "done"
    /\ UNCHANGED <<frame, i, j, prev, rest, encNext, stream, decoder>>

Now == [i |-> i, j |-> j, prev |-> prev, rest |-> rest, next |-> encNext]

\* One turn of write_vle: three bits, and 8 when more follow.
WriteGroup ==
    /\ enc = "write"
    /\ rest' = rest \div 8
    /\ groups' = Append(groups, (rest % 8) + (IF rest' > 0 THEN 8 ELSE 0))
    /\ wrote' = Append(wrote, Now)
    /\ enc' = IF rest' > 0 THEN "write" ELSE encNext
    /\ UNCHANGED <<frame, i, j, prev, encNext, decoder>>

\* The bytes of result.data: flush() fills up an odd last group with zeros.
data == [b \in 1..((Len(groups) + 1) \div 2) |->
           (groups[2 * b - 1] * 16) +
           (IF 2 * b <= Len(groups) THEN groups[2 * b] ELSE 0)]

-----------------------------------------------------------------------------
\* RvlDepthDecoder::decode

\* read_vle(), after which the decoder goes to next.
ReadValue(next) == dec' = "read" /\ value' = 0 /\ weight' = 1 /\ decNext' = next

Finish == dec' = "done" /\ UNCHANGED <<value, weight, decNext>>

StartDecode ==
    /\ dec = "off"
    /\ enc = "done"
    /\ IF PixelCount > 0 THEN ReadValue("zeros") ELSE Finish
    /\ UNCHANGED <<frame, encoder, at, left, last, pos, out>>

\* The group after the first p; past the end the reader makes up zeros.
GroupAt(p) ==
    IF p >= 2 * Len(data) THEN 0
    ELSE IF p % 2 = 0 THEN data[p \div 2 + 1] \div 16
    ELSE data[p \div 2 + 1] % 16

ReadGroup ==
    /\ dec = "read"
    /\ value' = value + (GroupAt(pos) % 8) * weight
    /\ weight' = weight * 8
    /\ pos' = IF pos < 2 * Len(data) THEN pos + 1 ELSE pos
    /\ dec' = IF GroupAt(pos) >= 8 THEN "read" ELSE decNext
    /\ UNCHANGED <<frame, encoder, at, left, last, decNext, out>>

\* Mutant: the outer loop runs once more at the end of the image.
FillZerosTooFar ==
    /\ dec = "zeros"
    /\ at' = IF at + value <= PixelCount THEN at + value ELSE PixelCount
    /\ out' = [p \in Pixel |-> IF at <= p /\ p < at' THEN 0 ELSE out[p]]
    /\ IF at' <= PixelCount THEN ReadValue("nonzeros") ELSE Finish
    /\ UNCHANGED <<frame, encoder, left, last, pos>>

FillZeros ==
    /\ dec = "zeros"
    /\ at' = IF at + value <= PixelCount THEN at + value ELSE PixelCount
    /\ out' = [p \in Pixel |-> IF at <= p /\ p < at' THEN 0 ELSE out[p]]
    /\ IF at' < PixelCount THEN ReadValue("nonzeros") ELSE Finish
    /\ UNCHANGED <<frame, encoder, left, last, pos>>

ReadNonzeros ==
    /\ dec = "nonzeros"
    /\ left' = value
    /\ ReadValue(IF left' > 0 THEN "delta" ELSE "zeros")
    /\ UNCHANGED <<frame, encoder, at, last, pos, out>>

Unzigzag(code) == IF code % 2 = 1 THEN -((code + 1) \div 2) ELSE code \div 2

ReadDelta ==
    /\ dec = "delta"
    /\ last' = (last + Unzigzag(value)) % (PixelMax + 1)
    /\ out' = [out EXCEPT ![at] = last']
    /\ at' = at + 1 /\ left' = left - 1
    /\ \/ at' < PixelCount /\ ReadValue(IF left' > 0 THEN "delta" ELSE "zeros")
       \/ at' >= PixelCount /\ Finish
    /\ UNCHANGED <<frame, encoder, pos>>

-----------------------------------------------------------------------------
Decoded == dec = "done" /\ UNCHANGED vars

Next ==
    \/ WriteZeros \/ WriteNonzeros \/ WriteDelta \/ EndDeltas \/ WriteGroup
    \/ StartDecode \/ ReadGroup \/ FillZeros \/ ReadNonzeros \/ ReadDelta
    \/ Decoded

Spec == Init /\ [][Next]_vars

\* Both loops run on.
FairSpec == Spec /\ WF_vars(Next)

-----------------------------------------------------------------------------
\* Properties.

\* No value is negative or beyond an int, on either side.
TypeOK ==
    /\ frame \in [Row -> [0..(Stride - 1) -> 0..PixelMax]]
    /\ out \in [Pixel -> 0..PixelMax]
    /\ enc \in {"zeros", "nonzeros", "deltas", "write", "done"}
    /\ encNext \in {"nonzeros", "deltas", "done"}
    /\ i \in 0..PixelCount /\ j \in 0..PixelCount
    /\ prev \in 0..PixelMax /\ last \in 0..PixelMax
    /\ rest \in 0..IntMax /\ value \in 0..IntMax /\ weight \in Nat
    /\ groups \in Seq(0..15)
    /\ dec \in {"off", "zeros", "nonzeros", "delta", "read", "done"}
    /\ decNext \in {"zeros", "nonzeros", "delta"}
    /\ at \in 0..PixelCount /\ left \in 0..IntMax /\ pos \in Nat

\* depth_decoder.hpp:13-14: the decoder is the exact inverse of the encoder.
\* Every pixel of the captured image comes back, whatever the lengths of the
\* runs, the differences, the stride and the parity of the stream.
RoundTrip ==
    dec = "done" => \A r \in Row, c \in Column : out[r * Width + c] = frame[r][c]

\* The decoder reads every group that was written and no other: it neither
\* takes the padding for a value nor runs past the end, where BitReader makes
\* up zeros.
ConsumesExactly ==
    /\ dec = "read" => pos < Len(groups)
    /\ dec = "done" => pos = Len(groups)

\* Decoding of what the encoder wrote comes to an end: in particular the run
\* lengths add up to PixelCount.  (Of a stream that was cut short it might not:
\* with the zeros that read_nibble returns past the end, decode()'s outer loop
\* goes on with runs of length 0.)
Terminates == <>(dec = "done")
=============================================================================
