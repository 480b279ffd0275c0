---------------------------- MODULE CodecProofs ----------------------------
(***************************************************************************)
(* What holds of the codecs' arithmetic for every image: the depth codec is *)
(* lossless, and the conversion to the colour planes x264 encodes never     *)
(* wraps.                                                                  *)
(*                                                                         *)
(* The depth codec's proof compares the decoder with the encoder as it was  *)
(* when it wrote the group that the decoder reads next: the stream is a     *)
(* chain of places of write_vle, and at each of them what the decoder has   *)
(* of a value and what was left to write make up the value.                 *)
(***************************************************************************)
EXTENDS RvlCodec, BgrToI420, TLAPS

Image == [p \in Pixel |-> Depth(p)]

\* A place of write_vle: the encoder's variables as it writes a group.
Place == [i : 0..PixelCount, j : 0..PixelCount, prev : 0..PixelMax, rest : 0..IntMax,
          next : {"nonzeros", "deltas", "done"}]

PlaceOK(s) ==
    /\ s \in Place
    /\ s.next = "nonzeros" => s.i < PixelCount
    /\ s.next = "deltas" => s.i <= s.j
    /\ s.next = "done" => s.i = PixelCount

\* At place s the value v of the image is written, and it is what a decoder wants
\* that goes on to step: it is at pixel p, n left of its run, and x is its prev.
Codes(image, step, s, v, p, n, x) ==
    /\ p \in Pixel
    /\ \/ /\ step = "zeros"
          /\ s.i \in p..PixelCount /\ v = s.i - p /\ s.prev = x
          /\ \A q \in p..(s.i - 1) : image[q] = 0
          /\ s.next = IF s.i < PixelCount THEN "nonzeros" ELSE "done"
       \/ /\ step = "nonzeros"
          /\ s.i = p /\ v = s.j - p /\ s.prev = x /\ s.j \in p..PixelCount
          /\ s.next = "deltas"
       \/ /\ step = "delta"
          /\ s.i = p + 1 /\ s.j = p + n /\ n > 0 /\ s.j <= PixelCount
          /\ s.prev = image[p] /\ v = Zigzag(s.prev - x)
          /\ s.next = "deltas"

\* What the value after the one that ends at place s is for.
StepAfter(s) ==
    IF s.next = "deltas" THEN IF s.i < s.j THEN "delta" ELSE "zeros" ELSE s.next

\* Place t comes next after s: within the value, or at the start of another.
Link(image, s, t) ==
    IF s.rest >= 8 THEN t = [s EXCEPT !.rest = s.rest \div 8]
    ELSE Codes(image, StepAfter(s), t, t.rest, s.i, s.j - s.i, s.prev)

First(image, t) == Codes(image, "zeros", t, t.rest, 0, 0, 0)

\* The stream is a chain of places that ends where the encoder is.
Written ==
    /\ wrote \in Seq(Place) /\ Len(wrote) = Len(groups)
    /\ \A n \in 1..Len(wrote) :
          /\ PlaceOK(wrote[n])
          /\ groups[n] = (wrote[n].rest % 8) + (IF wrote[n].rest >= 8 THEN 8 ELSE 0)
          /\ IF n = 1 THEN First(Image, wrote[n]) ELSE Link(Image, wrote[n - 1], wrote[n])

Encoding ==
    /\ enc = "write" =>
          /\ PlaceOK(Now)
          /\ IF wrote = <<>> THEN First(Image, Now) ELSE Link(Image, wrote[Len(wrote)], Now)
    /\ enc # "write" /\ wrote = <<>> =>
          i = 0 /\ prev = 0 /\ enc = IF PixelCount > 0 THEN "zeros" ELSE "done"
    /\ enc # "write" /\ wrote # <<>> =>
          LET s == wrote[Len(wrote)] IN
          /\ s.rest < 8 /\ s.i = i /\ s.j = j /\ s.prev = prev
          /\ \/ enc = s.next
             \/ /\ s.next = "deltas" /\ i >= j
                /\ enc = IF i < PixelCount THEN "zeros" ELSE "done"

\* The decoder is where the encoder was, and what it has decoded is right.
Decoding ==
    /\ dec # "off" => enc = "done"
    /\ dec = "off" => at = 0 /\ left = 0 /\ last = 0 /\ pos = 0
    /\ dec = "read" =>
          /\ pos < Len(wrote) /\ weight > 0
          /\ Codes(Image, decNext, wrote[pos + 1], value + weight * wrote[pos + 1].rest,
                   at, left, last)
    /\ dec \in {"zeros", "nonzeros", "delta"} =>
          /\ pos \in 1..Len(wrote) /\ wrote[pos].rest < 8
          /\ Codes(Image, dec, wrote[pos], value, at, left, last)
    /\ dec = "done" => at = PixelCount /\ pos = Len(wrote)
    /\ \A p \in Pixel : p < at => out[p] = Image[p]

RvlInv == Written /\ Encoding /\ Decoding

-----------------------------------------------------------------------------
\* Arithmetic of rows and columns, of zigzag codes and of groups.
LEMMA DivMod ==
    ASSUME NEW a \in Nat, NEW b \in Nat \ {0}
    PROVE  /\ a \div b \in Nat /\ a % b \in 0..(b - 1)
           /\ a = b * (a \div b) + (a % b)
<1>1. a \div b \in Int /\ a % b \in 0..(b - 1)
  OBVIOUS
<1>2. a = b * (a \div b) + (a % b)
  OBVIOUS
<1>3. a \div b >= 0
  OBVIOUS
<1>4. QED  BY <1>1, <1>2, <1>3

\* Multiplication by a natural number is monotone.
LEMMA TimesMonotone ==
    ASSUME NEW w \in Nat, NEW a \in Nat, NEW b \in Nat, a <= b
    PROVE  w * a <= w * b
<1>1. w * b = w * a + w * (b - a)
  OBVIOUS
<1>2. w * (b - a) >= 0
  OBVIOUS
<1>3. QED  BY <1>1, <1>2

\* Pixel k of an image is in its row and column, inside the image.
LEMMA PixelPlace ==
    ASSUME NEW p \in Pixel
    PROVE  p \div Width \in Row /\ p % Width \in Column
<1>1. Width \in Nat /\ Height \in Nat /\ p \in Nat /\ p < Width * Height
  BY RvlAssumption DEF RvlAssumption, Pixel, PixelCount
<1>2. Width # 0
  BY <1>1
<1>3. p \div Width \in Nat /\ p % Width \in 0..(Width - 1) /\ Width * (p \div Width) <= p
  <2>1. p = Width * (p \div Width) + (p % Width) /\ p \div Width \in Nat
        /\ p % Width \in 0..(Width - 1)
    BY <1>1, <1>2, DivMod
  <2>2. Width * (p \div Width) \in Int
    BY <1>1, <2>1
  <2>3. QED  BY <1>1, <2>1, <2>2
<1>4. p \div Width < Height
  <2>1. SUFFICES ASSUME Height <= p \div Width PROVE FALSE
    BY <1>1, <1>3
  <2>2. Width * Height <= Width * (p \div Width)
    BY <1>1, <1>3, <2>1, TimesMonotone
  <2>3. Width * Height \in Int /\ Width * (p \div Width) \in Int
    BY <1>1, <1>3
  <2>4. QED  BY <1>1, <1>3, <2>2, <2>3
<1>5. QED  BY <1>1, <1>3, <1>4 DEF Row, Column

\* The pixel in a row and a column has that row and column.
LEMMA PlacePixel ==
    ASSUME NEW r \in Row, NEW c \in Column
    PROVE  /\ r * Width + c \in Pixel
           /\ (r * Width + c) \div Width = r /\ (r * Width + c) % Width = c
<1>1. /\ Width \in Nat \ {0} /\ Height \in Nat /\ r \in Nat /\ r + 1 <= Height
      /\ c \in Nat /\ c < Width
  BY RvlAssumption DEF RvlAssumption, Row, Column
<1>2. Width * (r + 1) <= Width * Height
  BY <1>1, TimesMonotone
<1>3. Width * (r + 1) = r * Width + Width /\ r * Width \in Nat /\ Width * Height \in Nat
  BY <1>1
<1>4. r * Width + c \in Pixel
  BY <1>1, <1>2, <1>3 DEF Pixel, PixelCount
<1>5. (r * Width + c) \div Width = r /\ (r * Width + c) % Width = c
  BY <1>1
<1>6. QED  BY <1>4, <1>5

\* Every pixel of an image is a 16-bit depth.
LEMMA DepthInRange ==
    ASSUME TypeOK, NEW p \in Pixel
    PROVE  Depth(p) \in 0..PixelMax
<1>1. p \div Width \in Row /\ p % Width \in 0..(Stride - 1)
  BY PixelPlace, RvlAssumption DEF RvlAssumption, Column
<1>2. QED  BY <1>1 DEF Depth, TypeOK

\* Unzigzag undoes Zigzag.
LEMMA ZigzagInverse ==
    ASSUME NEW a \in 0..PixelMax, NEW b \in 0..PixelMax
    PROVE  /\ Zigzag(a - b) \in 0..(2 * PixelMax)
           /\ Unzigzag(Zigzag(a - b)) = a - b
  BY RvlAssumption DEF RvlAssumption, Zigzag, Unzigzag

\* A group is three bits of what is left, and whether more follow.
LEMMA ThreeBits ==
    ASSUME NEW r \in Nat
    PROVE  /\ r \div 8 \in Nat /\ r \div 8 <= r /\ (r \div 8 > 0 <=> r >= 8)
           /\ r % 8 \in 0..7
           /\ ((r % 8) + (IF r >= 8 THEN 8 ELSE 0)) % 8 = r % 8
           /\ (r % 8) + (IF r >= 8 THEN 8 ELSE 0) >= 8 <=> r >= 8
<1>1. /\ r \div 8 \in Nat /\ r \div 8 <= r /\ (r \div 8 > 0 <=> r >= 8)
      /\ r % 8 \in 0..7
  OBVIOUS
<1>2. ASSUME NEW m \in 0..7
      PROVE  /\ (m + (IF r >= 8 THEN 8 ELSE 0)) % 8 = m
             /\ m + (IF r >= 8 THEN 8 ELSE 0) >= 8 <=> r >= 8
  OBVIOUS
<1>3. QED  BY <1>1, <1>2

\* Two places on from a place there is still a place, whose neighbour is known.
LEMMA TwoOn ==
    ASSUME NEW a \in Nat, NEW b \in Nat, a + 1 < b
    PROVE  (a + 1) + 1 \in 1..b /\ (a + 1) + 1 # 1 /\ ((a + 1) + 1) - 1 = a + 1
  OBVIOUS

\* What a group takes off the rest of a value it adds to what has been read.
LEMMA GroupMoves ==
    ASSUME NEW w \in Nat, NEW v \in Nat, NEW r \in Nat
    PROVE  /\ v + w * r = (v + (r % 8) * w) + (w * 8) * (r \div 8)
           /\ r < 8 => v + w * r = v + (r % 8) * w
           /\ w * r \in Nat
<1>1. r \div 8 \in Nat /\ r % 8 \in Nat /\ r = 8 * (r \div 8) + (r % 8)
  OBVIOUS
<1>2. ASSUME NEW q \in Nat, NEW m \in Nat
      PROVE  v + w * (8 * q + m) = (v + m * w) + (w * 8) * q
  OBVIOUS
<1>3. v + w * r = (v + (r % 8) * w) + (w * 8) * (r \div 8)
  BY <1>1, <1>2
<1>4. r < 8 => r % 8 = r
  OBVIOUS
<1>5. \A m \in Nat : w * m = m * w
  OBVIOUS
<1>6. QED  BY <1>3, <1>4, <1>5

\* BitReader returns what BitWriter has taken.
LEMMA GroupsRead ==
    ASSUME groups \in Seq(0..15), NEW p \in Nat, p < Len(groups)
    PROVE  GroupAt(p) = groups[p + 1] /\ p < 2 * Len(data)
<1> DEFINE half == (Len(groups) + 1) \div 2
<1>1. Len(groups) \in Nat /\ half \in Nat /\ \A n \in 1..Len(groups) : groups[n] \in 0..15
  OBVIOUS
<1>2. /\ Len(data) = half
      /\ \A b \in 1..half : data[b] = groups[2 * b - 1] * 16
                              + (IF 2 * b <= Len(groups) THEN groups[2 * b] ELSE 0)
  BY <1>1 DEF data
<1>3. 2 * half >= Len(groups)
  BY <1>1
<1> HIDE DEF half
<1>4. CASE p % 2 = 0
  <2>1. PICK b \in 1..half : p = 2 * b - 2 /\ p \div 2 + 1 = b
    BY <1>1, <1>3, <1>4
  <2>2. data[b] \div 16 = groups[p + 1]
    <3>1. groups[2 * b - 1] \in 0..15 /\ 2 * b - 1 = p + 1
      BY <1>1, <2>1
    <3>2. 2 * b <= Len(groups) => groups[2 * b] \in 0..15
      BY <1>1, <2>1
    <3>3. ASSUME NEW x \in 0..15, NEW y \in 0..15
          PROVE  (x * 16 + y) \div 16 = x /\ (x * 16 + 0) \div 16 = x
      OBVIOUS
    <3>4. data[b] = groups[2 * b - 1] * 16 + (IF 2 * b <= Len(groups) THEN groups[2 * b] ELSE 0)
      BY <1>2
    <3>5. CASE 2 * b <= Len(groups)
      BY <3>1, <3>2, <3>3, <3>4, <3>5
    <3>6. CASE ~(2 * b <= Len(groups))
      BY <3>1, <3>3, <3>4, <3>6
    <3>7. QED  BY <3>5, <3>6
  <2>3. p < 2 * Len(data)
    BY <1>1, <1>2, <1>3
  <2>4. Len(data) \in Nat /\ ~(p >= 2 * Len(data))
    BY <1>1, <1>2, <2>3
  <2>5. GroupAt(p) = data[b] \div 16
    BY <1>4, <2>1, <2>4 DEF GroupAt
  <2>6. QED  BY <2>2, <2>3, <2>5
<1>5. CASE p % 2 = 1
  <2>1. PICK b \in 1..half : p = 2 * b - 1 /\ p \div 2 + 1 = b
    BY <1>1, <1>3, <1>5
  <2>2. data[b] % 16 = groups[p + 1]
    <3>1. groups[2 * b - 1] \in 0..15 /\ groups[2 * b] \in 0..15 /\ 2 * b <= Len(groups)
          /\ 2 * b = p + 1
      BY <1>1, <2>1
    <3>2. ASSUME NEW x \in 0..15, NEW y \in 0..15 PROVE (x * 16 + y) % 16 = y
      OBVIOUS
    <3>3. data[b] = groups[2 * b - 1] * 16 + groups[2 * b]
      BY <1>2, <3>1
    <3>4. QED  BY <3>1, <3>2, <3>3
  <2>3. p < 2 * Len(data)
    BY <1>1, <1>2, <1>3
  <2>4. Len(data) \in Nat /\ ~(p >= 2 * Len(data))
    BY <1>1, <1>2, <2>3
  <2>5. GroupAt(p) = data[b] % 16
    BY <1>5, <2>1, <2>4 DEF GroupAt
  <2>6. QED  BY <2>2, <2>3, <2>5
<1>6. QED  BY <1>4, <1>5

-----------------------------------------------------------------------------
\* What is used again and again of the types and the constants.
LEMMA RvlTypes ==
    ASSUME TypeOK
    PROVE  /\ PixelCount \in Nat /\ PixelCount <= IntMax /\ IntMax \in Nat
           /\ PixelMax \in Nat /\ 2 * PixelMax <= IntMax
           /\ i \in 0..PixelCount /\ j \in 0..PixelCount /\ at \in 0..PixelCount
           /\ prev \in 0..PixelMax /\ last \in 0..PixelMax
           /\ rest \in 0..IntMax /\ value \in 0..IntMax /\ left \in 0..IntMax
           /\ weight \in Nat /\ pos \in Nat
           /\ Image \in [Pixel -> 0..PixelMax]
           /\ \A p : p \in Pixel <=> p \in Nat /\ p < PixelCount
<1>1. PixelCount \in Nat /\ PixelCount <= IntMax /\ IntMax \in Nat
      /\ PixelMax \in Nat /\ 2 * PixelMax <= IntMax
  BY RvlAssumption DEF RvlAssumption, PixelCount
<1>2. Image \in [Pixel -> 0..PixelMax]
  BY DepthInRange DEF Image
<1>3. \A p : p \in Pixel <=> p \in Nat /\ p < PixelCount
  BY <1>1 DEF Pixel
<1>4. QED  BY <1>1, <1>2, <1>3 DEF TypeOK

\* A value fits into an int.
LEMMA ValueFits ==
    ASSUME TypeOK, NEW step, NEW s \in Place, NEW v, NEW p, NEW n, NEW x \in 0..PixelMax,
           Codes(Image, step, s, v, p, n, x)
    PROVE  v \in 0..IntMax
<1>1. CASE step \in {"zeros", "nonzeros"}
  BY <1>1, RvlTypes DEF Codes, Place
<1>2. CASE step = "delta"
  <2>1. v = Zigzag(s.prev - x) /\ s.prev \in 0..PixelMax
    BY <1>2 DEF Codes, Place
  <2>2. QED  BY <2>1, ZigzagInverse, RvlTypes
<1>3. QED  BY <1>1, <1>2 DEF Codes

\* A decoder that wants the length of a run has nothing left of another.
LEMMA LengthsIgnoreLeft ==
    ASSUME NEW image, NEW step \in {"zeros", "nonzeros"}, NEW s, NEW v, NEW p, NEW n, NEW x,
           Codes(image, step, s, v, p, n, x), NEW m
    PROVE  Codes(image, step, s, v, p, m, x)
  BY DEF Codes

\* The first group of the value that the encoder begins continues the stream.
LEMMA Begins ==
    ASSUME TypeOK, Written, Encoding, NEW t, NEW step,
           \/ enc = "zeros" /\ step = "zeros"
           \/ enc = "nonzeros" /\ step = "nonzeros"
           \/ enc = "deltas" /\ i < j /\ step = "delta",
           Codes(Image, step, t, t.rest, i, j - i, prev)
    PROVE  IF wrote = <<>> THEN First(Image, t) ELSE Link(Image, wrote[Len(wrote)], t)
<1>1. CASE wrote = <<>>
  <2>1. i = 0 /\ prev = 0 /\ step = "zeros"
    BY <1>1 DEF Encoding
  <2>2. QED  BY <1>1, <2>1, LengthsIgnoreLeft DEF First
<1>2. CASE wrote # <<>>
  <2> DEFINE s == wrote[Len(wrote)]
  <2>1. /\ s.rest < 8 /\ s.i = i /\ s.j = j /\ s.prev = prev
        /\ \/ enc = s.next
           \/ s.next = "deltas" /\ i >= j /\ enc = IF i < PixelCount THEN "zeros" ELSE "done"
    BY <1>2 DEF Encoding
  <2>2. s \in Place
    BY <1>2 DEF Written
  <2>3. ~(s.rest >= 8)
    BY <2>1, <2>2 DEF Place
  <2>4. step = StepAfter(s)
    <3>1. s.next \in {"nonzeros", "deltas", "done"}
      BY <2>2 DEF Place
    <3>2. i \in Int /\ j \in Int
      BY RvlTypes
    <3>3. CASE enc = s.next
      BY <2>1, <3>1, <3>3 DEF StepAfter
    <3>4. CASE s.next = "deltas" /\ i >= j /\ enc = IF i < PixelCount THEN "zeros" ELSE "done"
      BY <2>1, <3>2, <3>4 DEF StepAfter
    <3>5. QED  BY <2>1, <3>3, <3>4
  <2>5. Link(Image, s, t)
    BY <2>1, <2>3, <2>4 DEF Link
  <2>6. QED  BY <1>2, <2>5
<1>3. QED  BY <1>1, <1>2

\* After the last group of a value there is another value as long as pixels are
\* left, and it is the one that the decoder wants.
LEMMA NextValue ==
    ASSUME TypeOK, Written, Encoding, enc = "done", NEW n \in 1..Len(wrote),
           wrote[n].rest < 8
    PROVE  /\ wrote[n].i < PixelCount =>
                 /\ n < Len(wrote)
                 /\ Codes(Image, StepAfter(wrote[n]), wrote[n + 1], wrote[n + 1].rest,
                          wrote[n].i, wrote[n].j - wrote[n].i, wrote[n].prev)
           /\ wrote[n].i >= PixelCount => n = Len(wrote)
<1> DEFINE s == wrote[n]
<1>1. s \in Place /\ PlaceOK(s) /\ Len(wrote) \in Nat /\ PixelCount \in Nat
  BY RvlTypes DEF Written
<1>2. ASSUME n < Len(wrote)
      PROVE  /\ Codes(Image, StepAfter(s), wrote[n + 1], wrote[n + 1].rest, s.i, s.j - s.i, s.prev)
             /\ s.i < PixelCount
  <2>1. n + 1 \in 1..Len(wrote) /\ n + 1 # 1 /\ (n + 1) - 1 = n
    BY <1>1, <1>2
  <2>2. Link(Image, s, wrote[n + 1])
    BY <2>1 DEF Written
  <2>3. ~(s.rest >= 8)
    BY <1>1 DEF Place
  <2>4. Codes(Image, StepAfter(s), wrote[n + 1], wrote[n + 1].rest, s.i, s.j - s.i, s.prev)
    BY <2>2, <2>3 DEF Link
  <2>5. s.i \in Pixel
    BY <2>4 DEF Codes
  <2>6. QED  BY <2>4, <2>5, RvlTypes
<1>3. ASSUME n = Len(wrote) PROVE s.i >= PixelCount
  <2>1. wrote # <<>>
    BY <1>1
  <2>2. /\ s.i = i
        /\ \/ s.next = "done"
           \/ "done" = IF i < PixelCount THEN "zeros" ELSE "done"
    BY <1>3, <2>1 DEF Encoding
  <2>3. QED  BY <1>1, <2>2, RvlTypes DEF PlaceOK
<1>4. s.i \in 0..PixelCount
  BY <1>1 DEF Place
<1>5. QED  BY <1>1, <1>2, <1>3, <1>4

-----------------------------------------------------------------------------
\* The decoder is always where the encoder was as it wrote the next group.
THEOREM RvlInvariant == Spec => [](TypeOK /\ RvlInv)
<1>1. Init => TypeOK /\ RvlInv
  <2> SUFFICES ASSUME Init PROVE TypeOK /\ RvlInv
    OBVIOUS
  <2>1. PixelCount \in Nat /\ IntMax \in Nat /\ PixelMax \in Nat /\ Len(wrote) = 0
        /\ Len(groups) = 0
    BY RvlAssumption DEF RvlAssumption, PixelCount, Init
  <2>2. frame \in [Row -> [0..(Stride - 1) -> 0..PixelMax]]
    <3>1. PICK image \in [Row -> [Column -> Samples]] : frame = Padded(image)
      BY DEF Init
    <3>2. \A r \in Row, c \in Column : image[r][c] \in 0..PixelMax
      BY RvlAssumption DEF RvlAssumption
    <3>3. Padding \in 0..PixelMax
      BY RvlAssumption DEF RvlAssumption
    <3>4. QED  BY <3>1, <3>2, <3>3 DEF Padded
  <2>3. TypeOK
    <3>1. groups \in Seq(0..15)
      BY DEF Init
    <3>2. out \in [Pixel -> 0..PixelMax]
      BY <2>1 DEF Init
    <3>3. QED  BY <2>1, <2>2, <3>1, <3>2 DEF Init, TypeOK
  <2>4. RvlInv
    <3>1. Written
      BY <2>1 DEF Init, Written
    <3>2. Encoding
      BY <2>1 DEF Init, Encoding
    <3>3. Decoding
      BY <2>1 DEF Init, Decoding, Pixel
    <3>4. QED  BY <3>1, <3>2, <3>3 DEF RvlInv
  <2>5. QED  BY <2>3, <2>4
<1>2. TypeOK /\ RvlInv /\ [Next]_vars => TypeOK' /\ RvlInv'
  <2> SUFFICES ASSUME TypeOK, RvlInv, [Next]_vars PROVE TypeOK' /\ RvlInv'
    OBVIOUS
  <2>00. /\ PixelCount \in Nat /\ PixelCount <= IntMax /\ IntMax \in Nat
         /\ PixelMax \in Nat /\ 2 * PixelMax <= IntMax
         /\ i \in 0..PixelCount /\ j \in 0..PixelCount /\ at \in 0..PixelCount
         /\ prev \in 0..PixelMax /\ last \in 0..PixelMax
         /\ rest \in 0..IntMax /\ value \in 0..IntMax /\ left \in 0..IntMax
         /\ weight \in Nat /\ pos \in Nat
         /\ Image \in [Pixel -> 0..PixelMax]
         /\ \A p : p \in Pixel <=> p \in Nat /\ p < PixelCount
    BY RvlTypes
  <2> USE <2>00
  <2>0. Written /\ Encoding /\ Decoding
    BY DEF RvlInv
  <2>1. frame' = frame /\ Image' = Image
    <3>1. frame' = frame
      BY DEF Next, WriteZeros, WriteNonzeros, WriteDelta, EndDeltas, WriteGroup, StartDecode,
             ReadGroup, FillZeros, ReadNonzeros, ReadDelta, Decoded, vars
    <3>2. QED  BY <3>1 DEF Image, Depth
  <2>2. ASSUME UNCHANGED <<decoder>>, dec = "off" PROVE Decoding'
    BY <2>0, <2>1, <2>2 DEF Decoding, decoder
  <2>3. ASSUME UNCHANGED <<encoder>> PROVE Written' /\ Encoding'
    BY <2>0, <2>1, <2>3 DEF Written, Encoding, encoder, stream, Now
  <2>4. ASSUME enc # "done" PROVE dec = "off"
    BY <2>0, <2>4 DEF Decoding
  <2>5. ASSUME UNCHANGED stream PROVE Written'
    BY <2>0, <2>1, <2>5 DEF Written, stream
  <2>6. Decoding /\ dec # "off" => enc = "done"
    BY DEF Decoding
  <2>7. CASE WriteZeros
    <3>1. PICK k \in i..PixelCount : RunEndsAt(k, TRUE) /\ rest' = k - i /\ i' = k
                /\ encNext' = IF k < PixelCount THEN "nonzeros" ELSE "done"
      BY <2>7 DEF WriteZeros, WriteValue
    <3>2. /\ enc = "zeros" /\ enc' = "write" /\ UNCHANGED <<j, prev, stream, decoder>>
      BY <2>7 DEF WriteZeros, WriteValue
    <3>3. i < PixelCount
      <4>1. CASE wrote = <<>>
        BY <2>0, <3>2, <4>1 DEF Encoding
      <4>2. CASE wrote # <<>>
        <5>1. wrote[Len(wrote)] \in Place
          BY <2>0, <4>2 DEF Written
        <5>2. enc # wrote[Len(wrote)].next
          BY <3>2, <5>1 DEF Place
        <5>3. QED  BY <2>0, <3>2, <4>2, <5>2 DEF Encoding
      <4>3. QED  BY <4>1, <4>2
    <3>4. /\ Now'.i = k /\ Now'.j = j /\ Now'.prev = prev /\ Now'.rest = k - i
          /\ Now'.next = IF k < PixelCount THEN "nonzeros" ELSE "done"
      BY <3>1, <3>2 DEF Now
    <3>5. PlaceOK(Now') /\ rest' \in 0..IntMax
      BY <3>1, <3>2, <3>4 DEF PlaceOK, Place, Now
    <3>6. Codes(Image, "zeros", Now', Now'.rest, i, j - i, prev)
      <4>1. \A q \in i..(k - 1) : Image[q] = 0
        BY <3>1 DEF RunEndsAt, Image
      <4>2. QED  BY <3>1, <3>3, <3>4, <4>1 DEF Codes
    <3>7. IF wrote = <<>> THEN First(Image, Now') ELSE Link(Image, wrote[Len(wrote)], Now')
      BY <2>0, <3>2, <3>6, Begins
    <3>8. Encoding'
      BY <2>1, <3>2, <3>5, <3>7 DEF Encoding, stream
    <3>9. TypeOK'
      BY <2>1, <3>1, <3>2, <3>5 DEF TypeOK, decoder, stream
    <3>10. QED  BY <2>2, <2>4, <2>5, <3>2, <3>8, <3>9 DEF RvlInv
  <2>8. CASE WriteNonzeros
    <3>1. PICK k \in i..PixelCount : rest' = k - i /\ j' = k /\ encNext' = "deltas"
      BY <2>8 DEF WriteNonzeros, WriteValue
    <3>2. /\ enc = "nonzeros" /\ enc' = "write" /\ UNCHANGED <<i, prev, stream, decoder>>
      BY <2>8 DEF WriteNonzeros, WriteValue
    <3>3. i < PixelCount
      <4>1. wrote # <<>>
        BY <2>0, <3>2 DEF Encoding
      <4>2. wrote[Len(wrote)].next = "nonzeros" /\ wrote[Len(wrote)].i = i
        BY <2>0, <3>2, <4>1 DEF Encoding
      <4>3. PlaceOK(wrote[Len(wrote)])
        BY <2>0, <4>1 DEF Written
      <4>4. QED  BY <4>2, <4>3 DEF PlaceOK
    <3>4. /\ Now'.i = i /\ Now'.j = k /\ Now'.prev = prev /\ Now'.rest = k - i
          /\ Now'.next = "deltas"
      BY <3>1, <3>2 DEF Now
    <3>5. PlaceOK(Now') /\ rest' \in 0..IntMax
      BY <3>1, <3>2, <3>4 DEF PlaceOK, Place, Now
    <3>6. Codes(Image, "nonzeros", Now', Now'.rest, i, j - i, prev)
      BY <3>1, <3>3, <3>4 DEF Codes
    <3>7. IF wrote = <<>> THEN First(Image, Now') ELSE Link(Image, wrote[Len(wrote)], Now')
      BY <2>0, <3>2, <3>6, Begins
    <3>8. Encoding'
      BY <2>1, <3>2, <3>5, <3>7 DEF Encoding, stream
    <3>9. TypeOK'
      BY <2>1, <3>1, <3>2, <3>5 DEF TypeOK, decoder, stream
    <3>10. QED  BY <2>2, <2>4, <2>5, <3>2, <3>8, <3>9 DEF RvlInv
  <2>9. CASE WriteDelta
    <3>1. /\ enc = "deltas" /\ i < j /\ enc' = "write" /\ rest' = Zigzag(Depth(i) - prev)
          /\ encNext' = "deltas" /\ prev' = Depth(i) /\ i' = i + 1
          /\ UNCHANGED <<j, stream, decoder>>
      BY <2>9 DEF WriteDelta, WriteValue
    <3>2. i \in Pixel /\ Depth(i) \in 0..PixelMax /\ Image[i] = Depth(i)
      BY <3>1, DepthInRange DEF Image
    <3>3. rest' \in 0..IntMax
      BY <3>1, <3>2, ZigzagInverse
    <3>4. /\ Now'.i = i + 1 /\ Now'.j = j /\ Now'.prev = Depth(i)
          /\ Now'.rest = Zigzag(Depth(i) - prev) /\ Now'.next = "deltas"
      BY <3>1 DEF Now
    <3>5. PlaceOK(Now')
      BY <3>1, <3>2, <3>3, <3>4 DEF PlaceOK, Place, Now
    <3>6. Codes(Image, "delta", Now', Now'.rest, i, j - i, prev)
      BY <3>1, <3>2, <3>4 DEF Codes
    <3>7. IF wrote = <<>> THEN First(Image, Now') ELSE Link(Image, wrote[Len(wrote)], Now')
      BY <2>0, <3>1, <3>6, Begins
    <3>8. Encoding'
      BY <2>1, <3>1, <3>5, <3>7 DEF Encoding, stream
    <3>9. TypeOK'
      BY <2>1, <3>1, <3>2, <3>3 DEF TypeOK, decoder, stream
    <3>10. QED  BY <2>2, <2>4, <2>5, <3>1, <3>8, <3>9 DEF RvlInv
  <2>10. CASE EndDeltas
    <3>1. /\ enc = "deltas" /\ i >= j /\ enc' = IF i < PixelCount THEN "zeros" ELSE "done"
          /\ UNCHANGED <<i, j, prev, rest, encNext, stream, decoder>>
      BY <2>10 DEF EndDeltas
    <3>2. wrote # <<>>
      BY <2>0, <3>1 DEF Encoding
    <3>3. Encoding'
      <4>1. /\ wrote[Len(wrote)].rest < 8 /\ wrote[Len(wrote)].i = i /\ wrote[Len(wrote)].j = j
            /\ wrote[Len(wrote)].prev = prev /\ wrote[Len(wrote)].next = "deltas"
        BY <2>0, <3>1, <3>2 DEF Encoding
      <4>2. QED  BY <3>1, <3>2, <4>1 DEF Encoding, stream
    <3>4. TypeOK'
      BY <2>1, <3>1 DEF TypeOK, decoder, stream
    <3>5. QED  BY <2>2, <2>4, <2>5, <3>1, <3>3, <3>4 DEF RvlInv
  <2>11. CASE WriteGroup
    <3>1. /\ enc = "write" /\ rest' = rest \div 8
          /\ groups' = Append(groups, (rest % 8) + (IF rest' > 0 THEN 8 ELSE 0))
          /\ wrote' = Append(wrote, Now)
          /\ enc' = IF rest' > 0 THEN "write" ELSE encNext
          /\ UNCHANGED <<i, j, prev, encNext, decoder>>
      BY <2>11 DEF WriteGroup
    <3>2. /\ rest' \in 0..IntMax /\ rest % 8 \in 0..7
          /\ rest' > 0 <=> rest >= 8
      <4>1. /\ rest \div 8 \in Nat /\ rest \div 8 <= rest /\ (rest \div 8 > 0 <=> rest >= 8)
            /\ rest % 8 \in 0..7
        BY ThreeBits
      <4>2. QED  BY <3>1, <4>1
    <3>3. PlaceOK(Now) /\ Now \in Place
          /\ Now.i = i /\ Now.j = j /\ Now.prev = prev /\ Now.rest = rest /\ Now.next = encNext
      BY <2>0, <3>1 DEF Encoding, PlaceOK, Now
    <3>4. (rest % 8) + (IF rest' > 0 THEN 8 ELSE 0) \in 0..15
      BY <3>2
    <3>5. /\ wrote \in Seq(Place) /\ groups \in Seq(0..15) /\ Len(wrote) = Len(groups)
          /\ Len(wrote) \in Nat
      BY <2>0 DEF Written, TypeOK
    <3>6. /\ groups' \in Seq(0..15) /\ Len(groups') = Len(groups) + 1
          /\ groups'[Len(groups) + 1] = (rest % 8) + (IF rest' > 0 THEN 8 ELSE 0)
          /\ \A n \in 1..Len(groups) : groups'[n] = groups[n]
      BY <3>1, <3>4, <3>5
    <3>7. /\ wrote' \in Seq(Place) /\ Len(wrote') = Len(wrote) + 1
          /\ wrote'[Len(wrote) + 1] = Now
          /\ \A n \in 1..Len(wrote) : wrote'[n] = wrote[n]
      BY <3>1, <3>3, <3>5
    <3>8. Written'
      <4> SUFFICES ASSUME NEW n \in 1..(Len(wrote) + 1)
                   PROVE  /\ PlaceOK(wrote'[n])
                          /\ groups'[n] = (wrote'[n].rest % 8)
                                            + (IF wrote'[n].rest >= 8 THEN 8 ELSE 0)
                          /\ IF n = 1 THEN First(Image, wrote'[n])
                             ELSE Link(Image, wrote'[n - 1], wrote'[n])
        BY <2>1, <3>5, <3>6, <3>7 DEF Written
      <4>1. CASE n \in 1..Len(wrote)
        <5>1. n # 1 => n - 1 \in 1..Len(wrote)
          BY <3>5
        <5>2. /\ PlaceOK(wrote[n])
              /\ groups[n] = (wrote[n].rest % 8) + (IF wrote[n].rest >= 8 THEN 8 ELSE 0)
              /\ IF n = 1 THEN First(Image, wrote[n]) ELSE Link(Image, wrote[n - 1], wrote[n])
          BY <2>0, <4>1 DEF Written
        <5>3. QED  BY <3>5, <3>6, <3>7, <4>1, <5>1, <5>2
      <4>2. CASE n = Len(wrote) + 1
        <5>1. wrote'[n] = Now /\ PlaceOK(wrote'[n])
          BY <3>3, <3>7, <4>2
        <5>2. groups'[n] = (wrote'[n].rest % 8) + (IF wrote'[n].rest >= 8 THEN 8 ELSE 0)
          BY <3>2, <3>3, <3>5, <3>6, <4>2, <5>1
        <5>3. CASE wrote = <<>>
          <6>1. n = 1
            BY <3>5, <4>2, <5>3
          <6>2. First(Image, Now)
            BY <2>0, <3>1, <5>3 DEF Encoding
          <6>3. QED  BY <5>1, <5>2, <6>1, <6>2
        <5>4. CASE wrote # <<>>
          <6>1. n # 1 /\ n - 1 = Len(wrote) /\ n - 1 \in 1..Len(wrote)
            BY <3>5, <4>2, <5>4
          <6>2. Link(Image, wrote[Len(wrote)], Now)
            BY <2>0, <3>1, <5>4 DEF Encoding
          <6>3. QED  BY <3>7, <5>1, <5>2, <6>1, <6>2
        <5>5. QED  BY <5>3, <5>4
      <4>3. n \in 1..Len(wrote) \/ n = Len(wrote) + 1
        BY <3>5
      <4>4. QED  BY <4>1, <4>2, <4>3
    <3>9. Encoding'
      <4>1. wrote' # <<>> /\ wrote'[Len(wrote')] = Now
        BY <3>5, <3>7
      <4>2. CASE rest >= 8
        <5>1. enc' = "write"
          BY <3>1, <3>2, <4>2
        <5>2. Now' = [Now EXCEPT !.rest = Now.rest \div 8]
          <6>1. Now' = [i |-> i, j |-> j, prev |-> prev, rest |-> rest \div 8, next |-> encNext]
            BY <3>1 DEF Now
          <6>2. Now = [i |-> i, j |-> j, prev |-> prev, rest |-> rest, next |-> encNext]
            BY DEF Now
          <6>3. QED  BY <6>1, <6>2
        <5>3. PlaceOK(Now')
          BY <3>2, <3>3, <5>2 DEF PlaceOK, Place
        <5>4. Link(Image, Now, Now')
          BY <3>3, <4>2, <5>2 DEF Link
        <5>5. QED  BY <2>1, <4>1, <5>1, <5>3, <5>4 DEF Encoding
      <4>3. CASE ~(rest >= 8)
        <5>1. enc' = encNext /\ encNext # "write"
          BY <3>1, <3>2, <4>3 DEF TypeOK
        <5>2. Now.rest < 8
          BY <3>3, <4>3
        <5>3. QED  BY <3>1, <3>3, <4>1, <5>1, <5>2 DEF Encoding
      <4>4. QED  BY <4>2, <4>3
    <3>10. TypeOK'
      BY <2>1, <3>1, <3>2, <3>6 DEF TypeOK, decoder
    <3>11. QED  BY <2>2, <2>4, <3>1, <3>8, <3>9, <3>10 DEF RvlInv
  <2>12. CASE StartDecode
    <3>1. /\ dec = "off" /\ enc = "done" /\ UNCHANGED <<encoder, at, left, last, pos, out>>
      BY <2>12 DEF StartDecode
    <3>2. at = 0 /\ left = 0 /\ last = 0 /\ pos = 0
      BY <2>0, <3>1 DEF Decoding
    <3>3. UNCHANGED <<wrote, enc>>
      BY <3>1 DEF encoder, stream
    <3>4. CASE PixelCount > 0
      <4>1. dec' = "read" /\ value' = 0 /\ weight' = 1 /\ decNext' = "zeros"
        BY <2>12, <3>4 DEF StartDecode, ReadValue
      <4>2. wrote # <<>>
        BY <2>0, <3>1, <3>4 DEF Encoding
      <4>3. 1 \in 1..Len(wrote) /\ wrote[1] \in Place /\ First(Image, wrote[1])
        BY <2>0, <4>2 DEF Written
      <4>4. wrote[1].rest \in Nat
        BY <4>3 DEF Place
      <4>5. Codes(Image, "zeros", wrote[0 + 1], 0 + 1 * wrote[0 + 1].rest, 0, 0, 0)
        BY <4>3, <4>4 DEF First
      <4>6. Decoding'
        <5>1. 0 < Len(wrote)
          BY <4>3
        <5>2. QED  BY <2>1, <3>1, <3>2, <3>3, <4>1, <4>5, <5>1 DEF Decoding
      <4>7. TypeOK'
        BY <2>1, <3>1, <4>1 DEF TypeOK, encoder, stream
      <4>8. QED  BY <2>3, <3>1, <4>6, <4>7 DEF RvlInv
    <3>5. CASE ~(PixelCount > 0)
      <4>1. dec' = "done" /\ UNCHANGED <<value, weight, decNext>>
        BY <2>12, <3>5 DEF StartDecode, Finish
      <4>2. wrote = <<>>
        <5>1. SUFFICES ASSUME wrote # <<>> PROVE FALSE
          OBVIOUS
        <5>2. 1 \in 1..Len(wrote) /\ First(Image, wrote[1])
          BY <2>0, <5>1 DEF Written
        <5>3. QED  BY <3>5, <5>2 DEF First, Codes
      <4>3. Decoding'
        <5>1. PixelCount = 0 /\ Len(wrote) = 0
          BY <3>5, <4>2
        <5>2. QED  BY <2>1, <3>1, <3>2, <3>3, <4>1, <5>1 DEF Decoding
      <4>4. TypeOK'
        BY <2>1, <3>1, <4>1 DEF TypeOK, encoder, stream
      <4>5. QED  BY <2>3, <3>1, <4>3, <4>4 DEF RvlInv
    <3>6. QED  BY <3>4, <3>5
  <2>13. CASE ReadGroup
    <3>1. /\ dec = "read" /\ value' = value + (GroupAt(pos) % 8) * weight
          /\ weight' = weight * 8
          /\ pos' = IF pos < 2 * Len(data) THEN pos + 1 ELSE pos
          /\ dec' = IF GroupAt(pos) >= 8 THEN "read" ELSE decNext
          /\ UNCHANGED <<encoder, at, left, last, decNext, out>>
      BY <2>13 DEF ReadGroup
    <3>2. UNCHANGED <<wrote, enc>> /\ enc = "done"
      BY <2>0, <2>6, <3>1 DEF encoder, stream
    <3> DEFINE s == wrote[pos + 1]
    <3>3. /\ pos < Len(wrote) /\ weight > 0
          /\ Codes(Image, decNext, s, value + weight * s.rest, at, left, last)
      BY <2>0, <3>1 DEF Decoding
    <3>4. /\ wrote \in Seq(Place) /\ Len(wrote) \in Nat /\ pos + 1 \in 1..Len(wrote)
          /\ s \in Place /\ s.rest \in Nat
          /\ groups[pos + 1] = (s.rest % 8) + (IF s.rest >= 8 THEN 8 ELSE 0)
      <4>1. wrote \in Seq(Place) /\ Len(wrote) \in Nat /\ pos + 1 \in 1..Len(wrote)
        BY <2>0, <3>3 DEF Written
      <4>2. s \in Place
        BY <4>1
      <4>3. s.rest \in Nat
        BY <4>2 DEF Place
      <4>4. QED  BY <2>0, <4>1, <4>2, <4>3 DEF Written
    <3>5. pos' = pos + 1 /\ GroupAt(pos) % 8 = s.rest % 8 /\ (GroupAt(pos) >= 8 <=> s.rest >= 8)
      <4>1. pos < Len(groups) /\ groups \in Seq(0..15)
        BY <2>0, <3>3 DEF Written, TypeOK
      <4>2. GroupAt(pos) = groups[pos + 1] /\ pos < 2 * Len(data)
        BY <4>1, GroupsRead
      <4>3. GroupAt(pos) = (s.rest % 8) + (IF s.rest >= 8 THEN 8 ELSE 0)
        BY <3>4, <4>2
      <4>4. GroupAt(pos) % 8 = s.rest % 8 /\ (GroupAt(pos) >= 8 <=> s.rest >= 8)
        <5>1. PICK r \in Nat : r = s.rest
          BY <3>4
        <5>2. /\ ((r % 8) + (IF r >= 8 THEN 8 ELSE 0)) % 8 = r % 8
              /\ (r % 8) + (IF r >= 8 THEN 8 ELSE 0) >= 8 <=> r >= 8
          BY ThreeBits
        <5>3. GroupAt(pos) = (r % 8) + (IF r >= 8 THEN 8 ELSE 0)
          BY <4>3, <5>1
        <5>4. QED  BY <5>1, <5>2, <5>3
      <4>5. QED  BY <3>1, <4>2, <4>4
    <3>6. /\ value + weight * s.rest = value' + weight' * (s.rest \div 8)
          /\ s.rest < 8 => value + weight * s.rest = value'
          /\ weight * s.rest \in Nat
      <4>1. value' = value + (s.rest % 8) * weight /\ weight' = weight * 8 /\ value \in Nat
        BY <3>1, <3>5
      <4>2. /\ value + weight * s.rest
                 = (value + (s.rest % 8) * weight) + (weight * 8) * (s.rest \div 8)
            /\ s.rest < 8 => value + weight * s.rest = value + (s.rest % 8) * weight
            /\ weight * s.rest \in Nat
        <5>1. PICK r \in Nat : r = s.rest
          BY <3>4
        <5>2. /\ value + weight * r = (value + (r % 8) * weight) + (weight * 8) * (r \div 8)
              /\ r < 8 => value + weight * r = value + (r % 8) * weight
              /\ weight * r \in Nat
          BY <4>1, GroupMoves
        <5>3. QED  BY <5>1, <5>2
      <4>3. QED  BY <4>1, <4>2
    <3>7. value' \in 0..IntMax /\ weight' \in Nat /\ weight' > 0
      <4>1. value + weight * s.rest \in 0..IntMax
        BY <3>3, <3>4, ValueFits
      <4>2. ASSUME NEW w \in Nat, NEW r \in Nat, w > 0 PROVE w * 8 \in Nat /\ w * 8 > 0
        BY <4>2
      <4>3. weight' \in Nat /\ weight' > 0
        BY <3>1, <3>3, <4>2
      <4>4. value' \in Nat
        <5>1. s.rest % 8 \in Nat
          BY <3>4
        <5>2. ASSUME NEW v \in Nat, NEW m \in Nat, NEW w \in Nat PROVE v + m * w \in Nat
          OBVIOUS
        <5>3. QED  BY <3>1, <3>5, <5>1, <5>2
      <4>5. weight' * (s.rest \div 8) \in Nat
        <5>1. s.rest \div 8 \in Nat
          BY <3>4, ThreeBits
        <5>2. \A a, b \in Nat : a * b \in Nat
          OBVIOUS
        <5>3. QED  BY <4>3, <5>1, <5>2
      <4>6. ASSUME NEW v1 \in Nat, NEW y \in Nat, v1 + y \in 0..IntMax PROVE v1 \in 0..IntMax
        BY <4>6
      <4>7. QED  BY <3>6, <4>1, <4>3, <4>4, <4>5, <4>6
    <3>8. CASE s.rest >= 8
      <4>1. dec' = "read"
        BY <3>1, <3>5, <3>8
      <4>2. pos + 1 < Len(wrote)
        <5>1. SUFFICES ASSUME pos + 1 = Len(wrote) PROVE FALSE
          BY <3>4
        <5>2. s.rest < 8
          BY <2>0, <3>2, <3>4, <5>1 DEF Encoding
        <5>3. QED  BY <3>4, <3>8, <5>2
      <4>3. Link(Image, s, wrote[(pos + 1) + 1])
        <5>1. (pos + 1) + 1 \in 1..Len(wrote) /\ (pos + 1) + 1 # 1 /\ ((pos + 1) + 1) - 1 = pos + 1
          BY <3>4, <4>2, TwoOn
        <5>2. QED  BY <2>0, <5>1 DEF Written
      <4>4. wrote[(pos + 1) + 1] = [s EXCEPT !.rest = s.rest \div 8]
        BY <3>8, <4>3 DEF Link
      <4> DEFINE t == wrote[(pos + 1) + 1]
      <4>5. /\ t.i = s.i /\ t.j = s.j /\ t.prev = s.prev /\ t.next = s.next
            /\ t.rest = s.rest \div 8
        BY <3>4, <4>4 DEF Place
      <4>6. Codes(Image, decNext, t, value + weight * s.rest, at, left, last)
        BY <3>3, <4>5 DEF Codes
      <4>7. Codes(Image, decNext, t, value' + weight' * t.rest, at, left, last)
        BY <3>6, <4>5, <4>6
      <4>8. Decoding'
        BY <2>0, <2>1, <3>1, <3>2, <3>5, <3>7, <4>1, <4>2, <4>7 DEF Decoding
      <4> HIDE DEF t, s
      <4>9. TypeOK'
        BY <2>1, <3>1, <3>5, <3>7, <4>1 DEF TypeOK, encoder, stream
      <4>10. QED  BY <2>3, <3>1, <4>8, <4>9 DEF RvlInv
    <3>9. CASE ~(s.rest >= 8)
      <4>1. dec' = decNext /\ decNext \in {"zeros", "nonzeros", "delta"}
        BY <3>1, <3>5, <3>9 DEF TypeOK
      <4>2. Codes(Image, decNext, s, value', at, left, last)
        <5>1. value + weight * s.rest = value'
          BY <3>4, <3>6, <3>9
        <5>2. QED  BY <3>3, <5>1
      <4>3. Decoding'
        <5>1. s.rest < 8
          BY <3>4, <3>9
        <5>2. QED  BY <2>0, <2>1, <3>1, <3>2, <3>4, <3>5, <4>1, <4>2, <5>1 DEF Decoding
      <4> HIDE DEF s
      <4>4. TypeOK'
        <5>1. pos' \in Nat /\ dec' \in {"zeros", "nonzeros", "delta"}
          BY <3>5, <4>1
        <5>2. QED  BY <2>1, <3>1, <3>7, <5>1 DEF TypeOK, encoder, stream
      <4>5. QED  BY <2>3, <3>1, <4>3, <4>4 DEF RvlInv
    <3>10. QED  BY <3>8, <3>9
  <2>14. CASE FillZeros
    <3>1. /\ dec = "zeros"
          /\ at' = IF at + value <= PixelCount THEN at + value ELSE PixelCount
          /\ out' = [p \in Pixel |-> IF at <= p /\ p < at' THEN 0 ELSE out[p]]
          /\ UNCHANGED <<encoder, left, last, pos>>
      BY <2>14 DEF FillZeros
    <3>2. UNCHANGED <<wrote, enc>> /\ enc = "done"
      BY <2>0, <2>6, <3>1 DEF encoder, stream
    <3> DEFINE s == wrote[pos]
    <3>3. pos \in 1..Len(wrote) /\ s.rest < 8 /\ Codes(Image, "zeros", s, value, at, left, last)
      BY <2>0, <3>1 DEF Decoding
    <3>4. /\ at \in Pixel /\ s.i \in at..PixelCount /\ value = s.i - at /\ s.prev = last
          /\ \A q \in at..(s.i - 1) : Image[q] = 0
          /\ s.next = IF s.i < PixelCount THEN "nonzeros" ELSE "done"
      BY <3>3 DEF Codes
    <3>5. at' = s.i /\ at' \in 0..PixelCount /\ at <= at'
      BY <3>1, <3>4
    <3>6. out' \in [Pixel -> 0..PixelMax] /\ \A p \in Pixel : p < at' => out'[p] = Image[p]
      <4>1. out' \in [Pixel -> 0..PixelMax]
        BY <3>1 DEF TypeOK
      <4>2. ASSUME NEW p \in Pixel, p < s.i PROVE out'[p] = Image[p]
        <5>1. CASE p < at
          BY <2>0, <3>1, <3>5, <5>1 DEF Decoding
        <5>2. CASE ~(p < at)
          BY <3>1, <3>4, <3>5, <4>2, <5>2
        <5>3. QED  BY <5>1, <5>2
      <4>3. QED  BY <3>5, <4>1, <4>2
    <3>7. CASE at' < PixelCount
      <4>1. dec' = "read" /\ value' = 0 /\ weight' = 1 /\ decNext' = "nonzeros"
        BY <2>14, <3>7 DEF FillZeros, ReadValue
      <4>2. /\ pos < Len(wrote)
            /\ Codes(Image, StepAfter(s), wrote[pos + 1], wrote[pos + 1].rest, s.i, s.j - s.i,
                     s.prev)
        BY <2>0, <3>2, <3>3, <3>5, <3>7, NextValue
      <4>3. StepAfter(s) = "nonzeros"
        BY <3>4, <3>5, <3>7 DEF StepAfter
      <4>4. wrote[pos + 1].rest = 0 + 1 * wrote[pos + 1].rest
        <5>1. wrote[pos + 1] \in Place
          BY <2>0, <3>3, <4>2 DEF Written
        <5>2. QED  BY <5>1 DEF Place
      <4>5. Codes(Image, "nonzeros", wrote[pos + 1], 0 + 1 * wrote[pos + 1].rest, s.i, left, last)
        BY <3>4, <4>2, <4>3, <4>4, LengthsIgnoreLeft
      <4>6. Decoding'
        BY <2>1, <3>1, <3>2, <3>5, <3>6, <4>1, <4>2, <4>5 DEF Decoding
      <4>7. TypeOK'
        BY <2>1, <3>1, <3>5, <3>6, <4>1 DEF TypeOK, encoder, stream
      <4>8. QED  BY <2>3, <3>1, <4>6, <4>7 DEF RvlInv
    <3>8. CASE ~(at' < PixelCount)
      <4>1. dec' = "done" /\ UNCHANGED <<value, weight, decNext>>
        BY <2>14, <3>8 DEF FillZeros, Finish
      <4>2. s.i >= PixelCount /\ at' = PixelCount
        BY <3>5, <3>8
      <4>3. pos = Len(wrote)
        BY <2>0, <3>2, <3>3, <4>2, NextValue
      <4>4. Decoding'
        BY <2>1, <3>1, <3>2, <3>6, <4>1, <4>2, <4>3 DEF Decoding
      <4>5. TypeOK'
        BY <2>1, <3>1, <3>5, <3>6, <4>1 DEF TypeOK, encoder, stream
      <4>6. QED  BY <2>3, <3>1, <4>4, <4>5 DEF RvlInv
    <3>9. QED  BY <3>7, <3>8
  <2>15. CASE ReadNonzeros
    <3>1. /\ dec = "nonzeros" /\ left' = value
          /\ dec' = "read" /\ value' = 0 /\ weight' = 1
          /\ decNext' = IF left' > 0 THEN "delta" ELSE "zeros"
          /\ UNCHANGED <<encoder, at, last, pos, out>>
      BY <2>15 DEF ReadNonzeros, ReadValue
    <3>2. UNCHANGED <<wrote, enc>> /\ enc = "done"
      BY <2>0, <2>6, <3>1 DEF encoder, stream
    <3> DEFINE s == wrote[pos]
    <3>3. /\ pos \in 1..Len(wrote) /\ s.rest < 8
          /\ Codes(Image, "nonzeros", s, value, at, left, last)
      BY <2>0, <3>1 DEF Decoding
    <3>4. /\ at \in Pixel /\ s.i = at /\ s.j \in at..PixelCount /\ value = s.j - at
          /\ s.prev = last /\ s.next = "deltas"
      BY <3>3 DEF Codes
    <3>5. /\ pos < Len(wrote)
          /\ Codes(Image, StepAfter(s), wrote[pos + 1], wrote[pos + 1].rest, at, value, last)
      BY <2>0, <3>2, <3>3, <3>4, NextValue
    <3>6. StepAfter(s) = decNext'
      BY <3>1, <3>4 DEF StepAfter
    <3>7. wrote[pos + 1].rest = 0 + 1 * wrote[pos + 1].rest
      <4>1. wrote[pos + 1] \in Place
        BY <2>0, <3>3, <3>5 DEF Written
      <4>2. QED  BY <4>1 DEF Place
    <3>8. Codes(Image, decNext', wrote[pos + 1], 0 + 1 * wrote[pos + 1].rest, at, left', last)
      BY <3>1, <3>5, <3>6, <3>7
    <3>9. Decoding'
      BY <2>0, <2>1, <3>1, <3>2, <3>5, <3>8 DEF Decoding
    <3>10. TypeOK'
      BY <2>1, <3>1 DEF TypeOK, encoder, stream
    <3>11. QED  BY <2>3, <3>1, <3>9, <3>10 DEF RvlInv
  <2>16. CASE ReadDelta
    <3>1. /\ dec = "delta" /\ last' = (last + Unzigzag(value)) % (PixelMax + 1)
          /\ out' = [out EXCEPT ![at] = last'] /\ at' = at + 1 /\ left' = left - 1
          /\ UNCHANGED <<encoder, pos>>
      BY <2>16 DEF ReadDelta
    <3>2. UNCHANGED <<wrote, enc>> /\ enc = "done"
      BY <2>0, <2>6, <3>1 DEF encoder, stream
    <3> DEFINE s == wrote[pos]
    <3>3. /\ pos \in 1..Len(wrote) /\ s.rest < 8 /\ Codes(Image, "delta", s, value, at, left, last)
      BY <2>0, <3>1 DEF Decoding
    <3>4. /\ at \in Pixel /\ s.i = at + 1 /\ s.j = at + left /\ left > 0 /\ s.j <= PixelCount
          /\ s.prev = Image[at] /\ value = Zigzag(s.prev - last) /\ s.next = "deltas"
      BY <3>3 DEF Codes
    <3>5. last' = s.prev /\ last' \in 0..PixelMax
      <4>1. s.prev \in 0..PixelMax
        BY <3>4
      <4>2. Unzigzag(value) = s.prev - last
        BY <3>4, <4>1, ZigzagInverse
      <4>3. ASSUME NEW x \in 0..PixelMax, NEW y \in 0..PixelMax
            PROVE  (y + (x - y)) % (PixelMax + 1) = x
        OBVIOUS
      <4>4. QED  BY <3>1, <4>1, <4>2, <4>3
    <3>6. /\ at' = s.i /\ at' \in 0..PixelCount /\ left' = s.j - s.i /\ left' \in 0..IntMax
      BY <3>1, <3>4
    <3>7. out' \in [Pixel -> 0..PixelMax] /\ \A p \in Pixel : p < at' => out'[p] = Image[p]
      <4>1. out' \in [Pixel -> 0..PixelMax]
        BY <3>1, <3>5 DEF TypeOK
      <4>2. ASSUME NEW p \in Pixel, p < at + 1 PROVE out'[p] = Image[p]
        <5>1. CASE p < at
          BY <2>0, <3>1, <5>1 DEF Decoding, TypeOK
        <5>2. CASE p = at
          BY <3>1, <3>4, <3>5, <5>2 DEF TypeOK
        <5>3. QED  BY <4>2, <5>1, <5>2
      <4>3. QED  BY <3>1, <4>1, <4>2
    <3>8. CASE at' < PixelCount
      <4>1. /\ dec' = "read" /\ value' = 0 /\ weight' = 1
            /\ decNext' = IF left' > 0 THEN "delta" ELSE "zeros"
        BY <2>16, <3>8 DEF ReadDelta, ReadValue
      <4>2. /\ pos < Len(wrote)
            /\ Codes(Image, StepAfter(s), wrote[pos + 1], wrote[pos + 1].rest, s.i, s.j - s.i,
                     s.prev)
        BY <2>0, <3>2, <3>3, <3>6, <3>8, NextValue
      <4>3. StepAfter(s) = decNext'
        BY <3>4, <3>6, <4>1 DEF StepAfter
      <4>4. wrote[pos + 1].rest = 0 + 1 * wrote[pos + 1].rest
        <5>1. wrote[pos + 1] \in Place
          BY <2>0, <3>3, <4>2 DEF Written
        <5>2. QED  BY <5>1 DEF Place
      <4>5. Codes(Image, decNext', wrote[pos + 1], 0 + 1 * wrote[pos + 1].rest, at', left', last')
        BY <3>5, <3>6, <4>2, <4>3, <4>4
      <4>6. Decoding'
        BY <2>1, <3>1, <3>2, <3>7, <4>1, <4>2, <4>5 DEF Decoding
      <4>7. TypeOK'
        BY <2>1, <3>1, <3>5, <3>6, <3>7, <4>1 DEF TypeOK, encoder, stream
      <4>8. QED  BY <2>3, <3>1, <4>6, <4>7 DEF RvlInv
    <3>9. CASE ~(at' < PixelCount)
      <4>1. dec' = "done" /\ UNCHANGED <<value, weight, decNext>>
        BY <2>16, <3>6, <3>9 DEF ReadDelta, Finish
      <4>2. s.i >= PixelCount /\ at' = PixelCount
        BY <3>6, <3>9
      <4>3. pos = Len(wrote)
        BY <2>0, <3>2, <3>3, <4>2, NextValue
      <4>4. Decoding'
        BY <2>1, <3>1, <3>2, <3>7, <4>1, <4>2, <4>3 DEF Decoding
      <4>5. TypeOK'
        BY <2>1, <3>1, <3>5, <3>6, <3>7, <4>1 DEF TypeOK, encoder, stream
      <4>6. QED  BY <2>3, <3>1, <4>4, <4>5 DEF RvlInv
    <3>10. QED  BY <3>8, <3>9
  <2>17. CASE Decoded \/ UNCHANGED vars
    <3>1. UNCHANGED <<frame, encoder, decoder>>
      BY <2>17 DEF Decoded, vars
    <3>2. Decoding'
      BY <2>0, <2>1, <3>1 DEF Decoding, decoder, encoder, stream
    <3>3. TypeOK'
      BY <3>1 DEF TypeOK, decoder, encoder, stream
    <3>4. QED  BY <2>3, <3>1, <3>2, <3>3 DEF RvlInv
  <2>18. QED
    BY <2>7, <2>8, <2>9, <2>10, <2>11, <2>12, <2>13, <2>14, <2>15, <2>16, <2>17 DEF Next
<1>3. QED  BY <1>1, <1>2, PTL DEF Spec

\* Every variable stays in its type, and no value is beyond an int.
THEOREM RvlTypeCorrect == Spec => []TypeOK
  BY RvlInvariant, PTL

\* depth_decoder.hpp:13-14: the decoder is the exact inverse of the encoder.
\* Every pixel of the captured image comes back, whatever the lengths of the
\* runs, the differences, the stride and the parity of the stream.
THEOREM RvlRoundTrip == Spec => []RoundTrip
<1>1. TypeOK /\ RvlInv => RoundTrip
  <2> SUFFICES ASSUME TypeOK, RvlInv, dec = "done", NEW r \in Row, NEW c \in Column
               PROVE  out[r * Width + c] = frame[r][c]
    BY DEF RoundTrip
  <2> DEFINE p == r * Width + c
  <2>1. p \in Pixel /\ p \div Width = r /\ p % Width = c
    BY PlacePixel
  <2>2. p < at
    BY <2>1, RvlTypes DEF RvlInv, Decoding
  <2>3. out[p] = Image[p] /\ Image[p] = Depth(p)
    BY <2>1, <2>2 DEF RvlInv, Decoding, Image
  <2>4. Depth(p) = frame[r][c]
    BY <2>1 DEF Depth
  <2>5. QED  BY <2>3, <2>4
<1>2. QED  BY <1>1, RvlInvariant, PTL

\* The decoder reads every group that was written and no other: it neither
\* takes the padding for a value nor runs past the end, where BitReader makes
\* up zeros.
THEOREM RvlConsumesExactly == Spec => []ConsumesExactly
<1>1. RvlInv => ConsumesExactly
  BY DEF RvlInv, Written, Decoding, ConsumesExactly
<1>2. QED  BY <1>1, RvlInvariant, PTL

-----------------------------------------------------------------------------
\* H264Encoder::bgr8_to_i420.

\* The average of four bytes is a byte.
LEMMA AverageIsByte ==
    ASSUME NEW a \in Byte, NEW b \in Byte, NEW c \in Byte, NEW d \in Byte
    PROVE  Average(a, b, c, d) \in Byte
  BY DEF Average, Byte

\* No cast wraps: every luma sample is in the range that video players call
\* limited (h264_encoder.cpp:119).
THEOREM LumaInRange ==
    ASSUME NEW r \in Byte, NEW g \in Byte, NEW b \in Byte
    PROVE  Luma(r, g, b) \in 16..235
<1> DEFINE x == 66 * r + 129 * g + 25 * b + 128
<1>1. x \in Int /\ 0 <= x /\ x <= 56255
  BY DEF Byte
<1>2. Luma(r, g, b) = (x \div 256) + 16
  BY DEF Luma
<1> HIDE DEF x
<1>3. (x \div 256) \in 0..219
  BY <1>1
<1> QED
  BY <1>2, <1>3

\* Nor do the casts of the chroma samples, whose sums may be negative, for
\* any four pixels (h264_encoder.cpp:134-139).
THEOREM ChromaInRange ==
    ASSUME NEW r00 \in Byte, NEW r01 \in Byte, NEW r10 \in Byte, NEW r11 \in Byte,
           NEW g00 \in Byte, NEW g01 \in Byte, NEW g10 \in Byte, NEW g11 \in Byte,
           NEW b00 \in Byte, NEW b01 \in Byte, NEW b10 \in Byte, NEW b11 \in Byte
    PROVE  LET r == Average(r00, r01, r10, r11)
               g == Average(g00, g01, g10, g11)
               b == Average(b00, b01, b10, b11)
           IN  ChromaU(r, g, b) \in 16..240 /\ ChromaV(r, g, b) \in 16..240
<1> DEFINE r == Average(r00, r01, r10, r11)
           g == Average(g00, g01, g10, g11)
           b == Average(b00, b01, b10, b11)
<1>1. r \in Byte /\ g \in Byte /\ b \in Byte
  BY AverageIsByte
<1> HIDE DEF r, g, b
<1> DEFINE u == 112 * b - 38 * r - 74 * g + 128
           v == 112 * r - 94 * g - 18 * b + 128
<1>2. u \in Int /\ 0 - 28432 <= u /\ u <= 28688
  BY <1>1 DEF Byte
<1>3. v \in Int /\ 0 - 28432 <= v /\ v <= 28688
  BY <1>1 DEF Byte
<1>4. ChromaU(r, g, b) = (u \div 256) + 128 /\ ChromaV(r, g, b) = (v \div 256) + 128
  BY DEF ChromaU, ChromaV
<1> HIDE DEF u, v
<1>5. ChromaU(r, g, b) \in 16..240
  BY <1>2, <1>4
<1>6. ChromaV(r, g, b) \in 16..240
  BY <1>3, <1>4
<1> QED
  BY <1>5, <1>6 DEF r, g, b

\* The chroma loops stay inside the image and fill the planes exactly, for
\* every height and every even width.  (The loops are h264_encoder.cpp:122-130; an
\* odd size does not come to them, x264 refuses to open a 4:2:0 encoder for it.)
THEOREM ChromaStaysInside ==
    ASSUME NEW width \in Nat, width % 2 = 0, NEW height \in Nat,
           NEW col \in ChromaColumns(width), NEW row \in ChromaRows(height)
    PROVE  /\ col + 1 < width /\ LowerRow(row, height) < height
           /\ col \div 2 \in 0..(width \div 2 - 1)
           /\ row \div 2 \in 0..((height + 1) \div 2 - 1)
  BY DEF ChromaColumns, ChromaRows, LowerRow
=============================================================================
