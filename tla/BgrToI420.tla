----------------------------- MODULE BgrToI420 ------------------------------
(***************************************************************************)
(* H264Encoder::bgr8_to_i420: integer arithmetic that turns a BGR image     *)
(* into the planes x264 encodes.  Its casts to uint8_t would wrap silently, *)
(* and its chroma loop takes two columns at a time.                         *)
(***************************************************************************)
EXTENDS Integers

Byte == 0..255

\* >> 8 rounds towards minus infinity, as \div does.
Luma(r, g, b) == ((66 * r + 129 * g + 25 * b + 128) \div 256) + 16
ChromaU(r, g, b) == ((112 * b - 38 * r - 74 * g + 128) \div 256) + 128
ChromaV(r, g, b) == ((112 * r - 94 * g - 18 * b + 128) \div 256) + 128

\* Of a square of four pixels.
Average(p00, p01, p10, p11) == (p00 + p01 + p10 + p11 + 2) \div 4

\* The columns and rows that the chroma loops visit, and the lower row.
ChromaColumns(width) == {col \in 0..(width - 1) : col % 2 = 0}
ChromaRows(height) == {row \in 0..(height - 1) : row % 2 = 0}
LowerRow(row, height) == IF row + 1 < height THEN row + 1 ELSE row
=============================================================================
