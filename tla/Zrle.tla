-------------------------------- MODULE Zrle --------------------------------
(***************************************************************************)
(* hdmicap's pixel formats, as functions checked against a reference:      *)
(* the ZRLE tile encoder against a decoder, the CPIXEL of every pixel      *)
(* format a viewer may ask for, and the unpadding of NV12 frames.          *)
(***************************************************************************)
EXTENDS Integers, Sequences, FiniteSets, SequencesExt, Folds

CONSTANTS TileW, TileH,   \* TILE
          Colours,
          Full,           \* 255: the run-length byte that continues
          PaletteMax,     \* 127
          PackedMax,      \* 16
          Strides         \* row strides tried for NV12

ASSUME ZrleAssumption == {TileW, TileH, Full, PaletteMax, PackedMax} \subseteq Nat \ {0}

VARIABLE sample  \* the case: a tile's pixels, a pixel format, or an NV12 layout

Formats == { f \in [shifts : [1..3 -> {0, 8, 16, 24}], big : BOOLEAN, depth : {24, 32}] :
               \A i, j \in 1..3 : i # j => f.shifts[i] # f.shifts[j] }
Layouts == [w : {2, 4}, h : 1..3, stride : Strides]
ZrleInit ==
  \/ sample \in [kind : {"tile"}, it : [1..(TileW * TileH) -> Colours]]
  \/ sample \in [kind : {"format"}, it : Formats]
  \/ sample \in [kind : {"nv12"}, it : { l \in Layouts : l.stride >= l.w }]

(***************************************************************************)
(* Pixel formats: which byte of the four a channel is, and which is left   *)
(* out.                                                                    *)
(***************************************************************************)
WireByte(f, s) == IF f.big THEN 3 - s \div 8 ELSE s \div 8
Used(f) == { f.shifts[i] : i \in 1..3 }
CpixelSkip(f) ==
  IF f.depth > 24 THEN -1
  ELSE IF 24 \notin Used(f) THEN (IF f.big THEN 0 ELSE 3)
  ELSE IF 0 \notin Used(f) THEN (IF f.big THEN 3 ELSE 0)
  ELSE -1

(***************************************************************************)
(* A tile: the cheapest of its encodings.                                  *)
(***************************************************************************)
Runs(px) ==
  FoldLeft(LAMBDA rs, c :
    IF rs # << >> /\ rs[Len(rs)].c = c THEN [rs EXCEPT ![Len(rs)].n = @ + 1] ELSE Append(rs, [c |-> c, n |-> 1]),
    << >>, px)
Palette(px) == FoldLeft(LAMBDA p, c : IF c \in ToSet(p) THEN p ELSE Append(p, c), << >>, px)
HasPalette(px) == Cardinality(ToSet(px)) <= PaletteMax
IndexOf(p, c) == (CHOOSE i \in 1..Len(p) : p[i] = c) - 1

RunLenBytes(n) == (n - 1) \div Full + 1
PushRunLen(n) == [i \in 1..((n - 1) \div Full) |-> Full] \o <<(n - 1) % Full>>

Bits(n) == IF n = 2 THEN 1 ELSE IF n \in 3..4 THEN 2 ELSE 4
SumOf(s) == FoldLeft(LAMBDA a, b : a + b, 0, s)
Concat(ss) == FoldLeft(LAMBDA a, b : a \o b, << >>, ss)
Up(a, b) == (a + b - 1) \div b
Each(s, F(_)) == [i \in 1..Len(s) |-> F(s[i])]

RawSize(px, cp) == 1 + Len(px) * cp
PlainRleSize(px, cp) == 1 + SumOf(Each(Runs(px), LAMBDA r : cp + RunLenBytes(r.n)))
PackedSize(px, cp) == LET n == Len(Palette(px)) IN 1 + n * cp + TileH * Up(TileW * Bits(n), 8)
PaletteRleSize(px, cp) ==
  1 + Len(Palette(px)) * cp + SumOf(Each(Runs(px), LAMBDA r : IF r.n = 1 THEN 1 ELSE 1 + RunLenBytes(r.n)))

\* The forms in the order they are tried; a later one must be strictly smaller.
Candidates(px, cp) ==
  << <<"raw", RawSize(px, cp)>>, <<"plain", PlainRleSize(px, cp)>> >>
  \o (IF HasPalette(px) /\ Len(Palette(px)) <= PackedMax THEN << <<"packed", PackedSize(px, cp)>> >> ELSE << >>)
  \o (IF HasPalette(px) THEN << <<"palette", PaletteRleSize(px, cp)>> >> ELSE << >>)
Best(px, cp) == FoldLeft(LAMBDA b, k : IF k[2] < b[2] THEN k ELSE b, <<"raw", RawSize(px, cp)>>, Candidates(px, cp))

\* A row of palette indices in bytes, the last one filled up from the left; a byte here is
\* the sequence of the indices in it.
PackRow(row, b) ==
  [k \in 1..Up(Len(row) * b, 8) |->
     [j \in 1..(8 \div b) |-> LET i == (k - 1) * (8 \div b) + j IN IF i <= Len(row) THEN row[i] ELSE 0]]
Row(px, r) == SubSeq(px, (r - 1) * TileW + 1, r * TileW)

\* encode_tile: a sequence of values, a CPIXEL being one.
EncodeTile(px, cp) ==
  LET rs == Runs(px)
      p == Palette(px)
      kind == Best(px, cp)[1]
  IN IF Len(rs) = 1 THEN <<1, px[1]>>
     ELSE IF kind = "raw" THEN <<0>> \o px
     ELSE IF kind = "plain" THEN <<128>> \o Concat(Each(rs, LAMBDA r : <<r.c>> \o PushRunLen(r.n)))
     ELSE IF kind = "packed" THEN
       <<Len(p)>> \o p
         \o Concat([r \in 1..TileH |-> PackRow(Each(Row(px, r), LAMBDA c : IndexOf(p, c)), Bits(Len(p)))])
     ELSE <<128 + Len(p)>> \o p
          \o Concat(Each(rs, LAMBDA r : IF r.n = 1 THEN <<IndexOf(p, r.c)>>
                                        ELSE <<IndexOf(p, r.c) + 128>> \o PushRunLen(r.n)))

(***************************************************************************)
(* The reference: a viewer's decoder.                                      *)
(***************************************************************************)
\* Run[i]: the length that starts at i, and where what follows it starts.
ReadRun(s, i) ==
  LET last == CHOOSE j \in i..Len(s) : s[j] # Full /\ \A k \in i..(j - 1) : s[k] = Full
  IN [n |-> SumOf(SubSeq(s, i, last)) + 1, next |-> last + 1]
Repeat(c, n) == [i \in 1..n |-> c]
Decode(s) ==
  LET sub == s[1]
      n == IF sub > 128 THEN sub - 128 ELSE sub
      pal == SubSeq(s, 2, n + 1)
      Plain[i \in 1..(Len(s) + 1)] ==
        IF i > Len(s) THEN << >>
        ELSE LET r == ReadRun(s, i + 1) IN Repeat(s[i], r.n) \o Plain[r.next]
      Rle[i \in 1..(Len(s) + 1)] ==
        IF i > Len(s) THEN << >>
        ELSE IF s[i] < 128 THEN <<pal[s[i] + 1]>> \o Rle[i + 1]
        ELSE LET r == ReadRun(s, i + 1) IN Repeat(pal[s[i] - 127], r.n) \o Rle[r.next]
      per == 8 \div Bits(n)
      rowBytes == Up(TileW, per)
  IN IF sub = 0 THEN SubSeq(s, 2, Len(s))
     ELSE IF sub = 1 THEN Repeat(s[2], TileW * TileH)
     ELSE IF sub = 128 THEN Plain[2]
     ELSE IF sub > 128 THEN Rle[n + 2]
     ELSE [i \in 1..(TileW * TileH) |->
             LET r == (i - 1) \div TileW
                 c == (i - 1) % TileW
             IN pal[s[n + 2 + r * rowBytes + c \div per][(c % per) + 1] + 1]]

(***************************************************************************)
(* NV12: rows padded to a stride, luma rows then chroma rows.              *)
(***************************************************************************)
ChromaRows(l) == Up(l.h, 2)
\* The buffer's bytes are their own offsets, so that an index tells where a byte came from.
Buffer(l) == [i \in 0..(l.stride * (l.h + ChromaRows(l)) - 1) |-> i]
CompactNv12(l) ==
  [y |-> [i \in 0..(l.w * l.h - 1) |-> Buffer(l)[(i \div l.w) * l.stride + (i % l.w)]],
   cbcr |-> [i \in 0..(l.w * ChromaRows(l) - 1) |-> Buffer(l)[l.stride * l.h + (i \div l.w) * l.stride + (i % l.w)]]]
\* nv12_to_rgb: the luma and the chroma pair that make the pixel at row, col.
Nv12At(l, row, col) ==
  LET ci == (row \div 2) * l.w + (col - (col % 2))
  IN <<CompactNv12(l).y[row * l.w + col], CompactNv12(l).cbcr[ci], CompactNv12(l).cbcr[ci + 1]>>

(***************************************************************************)
(* What is checked of each case.                                           *)
(***************************************************************************)
\* A viewer decodes the tile that was encoded, whichever form was the cheapest: runs that
\* fill a length byte exactly, rows that do not fill theirs, palettes at their limit.
TileRoundTrips == sample.kind = "tile" => \A cp \in {3, 4} : Decode(EncodeTile(sample.it, cp)) = sample.it

\* The size a form is chosen by is the size it has: the choice is the cheapest.
EncodedSize(px, cp) ==
  LET e == EncodeTile(px, cp)
      colours == IF e[1] = 0 THEN Len(px) ELSE IF e[1] = 1 THEN 1 ELSE IF e[1] = 128 THEN Len(Runs(px)) ELSE Len(Palette(px))
  IN Len(e) + colours * (cp - 1)
ChosenBySize ==
  sample.kind = "tile" /\ Len(Runs(sample.it)) > 1 =>
    \A cp \in {3, 4} : EncodedSize(sample.it, cp) = Best(sample.it, cp)[2]

\* The byte a CPIXEL leaves out is never a colour's, in any format that is accepted.
CpixelKeepsColour ==
  sample.kind = "format" => \A i \in 1..3 : WireByte(sample.it, sample.it.shifts[i]) # CpixelSkip(sample.it)

\* Every pixel of a padded frame gets its own luma and its block's chroma.
Nv12IsUnpadded ==
  sample.kind = "nv12" =>
    \A row \in 0..(sample.it.h - 1), col \in 0..(sample.it.w - 1) :
      LET l == sample.it
          chroma == l.stride * (l.h + row \div 2) + (col - (col % 2))
      IN Nv12At(l, row, col) = <<row * l.stride + col, chroma, chroma + 1>>
=============================================================================
