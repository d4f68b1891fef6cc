------------------------------ MODULE PngReader -------------------------------
(****************************************************************************)
(* A reader of the files PngWriter writes, from the formats' definitions and   *)
(* without the writer's tables, and that it reads what was written: every      *)
(* writer of a format whose reader is somebody else's program owes it that.    *)
(****************************************************************************)
EXTENDS Integers, Sequences, SequencesExt, FiniteSetsExt

Writer == INSTANCE PngWriter

\* The value of count bits at place p, low bit first, or of a code, high bit first.
ValueAt(bits, p, count) == FoldLeft(LAMBDA v, k : 2 * v + bits[p + count - k], 0,
                                          [k \in 1..count |-> k])
CodeAt(bits, p, count) == FoldLeft(LAMBDA v, k : 2 * v + bits[p + k - 1], 0,
                                         [k \in 1..count |-> k])

\* The symbol at p and the bits it takes.
SymbolAt(bits, p) ==
    LET c7 == CodeAt(bits, p, 7)
        c8 == CodeAt(bits, p, 8)
    IN  IF c7 < 24 THEN [symbol |-> 256 + c7, bits |-> 7]
        ELSE IF c8 < 192 THEN [symbol |-> c8 - 48, bits |-> 8]
        ELSE IF c8 < 200 THEN [symbol |-> 280 + c8 - 192, bits |-> 8]
        ELSE [symbol |-> 144 + CodeAt(bits, p, 9) - 400, bits |-> 9]

\* The ranges that the length codes and the distance codes stand for.
LengthCode(n) ==
    IF n < 8 THEN [base |-> n + 3, extra |-> 0]
    ELSE IF n = 28 THEN [base |-> 258, extra |-> 0]
    ELSE LET e == (n - 4) \div 4 IN [base |-> (4 + (n % 4)) * 2^e + 3, extra |-> e]
DistanceCode(n) ==
    IF n < 4 THEN [base |-> n + 1, extra |-> 0]
    ELSE LET e == (n - 2) \div 2 IN [base |-> (2 + (n % 2)) * 2^e + 1, extra |-> e]

\* out followed by length bytes, each a copy of the one distance before it.
Copied(out, distance, length) ==
    out \o [k \in 1..length |-> out[Len(out) - distance + 1 + ((k - 1) % distance)]]

RECURSIVE InflateFrom(_, _, _)
InflateFrom(bits, p, out) ==
    LET s == SymbolAt(bits, p)
        length == LengthCode(s.symbol - 257)
        p1 == p + s.bits
        p2 == p1 + length.extra
        distance == DistanceCode(CodeAt(bits, p2, 5))
    IN  CASE s.symbol < 256 -> InflateFrom(bits, p1, Append(out, s.symbol))
          [] s.symbol = 256 -> out
          [] s.symbol > 256 ->
               InflateFrom(bits, p2 + 5 + distance.extra,
                           Copied(out, distance.base + ValueAt(bits, p2 + 5, distance.extra),
                                  length.base + ValueAt(bits, p1, length.extra)))

\* A final block of fixed codes.
Inflate(bytes) ==
    LET bits == FlattenSeq([n \in 1..Len(bytes) |-> [k \in 1..8 |-> (bytes[n] \div 2^(k - 1)) % 2]])
        padded == bits \o [k \in 1..16 |-> 0]
    IN  IF SubSeq(bits, 1, 3) = <<1, 1, 0>> THEN InflateFrom(padded, 4, <<>>) ELSE <<>>

\* Bytes whose matches are where they are looked for: no three of them in a row occur twice.
Varied(length) == [k \in 1..length |-> (k * k + 7 * (k \div 16) + k \div 3) % 251]

Inputs ==
    SeqOf({0, 255}, 6)
      \cup {[k \in 1..n |-> 9] : n \in {257, 258, 259, 260, 262, 515, 520}}
      \cup {Varied(12) \o [k \in 1..n |-> 9] \o SubSeq(Varied(12), 1, 5)
               : n \in {0, 1, 12, 13, 52, 53, 84, 85, 116, 117, 180, 181, 244, 245}}
      \cup {Varied(15) \o SubSeq(Varied(15), 3, 3 + n) \o <<200, 1>> : n \in 0..12}
      \cup {[k \in 1..(300 + n) |-> (k % 3) * 100] : n \in 0..12}
      \cup {<<1, 2, 3, 4, 5, 1, 2, 3, 9, 1, 2, 3, 4, 5, n>> : n \in 6..9}

\* What is compressed comes back, whatever repeats in it and at whatever distance, past
\* the longest match, overlapping itself, and at the end of the data.
ASSUME CompressionIsLossless == \A data \in Inputs : Inflate(Writer!Deflate(data)) = data

\* And repetition is found: a long run takes few bytes.
ASSUME RunsAreShort == Len(Writer!Deflate([k \in 1..520 |-> 9])) <= 10

\* The tables are the format's, at every entry, and the codes take apart what they put
\* together, at the lengths and distances where an entry begins and ends.
ASSUME TablesAreTheFormats ==
    /\ \A n \in 0..28 : LengthCode(n) = [base |-> Writer!LengthBase[n + 1],
                                         extra |-> Writer!LengthExtra[n + 1]]
    /\ \A n \in 0..29 : DistanceCode(n) = [base |-> Writer!DistanceBase[n + 1],
                                           extra |-> Writer!DistanceExtra[n + 1]]
    /\ \A length \in 3..258 :
          LET n == Writer!Entry(Writer!LengthBase, length) IN
          length - Writer!LengthBase[n] < 2^Writer!LengthExtra[n]
    /\ \A k \in 1..15, off \in {-1, 0, 1} :
          LET distance == Max({1, Min({32768, 2^k + off})})
              n == Writer!Entry(Writer!DistanceBase, distance)
          IN  distance - Writer!DistanceBase[n] < 2^Writer!DistanceExtra[n]
    /\ \A symbol \in 0..287 :
          LET code == Writer!WriteFixedSymbol(symbol) IN
          SymbolAt(code \o <<0, 0>>, 1) = [symbol |-> symbol, bits |-> Len(code)]

--------------------------------------------------------------------------------
Number(bytes) == FoldLeft(LAMBDA v, b : 256 * v + b, 0, bytes)

\* The chunks of a file from place p: type, data and the checksum as it stands.
RECURSIVE ChunksFrom(_, _)
ChunksFrom(file, p) ==
    IF p > Len(file) THEN <<>>
    ELSE LET length == Number(SubSeq(file, p, p + 3)) IN
         << [type |-> SubSeq(file, p + 4, p + 7), data |-> SubSeq(file, p + 8, p + 7 + length),
             crc |-> SubSeq(file, p + 8 + length, p + 11 + length)] >>
           \o ChunksFrom(file, p + 12 + length)

\* The closest to left + above - upper_left of the three, in this order.
Paeth(left, above, upper_left) ==
    LET off(v) == IF v > left + above - upper_left THEN v - (left + above - upper_left)
                                                    ELSE left + above - upper_left - v
    IN  IF off(left) <= off(above) /\ off(left) <= off(upper_left) THEN left
        ELSE IF off(above) <= off(upper_left) THEN above ELSE upper_left

\* A row back from its filtered bytes, byte by byte.
Unfiltered(filter, bytes, above) ==
    LET Next(row, byte) ==
            LET k == Len(row) + 1
                left == IF k > 3 THEN row[k - 3] ELSE 0
                corner == IF k > 3 THEN above[k - 3] ELSE 0
                guess == <<0, left, above[k], (left + above[k]) \div 2,
                           Paeth(left, above[k], corner)>>
            IN  Append(row, (byte + guess[filter + 1]) % 256)
    IN  FoldLeft(Next, <<>>, bytes)

RECURSIVE RowsFrom(_, _, _)
RowsFrom(raw, stride, above) ==
    IF raw = <<>> THEN <<>>
    ELSE LET row == Unfiltered(raw[1], SubSeq(raw, 2, stride + 1), above) IN
         row \o RowsFrom(SubSeq(raw, stride + 2, Len(raw)), stride, row)

Pixels(raw, width) ==
    LET bytes == RowsFrom(raw, 3 * width, [k \in 1..(3 * width) |-> 0])
    IN  [n \in 1..(Len(bytes) \div 3) |-> SubSeq(bytes, 3 * n - 2, 3 * n)]

\* Flat, stepping across, stepping down, along both, and restless pictures of four pixels.
Pictures ==
    {[n \in 1..4 |-> <<7, 7, 7>>],
     [n \in 1..4 |-> <<60 * ((n - 1) % 2), 10, 255 - 60 * ((n - 1) % 2)>>],
     [n \in 1..4 |-> <<90 * ((n - 1) \div 2), 3, 250 - 90 * ((n - 1) \div 2)>>],
     [n \in 1..4 |-> <<20 * ((n - 1) % 2) + 50 * ((n - 1) \div 2), n, 255 - n>>],
     [n \in 1..4 |-> <<100 + 9 * n, 130, 200 - 3 * n * n>>],
     [n \in 1..4 |-> <<(n * n * 37) % 256, (n * 91) % 256, (n * n * n * 11) % 256>>]}

\* Every picture comes back from its filtered rows, whichever filters they chose, ties of
\* the predictor included.
ASSUME RowsAreReadBack ==
    /\ \A pixels \in Pictures, width \in {1, 2, 4} :
          Pixels(Writer!RawRows(pixels, width, 4 \div width), width) = pixels
    /\ \A left \in 0..4, above \in 0..4, corner \in 0..4 :
          Writer!PaethPredictor(left, above, corner) = Paeth(left, above, corner)

\* A whole file of two pixels: the chunks in their order, with the size, the picture and
\* checksums that are those of the format, of the empty chunk every such file ends with too.
ASSUME FilesAreReadBack ==
    /\ Writer!Crc32(<<73, 69, 78, 68>>) = <<174, 66, 96, 130>>
    /\ Writer!Crc32(<<49, 50, 51, 52, 53, 54, 55, 56, 57>>) = <<203, 244, 57, 38>>
    /\ Writer!Adler32(<<87, 105, 107, 105, 112, 101, 100, 105, 97>>) = [low |-> 920, high |-> 4582]
    /\ \A width \in 1..2 :
          LET pixels == <<<<1, 2, 3>>, <<1, 2, 250>>>>
              chunks == ChunksFrom(Writer!EncodePng(pixels, width, 2 \div width), 9)
              stream == chunks[2].data
          IN  /\ [n \in 1..Len(chunks) |-> chunks[n].type]
                   = <<<<73, 72, 68, 82>>, <<73, 68, 65, 84>>, <<73, 69, 78, 68>>>>
              /\ chunks[1].data = <<0, 0, 0, width, 0, 0, 0, 2 \div width, 8, 2, 0, 0, 0>>
              /\ Pixels(Inflate(SubSeq(stream, 3, Len(stream) - 4)), width) = pixels
              /\ \A c \in ToSet(chunks) : c.crc = Writer!Crc32(c.type \o c.data)

--------------------------------------------------------------------------------
\* Sextets back to bytes, without those that are filling.
Base64Decode(sextets) ==
    LET bits == FlattenSeq([n \in 1..Len(sextets) |->
                   IF sextets[n] = 64 THEN <<>> ELSE [k \in 1..6 |-> (sextets[n] \div 2^(6 - k)) % 2]])
    IN  [n \in 1..(Len(bits) \div 8) |-> CodeAt(bits, 8 * n - 7, 8)]

ASSUME Base64IsLossless ==
    \A length \in 0..7, step \in {0, 37, 255} :
        LET bytes == [k \in 1..length |-> (k * step) % 256]
            text == Writer!Base64Encode(bytes)
        IN  Base64Decode(text) = bytes /\ Len(text) % 4 = 0

\* A smaller picture has its size and, of a picture of one colour, its colour; no channel
\* leaves the range of the block it stands for.
ASSUME SmallerPicturesAreMeans ==
    \A width \in {1, 3, 4, 5}, divisor \in 1..6, shade \in {0, 255} :
        LET pixels == [n \in 1..(3 * width) |-> <<(n * 53) % 256, shade, n>>]
            scaled == Writer!DownscalePixels(pixels, width, 3, divisor)
        IN  /\ Len(scaled) = Max({1, width \div divisor}) * Max({1, 3 \div divisor})
            /\ \A n \in DOMAIN scaled :
                  /\ scaled[n][2] = shade
                  /\ scaled[n][1] \in Min({p[1] : p \in ToSet(pixels)})..Max({p[1] : p \in ToSet(pixels)})
            /\ divisor \in {2, 3} /\ width = 4 => scaled[1][3] = IF divisor = 2 THEN 3 ELSE 6
==============================================================================
