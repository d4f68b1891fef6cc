------------------------------ MODULE PngWriter -------------------------------
(****************************************************************************)
(* The picture files of the frame sequence: src/src/png_writer.cpp.             *)
(*                                                                          *)
(* A pixel is its three channels; a byte a number below 256; bits are listed   *)
(* in the order they enter the stream.  A picture is a sequence of pixels,    *)
(* row by row.  Places in data count from 1.                                  *)
(****************************************************************************)
EXTENDS Integers, Sequences, SequencesExt, FiniteSetsExt

\* Least significant bit first, as BitWriter::WriteBits; a code the other way round.
Bits(value, count) == [k \in 1..count |-> (value \div 2^(k - 1)) % 2]
Code(value, count) == Reverse(Bits(value, count))

BytesOf(bits) ==
    [n \in 1..((Len(bits) + 7) \div 8) |->
        MapThenSumSet(LAMBDA k : bits[k] * 2^((k - 1) % 8),
                      (8 * n - 7)..Min({8 * n, Len(bits)}))]

BigEndian(value) == [k \in 1..4 |-> (value \div 256^(4 - k)) % 256]

--------------------------------------------------------------------------------
\* A word of the checksum is the set of its bits that are one, counted from 1, as its
\* polynomial 0xEDB88320 is.
Polynomial == {6, 9, 10, 16, 20, 21, 22, 24, 25, 27, 28, 30, 31, 32}
Ones(value, count) == {k \in 1..count : Bits(value, count)[k] = 1}

CrcTable ==
    LET Shift(word, n) == LET shifted == {k - 1 : k \in word \ {1}} IN
                          IF 1 \in word THEN SymDiff(shifted, Polynomial) ELSE shifted
    IN  [index \in SUBSET (1..8) |-> FoldLeft(Shift, index, <<1, 2, 3, 4, 5, 6, 7, 8>>)]

Crc32(bytes) ==
    LET Step(crc, byte) == SymDiff(CrcTable[SymDiff(crc \cap 1..8, Ones(byte, 8))],
                                   {k - 8 : k \in crc \ 1..8})
        crc == FoldLeft(Step, 1..32, bytes)
    IN  Reverse(BytesOf([k \in 1..32 |-> IF k \in crc THEN 0 ELSE 1]))

\* The remainders are taken before the sums leave 32 bits, so they are the sums'.
Adler32(bytes) ==
    FoldLeft(LAMBDA sum, byte : LET low == (sum.low + byte) % 65521 IN
                                [low |-> low, high |-> (sum.high + low) % 65521],
             [low |-> 1, high |-> 0], bytes)

--------------------------------------------------------------------------------
WriteFixedSymbol(symbol) ==
    CASE symbol <= 143 -> Code(48 + symbol, 8)
      [] symbol \in 144..255 -> Code(400 + symbol - 144, 9)
      [] symbol \in 256..279 -> Code(symbol - 256, 7)
      [] symbol >= 280 -> Code(192 + symbol - 280, 8)

LengthBase == <<3, 4, 5, 6, 7, 8, 9, 10, 11, 13, 15, 17, 19, 23, 27, 31, 35, 43, 51, 59, 67, 83,
                99, 115, 131, 163, 195, 227, 258>>
LengthExtra == <<0, 0, 0, 0, 0, 0, 0, 0, 1, 1, 1, 1, 2, 2, 2, 2, 3, 3, 3, 3, 4, 4, 4, 4, 5, 5,
                 5, 5, 0>>
DistanceBase == <<1, 2, 3, 4, 5, 7, 9, 13, 17, 25, 33, 49, 65, 97, 129, 193, 257, 385, 513, 769,
                  1025, 1537, 2049, 3073, 4097, 6145, 8193, 12289, 16385, 24577>>
DistanceExtra == <<0, 0, 0, 0, 1, 1, 2, 2, 3, 3, 4, 4, 5, 5, 6, 6, 7, 7, 8, 8, 9, 9, 10, 10, 11,
                   11, 12, 12, 13, 13>>

WindowSize == 32768
MinimumMatch == 3
MaximumMatch == 258
MaximumChain == 32

Entry(base, value) == Max({k \in DOMAIN base : base[k] <= value})

\* Three bytes shifted and xored into 15 bits, in which they overlap.
HashAt(data, p) ==
    SymDiff(SymDiff(Ones(data[p] * 1024, 15), Ones(data[p + 1] * 32, 15)), Ones(data[p + 2], 15))

\* The chain: the earlier places of the same hash, the latest first, as many as the
\* search follows and the window holds.
Chain(hash, p) ==
    LET same == {q \in 1..(p - 1) : p - q <= WindowSize /\ hash[q] = hash[p]}
    IN  {q \in same : Cardinality({r \in same : r > q}) < MaximumChain}

\* How far the data at q and at p agree; the two may overlap.
MatchLength(data, q, p) ==
    LET limit == Min({MaximumMatch, Len(data) - p + 1})
        agree == {n \in 0..limit : n = limit \/ data[q + n] # data[p + n]}
    IN  Min(agree)

\* The longest match, the nearest of them; length 0 when there is none.
BestMatch(data, hash, p) ==
    LET places == IF p \in DOMAIN hash THEN Chain(hash, p) ELSE {}
        length == [q \in places |-> MatchLength(data, q, p)]
        longest == Max({length[q] : q \in places} \cup {0})
    IN  [length |-> longest,
         distance |-> Min({p - q : q \in {r \in places : length[r] = longest}} \cup {WindowSize})]

WriteMatch(match) ==
    LET l == Entry(LengthBase, match.length)
        d == Entry(DistanceBase, match.distance)
    IN  WriteFixedSymbol(256 + l) \o Bits(match.length - LengthBase[l], LengthExtra[l])
          \o Code(d - 1, 5) \o Bits(match.distance - DistanceBase[d], DistanceExtra[d])

RECURSIVE SymbolsFrom(_, _, _)
SymbolsFrom(data, hash, p) ==
    IF p > Len(data) THEN WriteFixedSymbol(256)
    ELSE LET match == BestMatch(data, hash, p) IN
         IF match.length >= MinimumMatch
         THEN WriteMatch(match) \o SymbolsFrom(data, hash, p + match.length)
         ELSE WriteFixedSymbol(data[p]) \o SymbolsFrom(data, hash, p + 1)

\* One block for the whole of it, of the fixed codes.
Deflate(data) ==
    LET hash == [p \in 1..(Len(data) - MinimumMatch + 1) |-> HashAt(data, p)] IN
    BytesOf(Bits(1, 1) \o Bits(1, 2) \o SymbolsFrom(data, hash, 1))

ZlibWrap(data) ==
    LET adler == Adler32(data) IN
    <<120, 1>> \o Deflate(data)
      \o <<adler.high \div 256, adler.high % 256, adler.low \div 256, adler.low % 256>>

--------------------------------------------------------------------------------
Distance(x, y) == IF x < y THEN y - x ELSE x - y

PaethPredictor(left, above, upper_left) ==
    LET estimate == left + above - upper_left
        nearest == Min({Distance(estimate, v) : v \in {left, above, upper_left}})
    IN  CASE Distance(estimate, left) = nearest -> left
          [] Distance(estimate, left) # nearest /\ Distance(estimate, above) = nearest -> above
          [] OTHER -> upper_left

\* What a filter subtracts from byte k of a row, three bytes a pixel.
Predicted(filter, row, above, k) ==
    LET left == IF k > 3 THEN row[k - 3] ELSE 0
        upper_left == IF k > 3 THEN above[k - 3] ELSE 0
    IN  CASE filter = 0 -> 0
          [] filter = 1 -> left
          [] filter = 2 -> above[k]
          [] filter = 3 -> (left + above[k]) \div 2
          [] filter = 4 -> PaethPredictor(left, above[k], upper_left)

FilteredRow(filter, row, above) ==
    [k \in DOMAIN row |-> (row[k] - Predicted(filter, row, above, k)) % 256]

FilteredCost(row) == FoldLeft(LAMBDA c, b : c + (IF b < 128 THEN b ELSE 256 - b), 0, row)

\* The first of the cheapest filters, and the row it makes.
ChosenRow(row, above) ==
    LET cost == [f \in 0..4 |-> FilteredCost(FilteredRow(f, row, above))]
        best == Min({f \in 0..4 : \A g \in 0..4 : cost[f] <= cost[g]})
    IN  <<best>> \o FilteredRow(best, row, above)

RowBytes(pixels, width, y) == FlattenSeq(SubSeq(pixels, (y - 1) * width + 1, y * width))

Chunk(type, data) == BigEndian(Len(data)) \o type \o data \o Crc32(type \o data)

\* The rows, each after the name of its filter; the first has nothing above.
RawRows(pixels, width, height) ==
    LET Above(y) == IF y = 1 THEN [k \in 1..(3 * width) |-> 0] ELSE RowBytes(pixels, width, y - 1)
    IN  FlattenSeq([y \in 1..height |-> ChosenRow(RowBytes(pixels, width, y), Above(y))])

EncodePng(pixels, width, height) ==
    LET header == BigEndian(width) \o BigEndian(height) \o <<8, 2, 0, 0, 0>>
    IN  <<137, 80, 78, 71, 13, 10, 26, 10>>
          \o Chunk(<<73, 72, 68, 82>>, header)
          \o Chunk(<<73, 68, 65, 84>>, ZlibWrap(RawRows(pixels, width, height)))
          \o Chunk(<<73, 69, 78, 68>>, <<>>)

\* WritePng refuses what is not a picture.
Writable(pixels, width, height) == width > 0 /\ height > 0 /\ Len(pixels) = width * height

--------------------------------------------------------------------------------
\* Places in the alphabet, 64 for the filling.
Base64Encode(bytes) ==
    LET At(n) == IF n <= Len(bytes) THEN bytes[n] ELSE 0
        Sextets(n) == <<At(n) \div 4, (At(n) % 4) * 16 + At(n + 1) \div 16,
                        (At(n + 1) % 16) * 4 + At(n + 2) \div 64, At(n + 2) % 64>>
        Group(n) == [k \in 1..4 |-> IF n + k - 2 > Len(bytes) THEN 64 ELSE Sextets(n)[k]]
    IN  FlattenSeq([g \in 1..((Len(bytes) + 2) \div 3) |-> Group(3 * g - 2)])

\* The mean of each block, in each channel; what is over at the edges is left out unless
\* the picture is smaller than a block.
DownscalePixels(pixels, width, height, divisor) ==
    LET w == Max({1, width \div divisor})
        h == Max({1, height \div divisor})
        Block(x, y) == ((divisor * x + 1)..Min({divisor * (x + 1), width}))
                               \X ((divisor * y + 1)..Min({divisor * (y + 1), height}))
        Mean(block, channel) ==
            MapThenSumSet(LAMBDA c : pixels[(c[2] - 1) * width + c[1]][channel], block)
              \div Cardinality(block)
    IN  IF divisor <= 1 THEN pixels
        ELSE [n \in 1..(w * h) |->
                 LET block == Block((n - 1) % w, (n - 1) \div w) IN
                 <<Mean(block, 1), Mean(block, 2), Mean(block, 3)>>]
==============================================================================
