------------------------------ MODULE RowCodec ------------------------------
(***************************************************************************)
(* The decoder of column values in binlog row images (binlog/rbr.go).      *)
(*                                                                         *)
(* data is the image of a row, a sequence of bytes; pos counts from zero   *)
(* as in the code.  A column c is a record:                                *)
(*   typ    the type in the table map event                                *)
(*   meta   its metadata, a 16-bit number                                  *)
(*   ftype  what the replica's schema says of the column: "signed",        *)
(*          "unsigned", "utf8", "latin1", "binary" (BINARY(n)),            *)
(*          "varbinary", or "" where the code does not ask                 *)
(*   scale  the scale of the replica's decimal column                      *)
(*                                                                         *)
(* A decoded value is a sequence of integers: <<n>> for numbers, the bytes *)
(* of a string, the fields of a date.  TLC's integers have 32 bits, so     *)
(* 64-bit numbers are split where the code shifts them.  The old DATETIME  *)
(* type, an integer of 64 bits in decimal fields, is left out.             *)
(***************************************************************************)
EXTENDS Integers, Sequences, SequencesExt

Bytes(data, pos, n) == SubSeq(data, pos + 1, pos + n)

BigEndian(b) == FoldLeft(LAMBDA a, x : a * 256 + x, 0, b)

LittleEndian(b) == BigEndian(Reverse(b))

\* A little-endian number reinterpreted as a signed one of the same width.
Signed(b) ==
    IF Last(b) < 128 THEN LittleEndian(b)
    ELSE -LittleEndian([i \in DOMAIN b |-> 255 - b[i]]) - 1

\* Go's division and remainder truncate towards zero.
Quot(a, b) == IF a >= 0 THEN a \div b ELSE -((-a) \div b)
Rem(a, b)  == a - Quot(a, b) * b

\* What CellValue returns: a value and the number of bytes it took, or an error.
Ok(val, len) == [ok |-> TRUE, val |-> val, len |-> len]
Err == [ok |-> FALSE, val |-> << >>, len |-> 0]

-----------------------------------------------------------------------------
(* Numbers. *)

IntWidth == [Tiny |-> 1, Short |-> 2, Long |-> 4, LongLong |-> 8]

IntValue(b, c) == <<IF c.ftype = "signed" THEN Signed(b) ELSE LittleEndian(b)>>

\* Three bytes: a negative number is extended with a byte of ones.
Int24Value(b, c) ==
    <<IF c.ftype = "signed" /\ b[3] >= 128 THEN LittleEndian(b) - 2^24
      ELSE LittleEndian(b)>>

YearValue(b) == <<IF b[1] = 0 THEN 0 ELSE b[1] + 1900>>

\* The IEEE bits, most significant byte first.
FloatValue(b) == Reverse(b)

BitBytes(meta) == ((meta \div 256) * 8 + (meta % 256) + 7) \div 8

BitValue(b) == <<BigEndian(b)>>

-----------------------------------------------------------------------------
(* Decimals: groups of nine digits in four bytes, on both sides of the dot. *)

dig2bytes == <<0, 1, 1, 2, 2, 3, 3, 4, 4, 4>>

Precision(c) == c.meta \div 256
Scale(c) == c.meta % 256
Intg(c) == Precision(c) - Scale(c)

\* The lengths in bytes of the groups of a number: leftover digits come first
\* before the dot and last behind it.
IntGroups(c) ==
    <<dig2bytes[(Intg(c) % 9) + 1]>> \o [i \in 1 .. Intg(c) \div 9 |-> 4]

FracGroups(c) ==
    [i \in 1 .. Scale(c) \div 9 |-> 4] \o <<dig2bytes[(Scale(c) % 9) + 1]>>

DecimalLen(c) == FoldLeft(+, 0, IntGroups(c) \o FracGroups(c))

\* The first bit is inverted, and a negative number is inverted as a whole.
Unmasked(d) ==
    LET flipped == [d EXCEPT ![1] = (@ + 128) % 256]
    IN  IF d[1] < 128 THEN [i \in DOMAIN d |-> 255 - flipped[i]] ELSE flipped

\* The number in the first group, and for each following one times its
\* multiplier plus the group.
Coefficient(d, groups, last) ==
    FoldLeft(LAMBDA a, k :
                 a * (IF k = Len(groups) THEN last ELSE 10^9)
                 + BigEndian(Bytes(d, FoldLeft(+, 0, SubSeq(groups, 1, k - 1)), groups[k])),
             0, [k \in 1 .. Len(groups) |-> k])

\* Padding to the column's scale only happens behind a fraction.
DecimalValue(b, c) ==
    <<(IF b[1] < 128 THEN -1 ELSE 1)
      * Coefficient(Unmasked(b), IntGroups(c) \o FracGroups(c), 10^(Scale(c) % 9))
      * (IF Scale(c) = 0 THEN 1 ELSE 10^(c.scale - Scale(c)))>>

-----------------------------------------------------------------------------
(* Dates and times. *)

DaysIn(y, m) ==
    CASE m = 2 -> IF y % 4 = 0 /\ (y % 100 # 0 \/ y % 400 = 0) THEN 29 ELSE 28
      [] m \in {4, 6, 9, 11} -> 30
      [] OTHER -> 31

\* time.Date turns month zero into the December, and day zero into the last day,
\* before it.
timeDate(y, m, d) ==
    LET y1 == IF m = 0 THEN y - 1 ELSE y
        m1 == IF m = 0 THEN 12 ELSE m
        y2 == IF m1 = 1 THEN y1 - 1 ELSE y1
        m2 == IF m1 = 1 THEN 12 ELSE m1 - 1
    IN  IF d > 0 THEN <<y1, m1, d>> ELSE <<y2, m2, DaysIn(y2, m2)>>

DateValue(b) ==
    LET val == LittleEndian(b)
    IN  timeDate(val \div 512, (val \div 32) % 16, val % 32)

\* The old TIME.  Minutes and seconds of a negative one get the wrong sign.
TimeValue(b) ==
    LET val  == Signed(b)
        sign == IF val < 0 THEN -1 ELSE 1
        hour == Quot(val, 10000)
        minute == sign * Quot(Rem(val, 10000), 100)
        second == sign * Rem(val, 100)
    IN  <<hour * 3600 + minute * 60 + second, 0>>

\* The bytes of a fraction with meta digits.
FracBytes(meta) == (meta + 1) \div 2

\* Microseconds.  An odd number of digits has a superfluous zero behind it.
Micros(decimals, meta) ==
    (IF meta % 2 = 1 THEN decimals \div 10 ELSE decimals) * 10^(6 - meta)

Fraction(b, meta) == IF meta = 0 THEN 0 ELSE Micros(BigEndian(b), meta)

Timestamp2Value(b, meta) ==
    <<BigEndian(SubSeq(b, 1, 4)), Fraction(SubSeq(b, 5, Len(b)), meta)>>

\* 40 bits: year * 13 + month in 17, day in 5, hour in 5, minute and second in 6
\* each; high are the upper 24.
DateTime2Value(b, meta) ==
    LET high == BigEndian(SubSeq(b, 1, 3)) - 2^23
        ymd  == high \div 2
        hms  == (high % 2) * 2^16 + BigEndian(SubSeq(b, 4, 5))
        ym   == ymd \div 32
    IN  timeDate(ym \div 13, ym % 13, ymd % 32)
        \o <<hms \div 2^12, (hms \div 64) % 64, hms % 64,
             Fraction(SubSeq(b, 6, Len(b)), meta)>>

Seconds(hms) ==
    ((hms \div 2^12) % 2^10) * 3600 + ((hms \div 64) % 64) * 60 + (hms % 64)

\* Mutant: the fraction of a negative time borrows nothing.
TimeNoBorrow(hms, frac, meta) ==
    IF hms >= 0 THEN <<Seconds(hms), Micros(frac, meta)>>
    ELSE <<-Seconds(-hms), -Micros(frac, meta)>>

\* A negative time is one number with its fraction: the fraction borrows.
SignedTime(hms, frac, meta) ==
    CASE hms >= 0 -> <<Seconds(hms), Micros(frac, meta)>>
      [] hms < 0 /\ frac = 0 -> <<-Seconds(-hms), 0>>
      [] hms < 0 /\ frac # 0 ->
            <<-Seconds(-hms - 1), -Micros(256^FracBytes(meta) - frac, meta)>>

Time2Value(b, meta) ==
    SignedTime(BigEndian(SubSeq(b, 1, 3)) - 2^23, BigEndian(SubSeq(b, 4, Len(b))), meta)

-----------------------------------------------------------------------------
(* Strings. *)

\* The UTF-8 of a code point below 2^16.
Utf8(cp) ==
    CASE cp < 128 -> <<cp>>
      [] cp \in 128 .. 2047 -> <<192 + cp \div 64, 128 + (cp % 64)>>
      [] OTHER -> <<224 + cp \div 4096, 128 + ((cp \div 64) % 64), 128 + (cp % 64)>>

\* Windows 1252, of whose upper control characters only the euro sign is here.
Latin1ToUnicode(b) == IF b = 128 THEN 8364 ELSE b

\* charset.DecodeBytes: the text as UTF-8.
DecodeBytes(c, b) ==
    IF c.ftype = "latin1"
    THEN FlattenSeq([i \in DOMAIN b |-> Utf8(Latin1ToUnicode(b[i]))])
    ELSE b

IsText(c) == c.ftype \in {"utf8", "latin1"}

Prefixed(c, data, pos, width) == LittleEndian(Bytes(data, pos, width))

StringMax(meta) == (3 - ((meta \div 4096) % 4)) * 256 + (meta % 256)

TypeEnum == 247
TypeSet  == 248

\* Mutant: lengths of strings always have one byte.
OneBytePrefix(c) == IF c.typ \in {"Varchar", "String"} THEN 1 ELSE c.meta

\* The bytes of the length in front of a string or a blob.
PrefixLen(c) ==
    CASE c.typ = "Varchar" -> IF c.meta > 255 THEN 2 ELSE 1
      [] c.typ = "String"  -> IF StringMax(c.meta) > 255 THEN 2 ELSE 1
      [] OTHER             -> c.meta

\* CHAR and BINARY; the binlog drops the zero bytes at the end of BINARY.
StringValue(c, b) ==
    IF c.ftype = "binary" /\ StringMax(c.meta) <= 255
    THEN b \o [i \in 1 .. StringMax(c.meta) - Len(b) |-> 0]
    ELSE DecodeBytes(c, b)

-----------------------------------------------------------------------------
\* The number of bytes a cell takes.
CellLength(c, data, pos) ==
    CASE c.typ \in {"Tiny", "Year"} -> 1
      [] c.typ = "Short" -> 2
      [] c.typ \in {"Int24", "Date", "Time"} -> 3
      [] c.typ \in {"Long", "Float", "Timestamp"} -> 4
      [] c.typ \in {"LongLong", "Double"} -> 8
      [] c.typ = "Bit" -> BitBytes(c.meta)
      [] c.typ = "Timestamp2" -> 4 + FracBytes(c.meta)
      [] c.typ = "DateTime2" -> 5 + FracBytes(c.meta)
      [] c.typ = "Time2" -> 3 + FracBytes(c.meta)
      [] c.typ = "NewDecimal" -> DecimalLen(c)
      [] c.typ \in {"Enum", "Set"} -> c.meta % 256
      [] c.typ = "String" /\ c.meta \div 256 \in {TypeEnum, TypeSet} -> c.meta % 256
      [] OTHER -> PrefixLen(c) + Prefixed(c, data, pos, PrefixLen(c))

\* Enumerations and sets come as strings with their own type in the metadata.
CellType(c) ==
    CASE c.typ = "String" /\ c.meta \div 256 = TypeEnum -> "Enum"
      [] c.typ = "String" /\ c.meta \div 256 = TypeSet  -> "Set"
      [] OTHER -> c.typ

\* Strings and blobs, with their length in front.
PrefixedCell(c, data, pos) ==
    LET p   == PrefixLen(c)
        len == Prefixed(c, data, pos, p)
        b   == Bytes(data, pos + p, len)
    IN  Ok(IF c.typ = "String" THEN StringValue(c, b) ELSE DecodeBytes(c, b), p + len)

\* The number of a member, or the bits of a set; their names stay out of the model.
EnumOrSetCell(c, typ, data, pos) ==
    IF typ = "Enum" /\ c.meta % 256 \notin 1 .. 2 THEN Err
    ELSE Ok(<<LittleEndian(Bytes(data, pos, c.meta % 256))>>, c.meta % 256)

FixedCell(c, typ, data, pos) ==
    LET Of(len, Value(_)) == Ok(Value(Bytes(data, pos, len)), len)
    IN
    CASE typ \in DOMAIN IntWidth -> Of(IntWidth[typ], LAMBDA b : IntValue(b, c))
      [] typ = "Int24"     -> Of(3, LAMBDA b : Int24Value(b, c))
      [] typ = "Year"      -> Of(1, YearValue)
      [] typ = "Float"     -> Of(4, FloatValue)
      [] typ = "Double"    -> Of(8, FloatValue)
      [] typ = "Timestamp" -> Of(4, LAMBDA b : <<LittleEndian(b), 0>>)
      [] typ = "Date"      -> Of(3, DateValue)
      [] typ = "Time"      -> Of(3, TimeValue)
      [] typ = "Bit"       -> Of(BitBytes(c.meta), BitValue)
      [] typ = "Timestamp2" ->
            Of(4 + FracBytes(c.meta), LAMBDA b : Timestamp2Value(b, c.meta))
      [] typ = "DateTime2" ->
            Of(5 + FracBytes(c.meta), LAMBDA b : DateTime2Value(b, c.meta))
      [] typ = "Time2" ->
            Of(3 + FracBytes(c.meta), LAMBDA b : Time2Value(b, c.meta))
      [] typ = "NewDecimal" ->
            IF Scale(c) # 0 /\ Scale(c) > c.scale THEN Err
            ELSE Of(DecimalLen(c), LAMBDA b : DecimalValue(b, c))
      [] typ \in {"Enum", "Set"} -> EnumOrSetCell(c, typ, data, pos)

\* The value of a cell and the number of bytes it takes.
CellValue(c, data, pos) ==
    CASE CellType(c) \in {"String", "Varchar"} -> PrefixedCell(c, data, pos)
      [] CellType(c) = "Blob" ->
            IF c.meta \notin 1 .. 4 THEN Err ELSE PrefixedCell(c, data, pos)
      [] OTHER -> FixedCell(c, CellType(c), data, pos)

-----------------------------------------------------------------------------
(* What MySQL writes, and what it means.  A value of a column is a sequence  *)
(* too: a number, the code points of a text, the bytes of a binary string,  *)
(* the fields of a date, signed seconds and microseconds of a time.         *)

\* The n lowest bytes of x, most significant first.
ToBytes(x, n) == [i \in 1 .. n |-> IF n - i > 3 THEN (IF x < 0 THEN 255 ELSE 0)
                                    ELSE (x \div 256^(n - i)) % 256]

StoredFrac(meta) == CASE meta = 0 -> 0 [] meta \in 1 .. 2 -> 1 [] meta \in 3 .. 4 -> 2 [] meta \in 5 .. 6 -> 3
StoredBits(meta) == meta \div 256 + (IF meta % 256 = 0 THEN 0 ELSE 1)

\* The bytes that can hold the length of the longest value.
StoredPrefix(c) ==
    IF c.typ = "Blob" THEN c.meta
    ELSE IF c.typ = "String" THEN IF c.meta \div 256 = 254 THEN 1 ELSE 2
    ELSE IF c.meta < 256 THEN 1 ELSE 2

ToDigits(x, meta) == IF meta % 2 = 1 THEN (x \div 10^(6 - meta)) * 10 ELSE x \div 10^(6 - meta)

\* The groups of the digits before and behind the dot.
DecimalGroups(c, int, frac) ==
    LET n == Intg(c) \div 9
    IN  <<IF n = 0 THEN int ELSE IF n = 1 THEN int \div 10^9 ELSE 0>>
        \o [k \in 1 .. n |-> IF k = n THEN int % 10^9 ELSE 0]
        \o (IF Scale(c) = 9 THEN <<frac, 0>> ELSE <<frac>>)

Masked(b, neg) ==
    [i \in DOMAIN b |->
        LET x == IF i = 1 THEN (b[i] + 128) % 256 ELSE b[i]
        IN  IF neg THEN 255 - x ELSE x]

Abs(n) == IF n < 0 THEN -n ELSE n

Packed(groups, sizes) == FlattenSeq([k \in DOMAIN groups |-> ToBytes(groups[k], sizes[k])])

EncodeDecimal(c, n) ==
    Masked(Packed(DecimalGroups(c, Abs(n) \div 10^Scale(c), Abs(n) % 10^Scale(c)),
                  IntGroups(c) \o FracGroups(c)),
           n < 0)

PackedTime(s) == (s \div 3600) * 2^12 + ((s \div 60) % 60) * 64 + (s % 60)

EncodeTime2(c, secs, micros) ==
    LET neg    == secs < 0 \/ micros < 0
        borrow == micros < 0
    IN  ToBytes((IF neg THEN -1 ELSE 1) * PackedTime(Abs(secs))
                - (IF borrow THEN 1 ELSE 0) + 2^23, 3)
        \o ToBytes((IF borrow THEN 256^StoredFrac(c.meta) ELSE 0)
                   + (IF borrow THEN -1 ELSE 1) * ToDigits(Abs(micros), c.meta),
                   StoredFrac(c.meta))

EncodeDateTime2(c, v) ==
    LET ymd  == (v[1] * 13 + v[2]) * 32 + v[3]
        hms  == v[4] * 2^12 + v[5] * 64 + v[6]
    IN  ToBytes(ymd * 2 + (hms \div 2^16) + 2^23, 3) \o ToBytes(hms % 2^16, 2)
        \o ToBytes(ToDigits(v[7], c.meta), StoredFrac(c.meta))

\* A string on the wire: latin1 or UTF-8.
EncodeText(c, v) ==
    IF c.ftype = "latin1" THEN [i \in DOMAIN v |-> IF v[i] = 8364 THEN 128 ELSE v[i]]
    ELSE IF c.ftype = "utf8" THEN FlattenSeq([i \in DOMAIN v |-> Utf8(v[i])])
    ELSE v

WithoutTrailingZeros(v) ==
    SubSeq(v, 1, FoldLeft(LAMBDA a, i : IF v[i] = 0 THEN a ELSE i, 0, [i \in DOMAIN v |-> i]))

WithLength(b, p) == Reverse(ToBytes(Len(b), p)) \o b

EncodeString(c, v) ==
    WithLength(EncodeText(c, IF c.ftype = "binary" THEN WithoutTrailingZeros(v) ELSE v),
               StoredPrefix(c))

EncodeCell(c, v) ==
    CASE c.typ \in DOMAIN IntWidth -> Reverse(ToBytes(v[1], IntWidth[c.typ]))
      [] c.typ = "Int24"  -> Reverse(ToBytes(v[1], 3))
      [] c.typ = "Year"   -> <<IF v[1] = 0 THEN 0 ELSE v[1] - 1900>>
      [] c.typ \in {"Float", "Double"} -> Reverse(v)
      [] c.typ = "Timestamp" -> Reverse(ToBytes(v[1], 4))
      [] c.typ = "Date"   -> Reverse(ToBytes(v[1] * 512 + v[2] * 32 + v[3], 3))
      [] c.typ = "Time"   ->
            Reverse(ToBytes(Quot(v[1], 3600) * 10000 + Quot(Rem(v[1], 3600), 60) * 100
                            + Rem(v[1], 60), 3))
      [] c.typ = "Bit"    -> ToBytes(v[1], StoredBits(c.meta))
      [] c.typ = "Timestamp2" ->
            ToBytes(v[1], 4) \o ToBytes(ToDigits(v[2], c.meta), StoredFrac(c.meta))
      [] c.typ = "DateTime2"  -> EncodeDateTime2(c, v)
      [] c.typ = "Time2"      -> EncodeTime2(c, v[1], v[2])
      [] c.typ = "NewDecimal" -> EncodeDecimal(c, v[1])
      [] c.typ \in {"Enum", "Set"} \/ c.meta \div 256 \in {TypeEnum, TypeSet} ->
            Reverse(ToBytes(v[1], c.meta % 256))
      [] OTHER -> EncodeString(c, v)

\* The special value 0 for a timestamp.
ZeroTimestamp == <<0, 0, 0, 0, 0, 0>>

\* What the replica should hold for the source's value v.
Meant(c, v) ==
    CASE IsText(c) -> FlattenSeq([i \in DOMAIN v |-> Utf8(v[i])])
      [] c.typ \in {"Timestamp", "Timestamp2"} /\ v[1] = 0 -> ZeroTimestamp
      [] c.typ = "NewDecimal" -> <<v[1] * 10^(c.scale - Scale(c))>>
      [] OTHER -> v

\* Values the decoder turns into others: dates without a month or a day, the zero
\* timestamp, negative times of the old TIME type, and decimals without a fraction for
\* a column with one.  It refuses decimals with more digits than the column has.
Distorted(c, v) ==
    \/ c.typ \in {"Date", "DateTime2"} /\ (v[2] = 0 \/ v[3] = 0)
    \/ c.typ \in {"Timestamp", "Timestamp2"} /\ v[1] = 0
    \/ c.typ = "Time" /\ v[1] < 0 /\ v[1] % 3600 # 0
    \/ c.typ = "NewDecimal" /\ Scale(c) = 0 /\ c.scale > 0 /\ v[1] # 0
    \/ c.typ = "NewDecimal" /\ Scale(c) > c.scale
=============================================================================
