---------------------------- MODULE MCRowEvents ----------------------------
(* Tables for RowEvents: one for every column type that RowCodec decodes,    *)
(* and small ones with and without a key for the two ways of applying rows;  *)
(* and the filter commands that the sessions send.                           *)
EXTENDS RowEvents

Col(typ, meta, ftype) == [typ |-> typ, meta |-> meta, ftype |-> ftype, scale |-> 0]
Decimal(p, s, scale) == [typ |-> "NewDecimal", meta |-> p * 256 + s, ftype |-> "", scale |-> scale]
TinyInt == Col("Tiny", 0, "signed")

\* A column of the type in front of the key, so that a cell of the wrong length
\* spoils the key.
Typed(c, vals) ==
    [cols |-> <<c, TinyInt>>, pk |-> <<2>>, image |-> "full", spare |-> FALSE, filtered |-> FALSE,
     default |-> <<NULL, {<<1>>}>>,
     rows |-> {<<v, {<<1>>}>> : v \in {{x} : x \in vals} \union {NULL}}]

TypedShapes ==
    { Typed(Col("Tiny", 0, "signed"), {<<-128>>, <<-1>>, <<127>>}),
      Typed(Col("Tiny", 0, "unsigned"), {<<0>>, <<255>>}),
      Typed(Col("Year", 0, ""), {<<0>>, <<1901>>, <<2155>>}),
      Typed(Col("Short", 0, "signed"), {<<-32768>>, <<-2>>, <<32767>>}),
      Typed(Col("Short", 0, "unsigned"), {<<65535>>, <<256>>}),
      Typed(Col("Int24", 0, "signed"), {<<-8388608>>, <<-1>>, <<8388607>>}),
      Typed(Col("Int24", 0, "unsigned"), {<<16777215>>}),
      Typed(Col("Long", 0, "signed"), {<<-2147483647>>, <<65536>>}),
      Typed(Col("LongLong", 0, "signed"), {<<-5>>, <<2147483647>>}),
      Typed(Col("LongLong", 0, "unsigned"), {<<0>>, <<16777216>>}),
      Typed(Col("Float", 0, ""), {<<63, 128, 0, 1>>}),
      Typed(Col("Double", 0, ""), {<<191, 240, 0, 0, 0, 0, 0, 2>>}),
      Typed(Col("Timestamp", 0, ""), {<<0, 0>>, <<2147483647, 0>>}),
      Typed(Col("Date", 0, ""), {<<0, 0, 0>>, <<1999, 12, 31>>, <<9999, 1, 1>>}),
      Typed(Col("Time", 0, ""), {<<3020399, 0>>, <<-3600, 0>>, <<-5400, 0>>}),
      Typed(Col("Bit", 1, ""), {<<1>>}),
      Typed(Col("Bit", 2 * 256 + 3, ""), {<<0>>, <<524287>>}),
      Typed(Col("Enum", 1, ""), {<<0>>, <<255>>}),
      Typed(Col("String", TypeEnum * 256 + 2, ""), {<<1>>, <<300>>}),
      Typed(Col("String", TypeSet * 256 + 3, ""), {<<0>>, <<16711681>>}) }
    \union { Typed(Col("Timestamp2", m, ""),
                   {<<0, 0>>, <<1700000000, 0>>, <<1, 10^6 - 10^(6 - m)>>}) : m \in 0 .. 6 }
    \union { Typed(Col("DateTime2", m, ""),
                   {<<1000, 1, 1, 0, 0, 0, 0>>, <<9999, 12, 31, 23, 59, 59, 10^6 - 10^(6 - m)>>,
                    <<2024, 5, 0, 0, 0, 0, 0>>}) : m \in 0 .. 6 }
    \union { Typed(Col("Time2", m, ""),
                   {<<0, 0>>, <<-1, 0>>, <<-60, -(10^6 - 10^(6 - m))>>, <<0, IF m = 0 THEN 0 ELSE -(10^(6 - m))>>,
                    <<3020399, 10^6 - 10^(6 - m)>>, <<-3020399, -(10^6 - 10^(6 - m))>>}) : m \in 0 .. 6 }
    \union { Typed(Decimal(d[1], d[2], d[3]), {<<0>>, <<-1>>, <<d[4]>>, <<-d[4]>>}) : d \in
                { <<1, 0, 0, 9>>, <<5, 2, 2, 99999>>, <<9, 0, 0, 999999999>>,
                  <<9, 9, 9, 123456789>>, <<4, 4, 4, 9999>>, <<10, 1, 1, 2000000001>>,
                  <<7, 5, 5, 9999999>>, <<8, 7, 7, 98765432>>, <<9, 3, 5, 999999>>,
                  <<5, 0, 2, 99999>>, <<9, 5, 3, 9999>>,
                  <<9, 6, 6, 999999999>>, <<18, 6, 6, 1999999999>>, <<20, 8, 8, 1999999999>> } }
    \union { Typed(Col("Varchar", m, "utf8"), {<< >>, <<97, 233, 8364>>}) : m \in {60, 300} }
    \union { Typed(Col("Varchar", 10, "latin1"), {<<97, 233, 8364>>}),
             Typed(Col("Varchar", 10, "varbinary"), {<<0, 255, 0>>}),
             Typed(Col("String", 254 * 256 + 4, "utf8"), {<<97>>, << >>}),
             Typed(Col("String", (254 - 16) * 256 + 44, "utf8"), {<<97, 98>>}),
             Typed(Col("String", 254 * 256 + 4, "latin1"), {<<233>>}),
             Typed(Col("String", 254 * 256 + 4, "binary"), {<<0, 7, 0, 0>>, <<1, 2, 3, 4>>, <<0, 0, 0, 0>>}) }
    \union { Typed(Col("Blob", m, f), {<< >>, <<97, 200>>}) : m \in 1 .. 4, f \in {"utf8", "latin1", "varbinary"} }

Val == {{<<0>>}, {<<1>>}}
OrNull == Val \union {NULL}

Table(pk, cols, image, rows, default) ==
    [cols |-> [i \in 1 .. cols |-> TinyInt], pk |-> pk, image |-> image, spare |-> FALSE, filtered |-> FALSE,
     rows |-> rows, default |-> default]

One == {<<1>>}
Zero == {<<0>>}

\* The unused bits are read in minimal images only.
OldSource(shapes) == {[s EXCEPT !.spare = TRUE] : s \in {x \in shapes : x.image = "minimal"}}

WrittenShapes ==
    { Table(<<1>>, 2, "full", Val \X OrNull, <<One, Zero>>),
      Table(<<1>>, 2, "minimal", Val \X OrNull, <<One, Zero>>),
      Table(<<1>>, 2, "minimal", Val \X OrNull, <<One, NULL>>),
      Table(<<2>>, 2, "minimal", OrNull \X Val, <<NULL, One>>),
      Table(<< >>, 2, "full", OrNull \X OrNull, <<NULL, Zero>>),
      Table(<< >>, 2, "minimal", OrNull \X Val, <<NULL, Zero>>),
      Table(<<1, 2>>, 3, "minimal", Val \X Val \X {One}, <<One, One, One>>),
      Table(<<2, 1>>, 3, "minimal", Val \X Val \X {One}, <<One, One, One>>),
      Table(<<1>>, 3, "minimal", {One} \X OrNull \X OrNull, <<One, NULL, NULL>>) }

FilteredShapes ==
    { [Table(<<1>>, 1, "full", {<<One>>}, <<One>>) EXCEPT !.filtered = TRUE] }

MCShapes == TypedShapes \union WrittenShapes \union OldSource(WrittenShapes) \union FilteredShapes

Symmetric == Permutations(Clients)

MCMine == <<"d", "t">>
MCOthers == {<<"D", "u">>, <<"e", "t">>, <<"mysql", "user">>}

Do(name, value) == [name |-> name, value |-> value]

MCCommands ==
    { << Do("REPLICATE_DO_DB", {<<"", "D">>}) >>,
      << Do("REPLICATE_DO_DB", {}), Do("REPLICATE_IGNORE_DB", {<<"", "e">>}) >>,
      << Do("REPLICATE_IGNORE_DB", {<<"", "d">>, <<"", "e">>}) >>,
      << Do("REPLICATE_DO_TABLE", {<<"d", "T">>}) >>,
      << Do("REPLICATE_DO_TABLE", {<<"d", "u">>, <<"e", "t">>}) >>,
      << Do("REPLICATE_IGNORE_TABLE", {<<"D", "t">>}), Do("REPLICATE_DO_TABLE", {}) >>,
      << Do("REPLICATE_IGNORE_TABLE", {<<"e", "t">>}), Do("REPLICATE_DO_TABLE", {<<"", "t">>}) >> }
=============================================================================
