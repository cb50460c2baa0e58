---------------------------- MODULE TableWriter ----------------------------
(***************************************************************************)
(* The two ways a row event takes into a table of the replica: images with *)
(* all columns of a table with a primary key go to the delta buffer        *)
(* (appendRowFormatChanges, in binlog_replica_applier.go), all others      *)
(* through a prepared statement at once (writeChanges, and the table       *)
(* updater of replica/updater.go).                                         *)
(*                                                                         *)
(* A shape is a table definition: cols, and pk, the ordinals of the        *)
(* columns of the primary key in the order of the key; spare is what the   *)
(* source writes into the unused bits of a bitmap (MySQL 8 zeros, MariaDB  *)
(* and older versions ones).  A value is NULL, the empty set, or the set   *)
(* of one value of RowCodec; a row is a sequence of values, a table a bag  *)
(* of rows.                                                                *)
(***************************************************************************)
EXTENDS RowCodec, FiniteSets, Bags

NULL == {}

Ordinals(shape) == [i \in DOMAIN shape.cols |-> i]
Width(shape) == Len(shape.cols)
Key(shape) == Range(shape.pk)
KeyOf(shape, row) == [j \in DOMAIN shape.pk |-> row[shape.pk[j]]]
InOrder(S) == SetToSortSeq(S, <)

-----------------------------------------------------------------------------
(* Images. *)

\* What the source writes for the columns present: the bitmap of NULLs has a bit for
\* each of them, up to whole bytes, and a NULL takes no bytes.
Image(shape, present, row) ==
    LET order == InOrder(present)
        cell(i) == IF row[i] = NULL THEN << >>
                   ELSE EncodeCell(shape.cols[i], CHOOSE v \in row[i] : TRUE)
    IN  [present |-> present,
         nulls   |-> [k \in 1 .. 8 * ((Len(order) + 7) \div 8) |->
                         IF k <= Len(order) THEN row[order[k]] = NULL ELSE shape.spare],
         data    |-> FlattenSeq([k \in DOMAIN order |-> cell(order[k])])]

\* mysql.Bitmap.Bit
Bit(bitmap, i) == bitmap[i]

Advance(st, cell) ==
    IF cell.ok THEN [st EXCEPT !.row = Append(@, {cell.val}), !.pos = @ + cell.len]
    ELSE [st EXCEPT !.res = "error"]

\* A read behind the last byte panics.
ReadCell(shape, image, st, i) ==
    IF st.pos >= Len(image.data) THEN [st EXCEPT !.res = "panic"]
    ELSE Advance(st, CellValue(shape.cols[i], image.data, st.pos))

NothingRead == [res |-> "ok", pos |-> 0, row |-> << >>]

\* The loop over the columns of one row in appendRowFormatChanges.
AppendRow(shape, image) ==
    FoldLeft(LAMBDA st, i :
                 IF st.res # "ok" THEN st
                 ELSE IF Bit(image.nulls, i) THEN [st EXCEPT !.row = Append(@, NULL)]
                 ELSE ReadCell(shape, image, st, i),
             NothingRead, Ordinals(shape))

\* An absent column reads as NULL.  The bitmap of NULLs is indexed by column.  The
\* cells are read by Vitess's CellValue, which agrees with RowCodec's for integers:
\* tables written this way have no others in the instances.
parseRow(shape, image) ==
    FoldLeft(LAMBDA st, i :
                 IF st.res # "ok" THEN st
                 ELSE IF i \notin image.present \/ Bit(image.nulls, i)
                      THEN [st EXCEPT !.row = Append(@, NULL)]
                 ELSE ReadCell(shape, image, st, i),
             NothingRead, Ordinals(shape))

\* An image without bytes is not parsed: its row is nil.
ParsedRow(shape, image) ==
    IF image.data = << >> THEN NothingRead ELSE parseRow(shape, image)

-----------------------------------------------------------------------------
(* Statements on the replica's table. *)

Done(tab) == [res |-> "ok", tab |-> tab]
Fails(tab) == [res |-> "error", tab |-> tab]
Panics(tab) == [res |-> "panic", tab |-> tab]

\* WHERE cols[1] = args[1] AND ...: a comparison with NULL is never true.
Selects(cols, args, row) ==
    \A j \in DOMAIN cols : args[j] # NULL /\ row[cols[j]] = args[j]

Without(tab, Drop(_)) == [r \in {x \in DOMAIN tab : ~Drop(x)} |-> tab[r]]

SameKey(shape, r1, r2) == shape.pk # << >> /\ KeyOf(shape, r1) = KeyOf(shape, r2)

\* INSERT INTO t VALUES (?, ...)
execInsert(shape, tab, row) ==
    IF \/ Len(row) # Width(shape)
       \/ \E i \in Key(shape) : row[i] = NULL
       \/ \E r \in DOMAIN tab : SameKey(shape, r, row)
    THEN Fails(tab) ELSE Done(tab (+) SetToBag({row}))

\* INSERT OR REPLACE, which DuckDB refuses for a table without a key.
execReplace(shape, tab, row) ==
    IF shape.pk = << >> \/ Len(row) # Width(shape) \/ \E i \in Key(shape) : row[i] = NULL
    THEN Fails(tab)
    ELSE Done(Without(tab, LAMBDA r : SameKey(shape, r, row)) (+) SetToBag({row}))

execDelete(tab, cols, args) ==
    IF Len(args) # Len(cols) THEN Fails(tab)
    ELSE Done(Without(tab, LAMBDA r : Selects(cols, args, r)))

-----------------------------------------------------------------------------
(* The table updater. *)

\* The positions of the key among the columns present, in the order of the
\* schema; nil if one of them is absent.
getPrimaryKeyIndices(shape, present) ==
    LET cols == InOrder(Key(shape))
    IN  IF ~(Key(shape) \subseteq present) THEN << >>
        ELSE [j \in DOMAIN cols |-> Cardinality({i \in present : i < cols[j]}) + 1]

isPkUpdate(shape, identify, data) == Key(shape) \intersect identify \intersect data # {}

\* The columns in the WHERE clause: the key in its own order, or all present.
buildDeleteTemplate(shape, identify) ==
    IF getPrimaryKeyIndices(shape, identify) # << >> THEN shape.pk ELSE InOrder(identify)

\* A row always has all columns, with NULL for the absent ones, although the
\* positions of the key count the present ones.
Delete(shape, tab, identify, row) ==
    LET pk == getPrimaryKeyIndices(shape, identify)
        keys == IF pk = << >> THEN row ELSE [j \in DOMAIN pk |-> row[pk[j]]]
    IN  IF pk # << >> /\ row = << >> THEN Panics(tab)
        ELSE execDelete(tab, buildDeleteTemplate(shape, identify), keys)

\* The number of parameters of UPDATE t SET ... WHERE ...
buildUpdateTemplate(shape, identify, data) ==
    Cardinality(data) + Len(buildDeleteTemplate(shape, identify))

\* The arguments of an UPDATE statement are all columns of both rows, in a
\* buffer for the parameters: they never fit.  After INSERT OR REPLACE, the
\* transaction that the old row should be deleted in is nil.
Update(shape, tab, identify, data, after) ==
    LET W == Width(shape)
        partial == Cardinality(identify) < W \/ Cardinality(data) < W
    IN  IF isPkUpdate(shape, identify, data)
        THEN IF \/ getPrimaryKeyIndices(shape, identify) = << >>
                \/ getPrimaryKeyIndices(shape, data) = << >>
                \/ execReplace(shape, tab, after).res = "error"
             THEN Fails(tab) ELSE Panics(tab)
        ELSE IF partial
        THEN IF 2 * W > buildUpdateTemplate(shape, identify, data)
             THEN Panics(tab) ELSE Fails(tab)
        ELSE execReplace(shape, tab, after)

\* The updater for the kind of event.
Write(shape, tab, ev, before, after) ==
    IF before.res # "ok" THEN [res |-> before.res, tab |-> tab]
    ELSE IF after.res # "ok" THEN [res |-> after.res, tab |-> tab]
    ELSE CASE ev.kind = "delete" -> Delete(shape, tab, ev.before.present, before.row)
           [] ev.kind = "insert" -> execInsert(shape, tab, after.row)
           [] ev.kind = "update" ->
                 Update(shape, tab, ev.before.present, ev.after.present, after.row)

\* The rows are parsed first.
writeChanges(shape, tab, ev) ==
    Write(shape, tab, ev, ParsedRow(shape, ev.before), ParsedRow(shape, ev.after))
=============================================================================
