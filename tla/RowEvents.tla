----------------------------- MODULE RowEvents -----------------------------
(***************************************************************************)
(* Row events from the binlog to a table of the replica: processRowEvent   *)
(* and what it uses, the filters (ReplicationFilters), the two ways into   *)
(* the table (TableWriter) and the decoder of images (RowCodec).           *)
(*                                                                         *)
(* The source changes its table by one row at a time, in transactions, and *)
(* the applier takes the event at once: what delays and repeats events is  *)
(* in BinlogApplier.  What a flush does with the rows of the delta buffer  *)
(* is Delta's promise: the last change of a key wins.                      *)
(***************************************************************************)
EXTENDS TableWriter, ReplicationFilters

CONSTANTS
    Shapes,        \* tables: cols, pk, spare, rows (the rows the source may hold),
                   \* default, image ("full" or "minimal": binlog_row_image), and
                   \* filtered (users change filters meanwhile)
    Mine,          \* the name of the table
    Others,        \* the names of other tables with events
    MaxEvents      \* bound on the events

ASSUME RowEventsAssumption == MaxEvents \in Nat /\ Mine \notin Others

VARIABLES
    shape,         \* the table
    src,           \* the source's rows
    rep,           \* the replica's rows, as the applier's transaction sees them
    buf,           \* the delta buffer
    inTxn,         \* between BEGIN and XID
    ongoingBatchTxn,
    alive,         \* the replica's process has not panicked
    events,        \* number of events so far
    read,          \* bytes of the last image decoded: used, there, and by CellLength
    verdict,       \* the last filter question: the answer, the documented one, and
                   \* whether one is claimed
    odd            \* history: an event came that the code does not serve

tableVars == <<shape, src, rep, buf, inTxn, ongoingBatchTxn, alive, events, read, verdict, odd>>
vars == <<tableVars, filterVars>>

-----------------------------------------------------------------------------
(* The source. *)

All(sh) == DOMAIN sh.cols

\* The columns in the image before the change: the key identifies the row.
IdentifyColumns(sh) == IF sh.image = "full" \/ sh.pk = << >> THEN All(sh) ELSE Key(sh)

NoImage == [present |-> {}, nulls |-> << >>, data |-> << >>]

\* The row the replica should hold for a row of the source.
MeantRow(sh, row) ==
    [i \in All(sh) |-> IF row[i] = NULL THEN NULL
                       ELSE {Meant(sh.cols[i], CHOOSE v \in row[i] : TRUE)}]

\* An INSERT that gives the columns in given; the others get their default.
InsertEvent(sh, row, given) ==
    [kind |-> "insert", row |-> row, old |-> << >>, before |-> NoImage,
     after |-> Image(sh, IF sh.image = "full" THEN All(sh) ELSE given, row)]

DeleteEvent(sh, row) ==
    [kind |-> "delete", row |-> << >>, old |-> row, after |-> NoImage,
     before |-> Image(sh, IdentifyColumns(sh), row)]

UpdateEvent(sh, old, row) ==
    [kind |-> "update", row |-> row, old |-> old,
     before |-> Image(sh, IdentifyColumns(sh), old),
     after  |-> Image(sh, IF sh.image = "full" THEN All(sh)
                          ELSE {i \in All(sh) : old[i] # row[i]}, row)]

\* How often a row is there.
Times(row, tab) == IF BagIn(row, tab) THEN tab[row] ELSE 0

\* Two rows of a table without a key may be equal; two is enough.
Fits(sh, tab, row) ==
    IF sh.pk = << >> THEN Times(row, tab) < 2
    ELSE \A r \in DOMAIN tab : ~SameKey(sh, r, row)

Changed(tab, ev) ==
    (tab (-) IF ev.old = << >> THEN EmptyBag ELSE SetToBag({ev.old}))
    (+) IF ev.row = << >> THEN EmptyBag ELSE SetToBag({ev.row})

\* The events of statements the source accepts.
SourceEvents(sh, tab) ==
    LET Without1(r) == tab (-) SetToBag({r})
    IN  {InsertEvent(sh, p[1], p[2]) : p \in
            {p \in sh.rows \X SUBSET All(sh) :
                /\ Fits(sh, tab, p[1])
                /\ \A i \in All(sh) \ p[2] : p[1][i] = sh.default[i]}}
        \union {DeleteEvent(sh, r) : r \in DOMAIN tab}
        \union {UpdateEvent(sh, p[1], p[2]) : p \in
            {p \in (DOMAIN tab) \X sh.rows :
                p[1] # p[2] /\ Fits(sh, Without1(p[1]), p[2])}}

-----------------------------------------------------------------------------
(* The applier. *)

isRowFormat(sh, ev) ==
    /\ ev.kind \in {"delete", "update"} => ev.before.present = All(sh)
    /\ ev.kind \in {"insert", "update"} => ev.after.present = All(sh)

Direct(sh, ev) == ~(isRowFormat(sh, ev) /\ sh.pk # << >>)

\* The images an event adds to the delta buffer, in their order.
Appended(ev) ==
    (IF ev.kind = "insert" THEN << >> ELSE <<[act |-> "delete", image |-> ev.before]>>)
    \o (IF ev.kind = "delete" THEN << >> ELSE <<[act |-> "insert", image |-> ev.after]>>)

\* The rows of the images, each with what became of its decoding.
appendRowFormatChanges(sh, ev) ==
    LET images == Appended(ev)
    IN  [k \in DOMAIN images |-> AppendRow(sh, images[k].image) @@ [act |-> images[k].act]]

\* The bytes of an image as CellLength counts them.
LengthOf(sh, image) ==
    FoldLeft(LAMBDA pos, i : IF Bit(image.nulls, i) THEN pos
                             ELSE pos + CellLength(sh.cols[i], image.data, pos),
             0, Ordinals(sh))

\* The table after the buffer has been flushed into it.
Flushed(sh, tab, b) ==
    LET touches(i, r) == SameKey(sh, b[i].row, r)
        final == {i \in DOMAIN b : \A j \in DOMAIN b : j > i => ~touches(j, b[i].row)}
    IN  Without(tab, LAMBDA r : \E i \in DOMAIN b : touches(i, r))
        (+) SetToBag({b[i].row : i \in {k \in final : b[k].act = "insert"}})

-----------------------------------------------------------------------------
(* What the code does not serve. *)

\* A column absent from the image of an INSERT becomes NULL, whatever its default.
LosesDefault(sh, ev) ==
    ev.kind = "insert" /\ \E i \in All(sh) \ ev.after.present : ev.row[i] # NULL

\* A row of NULLs has no bytes, and is not parsed.
NoBytes(ev) ==
    \/ ev.kind # "insert" /\ ev.before.data = << >>
    \/ ev.kind # "delete" /\ ev.after.data = << >>

\* The bitmap of NULLs counts the columns present, parseRow all columns: a column
\* takes the bit of another, or one that the source leaves unused.
ShiftedNulls(ev) ==
    /\ ev.kind = "insert"
    /\ \E i \in ev.after.present : Bit(ev.after.nulls, i) # (ev.row[i] = NULL)

\* The key is looked up behind its place when a column before it is absent, and in
\* the order of the schema although the statement has the order of the key.
MisplacedKey(sh, ev) ==
    /\ ev.kind = "delete"
    /\ sh.pk # << >>
    /\ \/ sh.pk # InOrder(Key(sh))
       \/ \E i \in Key(sh), j \in All(sh) : j < i /\ j \notin ev.before.present

\* Without a key, = NULL finds no row, and equal rows go together.
Ambiguous(sh, tab, ev) ==
    /\ ev.kind = "delete"
    /\ sh.pk = << >>
    /\ Times(ev.old, tab) > 1 \/ \E i \in All(sh) : ev.old[i] = NULL

\* A row in the delta buffer will be written after a later direct write of its key.
Overtakes(sh, b, ev) ==
    \E i \in DOMAIN b : \E r \in {ev.row, ev.old} \ {<< >>} :
        SameKey(sh, b[i].row, MeantRow(sh, r))

\* Every update ends in an error or a panic.
DirectUnserved(sh, tab, b, ev) ==
    \/ ev.kind = "update"
    \/ LosesDefault(sh, ev) \/ NoBytes(ev) \/ ShiftedNulls(ev)
    \/ MisplacedKey(sh, ev) \/ Ambiguous(sh, tab, ev) \/ Overtakes(sh, b, ev)

Unserved(sh, tab, b, ev) ==
    \/ \E i \in All(sh), r \in {ev.row, ev.old} \ {<< >>} :
           r[i] # NULL /\ Distorted(sh.cols[i], CHOOSE v \in r[i] : TRUE)
    \/ Direct(sh, ev) /\ DirectUnserved(sh, tab, b, ev)

-----------------------------------------------------------------------------
(* Events. *)

\* A row whose decoding failed has stopped in the middle.
Torn == \E i \in DOMAIN buf : Len(buf[i].row) # Width(shape)

\* Arrow builds no record of columns of different lengths: it panics.
Flush ==
    IF Torn THEN alive' = FALSE /\ UNCHANGED <<rep, buf>>
    ELSE /\ rep' = Flushed(shape, rep, buf)
         /\ buf' = << >>
         /\ UNCHANGED alive

\* BEGIN: within a batch it is skipped, unless the batch has become old.
Begin ==
    /\ alive /\ ~inTxn
    /\ events < MaxEvents
    /\ inTxn' = TRUE
    /\ ongoingBatchTxn' = TRUE
    /\ \/ ongoingBatchTxn /\ UNCHANGED <<rep, buf, alive>>
       \/ Flush
    /\ UNCHANGED <<shape, src, events, read, verdict, odd, filterVars>>

\* Tables of the system are skipped before the filters are asked.
Skipped(table) == table[1] = "mysql" \/ isTableFilteredOut(inForce, table)

\* No claim about a filter that is being changed, or was left by a command that
\* failed or met another.  Where doTables names tables of other databases only, the
\* code replicates what its comment says it must not.
Claimed(table) ==
    /\ settled /\ todo = Idle /\ table[1] # "mysql"
    /\ asked.doTables = {} \/ InDatabase(asked.doTables, ToLower(table[1])) # {}

Question(table) ==
    verdict' = [claimed |-> Claimed(table),
                out |-> Skipped(table),
                documented |-> Documented(asked, table)]

\* A statement at once, on a table whose buffered rows are still to come.
WriteDirect(ev) ==
    /\ \E written \in {writeChanges(shape, rep, ev)} :
          /\ rep' = written.tab
          /\ alive' = (written.res # "panic")
    /\ ongoingBatchTxn' = FALSE
    /\ UNCHANGED <<buf, read>>

\* The rows up to the first that fails, whose columns so far stay in the buffer.
Kept(rows) ==
    {k \in DOMAIN rows : \A j \in 1 .. k - 1 : rows[j].res = "ok"}

AppendToBuffer(ev) ==
    /\ \E rows \in {appendRowFormatChanges(shape, ev)} :
          /\ buf' = buf \o [k \in Kept(rows) |-> [act |-> rows[k].act, row |-> rows[k].row]]
          /\ alive' = \A k \in Kept(rows) : rows[k].res # "panic"
          /\ read' = IF \E k \in Kept(rows) : rows[k].res # "ok" THEN read
                     ELSE [used |-> Last(rows).pos,
                           there |-> Len(Last(Appended(ev)).image.data),
                           counted |-> LengthOf(shape, Last(Appended(ev)).image)]
    /\ UNCHANGED <<rep, ongoingBatchTxn>>

\* An event of the table.  What the filters take out is gone for good.
processRowEvent ==
    /\ alive /\ inTxn
    /\ events < MaxEvents
    /\ events' = events + 1
    /\ \E ev \in SourceEvents(shape, src) :
          /\ src' = Changed(src, ev)
          /\ Question(Mine)
          /\ odd' = (odd \/ Skipped(Mine) \/ Unserved(shape, src, buf, ev))
          /\ \/ Skipped(Mine) /\ UNCHANGED <<rep, buf, alive, ongoingBatchTxn, read>>
             \/ ~Skipped(Mine) /\ Direct(shape, ev) /\ WriteDirect(ev)
             \/ ~Skipped(Mine) /\ ~Direct(shape, ev) /\ AppendToBuffer(ev)
    /\ UNCHANGED <<shape, inTxn, filterVars>>

\* An event of another table.
ForeignRowEvent ==
    /\ alive /\ inTxn
    /\ shape.filtered
    /\ \E table \in Others : Question(table)
    /\ UNCHANGED <<shape, src, rep, buf, inTxn, ongoingBatchTxn, alive, events, read, odd,
                   filterVars>>

\* XID within a batch that is neither old nor large.
extendBatchTxn ==
    /\ alive /\ inTxn /\ ongoingBatchTxn
    /\ inTxn' = FALSE
    /\ UNCHANGED <<shape, src, rep, buf, ongoingBatchTxn, alive, events, read, verdict, odd,
                   filterVars>>

\* XID otherwise, or the ticker with a batch between two transactions.
commitOngoingTxn ==
    /\ alive /\ (inTxn \/ ongoingBatchTxn)
    /\ Flush
    /\ inTxn' = FALSE
    /\ ongoingBatchTxn' = FALSE
    /\ UNCHANGED <<shape, src, events, read, verdict, odd, filterVars>>

FilterCommand ==
    /\ shape.filtered
    /\ \/ SendFilterCommand
       \/ \E c \in Clients : SetReplicationFilterOptions(c)
       \/ ~inTxn /\ ~ongoingBatchTxn /\ buf = << >> /\ (ResetReplicaAll \/ RestartFilters)
    /\ UNCHANGED tableVars

Init ==
    /\ shape \in Shapes
    /\ src = EmptyBag
    /\ rep = EmptyBag
    /\ buf = << >>
    /\ inTxn = FALSE
    /\ ongoingBatchTxn = FALSE
    /\ alive = TRUE
    /\ events = 0
    /\ read = [used |-> 0, there |-> 0, counted |-> 0]
    /\ verdict = [claimed |-> FALSE, out |-> FALSE, documented |-> FALSE]
    /\ odd = FALSE
    /\ InitFilters

Next ==
    \/ Begin \/ processRowEvent \/ ForeignRowEvent
    \/ extendBatchTxn \/ commitOngoingTxn
    \/ FilterCommand

Spec == Init /\ [][Next]_vars

-----------------------------------------------------------------------------
(* Properties *)

MeantTable(sh, tab) == [m \in {MeantRow(sh, r) : r \in DOMAIN tab} |->
                           tab[CHOOSE r \in DOMAIN tab : MeantRow(sh, r) = m]]

\* The table and the buffered rows together hold exactly the rows of the source, at
\* any moment in or between transactions, and the applier does not panic: for each
\* type that CellValue decodes, full and minimal images, and buffered rows mixed with
\* direct writes, until an event comes that the filters take out or the code does not
\* serve (Unserved: a value that is Distorted, or a direct write of one of the kinds
\* in DirectUnserved).
Mirrors == ~odd => alive /\ Flushed(shape, rep, buf) = MeantTable(shape, src)

\* Decoding an image uses it up to its last byte, so no column is read at the wrong
\* place, and CellLength counts the same bytes as CellValue.
ImageConsumed == read.used = read.there /\ read.counted = read.there

\* isTableFilteredOut decides by the rules of its comments, on what the last complete
\* command for each option asked for, as long as commands run one at a time and none
\* fails half way, until RESET REPLICA ALL, and in databases that doTables mentions
\* if it mentions any.
FilterObeyed == verdict.claimed => verdict.out = verdict.documented
=============================================================================
