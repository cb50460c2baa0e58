------------------------------- MODULE Delta -------------------------------
(***************************************************************************)
(* The delta buffer of one replicated table (delta/controller.go and       *)
(* delta/delta.go), fed by the row events of a source server and flushed   *)
(* into the DuckDB base table.                                             *)
(*                                                                         *)
(* A row event is not applied when it arrives.  It is appended to an Arrow *)
(* buffer as DELETE and INSERT rows tagged with the transaction sequence   *)
(* number and the ordinal of the statement, and a later flush turns the    *)
(* buffered rows of many transactions into two or three SQL statements     *)
(* chosen from the kinds of events seen.  What has to hold is that the     *)
(* flush leaves the base table exactly as the source has it, whatever the  *)
(* mixture of events, transactions and key changes in the buffer.          *)
(*                                                                         *)
(* A table is a function from primary keys to values.  None is "no row     *)
(* with this key".  Dup is "more than one row with this key": with an      *)
(* index on the base table the statement that would produce it fails with  *)
(* a constraint violation, without one the duplicate is stored.            *)
(*                                                                         *)
(* A flush may fail.  The transaction is rolled back, but the rows are     *)
(* gone from the buffer.  They come back when the stream is read again     *)
(* from the stored position, unless a later flush has moved it.            *)
(***************************************************************************)
EXTENDS Integers, FiniteSets

CONSTANTS
    Keys,          \* primary keys
    Vals,          \* contents of the other columns
    None,          \* no row with the key
    Dup,           \* several rows with the key
    Servers,       \* source servers whose transactions reach the replica
    Confs,         \* configurations of the replica: the stream is Postgres'
                   \* or MySQL's, REPLICATION_WITHOUT_INDEX is set or not
    MaxSeq,        \* bound on the transactions per server
    MaxStmt,       \* bound on the statement ordinal
    MaxRows        \* bound on the buffered rows

ASSUME DeltaAssumption ==
    /\ None \notin Vals
    /\ Dup \notin Vals
    /\ None # Dup
    /\ Confs \subseteq [postgres : BOOLEAN, withoutIndex : BOOLEAN]
    /\ MaxSeq \in Nat
    /\ MaxStmt \in Nat
    /\ MaxRows \in Nat

VARIABLES
    conf,     \* the configuration, fixed while the server runs
    src,      \* the table on the source, after the events sent so far
    tbl,      \* the base table in DuckDB
    buf,      \* the Arrow rows of the appender
    seen,     \* which counters of the appender are positive
    seq,      \* txn_seq of the last transaction of every server
    server,   \* the server of the current transaction
    stmt,     \* inTxnStmtID
    stored,   \* the source's table and sequence numbers as of the position
              \* stored with the last flush
    lost      \* history: where the rows of a failed flush are missing, in the
              \* "buffer", in the "table", or nowhere ("none")

vars == <<conf, src, tbl, buf, seen, seq, server, stmt, stored, lost>>

\* binlog.RowEventType of a buffered row: the DELETE of an update must sort
\* before its INSERT.
DeleteRowEvent == 0
InsertRowEvent == 2

\* An Arrow row.  txn_tag and txn_server are stored as well but nothing reads
\* them; txn_group is NULL in both GTID flavors.
Entry == [action : {DeleteRowEvent, InsertRowEvent}, txn_seq : Nat,
          txn_stmt : Nat, key : Keys, val : Vals \union {None}]

\* The counters of the appender are only ever compared with zero.
Counters == [insert : BOOLEAN, delete : BOOLEAN, update : BOOLEAN,
             deletions : BOOLEAN]

ResetCounters == [insert |-> FALSE, delete |-> FALSE, update |-> FALSE,
                  deletions |-> FALSE]

\* ObserveEvents and UpdateActionStats for an event of the given kind that
\* appended DELETE rows for the keys in dels.
Observe(c, event, dels) ==
    [insert    |-> c.insert \/ event = "insert",
     delete    |-> c.delete \/ event = "delete",
     update    |-> c.update \/ event = "update",
     deletions |-> c.deletions \/ dels # {}]

-----------------------------------------------------------------------------
(* Flushing. *)

\* Mutant: the order without its last column.
PrecedesWithoutAction(e, f) ==
    \/ e.txn_seq < f.txn_seq
    \/ e.txn_seq = f.txn_seq /\ e.txn_stmt < f.txn_stmt

\* The order of LAST(... ORDER BY txn_group, txn_seq, txn_stmt, action).
Precedes(e, f) ==
    \/ e.txn_seq < f.txn_seq
    \/ e.txn_seq = f.txn_seq /\ e.txn_stmt < f.txn_stmt
    \/ e.txn_seq = f.txn_seq /\ e.txn_stmt = f.txn_stmt /\ e.action < f.action

EntriesOf(k) == {e \in buf : e.key = k}

\* The condensed delta: per primary key, the last of its rows.
Condensed(k) ==
    CHOOSE e \in EntriesOf(k) : \A f \in EntriesOf(k) : ~Precedes(e, f)

\* INSERT OR REPLACE of the condensed rows whose action is in acts.
Upsert(t, acts) ==
    [k \in Keys |-> IF EntriesOf(k) # {} /\ Condensed(k).action \in acts
                    THEN Condensed(k).val ELSE t[k]]

\* DELETE of the keys whose condensed row has an action in acts.
DeleteKeys(t, acts) ==
    [k \in Keys |-> IF EntriesOf(k) # {} /\ Condensed(k).action \in acts
                    THEN None ELSE t[k]]

\* Case 1: plain INSERT of every buffered row.
handleInsertOnly(t) ==
    [k \in Keys |->
        IF EntriesOf(k) = {} THEN t[k]
        ELSE IF t[k] = None /\ \E e \in buf : EntriesOf(k) = {e}
             THEN Condensed(k).val ELSE Dup]

\* Case 2: DELETE of every buffered key.
handleDeleteOnly(t) == [k \in Keys |-> IF EntriesOf(k) # {} THEN None ELSE t[k]]

\* Case 3: upsert the condensed rows, whatever their action.
handleZeroDelete(t) == Upsert(t, {DeleteRowEvent, InsertRowEvent})

\* The general case: upsert what was inserted last, then delete what was
\* deleted last (DuckDB's index does not allow the opposite order).
handleGeneralCase(t) ==
    DeleteKeys(Upsert(t, {InsertRowEvent}), {DeleteRowEvent})

\* Without an index: delete every modified key, then plain INSERT.
handleWithoutIndex(t) ==
    LET d == DeleteKeys(t, {DeleteRowEvent, InsertRowEvent})
    IN  [k \in Keys |->
            IF EntriesOf(k) # {} /\ Condensed(k).action = InsertRowEvent
            THEN IF d[k] = None THEN Condensed(k).val ELSE Dup
            ELSE d[k]]

\* The case is chosen from the events seen since the last flush.
updateTable(t) ==
    LET insertOnly == seen.insert /\ ~seen.delete /\ ~seen.update
        deleteOnly == seen.delete /\ ~seen.insert /\ ~seen.update
    IN  IF insertOnly THEN handleInsertOnly(t)
        ELSE IF deleteOnly THEN handleDeleteOnly(t)
        ELSE IF ~seen.deletions /\ ~conf.withoutIndex THEN handleZeroDelete(t)
        ELSE IF conf.withoutIndex THEN handleWithoutIndex(t)
        ELSE handleGeneralCase(t)

\* The base table a flush would leave: tables without buffered rows are
\* skipped.
Flushed == IF buf = {} THEN tbl ELSE updateTable(tbl)

-----------------------------------------------------------------------------
(* The events of the source, and what they append. *)

Init ==
    /\ conf \in Confs
    /\ src = [k \in Keys |-> None]
    /\ tbl = [k \in Keys |-> None]
    /\ buf = {}
    /\ seen = ResetCounters
    /\ seq = [s \in Servers |-> 0]
    /\ server \in Servers
    /\ stmt = 0
    /\ stored = [rows |-> src, seq |-> seq]
    /\ lost = "none"

\* After a failed flush the subscriber of a Postgres stream reconnects or ends,
\* the applier of a MySQL stream goes on with the next event.
GoesOn == conf.postgres => lost = "none"

Row(action, k, v) ==
    [action |-> action, txn_seq |-> seq[server], txn_stmt |-> stmt,
     key |-> k, val |-> v]

\* appendRowFormatChanges and append: DELETE rows of the before images, then
\* INSERT rows of the after images, all with the same statement ordinal.  A
\* MySQL event holds any number of rows, a Postgres message one.
AppendChanges(event, dels, ins) ==
    /\ GoesOn
    /\ seq[server] > 0
    /\ stmt < MaxStmt
    /\ Cardinality(buf) < MaxRows
    /\ conf.postgres => Cardinality(dels) <= 1 /\ Cardinality(DOMAIN ins) <= 1
    /\ buf' = buf \union {Row(DeleteRowEvent, k, src[k]) : k \in dels}
                  \union {Row(InsertRowEvent, k, ins[k]) : k \in DOMAIN ins}
    /\ seen' = Observe(seen, event, dels)
    /\ src' = [k \in Keys |-> IF k \in DOMAIN ins THEN ins[k]
                              ELSE IF k \in dels THEN None ELSE src[k]]
    /\ stmt' = stmt + 1
    /\ UNCHANGED <<conf, tbl, seq, server, stored, lost>>

Present == {k \in Keys : src[k] # None}

\* The statement ordinal restarts with every transaction of a Postgres stream
\* and runs on through the transactions of a MySQL batch.
Begin(s) ==
    /\ GoesOn
    /\ seq[s] < MaxSeq
    /\ seq' = [seq EXCEPT ![s] = @ + 1]
    /\ server' = s
    /\ stmt' = IF conf.postgres THEN 0 ELSE stmt
    /\ UNCHANGED <<conf, src, tbl, buf, seen, stored, lost>>

WriteRows ==
    \E S \in (SUBSET (Keys \ Present)) \ {{}} : \E ins \in [S -> Vals] :
        AppendChanges("insert", {}, ins)

DeleteRows ==
    \E S \in (SUBSET Present) \ {{}} :
        AppendChanges("delete", S, [k \in {} |-> None])

\* A multi-row update may permute keys; it never makes two rows collide.
UpdateRows ==
    \E S \in (SUBSET Present) \ {{}}, T \in SUBSET Keys :
        /\ Cardinality(T) = Cardinality(S)
        /\ T \intersect (Present \ S) = {}
        /\ \E ins \in [T -> Vals] : AppendChanges("update", S, ins)

\* A Postgres UPDATE that leaves the key alone carries no old tuple: no DELETE
\* row is appended, but the update is observed.
UpdateInPlace ==
    /\ conf.postgres
    /\ \E k \in Present : \E ins \in [{k} -> Vals] : AppendChanges("update", {}, ins)

\* A flush forced by a commit is followed by the reset of the ordinal, one
\* forced by a statement is not.  The position is stored with the rows.
Flush ==
    /\ GoesOn
    /\ buf # {}
    /\ conf.withoutIndex \/ \A k \in Keys : Flushed[k] # Dup
    /\ tbl' = Flushed
    /\ buf' = {}
    /\ seen' = ResetCounters
    /\ stmt' \in {0, stmt}
    /\ stored' = [rows |-> src, seq |-> seq]
    /\ lost' = IF lost = "buffer" THEN "table" ELSE lost
    /\ UNCHANGED <<conf, src, seq, server>>

\* A statement of the flush fails: appender.Build() has taken the rows, the
\* deferred ResetCounters runs on this path too, and the callers roll back.  (A table that Flush had not come to keeps its rows.)
FlushFails ==
    /\ GoesOn
    /\ buf # {}
    /\ buf' = {}
    /\ seen' = ResetCounters
    /\ lost' = IF lost = "table" THEN lost ELSE "buffer"
    /\ UNCHANGED <<conf, src, tbl, seq, server, stmt, stored>>

\* A new connection, or a new start: DiscardDeltaBuffer, or a new controller,
\* and the source sends what follows the stored position again.
Reconnect ==
    /\ buf' = {}
    /\ seen' = ResetCounters
    /\ stmt' = 0
    /\ src' = stored.rows
    /\ seq' = stored.seq
    /\ lost' = IF lost = "table" THEN lost ELSE "none"
    /\ UNCHANGED <<conf, tbl, server, stored>>

Next ==
    \/ \E s \in Servers : Begin(s)
    \/ WriteRows
    \/ DeleteRows
    \/ UpdateRows
    \/ UpdateInPlace
    \/ Flush
    \/ FlushFails
    \/ Reconnect

Spec == Init /\ [][Next]_vars

-----------------------------------------------------------------------------

\* The type of the state of the buffer and of the two tables.
TypeOK ==
    /\ conf \in Confs
    /\ src \in [Keys -> Vals \union {None}]
    /\ tbl \in [Keys -> Vals \union {None, Dup}]
    /\ buf \in SUBSET Entry
    /\ seen \in Counters
    /\ seq \in [Servers -> 0..MaxSeq]
    /\ server \in Servers
    /\ stmt \in 0..MaxStmt
    /\ stored \in [rows : [Keys -> Vals \union {None}],
                   seq : [Servers -> 0..MaxSeq]]
    /\ lost \in {"none", "buffer", "table"}

\* Whenever the buffer is flushed, and for whatever mixture of transactions,
\* statements and key changes it holds, the base table becomes the source's
\* table: the choice of case in updateTable, the order of the condensed rows
\* and the order of the SQL statements lose and resurrect no row and never
\* meet a row with the key they insert.  This holds across lost connections,
\* and again after a flush that failed once the stream has been read again
\* from the stored position.  It ends when an applier goes on instead: the
\* failed flush has emptied the buffer, and the next one moves the position.
FlushMatchesSource == lost = "none" => Flushed = src

=============================================================================
