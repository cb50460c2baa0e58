--------------------------- MODULE BinlogApplier ---------------------------
(***************************************************************************)
(* The applier goroutine of MySQL and MariaDB replication                  *)
(* (binlogreplication/binlog_replica_applier.go) with the two pieces of    *)
(* state it drives: the DuckDB transaction that the connection pool keeps  *)
(* for the replication session, and the GTID position stored in DuckDB.    *)
(*                                                                         *)
(* The applier merges consecutive source transactions into one DuckDB      *)
(* transaction.  Row events go to the delta buffer, and the buffer is      *)
(* flushed and committed together with the position 200ms after the last   *)
(* commit, when it is full, or when a statement forces it.  What has to    *)
(* hold is that the position and the data never disagree, whatever the     *)
(* batching did and whenever the process, the connection or the user       *)
(* interrupts it.                                                          *)
(*                                                                         *)
(* The handler loop is one goroutine, so a handler is one step, except for *)
(* a DDL statement: it may reach the disk in three pieces.  Rows are       *)
(* abstracted to the event that carries them, and a table's contents to    *)
(* the number of times each event has been applied (Delta models what the  *)
(* flush computes).  The session runs with autocommit=1 on the source.     *)
(***************************************************************************)
EXTENDS Integers, Sequences, FiniteSets

CONSTANTS
    Log,        \* the source's transactions, each a sequence of events
    MariaDB,    \* GTID flavor: MariaDB's, or MySQL's
    MaxDelta,   \* the delta buffer is full (128MB) with this many events
    MaxFaults   \* bound on each kind of fault

\* row: row event with a full image of a table with a primary key
\* direct: any other row event, skip: a row event that is filtered out
\* stmt: INSERT, UPDATE, DELETE or LOAD DATA as a statement
Kinds == {"row", "direct", "skip", "stmt", "ddl"}

\* crash of the process, loss of the connection, STOP REPLICA, a flush that
\* fails, an event that fails
Faults == {"crash", "disconnect", "stop", "flush", "event"}

Txns == 1..Len(Log)

IsDDL(g) == Log[g][1].kind = "ddl"

ASSUME LogAssumption ==
    /\ Log \in Seq(Seq([kind : Kinds, table : STRING]))
    /\ \A g \in Txns :
           /\ Log[g] # <<>>
           /\ \A i \in 1..Len(Log[g]) :
                  Log[g][i].kind = "ddl" => Len(Log[g]) = 1
ASSUME BoundAssumption ==
    /\ MariaDB \in BOOLEAN
    /\ MaxDelta \in Nat
    /\ MaxFaults \in [Faults -> Nat]

\* The events of transaction g that change a table, and all of them.
Ops(g) == {o \in {g} \X (1..Len(Log[g])) : Log[g][o[2]].kind # "skip"}
AllOps == UNION {Ops(g) : g \in Txns}

TxnOf(o) == o[1]
Table(o) == Log[o[1]][o[2]].table

VARIABLES
    state,            \* stopped, connecting, streaming, or in the DDL handler
    stream,           \* transactions the source has still to send
    phase,            \* between transactions, after a GTID event, in the body
    idx,              \* events of the current body received
    currentGtid,      \* 0 is nil
    previousGtid,
    pendingPosition,
    currentPosition,  \* reported as gtid_executed
    ongoingBatchTxn,
    dirtyTxn,
    dirtyStream,
    elapsed,          \* 200ms have passed since lastCommitTime
    delta,            \* the events in the delta buffer
    txOpen,           \* the pool holds a DuckDB transaction of the session
    txRows,           \* how often it has applied each event
    saved,            \* the stored position
    durable,          \* how often each event has been applied and committed
    faults,           \* faults that may still happen
    dropped           \* history: the events that failed themselves, that were
                      \* in the batch of a flush that failed, or whose GTID
                      \* was in the position before all of them were read

streamVars == <<stream, phase, idx>>
gtidVars == <<currentGtid, previousGtid>>
flagVars == <<ongoingBatchTxn, dirtyTxn, dirtyStream>>
txVars == <<txOpen, txRows>>
diskVars == <<saved, durable>>
vars == <<state, streamVars, gtidVars, pendingPosition, currentPosition,
          flagVars, elapsed, delta, txVars, diskVars, faults, dropped>>

Zero == [o \in AllOps |-> 0]
Plus(f, h) == [o \in AllOps |-> f[o] + h[o]]
Once(S) == [o \in AllOps |-> IF o \in S THEN 1 ELSE 0]

\* replication.AppendGTID: a MySQL position is a set of GTIDs, a MariaDB
\* position the last GTID of the domain.
AppendGTID(pos, g) ==
    IF g = 0 THEN pos ELSE IF MariaDB THEN 1..g ELSE pos \union {g}

Fault(f) == /\ faults[f] > 0
            /\ faults' = [faults EXCEPT ![f] = @ - 1]

SetFlags(ongoing, dirty, midTxn) ==
    /\ ongoingBatchTxn' = ongoing
    /\ dirtyTxn' = dirty
    /\ dirtyStream' = midTxn

-----------------------------------------------------------------------------
(* Flushing and committing. *)

\* A flush moves the buffer into the pool's transaction, opening it if there
\* is none.
flushDeltaBuffer ==
    /\ txOpen' = TRUE
    /\ txRows' = Plus(txRows, Once(delta))
    /\ delta' = {}

\* A flush that fails on one table rolls the transaction back.  The rows of
\* that table and of the tables flushed before it are gone from the buffer.
RollbackFailedFlush ==
    /\ \E T \in SUBSET {Table(o) : o \in delta} :
           /\ T # {}
           /\ delta' = {o \in delta : Table(o) \notin T}
    /\ txOpen' = FALSE
    /\ txRows' = Zero
    /\ UNCHANGED <<pendingPosition, currentPosition, flagVars, elapsed, diskVars>>

FlushFails == Fault("flush") /\ RollbackFailedFlush

\* What a failed flush may cost: its batch, and the statement that forced it.
DropBatch(statement) ==
    dropped' = dropped \union delta \union {o \in AllOps : txRows[o] > 0}
                       \union statement

\* What an interruption may cost from now on: the ticker or a STOP that comes
\* right after a GTID event, or after a BEGIN whose flush failed, finds
\* dirtyStream false and puts a transaction into the position that has not been
\* read to its end.
DropUnread ==
    dropped' = dropped \union
        IF phase # "between" /\ idx < Len(Log[currentGtid])
        THEN Ops(currentGtid) ELSE {}

\* Mutant of commitOngoingTxn: the buffer is not flushed.
commitWithoutFlush(position) ==
    /\ saved' = position
    /\ durable' = Plus(durable, txRows)
    /\ pendingPosition' = position
    /\ currentPosition' = position
    /\ txOpen' = FALSE
    /\ txRows' = Zero
    /\ elapsed' = FALSE
    /\ UNCHANGED delta

\* commitOngoingTxn with the position to save: the flush, the upsert of the
\* position and the rows flushed earlier are one DuckDB transaction.  The
\* flags, which it resets, are left to the caller, who may set them again.
commitOngoingTxn(position) ==
    /\ saved' = position
    /\ durable' = Plus(durable, Plus(txRows, Once(delta)))
    /\ pendingPosition' = position
    /\ currentPosition' = position
    /\ delta' = {}
    /\ txOpen' = FALSE
    /\ txRows' = Zero
    /\ elapsed' = FALSE

NormalCommit ==
    /\ commitOngoingTxn(AppendGTID(pendingPosition, currentGtid))
    /\ SetFlags(FALSE, FALSE, FALSE)

\* Mutant: the age of the batch does not count.
mayExtendForever == ongoingBatchTxn /\ Cardinality(delta) < MaxDelta

mayExtendBatchTxn ==
    ongoingBatchTxn /\ ~elapsed /\ Cardinality(delta) < MaxDelta

\* Mutant: an extended batch is reported as executed.
extendAndReport ==
    \/ /\ mayExtendBatchTxn
       /\ pendingPosition' = AppendGTID(pendingPosition, currentGtid)
       /\ currentPosition' = pendingPosition'
       /\ dirtyStream' = FALSE
       /\ DropUnread
       /\ UNCHANGED <<ongoingBatchTxn, dirtyTxn, elapsed, delta, txVars, diskVars,
                      faults>>
    \/ ~mayExtendBatchTxn /\ NormalCommit /\ DropUnread /\ UNCHANGED faults
    \/ ~mayExtendBatchTxn /\ FlushFails /\ DropBatch({})

extendOrCommitBatchTxn ==
    \/ /\ mayExtendBatchTxn
       /\ pendingPosition' = AppendGTID(pendingPosition, currentGtid)
       /\ dirtyStream' = FALSE
       /\ DropUnread
       /\ UNCHANGED <<currentPosition, ongoingBatchTxn, dirtyTxn, elapsed,
                      delta, txVars, diskVars, faults>>
    \/ ~mayExtendBatchTxn /\ NormalCommit /\ DropUnread /\ UNCHANGED faults
    \/ ~mayExtendBatchTxn /\ FlushFails /\ DropBatch({})

\* executeQueryWithEngine of a BEGIN that follows transaction prev.
Begin(prev) ==
    \/ /\ mayExtendBatchTxn
       /\ pendingPosition' = AppendGTID(pendingPosition, prev)
       /\ dirtyStream' = TRUE
       /\ UNCHANGED <<currentPosition, ongoingBatchTxn, dirtyTxn, elapsed,
                      delta, txVars, diskVars, faults, dropped>>
    \/ /\ ~mayExtendBatchTxn
       /\ dirtyTxn
       /\ commitOngoingTxn(pendingPosition)
       /\ SetFlags(TRUE, TRUE, TRUE)
       /\ UNCHANGED <<faults, dropped>>
    \/ /\ ~mayExtendBatchTxn
       /\ ~dirtyTxn
       /\ flushDeltaBuffer
       /\ SetFlags(TRUE, TRUE, TRUE)
       /\ UNCHANGED <<pendingPosition, currentPosition, elapsed, diskVars, faults, dropped>>
    \/ ~mayExtendBatchTxn /\ FlushFails /\ DropBatch({})

-----------------------------------------------------------------------------
(* Binlog events, in the order in which the source sends them. *)

Streaming == state = "streaming" /\ UNCHANGED state

\* MariaDB's GTID event of a transaction includes its BEGIN.
GTID(g) ==
    /\ Streaming
    /\ phase = "between"
    /\ g \in stream /\ \A h \in stream : g <= h
    /\ stream' = stream \ {g}
    /\ previousGtid' = currentGtid
    /\ currentGtid' = g
    /\ idx' = 0
    /\ IF MariaDB /\ ~IsDDL(g)
       THEN phase' = "body" /\ Begin(currentGtid)
       ELSE /\ phase' = "gtid"
            /\ UNCHANGED <<pendingPosition, currentPosition, flagVars, elapsed,
                           delta, txVars, diskVars, faults, dropped>>

BEGIN ==
    /\ Streaming
    /\ phase = "gtid" /\ ~IsDDL(currentGtid)
    /\ phase' = "body"
    /\ Begin(previousGtid)
    /\ UNCHANGED <<stream, idx, gtidVars>>

Event(kind) ==
    /\ Streaming
    /\ phase = "body" /\ idx < Len(Log[currentGtid])
    /\ Log[currentGtid][idx + 1].kind = kind
    /\ idx' = idx + 1
    /\ UNCHANGED <<stream, phase, gtidVars, pendingPosition, currentPosition,
                   elapsed, diskVars>>

Op == <<currentGtid, idx + 1>>

\* processRowEvent: rows for the delta buffer.
appendRowFormatChanges ==
    /\ Event("row")
    /\ delta' = delta \union {Op}
    /\ SetFlags(ongoingBatchTxn, TRUE, TRUE)
    /\ UNCHANGED <<txVars, faults, dropped>>

\* processRowEvent: rows of a system database or a filtered table.
SkipRows ==
    /\ Event("skip")
    /\ SetFlags(ongoingBatchTxn, TRUE, TRUE)
    /\ UNCHANGED <<delta, txVars, faults, dropped>>

\* processRowEvent: rows written at once, ending the batch.
writeChanges ==
    /\ Event("direct")
    /\ txOpen' = TRUE
    /\ txRows' = Plus(txRows, Once({Op}))
    /\ SetFlags(FALSE, TRUE, TRUE)
    /\ UNCHANGED <<delta, faults, dropped>>

\* executeQueryWithEngine of a data statement: flush, then execute on the
\* session's connection, inside the transaction the flush has opened.
Statement ==
    /\ Event("stmt")
    /\ txOpen' = TRUE
    /\ txRows' = Plus(Plus(txRows, Once(delta)), Once({Op}))
    /\ delta' = {}
    /\ SetFlags(FALSE, TRUE, TRUE)
    /\ UNCHANGED <<faults, dropped>>

StatementFlushFails ==
    /\ Event("stmt")
    /\ FlushFails
    /\ DropBatch({Op})

\* An event that fails is logged and the loop goes on with the next one.
EventFails ==
    /\ Fault("event")
    /\ dropped' = dropped \union {Op}
    /\ \/ Event("row") /\ UNCHANGED <<flagVars, delta, txVars>>
       \/ Event("direct") /\ SetFlags(FALSE, dirtyTxn, dirtyStream)
                          /\ UNCHANGED <<delta, txVars>>
       \/ Event("stmt") /\ flushDeltaBuffer /\ UNCHANGED flagVars

\* XID, or COMMIT of a non-transactional engine.
XID ==
    /\ Streaming
    /\ phase = "body" /\ idx = Len(Log[currentGtid])
    /\ phase' = "between"
    /\ extendOrCommitBatchTxn
    /\ UNCHANGED <<stream, idx, gtidVars>>

Rotate ==
    /\ Streaming
    /\ phase = "between" /\ currentGtid # 0
    /\ extendOrCommitBatchTxn
    /\ UNCHANGED <<streamVars, gtidVars>>

\* executeQueryWithEngine of a schema change, first part: flush, and commit
\* what precedes the statement.
DDL ==
    /\ state = "streaming"
    /\ phase = "gtid" /\ IsDDL(currentGtid)
    /\ \/ /\ dirtyTxn
          /\ commitOngoingTxn(pendingPosition)
          /\ SetFlags(FALSE, FALSE, FALSE)
          /\ state' = "execute"
          /\ UNCHANGED <<phase, faults, dropped>>
       \/ /\ ~dirtyTxn
          /\ flushDeltaBuffer
          /\ state' = "execute"
          /\ UNCHANGED <<phase, pendingPosition, currentPosition, flagVars,
                         elapsed, diskVars, faults, dropped>>
       \/ /\ FlushFails
          /\ DropBatch(Ops(currentGtid))
          /\ phase' = "between"
          /\ UNCHANGED state
    /\ UNCHANGED <<stream, idx, gtidVars>>

\* Second part: the statement runs inside the pool's transaction if there is
\* one, and commits on its own otherwise.
ExecuteDDL ==
    /\ state = "execute"
    /\ state' = "commit"
    /\ SetFlags(FALSE, TRUE, TRUE)
    /\ IF txOpen
       THEN txRows' = Plus(txRows, Once(Ops(currentGtid))) /\ UNCHANGED durable
       ELSE durable' = Plus(durable, Once(Ops(currentGtid))) /\ UNCHANGED txRows
    /\ UNCHANGED <<streamVars, gtidVars, pendingPosition, currentPosition,
                   elapsed, delta, txOpen, saved, faults, dropped>>

ExecuteDDLFails ==
    /\ state = "execute"
    /\ Fault("event")
    /\ dropped' = dropped \union Ops(currentGtid)
    /\ state' = "streaming"
    /\ phase' = "between"
    /\ UNCHANGED <<stream, idx, gtidVars, pendingPosition, currentPosition,
                   flagVars, elapsed, delta, txVars, diskVars>>

\* Third part: the implicit commit after the statement, with the position.
CommitDDL ==
    /\ state = "commit"
    /\ state' = "streaming"
    /\ phase' = "between"
    /\ NormalCommit
    /\ UNCHANGED <<stream, idx, gtidVars, faults, dropped>>

-----------------------------------------------------------------------------
(* The other cases of the handler loop, and what surrounds it. *)

\* Mutant: the ticker also commits in the middle of a transaction.
TickMidTxn ==
    /\ Streaming
    /\ ongoingBatchTxn
    /\ extendOrCommitBatchTxn
    /\ UNCHANGED <<streamVars, gtidVars>>

Tick ==
    /\ Streaming
    /\ ongoingBatchTxn /\ ~dirtyStream
    /\ extendOrCommitBatchTxn
    /\ UNCHANGED <<streamVars, gtidVars>>

\* Time passes.
Elapse ==
    /\ Streaming
    /\ ~elapsed
    /\ elapsed' = TRUE
    /\ UNCHANGED <<streamVars, gtidVars, pendingPosition,
                   currentPosition, flagVars, delta, txVars, diskVars, faults, dropped>>

\* The stop channel: a complete batch is committed, an incomplete one is left
\* behind.  The handler returns even if the commit fails.
Stop ==
    /\ state = "streaming"
    /\ state' = "stopped"
    /\ \/ /\ ongoingBatchTxn /\ ~dirtyStream
          /\ NormalCommit
          /\ Fault("stop")
          /\ DropUnread
       \/ /\ ongoingBatchTxn /\ ~dirtyStream
          /\ RollbackFailedFlush
          /\ DropBatch({})
          /\ faults["stop"] > 0 /\ faults["flush"] > 0
          /\ faults' = [faults EXCEPT !["stop"] = @ - 1, !["flush"] = @ - 1]
       \/ /\ ~(ongoingBatchTxn /\ ~dirtyStream)
          /\ Fault("stop")
          /\ UNCHANGED <<pendingPosition, currentPosition, flagVars, elapsed,
                         delta, txVars, diskVars>>
          /\ UNCHANGED dropped
    /\ UNCHANGED <<streamVars, gtidVars>>

\* START REPLICA.
Start ==
    /\ state = "stopped"
    /\ state' = "connecting"
    /\ UNCHANGED <<streamVars, gtidVars, pendingPosition, currentPosition,
                   flagVars, elapsed, delta, txVars, diskVars, faults, dropped>>

\* The error channel reports the end of the stream.
Disconnect ==
    /\ state = "streaming"
    /\ state' = "connecting"
    /\ Fault("disconnect")
    /\ UNCHANGED <<streamVars, gtidVars, pendingPosition, currentPosition,
                   flagVars, elapsed, delta, txVars, diskVars, dropped>>

\* Mutant: the position in memory is asked for, if there is one.
ResumePending ==
    /\ state = "connecting"
    /\ state' = "streaming"
    /\ pendingPosition' = IF pendingPosition = {} THEN saved ELSE pendingPosition
    /\ currentPosition' = saved
    /\ currentGtid' = 0
    /\ previousGtid' = 0
    /\ SetFlags(FALSE, FALSE, FALSE)
    /\ elapsed' = FALSE
    /\ delta' = {}
    /\ stream' = Txns \ pendingPosition'
    /\ phase' = "between"
    /\ idx' = 0
    /\ UNCHANGED <<txVars, diskVars, faults, dropped>>

\* startReplicationEventStream: the state of the applier is cleared, and the
\* source sends what the stored position lacks.  The pool's transaction is
\* not touched.
startReplicationEventStream ==
    /\ state = "connecting"
    /\ state' = "streaming"
    /\ pendingPosition' = saved
    /\ currentPosition' = saved
    /\ currentGtid' = 0
    /\ previousGtid' = 0
    /\ SetFlags(FALSE, FALSE, FALSE)
    /\ elapsed' = FALSE
    /\ delta' = {}
    /\ stream' = Txns \ saved
    /\ phase' = "between"
    /\ idx' = 0
    /\ UNCHANGED <<txVars, diskVars, faults, dropped>>

\* The process dies and is started again.  The open transaction is rolled
\* back, and AutoStart resumes a replica that was running.
Crash ==
    /\ Fault("crash")
    /\ state' = IF state = "stopped" THEN "stopped" ELSE "connecting"
    /\ stream' = {} /\ phase' = "between" /\ idx' = 0
    /\ currentGtid' = 0 /\ previousGtid' = 0
    /\ pendingPosition' = {} /\ currentPosition' = {}
    /\ SetFlags(FALSE, FALSE, FALSE)
    /\ elapsed' = FALSE
    /\ delta' = {}
    /\ txOpen' = FALSE /\ txRows' = Zero
    /\ UNCHANGED <<diskVars, dropped>>

Init ==
    /\ state = "connecting"
    /\ stream = {} /\ phase = "between" /\ idx = 0
    /\ currentGtid = 0 /\ previousGtid = 0
    /\ pendingPosition = {} /\ currentPosition = {}
    /\ ongoingBatchTxn = FALSE /\ dirtyTxn = FALSE /\ dirtyStream = FALSE
    /\ elapsed = FALSE
    /\ delta = {}
    /\ txOpen = FALSE /\ txRows = Zero
    /\ saved = {} /\ durable = Zero
    /\ faults = MaxFaults
    /\ dropped = {}

Events ==
    \/ \E g \in Txns : GTID(g)
    \/ BEGIN
    \/ appendRowFormatChanges
    \/ SkipRows
    \/ writeChanges
    \/ Statement
    \/ StatementFlushFails
    \/ EventFails
    \/ XID
    \/ DDL
    \/ ExecuteDDL
    \/ ExecuteDDLFails
    \/ CommitDDL

Next ==
    \/ Events
    \/ Rotate
    \/ Tick
    \/ Elapse
    \/ Stop
    \/ Start
    \/ Disconnect
    \/ startReplicationEventStream
    \/ Crash

Spec == Init /\ [][Next]_vars

\* The select statement of the loop serves every ready case again and again:
\* events while the source has some, the ticker always.  The connection is
\* retried, and the clock runs.  START REPLICA is assumed of the user.
Fairness ==
    /\ WF_vars(Events)
    /\ WF_vars(Tick)
    /\ WF_vars(Elapse)
    /\ WF_vars(Start)
    /\ WF_vars(startReplicationEventStream)

LiveSpec == Spec /\ Fairness

-----------------------------------------------------------------------------

\* The types of the applier's state, the pool's transaction and the disk.
TypeOK ==
    /\ state \in {"stopped", "connecting", "streaming", "execute", "commit"}
    /\ stream \in SUBSET Txns
    /\ phase \in {"between", "gtid", "body"}
    /\ idx \in Nat
    /\ currentGtid \in Txns \union {0}
    /\ previousGtid \in Txns \union {0}
    /\ pendingPosition \in SUBSET Txns
    /\ currentPosition \in SUBSET Txns
    /\ ongoingBatchTxn \in BOOLEAN
    /\ dirtyTxn \in BOOLEAN
    /\ dirtyStream \in BOOLEAN
    /\ elapsed \in BOOLEAN
    /\ delta \in SUBSET AllOps
    /\ txOpen \in BOOLEAN
    /\ txRows \in [AllOps -> Nat]
    /\ saved \in SUBSET Txns
    /\ durable \in [AllOps -> Nat]
    /\ faults \in [Faults -> Nat]
    /\ dropped \in SUBSET AllOps

\* Every transaction in the stored position has been applied: a restart, which
\* resumes after the position, skips nothing.
SavedIsApplied == \A g \in saved : \A o \in Ops(g) : durable[o] >= 1

\* No row change is committed before its transaction is in the stored
\* position: a restart, which sends it again, repeats nothing.  Schema changes
\* commit on their own and are exempt.
AppliedIsSaved ==
    \A g \in Txns \ saved : ~IsDDL(g) => \A o \in Ops(g) : durable[o] = 0

\* No row change is committed twice, however often its transaction was sent.
AtMostOnce == \A g \in Txns : ~IsDDL(g) => \A o \in Ops(g) : durable[o] <= 1

\* As long as there have been no faults but crashes, a reader of the replica sees all
\* of a source transaction's changes or none, whatever rows, statements and schema
\* changes the batches mix and whenever the ticker commits one.
NoTornTransaction ==
    (\A f \in Faults \ {"crash"} : faults[f] = MaxFaults[f]) =>
        \A g \in Txns : \A o, p \in Ops(g) : durable[o] = durable[p]

\* The stored position only grows: no commit takes back what an earlier one
\* has recorded, whichever of pendingPosition's updates came last.
PositionGrows == [][saved \subseteq saved']_saved

\* gtid_executed and SHOW REPLICA STATUS never report a transaction that is not
\* in the stored position, also while commits fail.
ReportedIsStored == currentPosition \subseteq saved

\* A fault costs the replica no more than it must: in the end every event has
\* been applied, however often the stream was interrupted, except for events
\* that failed themselves, for those in the batch of a flush that failed, and
\* for transactions that the ticker or a STOP recorded before their end.  The
\* position may pass over these, because the loop logs an error and goes on,
\* and dirtyStream is not yet set after a GTID event; it passes over no other,
\* and no other is left waiting in the buffer.
LosesOnlyFailed == <>[](\A o \in AllOps \ dropped : durable[o] >= 1)

\* Once the faults are over every transaction of the source is committed and
\* recorded, the last batch included, which no further event forces out.
CatchesUp == <>[](saved = Txns /\ \A o \in AllOps : durable[o] >= 1)

\* The detailed state seen as the abstract one.
Promise == INSTANCE ReplicaPromise WITH
               Changes <- AllOps, position <- saved, applied <- durable

\* What a reader of the replica, or a restart, sees on disk evolves by whole
\* batches of source transactions, in order and together with the position,
\* through all interruptions of the handler loop.
KeepsPromise == Promise!Spec

=============================================================================
