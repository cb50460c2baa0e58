---------------------------- MODULE PgReplicator ----------------------------
(***************************************************************************)
(* The subscriber of Postgres logical replication: CREATE SUBSCRIPTION     *)
(* (pgserver/subscription_handler.go), which copies the source's tables,   *)
(* and the replication it starts (pgserver/logrepl/replication.go): the    *)
(* loop of StartReplication, the handler of every message, and the DuckDB  *)
(* transaction and stored LSN it drives.                                   *)
(*                                                                         *)
(* As in BinlogApplier, several source transactions are applied in one     *)
(* DuckDB transaction together with the LSN of the last one.  Unlike it,   *)
(* the subscriber answers every error by dropping the connection, rolling  *)
(* back and starting again from the last written LSN, so that the rows it  *)
(* holds in memory never matter for long.                                  *)
(*                                                                         *)
(* The LSN of a transaction is its number.  A row message inserts a row of *)
(* its own (Delta models the other kinds), and a table's contents are the  *)
(* number of copies of each row: one that is applied twice, or comes back  *)
(* after a TRUNCATE, shows.                                                *)
(***************************************************************************)
EXTENDS Integers, Sequences, FiniteSets

CONSTANTS
    Log,                     \* the source's transactions
    MaxDelta,                \* the delta buffer is full (128MB) with this many rows
    maxConsecutiveFailures,  \* 10
    Early,                   \* the source commits at most so many transactions before
                             \* the slot is created
    MaxFaults                \* bound on the faults of a behaviour: a crash, connection
                             \* trouble, an error from the source, a commit, a step of
                             \* CREATE SUBSCRIPTION or a decoding that fails, DISABLE, a
                             \* command of the session that the replication runs in, a
                             \* message that is dropped, a source that starts too early

\* A change, and whether the table's description has to be sent again because
\* it has changed on the source.
Message == [kind : {"row", "truncate"}, table : STRING, relation : BOOLEAN]

Txns == 1..Len(Log)

ASSUME LogAssumption == Log \in Seq([streamed : BOOLEAN, msgs : Seq(Message)])
ASSUME BoundAssumption ==
    /\ MaxDelta \in Nat
    /\ maxConsecutiveFailures \in Nat
    /\ Early \in 0..Len(Log)
    /\ MaxFaults \in Nat

Msg(o) == Log[o[1]].msgs[o[2]]
Table(o) == Msg(o).table
TxnOf(o) == o[1]
Ops == UNION {{g} \X (1..Len(Log[g].msgs)) : g \in Txns}
Rows == {o \in Ops : Msg(o).kind = "row"}

\* The tables after the first n transactions of the source.
Before(o, p) == o[1] < p[1] \/ (o[1] = p[1] /\ o[2] < p[2])
Removed(o, n) == \E p \in Ops \ Rows :
                    TxnOf(p) <= n /\ Before(o, p) /\ Table(p) = Table(o)
Expected(n) == [o \in Rows |-> IF TxnOf(o) <= n /\ ~Removed(o, n) THEN 1 ELSE 0]

\* There is no slot on the source; nothing unusual has happened.
None == -1

VARIABLES
    pc,               \* CREATE SUBSCRIPTION: new, attached, copied, published,
                      \* created, orphaned; then the loop: stopped, running, exiting
    committed,        \* what the source has committed while CREATE SUBSCRIPTION runs
    snapshotLSN,      \* doSnapshot's lsn
    base,             \* the transactions in the copied tables
    slot,             \* where the slot on the source starts, or None
    odd,              \* None, or the replica's position when something it does not
                      \* cope with happened first
    connected,        \* primaryConn is not nil
    next, phase, idx, \* what the source sends next: transaction, its part, its
                      \* messages sent
    described,        \* the table of the next change has just been described
    sent,             \* tables the source has described on this connection
    relations,        \* tables known from relation messages
    processMessages,
    lastWrittenLSN,
    lastCommitLSN,
    commitCount,      \* 0, 1, or 2 for more
    ongoingBatchTxn,
    dirtyTxn,
    dirtyStream,
    elapsed,          \* 200ms have passed since lastCommitTime
    delta,            \* the rows in the delta buffer
    deltaBufSize,     \* their size since the last flush, successful or not
    torn,             \* the buffer ends with a part of a row
    txOpen,           \* the session's DuckDB transaction is open
    truncated,        \* tables truncated in it
    saved, disk,      \* the stored LSN, and the tables
    confirmed,        \* the flush position the source has been told
    connErrCnt,
    faults            \* faults that may still happen

createVars == <<committed, snapshotLSN, base, slot>>
quietVars == <<createVars, odd>>
streamVars == <<next, phase, idx, described, sent>>
lsnVars == <<lastWrittenLSN, lastCommitLSN, commitCount>>
flagVars == <<ongoingBatchTxn, dirtyTxn, dirtyStream, elapsed>>
bufVars == <<delta, deltaBufSize, torn>>
txVars == <<txOpen, truncated>>
diskVars == <<saved, disk>>
vars == <<pc, quietVars, connected, streamVars, relations, processMessages, lsnVars, flagVars,
          bufVars, txVars, diskVars, confirmed, connErrCnt, faults>>

Fault == /\ faults > 0
         /\ faults' = faults - 1

-----------------------------------------------------------------------------
Larger(m, n) == IF m > n THEN m ELSE n

\* How far the tables are.
Position == Larger(saved, base)

\* From here on, nothing is claimed about the tables.
Deviates(unusual) == odd' = IF odd = None /\ unusual THEN Position ELSE odd

\* The tables once the open transaction has flushed the delta buffer.
Flushed == [o \in Rows |-> (IF Table(o) \in truncated THEN 0 ELSE disk[o])
                          + (IF o \in delta THEN 1 ELSE 0)]

\* A reset that leaves the delta buffer as it is.
resetKeepsDelta(lsn) ==
    /\ relations' = {} /\ processMessages' = FALSE
    /\ lastWrittenLSN' = lsn /\ lastCommitLSN' = lsn /\ commitCount' = 0
    /\ ongoingBatchTxn' = FALSE /\ dirtyTxn' = FALSE /\ dirtyStream' = FALSE
    /\ elapsed' = FALSE
    /\ UNCHANGED bufVars

\* The subscriber's memory, as state.reset leaves it.
reset(lsn) ==
    /\ relations' = {}
    /\ processMessages' = FALSE
    /\ lastWrittenLSN' = lsn
    /\ lastCommitLSN' = lsn
    /\ commitCount' = 0
    /\ ongoingBatchTxn' = FALSE
    /\ dirtyTxn' = FALSE
    /\ dirtyStream' = FALSE
    /\ elapsed' = FALSE
    /\ delta' = {}
    /\ deltaBufSize' = 0
    /\ torn' = FALSE

rollback == /\ txOpen' = FALSE
            /\ truncated' = {}

mayExtendBatchTxn(commits) ==
    /\ ongoingBatchTxn
    /\ commits # 1
    /\ ~elapsed
    /\ deltaBufSize < MaxDelta

\* Flush, save the LSN and commit, if there is an open transaction to do it in.
\* The caller says what becomes of txOpen and of the flags, which Settled gives.
commitOngoingTxn(lsn) ==
    IF txOpen
    THEN /\ disk' = Flushed
         /\ saved' = lsn
         /\ lastWrittenLSN' = lsn
         /\ delta' = {}
         /\ deltaBufSize' = 0
         /\ truncated' = {}
         /\ elapsed' = FALSE
         /\ UNCHANGED torn
    ELSE UNCHANGED <<diskVars, lastWrittenLSN, bufVars, truncated, elapsed>>

\* A flag that a commit clears.
Settled(flag) == flag /\ ~txOpen

\* A commit after which the batch seems to go on.
commitStaysOngoing(lsn) ==
    /\ commitOngoingTxn(lsn)
    /\ txOpen' = FALSE
    /\ dirtyTxn' = Settled(dirtyTxn)
    /\ UNCHANGED ongoingBatchTxn

commitAndClose(lsn) ==
    /\ commitOngoingTxn(lsn)
    /\ txOpen' = FALSE
    /\ ongoingBatchTxn' = Settled(ongoingBatchTxn)
    /\ dirtyTxn' = Settled(dirtyTxn)

\* One error more: reconnect, or give up.
handleErrWithRetry(count) ==
    /\ connErrCnt' = connErrCnt + count
    /\ IF connErrCnt' < maxConsecutiveFailures
       THEN pc' = pc /\ connected' = FALSE
       ELSE pc' = "exiting" /\ UNCHANGED connected
-----------------------------------------------------------------------------
(* What the source sends *)

Receiving == pc = "running" /\ connected
Change == <<next, idx + 1>>

\* The next message is a BEGIN (or the start of a streamed transaction), the
\* description of a table the connection has not described or that has
\* changed, a change, or a COMMIT.
BeginNext == phase = "between" /\ next \in Txns
ChangeNext == phase = "body" /\ idx < Len(Log[next].msgs)
RelationNext == /\ ChangeNext
                /\ ~described
                /\ Table(Change) \notin sent \/ Msg(Change).relation
CommitNext == phase = "body" /\ idx = Len(Log[next].msgs)

SendBegin == /\ phase' = "body"
             /\ UNCHANGED <<next, idx, described, sent>>
SendRelation == /\ described' = TRUE
                /\ sent' = sent \union {Table(Change)}
                /\ UNCHANGED <<next, phase, idx>>
SendChange == /\ idx' = idx + 1
              /\ described' = FALSE
              /\ UNCHANGED <<next, phase, sent>>
SendCommit == /\ next' = next + 1
              /\ phase' = "between"
              /\ idx' = 0
              /\ UNCHANGED <<described, sent>>

\* A message is handled without an error.
Handled == /\ Receiving
           /\ UNCHANGED <<pc, createVars, connected, confirmed, connErrCnt, faults>>
-----------------------------------------------------------------------------
(* processMessage, case by case *)

\* A table described before: its schema has changed, and what is buffered is
\* committed, wherever in a transaction the stream is.
Relation ==
    /\ Handled
    /\ RelationNext
    /\ SendRelation
    /\ Deviates(Table(Change) \in relations /\ txOpen /\ dirtyStream)
    /\ IF Table(Change) \in relations
       THEN /\ commitAndClose(lastCommitLSN)
            /\ dirtyStream' = Settled(dirtyStream)
       ELSE UNCHANGED <<diskVars, lastWrittenLSN, bufVars, txVars, flagVars>>
    /\ relations' = relations \union {Table(Change)}
    /\ UNCHANGED <<processMessages, lastCommitLSN, commitCount>>

Stale == lastWrittenLSN > next

BeginStale ==
    /\ Handled
    /\ BeginNext
    /\ ~Log[next].streamed
    /\ Stale
    /\ SendBegin
    /\ processMessages' = FALSE
    /\ UNCHANGED <<odd, relations, lsnVars, flagVars, bufVars, txVars, diskVars>>

\* The transaction that was written last is not stale.
Begin ==
    /\ Handled
    /\ BeginNext
    /\ ~Log[next].streamed
    /\ ~Stale
    /\ SendBegin
    /\ Deviates(next <= lastWrittenLSN)
    /\ processMessages' = TRUE
    /\ IF mayExtendBatchTxn(commitCount)
       THEN UNCHANGED <<diskVars, lastWrittenLSN, bufVars, txVars, flagVars>>
       ELSE /\ commitOngoingTxn(lastCommitLSN)
            /\ txOpen' = TRUE
            /\ ongoingBatchTxn' = TRUE
            /\ dirtyTxn' = Settled(dirtyTxn)
            /\ dirtyStream' = Settled(dirtyStream)
    /\ UNCHANGED <<relations, lastCommitLSN, commitCount>>

\* INSERT, UPDATE and DELETE.
Row ==
    /\ Handled
    /\ ChangeNext /\ ~RelationNext
    /\ Msg(Change).kind = "row"
    /\ SendChange
    /\ IF processMessages
       THEN /\ Table(Change) \in relations
            /\ delta' = delta \union {Change}
            /\ deltaBufSize' = deltaBufSize + 1
            /\ dirtyTxn' = TRUE
            /\ dirtyStream' = TRUE
       ELSE UNCHANGED <<delta, deltaBufSize, dirtyTxn, dirtyStream>>
    /\ UNCHANGED <<odd, torn, relations, processMessages, lsnVars, ongoingBatchTxn, elapsed,
                   txVars, diskVars>>

\* The flush is called without a transaction: it refuses, the rows stay in the
\* buffer, and the error is not looked at.
Truncate ==
    /\ Handled
    /\ ChangeNext /\ ~RelationNext
    /\ Msg(Change).kind = "truncate"
    /\ SendChange
    /\ Deviates(processMessages /\ \E o \in delta : Table(o) = Table(Change))
    /\ IF processMessages
       THEN /\ Table(Change) \in relations
            /\ deltaBufSize' = 0
            /\ txOpen' = TRUE
            /\ truncated' = truncated \union {Table(Change)}
            /\ dirtyTxn' = TRUE
            /\ dirtyStream' = TRUE
       ELSE UNCHANGED <<deltaBufSize, txVars, dirtyTxn, dirtyStream>>
    /\ UNCHANGED <<relations, processMessages, lsnVars, ongoingBatchTxn, elapsed,
                   delta, torn, diskVars>>

Commit ==
    LET commits == IF commitCount = 0 THEN 1 ELSE 2
    IN  /\ Handled
        /\ CommitNext
        /\ ~Log[next].streamed
        /\ SendCommit
        /\ lastCommitLSN' = next
        /\ commitCount' = commits
        /\ IF mayExtendBatchTxn(commits)
           THEN UNCHANGED <<diskVars, lastWrittenLSN, bufVars, txVars, ongoingBatchTxn,
                            dirtyTxn, elapsed>>
           ELSE commitAndClose(next)
        /\ dirtyStream' = FALSE
        /\ processMessages' = FALSE
        /\ UNCHANGED <<odd, relations>>

\* A large transaction is sent before it commits, between STREAM START and
\* STREAM STOP; both, and its STREAM COMMIT, are only logged, and its changes are
\* ignored as those of a stale transaction are.
Stream ==
    /\ Handled
    /\ \/ BeginNext /\ Log[next].streamed /\ SendBegin
       \/ CommitNext /\ Log[next].streamed /\ SendCommit
    /\ Deviates(TRUE)
    /\ UNCHANGED <<relations, processMessages, lsnVars, flagVars, bufVars, txVars,
                   diskVars>>
-----------------------------------------------------------------------------
(* The rest of the loop *)

memoryVars == <<relations, processMessages, lsnVars, flagVars, bufVars>>

StartReplication ==
    /\ pc = "stopped"
    /\ pc' = "running"
    /\ connErrCnt' = 0
    /\ reset(saved)
    /\ UNCHANGED <<connected, streamVars, txVars, diskVars, quietVars, confirmed, faults>>

\* The source skips the transactions before the LSN it is given, and those it
\* knows to be flushed; after some crashes it sends the former again.
beginReplication ==
    /\ pc = "running"
    /\ ~connected
    /\ connected' = TRUE
    /\ \/ next' = Larger(Larger(slot, confirmed), lastWrittenLSN) + 1 /\ UNCHANGED faults
       \/ next' \in (Larger(slot, confirmed) + 1)..lastWrittenLSN /\ Fault
    /\ phase' = "between"
    /\ idx' = 0
    /\ described' = FALSE
    /\ sent' = {}
    /\ rollback
    /\ reset(lastWrittenLSN)
    /\ UNCHANGED <<pc, quietVars, diskVars, confirmed, connErrCnt>>

\* A report of the last transaction received.
reportReceived ==
    /\ Receiving
    /\ confirmed' = lastCommitLSN
    /\ UNCHANGED <<pc, quietVars, connected, connErrCnt, faults, streamVars, memoryVars, txVars,
                   diskVars>>

\* After a COMMIT, on a keepalive that asks for it, on a tick and every 10s.
\* A report that cannot be sent costs the connection and is not counted.
sendStandbyStatusUpdate ==
    /\ Receiving
    /\ \/ /\ confirmed' = lastWrittenLSN
          /\ UNCHANGED <<pc, connected, connErrCnt, faults>>
       \/ /\ Fault
          /\ handleErrWithRetry(0)
          /\ UNCHANGED confirmed
    /\ UNCHANGED <<quietVars, streamVars, memoryVars, txVars, diskVars>>

\* commitOngoingTxnIfClean.
Clean == dirtyTxn /\ ~dirtyStream

Elapse ==
    /\ Receiving
    /\ ~elapsed
    /\ elapsed' = TRUE
    /\ UNCHANGED <<pc, connected, streamVars, relations, processMessages, lsnVars,
                   ongoingBatchTxn, dirtyTxn, dirtyStream, bufVars, txVars, diskVars,
                   quietVars, confirmed, connErrCnt, faults>>

\* The ticker, when flushInterval has passed since the last commit.
Tick ==
    /\ Receiving
    /\ elapsed
    /\ Clean
    /\ commitAndClose(lastCommitLSN)
    /\ dirtyStream' = Settled(dirtyStream)
    /\ UNCHANGED <<pc, connected, streamVars, relations, processMessages, lastCommitLSN,
                   commitCount, quietVars, confirmed, connErrCnt, faults>>

\* The next message makes its handler commit.
ForcesCommit ==
    /\ Receiving
    /\ \/ RelationNext /\ Table(Change) \in relations
       \/ BeginNext /\ ~Log[next].streamed /\ ~Stale /\ ~mayExtendBatchTxn(commitCount)
       \/ /\ CommitNext /\ ~Log[next].streamed
          /\ ~mayExtendBatchTxn(IF commitCount = 0 THEN 1 ELSE 2)

\* A commit whose flush, LSN update or COMMIT fails is rolled back.  What the
\* handler has changed in memory before is overwritten by the reset that follows.
CommitFails ==
    /\ ForcesCommit
    /\ txOpen
    /\ Fault
    /\ handleErrWithRetry(1)
    /\ rollback
    /\ UNCHANGED <<quietVars, streamVars, memoryVars, diskVars, confirmed>>

\* On a tick the error is returned as it is, and ends the replication.
TickFails ==
    /\ Receiving
    /\ elapsed
    /\ Clean /\ txOpen
    /\ Fault
    /\ pc' = "exiting"
    /\ rollback
    /\ UNCHANGED <<quietVars, connected, streamVars, memoryVars, diskVars, confirmed,
                   connErrCnt>>

\* A change of a table that was not described, or one that cannot be decoded, whose
\* columns up to there are in the builders then.
ChangeFails ==
    /\ Receiving
    /\ ChangeNext /\ ~RelationNext
    /\ processMessages
    /\ \/ Table(Change) \notin relations /\ UNCHANGED <<torn, faults>>
       \/ Table(Change) \in relations /\ Msg(Change).kind = "row" /\ torn' = TRUE /\ Fault
    /\ handleErrWithRetry(1)
    /\ UNCHANGED <<streamVars, relations, processMessages, lsnVars, flagVars, delta,
                   deltaBufSize, txVars, diskVars, quietVars, confirmed>>

\* The connection cannot be made, or is lost.
ConnectionFails ==
    /\ pc = "running"
    /\ Fault
    /\ handleErrWithRetry(1)
    /\ UNCHANGED <<quietVars, streamVars, memoryVars, txVars, diskVars, confirmed>>

\* An ErrorResponse, or Stop (ALTER SUBSCRIPTION ... DISABLE, DROP): the loop ends.
\* A command of the replication's own session is CommitAndCloseTxn first.
Leave ==
    /\ pc = "running"
    /\ Fault
    /\ pc' = "exiting"
    /\ UNCHANGED <<quietVars, connected, streamVars, memoryVars, txVars, diskVars, confirmed,
                   connErrCnt>>

\* The deferred cleanup.  A failing flush is not looked at; one of builders of
\* different lengths panics, which ends the process.
shutdown ==
    /\ pc = "exiting"
    /\ pc' = "stopped"
    /\ connected' = FALSE
    /\ \/ /\ Clean /\ ~(txOpen /\ torn)
          /\ commitAndClose(lastCommitLSN)
          /\ dirtyStream' = Settled(dirtyStream)
          /\ UNCHANGED <<relations, processMessages, lastCommitLSN, commitCount, faults>>
       \/ /\ Clean /\ txOpen
          /\ (torn /\ UNCHANGED faults) \/ Fault
          /\ rollback
          /\ UNCHANGED <<memoryVars, diskVars>>
       \/ /\ ~Clean
          /\ rollback
          /\ UNCHANGED <<memoryVars, diskVars, faults>>
    /\ UNCHANGED <<quietVars, streamVars, confirmed, connErrCnt>>

\* The replication runs in the session of the client that started it, and the pool
\* keeps one transaction per session.  When this client says ENABLE, DISABLE or
\* DROP, CommitAndCloseTxn commits what the loop has done in it so far: the
\* TRUNCATEs, without an LSN.  The loop finds no transaction, and stores nothing
\* until the next BEGIN opens one.
CommitAndCloseTxn ==
    /\ pc \in {"running", "exiting"}
    /\ txOpen
    /\ Fault
    /\ disk' = [o \in Rows |-> IF Table(o) \in truncated THEN 0 ELSE disk[o]]
    /\ Deviates(TRUE)
    /\ rollback
    /\ UNCHANGED <<pc, createVars, connected, streamVars, memoryVars, saved, confirmed,
                   connErrCnt>>

\* The same in the middle of commitOngoingTxn, after the flush: the rows are stored
\* as well, and the commit fails.
CommitFlushedRows ==
    /\ txOpen
    /\ Fault
    /\ \/ ForcesCommit /\ handleErrWithRetry(1)
       \/ /\ Receiving /\ elapsed /\ Clean
          /\ pc' = "exiting"
          /\ UNCHANGED <<connected, connErrCnt>>
       \/ /\ pc = "exiting" /\ Clean /\ ~torn
          /\ pc' = "stopped"
          /\ connected' = FALSE
          /\ UNCHANGED connErrCnt
    /\ disk' = Flushed
    /\ Deviates(TRUE)
    /\ rollback
    /\ UNCHANGED <<createVars, streamVars, memoryVars, saved, confirmed>>

\* The receiving goroutine holds a message while the loop has taken the ticker or
\* the deadline and cancelled its context: the message goes nowhere.
DropMessage ==
    /\ Receiving
    /\ Fault
    /\ next \in Txns /\ ~Log[next].streamed
    /\ \/ BeginNext /\ SendBegin
       \/ RelationNext /\ SendRelation
       \/ ChangeNext /\ ~RelationNext /\ SendChange
       \/ CommitNext /\ SendCommit
    /\ Deviates(TRUE)
    /\ UNCHANGED <<pc, createVars, connected, memoryVars, txVars, diskVars, confirmed,
                   connErrCnt>>

Crash ==
    /\ pc \in {"running", "exiting"}
    /\ Fault
    /\ pc' = "stopped"
    /\ connected' = FALSE
    /\ rollback
    /\ reset(saved)
    /\ UNCHANGED <<quietVars, streamVars, diskVars, confirmed, connErrCnt>>
-----------------------------------------------------------------------------
(* CREATE SUBSCRIPTION *)

loopVars == <<connected, streamVars, memoryVars, txVars, confirmed, connErrCnt>>

\* The source goes on while the command runs.
SourceCommits ==
    /\ pc \in {"new", "attached", "copied", "published", "created"}
    /\ committed < Early
    /\ committed' = committed + 1
    /\ UNCHANGED <<pc, snapshotLSN, base, slot, odd, loopVars, diskVars, faults>>

\* doSnapshot attaches the source and reads pg_current_wal_lsn.
ReadLSN ==
    /\ pc = "new"
    /\ pc' = "attached"
    /\ snapshotLSN' = committed
    /\ UNCHANGED <<committed, base, slot, odd, loopVars, diskVars, faults>>

\* doSnapshot creates every table from the source's, in one transaction.
doSnapshot ==
    /\ pc = "attached"
    /\ \/ /\ pc' = "copied"
          /\ disk' = Expected(committed)
          /\ base' = committed
          /\ UNCHANGED <<snapshotLSN, faults>>
       \/ /\ Fault
          /\ pc' = "new"
          /\ snapshotLSN' = 0
          /\ UNCHANGED <<disk, base>>
    /\ UNCHANGED <<committed, slot, odd, loopVars, saved>>

\* From here on a failure leaves the copied tables, and the command cannot be
\* repeated: they exist already.  (Here, as in the other steps, a crash of the
\* server does what a failure does.)
CreatePublicationIfNotExists ==
    /\ pc = "copied"
    /\ \/ pc' = "published" /\ UNCHANGED faults
       \/ pc' = "orphaned" /\ Fault
    /\ UNCHANGED <<createVars, odd, loopVars, diskVars>>

\* The subscription starts from where the source is by now.
createAtCurrentLSN ==
    /\ pc = "published"
    /\ pc' = "created"
    /\ saved' = committed
    /\ UNCHANGED <<createVars, odd, loopVars, disk, faults>>

\* The row of the subscription, with the LSN read before the copy.
doCreateSubscription ==
    /\ pc = "published"
    /\ \/ /\ pc' = "created"
          /\ saved' = snapshotLSN
          /\ UNCHANGED faults
       \/ /\ Fault
          /\ pc' = "orphaned"
          /\ UNCHANGED saved
    /\ UNCHANGED <<createVars, odd, loopVars, disk>>

replicationSlotExists == slot # None

\* UpdateSubscriptions.  A new slot starts where the source is by then, and what it
\* has committed since the copy is never sent; a slot left by an earlier
\* subscription of the same name sends everything after the LSN, some of which
\* may be in the copy.  When it fails, the next start of the server tries again.
CreateReplicationSlotIfNotExists ==
    /\ pc = "created"
    /\ \/ /\ pc' = "stopped"
          /\ slot' = IF replicationSlotExists THEN slot ELSE committed
          /\ Deviates(base # IF replicationSlotExists THEN snapshotLSN ELSE committed)
          /\ committed' = 0 /\ snapshotLSN' = 0
          /\ UNCHANGED faults
       \/ /\ Fault
          /\ UNCHANGED <<pc, slot, odd, committed, snapshotLSN>>
    /\ UNCHANGED <<base, loopVars, diskVars>>

CreateSubscription ==
    \/ ReadLSN \/ doSnapshot
    \/ CreatePublicationIfNotExists \/ doCreateSubscription
    \/ CreateReplicationSlotIfNotExists
-----------------------------------------------------------------------------
Init ==
    /\ pc = "new"
    /\ committed \in 0..Early
    /\ snapshotLSN = 0 /\ base = 0
    /\ slot \in {None, 0}
    /\ odd = None
    /\ connected = FALSE
    /\ next = 1 /\ phase = "between" /\ idx = 0 /\ described = FALSE /\ sent = {}
    /\ relations = {}
    /\ processMessages = FALSE
    /\ lastWrittenLSN = 0 /\ lastCommitLSN = 0 /\ commitCount = 0
    /\ ongoingBatchTxn = FALSE /\ dirtyTxn = FALSE /\ dirtyStream = FALSE
    /\ elapsed = FALSE
    /\ delta = {} /\ deltaBufSize = 0 /\ torn = FALSE
    /\ txOpen = FALSE /\ truncated = {}
    /\ saved = 0 /\ disk = [o \in Rows |-> 0]
    /\ confirmed = 0
    /\ connErrCnt = 0
    /\ faults = MaxFaults

processMessage ==
    Relation \/ BeginStale \/ Begin \/ Row \/ Truncate \/ Commit \/ Stream \/ ChangeFails

Next ==
    \/ SourceCommits \/ CreateSubscription
    \/ processMessage
    \/ StartReplication \/ beginReplication \/ sendStandbyStatusUpdate
    \/ Elapse \/ Tick
    \/ CommitFails \/ TickFails \/ ConnectionFails \/ Leave \/ shutdown
    \/ CommitAndCloseTxn \/ CommitFlushedRows \/ DropMessage \/ Crash

Spec == Init /\ [][Next]_vars

\* The loop keeps going while it runs, its ticker fires, and time passes.  That
\* a replication that has ended is started again is up to the user, by
\* ALTER SUBSCRIPTION ... ENABLE or a restart of the server.
Fairness ==
    /\ WF_vars(CreateSubscription)
    /\ WF_vars(processMessage)
    /\ WF_vars(beginReplication)
    /\ WF_vars(Elapse)
    /\ WF_vars(Tick)
    /\ WF_vars(shutdown)
    /\ WF_vars(StartReplication)

FairSpec == Spec /\ Fairness
-----------------------------------------------------------------------------
(* Properties *)

\* What is stored is the source as of the stored LSN, or of the copy while that is
\* ahead, whatever the batching, the errors and the crashes: commitOngoingTxn writes
\* both in one transaction.  It is the transaction of the client's session, so this
\* ends where a command of that session commits it half done.
Consistent == odd = None => disk = Expected(Position)

\* The replica implements the abstract one: the copy and each commit add whole
\* transactions.  A row that a stored TRUNCATE has removed counts as applied.
Reached == IF odd = None THEN Position ELSE odd
Promise == INSTANCE ReplicaPromise
              WITH Changes <- Rows,
                   position <- 1..Reached,
                   applied <- [o \in Rows |->
                                 IF odd # None THEN (IF TxnOf(o) <= odd THEN 1 ELSE 0)
                                 ELSE disk[o] + (IF Removed(o, Position) THEN 1 ELSE 0)]
KeepsPromise == Promise!Spec

\* The source is never told that a transaction is flushed that is not, so it
\* never drops what a restart still needs (sendStandbyStatusUpdate).
ConfirmedIsStored == odd = None => confirmed <= saved

\* Whatever happened, all transactions but the last one become visible.  The last one
\* need not: a tick between its BEGIN and its first change closes the transaction that
\* the changes count on, and only another BEGIN opens one.
AllButTheLast == <>[](odd # None \/ pc = "orphaned" \/ Position >= Len(Log) - 1)
=============================================================================
