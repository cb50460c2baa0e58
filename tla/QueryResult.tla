---------------------------- MODULE QueryResult ----------------------------
(***************************************************************************)
(* How the Postgres front end runs one statement after another on a        *)
(* session and spools the rows of each to the client: DuckHandler.doQuery  *)
(* with its two executors, the row iterators, and the three goroutines of  *)
(* resultForDefaultIter.                                                   *)
(*                                                                         *)
(* The reader pulls rows from the iterator into a bounded channel, the     *)
(* spooler turns them into batches and hands those to the callback that    *)
(* writes to the socket, and the closer closes the iterator once both have *)
(* finished.  They share an errgroup: the first error cancels the context. *)
(* A panic in one of them is recovered by pan2err, which records an error  *)
(* but cancels nothing.                                                    *)
(*                                                                         *)
(* Row i of a result is the number i.  Values, formats and logging are     *)
(* left out.  The handler's readTimeout is always zero (see                *)
(* NewConnectionHandler), so the branch for a configured one is left out,  *)
(* and so are the branches that no executor reaches: a nil schema, the     *)
(* Max1Row flag and an OkResult among rows.                                *)
(***************************************************************************)
EXTENDS Naturals, Sequences

CONSTANTS
    MaxResult,   \* rows of the largest result
    rowsBatch,   \* rows per callback (128 in the code)
    ChanCap,     \* capacity of rowChan (512 in the code)
    MaxFailures  \* failures in one statement

ASSUME BoundsAssumption ==
    /\ MaxResult \in Nat
    /\ rowsBatch \in Nat \ {0}
    /\ ChanCap \in Nat \ {0}
    /\ MaxFailures \in Nat

VARIABLES
    phase,      \* where doQuery is
    statement,  \* [mode, kind, n]: the statement, and how many rows it concerns
    next,       \* the row that iter.Next returns next
    open,       \* the statement's sql.Rows are open
    rowChan,    \* rows in the channel
    chanClosed, \* the channel is closed
    rowReader,  \* the three goroutines
    held,       \* the row that the reader is sending, 0 if none
    spooler,
    closer,
    r,          \* the rows of the result under construction
    processed,  \* processedAtLeastOneBatch
    timer,      \* the spooler's one-minute timer
    cancelled,  \* the errgroup's context
    egErr,      \* the errgroup holds an error
    returnErr,  \* an error recorded by pan2err
    sent,       \* rows the client received for this statement
    count,      \* rows that the command tag will announce
    answer,     \* how the last statement ended
    listed,     \* the process list shows a running query
    failures,   \* failures left for this statement
    stuck       \* what a statement does not recover from: a tick taken, a panic of
                \* the spooler, a format code missing

group == <<rowReader, held, spooler, closer, cancelled, egErr>>
rowsV == <<next, open, rowChan, chanClosed>>
front == <<phase, statement, count, answer, listed>>
spool == <<r, processed, timer, sent>>
resultVars == <<front, rowsV, group, spool, returnErr, failures, stuck>>

Modes == {"simple", "extended"}
Kinds == {"exec", "rows"}
Running(pc) == pc \notin {"off", "failed", "done"}

ResultInit ==
    /\ phase = "idle" /\ answer = "none" /\ count = 0 /\ listed = FALSE
    /\ statement \in [mode : Modes, kind : Kinds, n : {0}]
    /\ next = 1 /\ open = FALSE /\ rowChan = << >> /\ chanClosed = FALSE
    /\ rowReader = "off" /\ held = 0 /\ spooler = "off" /\ closer = "off"
    /\ cancelled = FALSE /\ egErr = FALSE /\ returnErr = FALSE
    /\ r = << >> /\ processed = FALSE /\ timer = "armed" /\ sent = << >>
    /\ failures = MaxFailures /\ stuck = {}

Failure == failures > 0 /\ failures' = failures - 1

-----------------------------------------------------------------------------
(* doQuery, up to the rows. *)

\* doQuery's return.  The deferred EndQuery only runs for an error that was
\* returned through err, not for one of the last callback.
Return(result, ended) ==
    /\ phase' = "idle" /\ answer' = result
    /\ listed' = (listed /\ ~ended)

\* A statement arrives and BeginQuery lists it.
doQuery(mode, kind, n) ==
    /\ phase = "idle"
    /\ phase' = "exec" /\ statement' = [mode |-> mode, kind |-> kind, n |-> n]
    /\ answer' = "none" /\ count' = 0 /\ listed' = TRUE
    /\ next' = 1 /\ rowChan' = << >> /\ chanClosed' = FALSE
    /\ rowReader' = "off" /\ spooler' = "off" /\ closer' = "off" /\ held' = 0
    /\ cancelled' = FALSE /\ egErr' = FALSE /\ returnErr' = FALSE
    /\ r' = << >> /\ processed' = FALSE /\ timer' = "armed" /\ sent' = << >>
    /\ failures' = MaxFailures /\ stuck' = {} /\ open' = FALSE

\* The statement fails.
ExecuteFails ==
    /\ Failure
    /\ Return("err", TRUE)
    /\ UNCHANGED <<statement, count, rowsV, group, spool, returnErr, stuck>>

\* The OkResult of a statement without rows: resultForOkIter, then callback.
resultForOkIter ==
    /\ statement.kind = "exec"
    /\ \/ /\ Return("ok", FALSE) /\ count' = statement.n /\ UNCHANGED failures
       \/ /\ Failure /\ Return("err", FALSE) /\ UNCHANGED count
    /\ UNCHANGED <<statement, rowsV, group, spool, returnErr, stuck>>

\* QueryCatalog returns open rows.
Opens ==
    /\ statement.kind = "rows"
    /\ phase' = "opened" /\ open' = TRUE
    /\ UNCHANGED <<statement, count, answer, listed, next, rowChan, chanClosed, group, spool,
                   returnErr, failures, stuck>>

\* executeQuery of a simple query.
executeQuery ==
    /\ phase = "exec" /\ statement.mode = "simple"
    /\ ExecuteFails \/ resultForOkIter \/ Opens

\* executeBoundPlan of a portal: DuckDB's classification, the same outcomes.
executeBoundPlan ==
    /\ phase = "exec" /\ statement.mode = "extended"
    /\ ExecuteFails \/ resultForOkIter \/ Opens

\* InferSchema meets a type without a Postgres counterpart, or the iterator's
\* constructor cannot read the column types: rows.Close.
InferSchemaFails ==
    /\ Failure /\ open' = FALSE /\ Return("err", TRUE)
    /\ UNCHANGED stuck

\* The portal was bound with more than one format code, and fewer than the result has
\* columns: resultFormatCodes[i] panics, which only receiveMessage recovers.  The
\* client is answered, and nobody closes the rows or ends the query in the list.
schemaToFieldDescriptionsPanics ==
    /\ statement.mode = "extended"
    /\ Failure /\ Return("err", FALSE)
    /\ stuck' = stuck \cup {"format"}
    /\ UNCHANGED open

\* The iterator over the rows; resultForDefaultIter starts its goroutines.
NewIter ==
    /\ phase = "opened"
    /\ \/ /\ phase' = "spool"
          /\ rowReader' = "next" /\ spooler' = "top" /\ closer' = "wait"
          /\ UNCHANGED <<answer, listed, open, failures, stuck>>
       \/ /\ InferSchemaFails \/ schemaToFieldDescriptionsPanics
          /\ UNCHANGED <<rowReader, spooler, closer>>
    /\ UNCHANGED <<statement, count, next, rowChan, chanClosed, held, cancelled, egErr, spool,
                   returnErr>>

NewSQLRowIter == statement.mode = "simple" /\ NewIter
NewSqlRowIter == statement.mode = "extended" /\ NewIter

-----------------------------------------------------------------------------
(* The errgroup: a goroutine that returned an error records it and cancels. *)

\* Mutant: a plain wait group, whose context nobody cancels.
EgFailUncancelled == egErr' = TRUE /\ UNCHANGED cancelled

EgFail == egErr' = TRUE /\ cancelled' = TRUE

\* A goroutine's deferred functions have run before the errgroup sees its error.
ReaderRecords ==
    /\ rowReader = "failed" /\ rowReader' = "done" /\ EgFail
    /\ UNCHANGED <<front, rowsV, held, spooler, closer, spool, returnErr,
                   failures, stuck>>

SpoolerRecords ==
    /\ spooler = "failed" /\ spooler' = "done" /\ EgFail
    /\ UNCHANGED <<front, rowsV, rowReader, held, closer, spool, returnErr,
                   failures, stuck>>

-----------------------------------------------------------------------------
(* The reader. *)

\* close(rowChan) and wg.Done.
ReaderReturns(pc) == rowReader' = pc /\ chanClosed' = TRUE /\ held' = 0

RowOrEnd ==
    \/ /\ next <= statement.n
       /\ held' = next /\ next' = next + 1 /\ rowReader' = "send"
       /\ UNCHANGED <<open, chanClosed>>
    \/ /\ next > statement.n
       /\ open' = FALSE /\ ReaderReturns("done")
       /\ UNCHANGED next

\* sql.Rows close themselves at the end and on an error of the driver.
DriverFails == open' = FALSE /\ ReaderReturns("failed") /\ UNCHANGED next

\* A value is not of the type that its column promised; the rows stay open.
ConversionFails == ReaderReturns("failed") /\ UNCHANGED <<next, open>>

\* SQLRowIter converts what it can and ignores the rest.
SQLRowIter_Next ==
    /\ statement.mode = "simple"
    /\ \/ RowOrEnd /\ UNCHANGED failures
       \/ Failure /\ DriverFails

\* SqlRowIter refuses decimals, lists and huge integers of unexpected types.
SqlRowIter_Next ==
    /\ statement.mode = "extended"
    /\ \/ RowOrEnd /\ UNCHANGED failures
       \/ Failure /\ (DriverFails \/ ConversionFails)

\* pan2err recovers what panics in Next.
ReaderPanics ==
    /\ Failure /\ ReaderReturns("done") /\ returnErr' = TRUE
    /\ UNCHANGED <<next, open>>

ReaderNext ==
    /\ rowReader = "next" /\ ~cancelled
    /\ \/ (SQLRowIter_Next \/ SqlRowIter_Next) /\ UNCHANGED returnErr
       \/ ReaderPanics
    /\ UNCHANGED <<front, rowChan, spooler, closer, cancelled, egErr, spool, stuck>>

ReaderSend ==
    /\ rowReader = "send" /\ Len(rowChan) < ChanCap
    /\ rowChan' = Append(rowChan, held) /\ held' = 0 /\ rowReader' = "next"
    /\ UNCHANGED <<front, next, open, chanClosed, spooler, closer, cancelled,
                   egErr, spool, returnErr, failures, stuck>>

ReaderCancelled ==
    /\ rowReader \in {"next", "send"} /\ cancelled
    /\ ReaderReturns("done")
    /\ UNCHANGED <<front, next, open, rowChan, spooler, closer, cancelled, egErr,
                   spool, returnErr, failures, stuck>>

-----------------------------------------------------------------------------
(* The spooler. *)

\* callback: a DataRow per row, then the count.  A dead socket stops it half way.
Delivers(batch) == sent' = sent \o batch /\ count' = count + Len(batch)

DeliversPart(batch) ==
    /\ Failure
    /\ \E k \in 0 .. Len(batch) : sent' = sent \o SubSeq(batch, 1, k)
    /\ UNCHANGED count

\* A full batch goes to the callback.
SpoolBatch ==
    /\ spooler = "top" /\ Len(r) = rowsBatch
    /\ \/ /\ Delivers(r) /\ r' = << >> /\ processed' = TRUE
          /\ UNCHANGED <<spooler, failures>>
       \/ /\ DeliversPart(r) /\ spooler' = "failed"
          /\ UNCHANGED <<r, processed>>
    /\ UNCHANGED <<phase, statement, answer, listed, rowsV, rowReader, held, closer,
                   cancelled, egErr, timer, returnErr, stuck>>

SpoolSelect ==
    /\ spooler = "top" /\ Len(r) < rowsBatch
    /\ spooler' = "select"
    /\ UNCHANGED <<front, rowsV, rowReader, held, closer, cancelled, egErr, spool,
                   returnErr, failures, stuck>>

\* rowToBytes fails, or panics: then pan2err records the error and the
\* goroutine returns nil.
rowToBytesFails ==
    /\ Failure
    /\ \/ spooler' = "failed" /\ UNCHANGED <<returnErr, stuck>>
       \/ /\ spooler' = "done" /\ returnErr' = TRUE
          /\ stuck' = stuck \cup {"panic"}

\* case row, ok := <-rowChan.
SpoolRow ==
    /\ spooler = "select" /\ rowChan # << >>
    /\ rowChan' = Tail(rowChan)
    /\ \/ /\ r' = Append(r, Head(rowChan)) /\ timer' = "armed" /\ spooler' = "top"
          /\ UNCHANGED <<failures, returnErr, stuck>>
       \/ rowToBytesFails /\ UNCHANGED <<r, timer>>
    /\ UNCHANGED <<front, next, open, chanClosed, rowReader, held, closer, cancelled,
                   egErr, processed, sent>>

\* The channel is closed and empty, or the context is cancelled.
SpoolEnd ==
    /\ spooler = "select"
    /\ (chanClosed /\ rowChan = << >>) \/ cancelled
    /\ spooler' = "done"
    /\ UNCHANGED <<front, rowsV, rowReader, held, closer, cancelled, egErr, spool,
                   returnErr, failures, stuck>>

\* A minute passes while the spooler waits for a row or for its socket.
Tick ==
    /\ Running(spooler) /\ timer = "armed" /\ timer' = "fired"
    /\ UNCHANGED <<front, rowsV, group, r, processed, sent, returnErr, failures,
                   stuck>>

\* case <-timer.C: the tick is consumed, so Stop reports FALSE and the second
\* receive from timer.C waits for a tick that never comes.
SpoolTick ==
    /\ spooler = "select" /\ timer = "fired"
    /\ spooler' = "drain" /\ stuck' = stuck \cup {"tick"}
    /\ UNCHANGED <<front, rowsV, rowReader, held, closer, cancelled, egErr, spool,
                   returnErr, failures>>

-----------------------------------------------------------------------------
(* The closer, and the end of doQuery. *)

\* iter.Close, which may fail.
CloseIter ==
    /\ open' = FALSE /\ closer' = "done"
    /\ \/ UNCHANGED <<cancelled, egErr, failures>>
       \/ Failure /\ EgFail
    /\ UNCHANGED <<front, next, rowChan, chanClosed, rowReader, held, spooler, spool,
                   returnErr, stuck>>

\* Mutant: the iterator is closed as soon as the reader has returned or
\* the spooler has.
CloseIterEarly ==
    /\ closer = "wait"
    /\ ~Running(rowReader) \/ ~Running(spooler)
    /\ CloseIter

\* wg.Wait, then Close.
Closer ==
    /\ closer = "wait"
    /\ ~Running(rowReader) /\ ~Running(spooler)
    /\ CloseIter

\* Mutant: no callback after a batch.
LastCallbackSkipped == processed

\* The last callback is left out when there is nothing left to say.
NothingLeft == r = << >> /\ processed

\* eg.Wait and the rest of doQuery.
FinishResult ==
    /\ phase = "spool"
    /\ rowReader = "done" /\ spooler = "done" /\ closer = "done"
    /\ \/ /\ egErr \/ returnErr
          /\ Return("err", TRUE) /\ UNCHANGED <<sent, count, failures>>
       \/ /\ ~egErr /\ ~returnErr
          /\ \/ /\ NothingLeft
                /\ Return("ok", FALSE) /\ UNCHANGED <<sent, count, failures>>
             \/ /\ ~NothingLeft
                /\ Delivers(r) /\ Return("ok", FALSE) /\ UNCHANGED failures
             \/ /\ ~NothingLeft
                /\ DeliversPart(r) /\ Return("err", FALSE)
    /\ UNCHANGED <<statement, rowsV, group, r, processed, timer, returnErr, stuck>>

ComQuery ==
    \E kind \in Kinds, n \in 0 .. MaxResult : doQuery("simple", kind, n)

ComExecuteBound ==
    \E kind \in Kinds, n \in 0 .. MaxResult : doQuery("extended", kind, n)

Reader  == ReaderNext \/ ReaderSend \/ ReaderCancelled \/ ReaderRecords
Spooler == SpoolBatch \/ SpoolSelect \/ SpoolRow \/ SpoolEnd \/ SpoolerRecords
               \/ SpoolTick

ExecuteStatement == executeQuery \/ executeBoundPlan \/ NewSQLRowIter \/ NewSqlRowIter

ResultNext == \/ ComQuery \/ ComExecuteBound \/ ExecuteStatement
        \/ Reader \/ Spooler \/ Tick \/ Closer \/ FinishResult

\* Goroutines that can run do run, and the socket neither blocks for ever nor
\* keeps the statement from executing.
ResultFairness ==
    /\ WF_resultVars(ExecuteStatement)
    /\ WF_resultVars(Reader) /\ WF_resultVars(Spooler) /\ WF_resultVars(Closer)
    /\ WF_resultVars(FinishResult)

ResultSpec == ResultInit /\ [][ResultNext]_resultVars /\ ResultFairness

-----------------------------------------------------------------------------
(* Properties. *)

\* The client receives the rows of the result in order and each of them once,
\* and a statement that is reported as complete has delivered them all and
\* announces their number: batches, the skipped last callback and the channel
\* between the goroutines of resultForDefaultIter lose and repeat nothing, and
\* no failure of the iterator ends as a shorter result.
ResultWhole ==
    /\ \A i \in DOMAIN sent : sent[i] = i
    /\ answer = "ok" =>
           /\ count = statement.n
           /\ statement.kind = "rows" => Len(sent) = statement.n

\* The reader never calls Next on rows that were closed under it, and when the
\* client has its answer the rows are closed, whatever failed in between: open
\* rows would keep the session's connection from ever being closed.  They stay open
\* only when a portal has too few format codes for its columns.
RowsClosedOnce ==
    /\ rowReader = "next" => open
    /\ phase = "idle" => ~open \/ "format" \in stuck

\* Every statement gets an answer, although the reader
\* can wait on a full channel and the closer on both, unless the spooler took
\* a tick of its timer or panicked.
Answers == phase # "idle" ~> (phase = "idle" \/ stuck # {})
=============================================================================
