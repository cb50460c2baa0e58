------------------------------ MODULE PgCopyTo ------------------------------
(* COPY ... TO STDOUT: a goroutine has DuckDB write to a named pipe, a     *)
(* second one sends what it reads there to the client, and the handler     *)
(* waits for both.  handleCopyToStdout with DuckDataWriter and ArrowWriter *)
EXTENDS PgSession

CONSTANTS
  MaxRows,   \* bound: lines of a result
  OutSize    \* bound: lines the pipe holds

VARIABLES
  rows,      \* lines of the result
  text,      \* the format is text, answered line by line
  writer,    \* the goroutine of DataWriter.Start
  sender,    \* the goroutine that reads the pipe
  waiting,   \* "blocked": the sender has not opened the pipe
  globalErr,
  canceled,  \* the context of the COPY
  result,    \* what ch holds: "none", "ok", "err"
  lines,     \* lines in the pipe
  written,   \* lines written
  writers,   \* open write ends: DuckDB's and the handler's
  responded  \* CopyOutResponse was sent

outVars == <<rows, text, writer, sender, waiting, globalErr, canceled, result,
             lines, written, writers, responded>>

OutInit ==
  /\ rows = 0 /\ text = FALSE
  /\ writer = "idle" /\ sender = "idle"
  /\ waiting = FALSE /\ globalErr = FALSE /\ canceled = FALSE
  /\ result = "none" /\ lines = 0 /\ written = 0
  /\ writers = {} /\ responded = FALSE

(* Both goroutines are started.                                            *)
StartOut ==
  /\ rows' \in 0 .. MaxRows /\ text' \in BOOLEAN
  /\ writer' = "exec" /\ sender' = "opening" /\ waiting' = TRUE
  /\ globalErr' = FALSE /\ canceled' = FALSE /\ result' = "none"
  /\ lines' = 0 /\ written' = 0 /\ writers' = {} /\ responded' = FALSE

-----------------------------------------------------------------------------
(* The writer.                                                             *)

ExecuteOut ==
  /\ writer = "exec" /\ conn = "free" /\ ~canceled
  /\ writer' = "open" /\ conn' = "writer"
  /\ UNCHANGED <<rows, text, sender, waiting, globalErr, canceled, result, lines,
                 written, writers, responded, answers>>

MeetOut ==
  /\ writer = "open" /\ sender = "opening"
  /\ writer' = "writing" /\ sender' = "opened" /\ writers' = {"duckdb"}
  /\ UNCHANGED <<rows, text, waiting, globalErr, canceled, result, lines, written,
                 responded, conn, answers>>

WriteLine ==
  /\ writer = "writing" /\ written < rows /\ lines < OutSize
  /\ sender # "done"
  /\ lines' = lines + 1 /\ written' = written + 1
  /\ UNCHANGED <<rows, text, writer, sender, waiting, globalErr, canceled, result,
                 writers, responded, conn, answers>>

WriterDone ==
  /\ writer = "writing" /\ written = rows
  /\ writer' = "exited" /\ result' = "ok" /\ conn' = "free"
  /\ writers' = writers \ {"duckdb"}
  /\ UNCHANGED <<rows, text, sender, waiting, globalErr, canceled, lines, written,
                 responded, answers>>

WriterReturnsError ==
  /\ globalErr' = TRUE /\ result' = "err"
  /\ writer' = "exited" /\ conn' = "free"
  /\ writers' = writers \ {"duckdb"}
  /\ UNCHANGED <<rows, text, sender, waiting, canceled, lines, written, responded,
                 answers>>

(* The statement fails, before or after it has opened the pipe.            *)
WriterFails == writer \in {"open", "writing"} /\ Fault /\ WriterReturnsError

(* The context is canceled: before the statement has begun, or the pipe is *)
(* broken.                                                                 *)
WriterBroken ==
  /\ sender = "done"
  /\ \/ writer = "exec" /\ conn = "free" /\ canceled
     \/ writer = "writing" /\ written < rows
  /\ WriterReturnsError

(* The sender has not opened the pipe, and nobody else does.               *)
WriterStuck == writer = "open" /\ sender = "done"

(* The handler removes the pipe; DuckDB, if it is late, makes a file.      *)
WriterMissesPipe == WriterStuck /\ WriterReturnsError /\ UNCHANGED faults

-----------------------------------------------------------------------------
(* The sender.                                                             *)

(* The pipe is open.  After an error of the writer there is nothing to do. *)
SenderOpened ==
  /\ sender = "opened"
  /\ waiting' = FALSE
  /\ sender' = IF globalErr THEN "done" ELSE "reading"
  /\ canceled' = (canceled \/ globalErr)
  /\ responded' = (~globalErr /\ ~text)
  /\ Send(IF globalErr \/ text THEN << >> ELSE <<Msg("CopyOut")>>)
  /\ UNCHANGED <<rows, text, writer, globalErr, result, lines, written, writers,
                 conn>>

(* A line goes to the client; the first one of a text is what tells how    *)
(* many columns CopyOutResponse has to announce.                           *)
SendLine ==
  /\ sender = "reading" /\ lines > 0
  /\ lines' = lines - 1 /\ responded' = TRUE
  /\ Send((IF responded THEN << >> ELSE <<Msg("CopyOut")>>) \o <<Msg("Row")>>)
  /\ UNCHANGED <<rows, text, writer, sender, waiting, globalErr, canceled, result,
                 written, writers, conn>>

(* End of file: no line, and no write end open.                            *)
SenderDone ==
  /\ sender = "reading" /\ lines = 0 /\ writers = {}
  /\ sender' = "done"
  /\ UNCHANGED <<rows, text, writer, waiting, globalErr, canceled, result, lines,
                 written, writers, responded, conn, answers>>

SenderReturnsError ==
  /\ sender' = "done" /\ waiting' = FALSE
  /\ globalErr' = TRUE /\ canceled' = TRUE
  /\ UNCHANGED <<rows, text, writer, result, lines, written, writers, responded,
                 conn, answers>>

(* The client is gone, and CopyOutResponse or a line cannot be sent.       *)
SenderFails ==
  /\ gone
  /\ \/ sender = "opened" /\ ~globalErr /\ ~text
     \/ sender = "reading" /\ lines > 0
  /\ SenderReturnsError

(* The pipe cannot be opened or read, or a line of text is too long.       *)
ReadFails ==
  /\ sender = "opening" \/ (sender = "reading" /\ lines > 0)
  /\ Fault
  /\ SenderReturnsError

OutNext ==
  /\ \/ ExecuteOut \/ MeetOut \/ WriteLine \/ WriterDone \/ WriterBroken
     \/ SenderOpened \/ SendLine \/ SenderDone \/ SenderFails
  /\ UNCHANGED <<gone, faults>>

OutFaults == (WriterFails \/ ReadFails \/ WriterMissesPipe) /\ UNCHANGED gone

-----------------------------------------------------------------------------
(* The handler's side of the select.                                       *)

(* The context was canceled and the sender has returned.                   *)
Canceled == canceled /\ sender = "done"

(* The writer has returned, and the sender has opened its end.             *)
Joined == result # "none" /\ ~waiting /\ sender = "done"

(* The writer has returned while the sender seems to wait for it.          *)
SeesBlocked == result # "none" /\ waiting

(* So the handler opens the pipe for writing, which waits for a reader.    *)
OpenForWriting ==
  /\ sender \in {"opening", "opened", "reading"}
  /\ sender' = IF sender = "opening" THEN "opened" ELSE sender
  /\ writers' = writers \cup {"handler"}
  /\ UNCHANGED <<rows, text, writer, waiting, globalErr, canceled, result, lines,
                 written, responded>>

(* The goroutines have returned and everything goes out of scope.          *)
Forget ==
  /\ rows' = 0 /\ text' = FALSE
  /\ writer' = "idle" /\ sender' = "idle"
  /\ waiting' = FALSE /\ globalErr' = FALSE /\ canceled' = FALSE
  /\ result' = "none" /\ lines' = 0 /\ written' = 0
  /\ writers' = {} /\ responded' = FALSE
=============================================================================
