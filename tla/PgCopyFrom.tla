----------------------------- MODULE PgCopyFrom -----------------------------
(* COPY ... FROM STDIN: the handler writes the chunks it receives to a     *)
(* named pipe, a goroutine has DuckDB read them.  PipeDataLoader of        *)
(* dataloader.go with the readers of CsvDataLoader and ArrowDataLoader.    *)
EXTENDS PgSession

CONSTANTS
  Formats,   \* of {"csv", "arrow"}
  PipeSize   \* bound: chunks the pipe holds

VARIABLES
  format,    \* which loader was made
  reader,    \* the goroutine of loader.read
  opener,    \* the goroutine of Start
  blocked,   \* loader.blocked
  errPipe,   \* loader.errPipe is set
  err,       \* loader.err is set
  pipe,      \* loader.pipe: "none", "open", "closed"
  readable,  \* somebody holds the read end
  unread,    \* chunks in the pipe
  got,       \* chunks read
  stored     \* chunks this COPY has made visible

loaderVars == <<format, reader, opener, blocked, errPipe, err, pipe, readable,
                unread, got, stored>>

LoaderInit ==
  /\ format = CHOOSE f \in Formats : TRUE
  /\ reader = "idle" /\ opener = "idle"
  /\ blocked = FALSE /\ errPipe = FALSE /\ err = FALSE
  /\ pipe = "none" /\ readable = FALSE
  /\ unread = 0 /\ got = 0 /\ stored = 0

(* A new loader, and Start: the reader and the opener of the pipe.  DuckDB *)
(* opens the pipe inside the COPY; the Arrow reader opens it first.        *)
Start ==
  /\ format' \in Formats
  /\ reader' = IF format' = "csv" THEN "exec" ELSE "open"
  /\ opener' = "opening" /\ blocked' = TRUE
  /\ errPipe' = FALSE /\ err' = FALSE
  /\ pipe' = "none" /\ readable' = FALSE
  /\ unread' = 0 /\ got' = 0 /\ stored' = 0

-----------------------------------------------------------------------------
(* The reader.                                                             *)

(* adapter.Exec, or the INSERT of an Arrow view, gets the connection.      *)
ExecuteCopy ==
  /\ conn = "free"
  /\ \/ reader = "exec" /\ reader' = "open"
     \/ reader = "header" /\ unread > 0 /\ reader' = "reading"
  /\ conn' = "loader"
  /\ UNCHANGED <<format, opener, blocked, errPipe, err, pipe, readable, unread,
                 got, stored>>

(* Opening a named pipe waits for the other end.                           *)
Meet ==
  /\ reader = "open" /\ opener = "opening"
  /\ reader' = IF format = "csv" THEN "reading" ELSE "header"
  /\ opener' = "opened" /\ readable' = TRUE
  /\ UNCHANGED <<conn, format, blocked, errPipe, err, pipe, unread, got, stored>>

Read ==
  /\ reader = "reading" /\ unread > 0
  /\ unread' = unread - 1 /\ got' = got + 1
  /\ UNCHANGED <<conn, format, reader, opener, blocked, errPipe, err, pipe,
                 readable, stored>>

(* Mutant: an empty pipe is taken for its end.                             *)
CommitWhenEmpty ==
  /\ reader = "reading" /\ unread = 0 /\ got > 0
  /\ stored' = got /\ reader' = "exited"
  /\ conn' = "free" /\ readable' = FALSE
  /\ UNCHANGED <<format, opener, blocked, errPipe, err, pipe, unread, got>>

(* End of file: the statement ends and commits, and the row count is sent. *)
Commit ==
  /\ reader = "reading" /\ unread = 0 /\ pipe = "closed"
  /\ stored' = got /\ reader' = "exited"
  /\ conn' = "free" /\ readable' = FALSE
  /\ UNCHANGED <<format, opener, blocked, errPipe, err, pipe, unread, got>>

(* The connection cannot be had, or the statement fails: before the pipe   *)
(* is opened (a missing table), or at a chunk.  DuckDB closes its end; the *)
(* Arrow reader leaves its open, and may fail to open it.                  *)
ReaderFails ==
  /\ Fault
  /\ reader \in {"exec", "open", "header", "reading"}
  /\ reader' = IF reader = "open" /\ format = "arrow" THEN "unopened" ELSE "failing"
  /\ readable' = (readable /\ format = "arrow")
  /\ UNCHANGED <<conn, format, opener, blocked, errPipe, err, pipe, unread, got,
                 stored>>


(* loader.err is set; a writer still opening the pipe has to be let go.    *)
ReaderReports ==
  /\ reader \in {"failing", "unopened"}
  /\ err' = TRUE
  /\ conn' = IF conn = "loader" THEN "free" ELSE conn
  /\ reader' = IF reader = "unopened" \/ (blocked /\ format = "csv")
               THEN "unblock" ELSE "exited"
  /\ UNCHANGED <<format, opener, blocked, errPipe, pipe, readable, unread, got,
                 stored>>

Unblock ==
  /\ reader = "unblock"
  /\ opener' = IF opener = "opening" THEN "opened" ELSE opener
  /\ errPipe' = TRUE /\ readable' = TRUE /\ reader' = "exited"
  /\ UNCHANGED <<conn, format, blocked, err, pipe, unread, got, stored>>

(* The error of this open is not looked at.  Nobody opens the pipe any     *)
(* more, and an opener that waits for it is stranded.                      *)
UnblockFails ==
  /\ reader = "unblock"
  /\ reader' = "exited"
  /\ opener' = IF opener = "opening" THEN "stranded" ELSE opener
  /\ UNCHANGED <<conn, format, blocked, errPipe, err, pipe, readable, unread, got,
                 stored, faults>>

OpenerStuck == opener = "stranded"

(* The file the Arrow reader left open is closed by the garbage collector. *)
Collect ==
  /\ reader = "exited" /\ format = "arrow" /\ readable
  /\ readable' = FALSE
  /\ UNCHANGED <<conn, format, reader, opener, blocked, errPipe, err, pipe,
                 unread, got, stored>>

-----------------------------------------------------------------------------
(* The opener.                                                             *)

Opened ==
  /\ opener = "opened"
  /\ blocked' = FALSE /\ opener' = "check"
  /\ UNCHANGED <<conn, format, reader, errPipe, err, pipe, readable, unread, got,
                 stored>>

Check ==
  /\ opener = "check"
  /\ opener' = IF errPipe THEN "refused" ELSE "ready"
  /\ pipe' = IF errPipe THEN "closed" ELSE "open"
  /\ readable' = (readable /\ ~errPipe)
  /\ UNCHANGED <<conn, format, reader, blocked, errPipe, err, unread, got, stored>>

LoaderNext ==
  /\ \/ ExecuteCopy \/ Meet \/ Read \/ Commit \/ ReaderReports \/ Unblock \/ Collect
     \/ Opened \/ Check
  /\ UNCHANGED <<answers, gone, faults>>

LoaderFaults == (ReaderFails \/ UnblockFails) /\ UNCHANGED <<answers, gone>>

-----------------------------------------------------------------------------
(* The handler's side.                                                     *)

Write ==
  /\ ~err /\ readable /\ unread < PipeSize
  /\ unread' = unread + 1
  /\ UNCHANGED <<format, reader, opener, blocked, errPipe, err, pipe, readable,
                 got, stored>>

(* The pipe is broken: Abort marks the loader and waits for its reader.    *)
Break ==
  /\ ~err /\ ~readable
  /\ err' = TRUE
  /\ UNCHANGED <<format, reader, opener, blocked, errPipe, pipe, readable, unread,
                 got, stored>>

ClosePipe ==
  /\ pipe' = "closed"
  /\ UNCHANGED <<format, reader, opener, blocked, errPipe, err, readable, unread,
                 got, stored>>

(* The reader has returned and the loader is dropped.                      *)
Drop ==
  /\ reader' = "idle" /\ opener' = "idle"
  /\ blocked' = FALSE /\ errPipe' = FALSE /\ err' = FALSE
  /\ pipe' = "none" /\ readable' = FALSE
  /\ unread' = 0 /\ got' = 0 /\ stored' = 0
  /\ format' = CHOOSE f \in Formats : TRUE
=============================================================================
