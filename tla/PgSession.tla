----------------------------- MODULE PgSession -----------------------------
(* What the handler of one Postgres connection shares with the goroutines  *)
(* of a COPY: the session's DuckDB connection, which database/sql lets one *)
(* statement at a time use, and the socket.                                *)
EXTENDS Naturals, Sequences

CONSTANT MaxFaults    \* bound: how many operations fail in one behaviour

VARIABLES
  conn,     \* who executes on the DuckDB connection: "free", "loader", "writer"
  answers,  \* messages sent and not yet read by the client
  gone,     \* the client has closed the socket
  faults    \* failures left

sessionVars == <<conn, answers, gone, faults>>

Msg(t) == [type |-> t, n |-> 0]

Count(t, k) == [type |-> t, n |-> k]

(* send of a message that arrives; nobody reads what is sent to a closed   *)
(* socket                                                                  *)
Send(ms) == answers' = IF gone THEN answers ELSE answers \o ms

(* An operation of DuckDB or the file system that returns an error.        *)
Fault == faults > 0 /\ faults' = faults - 1

SessionInit ==
  /\ conn = "free"
  /\ answers = << >>
  /\ gone = FALSE
  /\ faults = MaxFaults
============================================================================
