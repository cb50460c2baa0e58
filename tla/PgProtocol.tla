----------------------------- MODULE PgProtocol -----------------------------
(* The handler of one Postgres connection, connection_handler.go, from its *)
(* startup to its end, and a client that keeps to the protocol.            *)
(* The client sends a simple query, or a batch of extended-query messages  *)
(* and Sync, and waits for ReadyForQuery.  Messages that neither change    *)
(* the handler's state nor end an exchange are left out of the answers,    *)
(* and so is the exchange of an authentication, which succeeds or fails.   *)
EXTENDS PgCopyFrom, PgCopyTo, FiniteSets

CONSTANTS
  Names,      \* names of prepared statements and portals; "" is the unnamed one
  Queries,    \* the simple queries the client sends, sequences of statements
  Extended,   \* the extended-query messages it sends; a Parse is of a statement
              \* of kind "engine", "inplace" or "empty"
  MaxSends,   \* bound: extended-query messages of the client; a query counts
              \* for two, Sync and the messages of a COPY are not counted
  MaxChunks,  \* bound: CopyData messages of one COPY
  Window      \* bound: messages on their way to the handler

Statements == {"engine", "inplace", "special", "deallocate", "copyin", "copyout"}

(* A query holds at least one statement.                                   *)
ASSUME ClientAssumption ==
  /\ \A m \in Extended :
       m.type \in {"Parse", "Bind", "Execute", "Flush", "DescribeStatement",
                  "DescribePortal", "CloseStatement", "ClosePortal"}
  /\ \A q \in Queries : q \in Seq(Statements) /\ q # << >>
  /\ MaxRows \in Nat

VARIABLES
  client,      \* what the client is doing
  moved,       \* chunks it has sent, or rows it has received, in this COPY
  sends,       \* messages it may still send
  out,         \* messages on their way to the handler
  preparedStatements, portals,
  closed,      \* the DuckDB statements that are closed
  waitForSync,
  copyState,   \* copyFromStdinState
  pc,          \* where the handler is
  todo,        \* statements of the query not yet handled
  odd          \* history: what has happened that the properties exclude

handlerVars == <<preparedStatements, portals, closed, waitForSync, copyState, pc,
                 todo, odd>>
clientVars == <<client, moved, sends, out>>
vars == <<sessionVars, loaderVars, outVars, clientVars, handlerVars>>

(* A message of the client.                                                *)
Request(t, n, p, k) == [type |-> t, name |-> n, portal |-> p, query |-> k]

None == [kind |-> "none", stmt |-> 0]
NoCopy == [active |-> FALSE, loader |-> FALSE, copyErr |-> FALSE]

(* DuckDB statements are numbered; 0 is a nil pointer.  One that no name   *)
(* refers to may be numbered again.                                        *)
Stmts == 1 .. 2 * Cardinality(Names) + 1

Held == {preparedStatements[n].stmt : n \in Names} \cup
        {portals[n].stmt : n \in Names}

Fresh == CHOOSE s \in Stmts \ Held : \A t \in Stmts \ Held : s <= t

(* CopyAfterError, CopyFail, LeftInCopy, StaleSync, NilStmt, Flush,         *)
(* SendFailed, SlowSender.                                                 *)
Note(o) == odd' = odd \cup o

Init ==
  /\ SessionInit /\ LoaderInit /\ OutInit
  /\ client = "starting" /\ moved = 0 /\ sends = MaxSends /\ out = << >>
  /\ preparedStatements = [n \in Names |-> None]
  /\ portals = [n \in Names |-> None]
  /\ closed = {}
  /\ waitForSync = FALSE
  /\ copyState = NoCopy
  /\ pc = "startup" /\ todo = << >> /\ odd = {}

-----------------------------------------------------------------------------
(* The client.                                                             *)

Put(m) == ~gone /\ Len(out) < Window /\ out' = Append(out, m)

Post(m, cost) == sends >= cost /\ sends' = sends - cost /\ Put(m)

Simple(q) == Request("Query", "", "", q)

(* It may ask for encryption first, or have come to cancel another's query. *)
SendStartup ==
  /\ client = "starting"
  /\ \E t \in {"Startup", "EncryptionRequest", "CancelRequest"} :
       /\ Put(Request(t, "", "", << >>))
       /\ client' = IF t = "EncryptionRequest" THEN "asking" ELSE "waiting"
  /\ UNCHANGED <<moved, sends>>

SendQuery ==
  /\ client = "idle"
  /\ \E q \in Queries : Post(Simple(q), 2)
  /\ client' = "waiting" /\ moved' = 0

SendExtended ==
  /\ client \in {"idle", "batch"}
  /\ \E m \in Extended : Post(m, 1)
  /\ client' = "batch" /\ UNCHANGED moved

SendSync ==
  /\ client = "batch"
  /\ Put(Request("Sync", "", "", << >>))
  /\ client' = "waiting" /\ UNCHANGED <<moved, sends>>

SendCopyData ==
  /\ client = "copying" /\ moved < MaxChunks
  /\ Put(Request("CopyData", "", "", << >>))
  /\ moved' = moved + 1 /\ UNCHANGED <<client, sends>>

EndCopy ==
  /\ client = "copying"
  /\ \E t \in {"CopyDone", "CopyFail"} :
       Put(Request(t, "", "", << >>))
  /\ client' = "waiting" /\ UNCHANGED <<moved, sends>>

(* The client reads the next answer.  An error ends a COPY from its side,  *)
(* and a client that is told it may go on while it waits for nothing hangs *)
(* up.                                                                     *)
ReadAnswer ==
  /\ ~gone /\ answers # << >>
  /\ LET t == Head(answers).type IN
     /\ client' = CASE t = "Ready" -> "idle"
                    [] t = "Encryption" -> "starting"
                    [] t = "CopyIn" -> "copying"
                    [] t = "CopyOut" -> "receiving"
                    [] t \in {"Error", "CopyDone"} /\ client \in {"copying", "receiving"}
                         -> "waiting"
                    [] OTHER -> client
     /\ moved' = CASE t \in {"CopyIn", "CopyOut", "CopyComplete"} -> 0
                   [] t = "Row" /\ client = "receiving" -> moved + 1
                   [] OTHER -> moved
     /\ gone' = (t = "Ready" /\ client \in {"idle", "batch"})
  /\ answers' = IF gone' THEN << >> ELSE Tail(answers)
  /\ UNCHANGED <<sends, out, handlerVars, loaderVars, outVars, conn, faults>>

(* It leaves, with or without Terminate.                                   *)
Leave ==
  /\ ~gone /\ Fault
  /\ gone' = TRUE /\ answers' = << >>
  /\ out' \in {out, Append(out, Request("Terminate", "", "", << >>))}
  /\ UNCHANGED <<client, moved, sends, handlerVars, loaderVars, outVars, conn>>

ClientNext ==
  \/ /\ SendStartup \/ SendQuery \/ SendExtended \/ SendSync \/ SendCopyData \/ EndCopy
     /\ UNCHANGED <<handlerVars, loaderVars, outVars, sessionVars>>
  \/ ReadAnswer
  \/ Leave

-----------------------------------------------------------------------------
(* Answers of the handler.                                                 *)

(* The answers ms are sent and the handler goes on at next.  On a closed   *)
(* socket they may fail: endOfMessages panics, again in each handler that  *)
(* recovers from the panic, and the last one skips the cleanup.            *)
Answer(ms, next, o) ==
  \/ Send(ms) /\ pc' = next /\ Note(o)
  \/ gone /\ pc' = "leaked" /\ UNCHANGED answers /\ Note(o \cup {"SendFailed"})

EndOfMessages(ms, o) == Answer(ms \o <<Msg("Ready")>>, "receive", o)

(* An error in a batch skips to Sync first; endOfMessages is true when the *)
(* message that failed ends its exchange.                                  *)
Fail(endOfMessages, sync, o) ==
  IF ~endOfMessages /\ sync
  THEN pc' = "discard" /\ UNCHANGED answers /\ Note(o)
  ELSE EndOfMessages(<<Msg("Error")>>, o)

Stale == IF waitForSync THEN {"StaleSync"} ELSE {}

Receive(t) == pc = "receive" /\ out # << >> /\ Head(out).type = t /\ out' = Tail(out)

UnchangedByMessage == UNCHANGED <<client, moved, sends, gone, outVars, loaderVars,
                                  conn>>

(* ParameterStatus for each parameter and BackendKeyData, or an error:     *)
(* nothing tells the client which.                                         *)
sendClientStartupMessages == {<<Msg("Ready")>>, << >>}

(* USE of the database named, whose failure the client is told, or of one  *)
(* with the name of the user, whose failure does not matter.               *)
chooseInitialDatabase == {<<Msg("Ready")>>, <<Msg("Error")>>}

(* A startup that fails ends the connection without ReadyForQuery, and so  *)
(* does an answer that cannot be sent.                                     *)
handleStartup ==
  /\ pc = "startup"
  /\ \/ /\ gone /\ out = << >> /\ pc' = "closing"
        /\ UNCHANGED <<out, answers, faults>>
     \/ /\ out # << >> /\ out' = Tail(out)
        /\ \/ /\ Head(out).type = "EncryptionRequest"
              /\ pc' \in {"startup"} \cup (IF gone THEN {"closing"} ELSE {})
              /\ Send(<<Msg("Encryption")>>) /\ UNCHANGED faults
           \/ /\ Head(out).type = "Startup"
              /\ \E ms \in sendClientStartupMessages \cup chooseInitialDatabase :
                   LET up == ms = <<Msg("Ready")>> IN
                   /\ pc' \in {IF up THEN "receive" ELSE "closing"} \cup
                             (IF gone THEN {"closing"} ELSE {})
                   /\ Send(ms)
                   /\ IF up THEN UNCHANGED faults ELSE Fault
           \/ /\ Head(out).type \notin {"EncryptionRequest", "Startup"}
              /\ pc' = "closing" /\ UNCHANGED <<answers, faults>>
  /\ UNCHANGED <<odd, preparedStatements, portals, closed, waitForSync, copyState, todo>>
  /\ UnchangedByMessage

(* discardToSync                                                           *)
Discard ==
  /\ pc = "discard"
  /\ \/ /\ out # << >>
        /\ out' = Tail(out)
        /\ IF Head(out).type = "Sync" THEN EndOfMessages(<<Msg("Error")>>, {})
                                      ELSE UNCHANGED <<answers, pc, odd>>
     \/ /\ gone /\ out = << >> /\ UNCHANGED out
        /\ EndOfMessages(<<Msg("Error")>>, {})
  /\ UNCHANGED <<faults, preparedStatements, portals, closed, waitForSync,
                 copyState, todo>>
  /\ UnchangedByMessage

Sync ==
  /\ Receive("Sync")
  /\ waitForSync' = FALSE
  /\ EndOfMessages(<< >>, {})
  /\ UNCHANGED <<faults, preparedStatements, portals, closed, copyState, todo>>
  /\ UnchangedByMessage

-----------------------------------------------------------------------------
(* Extended-query messages.                                                *)

(* The statements are closed, unless they were: the Closed flag is shared  *)
(* by a statement and its portals.                                         *)
Closing(ss) == closed \cup (ss \ {0})

(* The name of an empty query or of one handled in place has no statement, *)
(* and its deletion panics once the name is gone.                          *)
Panics(entry) == entry.kind # "none" /\ entry.stmt = 0

(* DuckDB prepares the statement and, if it is a query, runs it without    *)
(* parameters to learn its fields; when that fails it closes it again.     *)
ComPrepareParsed == {Fresh, 0}

(* A statement that is closed cannot be bound.                             *)
ComBind(s) == IF s \in closed THEN {FALSE} ELSE BOOLEAN

Parse ==
  /\ Receive("Parse")
  /\ waitForSync' = TRUE
  /\ LET m == Head(out)
         k == Head(m.query)
     IN \E s \in IF k = "engine" THEN ComPrepareParsed ELSE {0} :
        /\ k = "engine" => conn = "free"
        /\ IF k = "engine" /\ s = 0
           THEN /\ Fault /\ Fail(FALSE, TRUE, {})
                /\ UNCHANGED <<preparedStatements, closed>>
           ELSE /\ preparedStatements' =
                     [preparedStatements EXCEPT ![m.name] = [kind |-> k, stmt |-> s]]
                /\ closed' = closed \ {s}
                /\ UNCHANGED <<answers, pc, odd, faults>>
  /\ UNCHANGED <<portals, copyState, todo>>
  /\ UnchangedByMessage

Describe ==
  /\ \/ /\ Receive("DescribeStatement")
        /\ IF preparedStatements[Head(out).name] = None
           THEN Fail(FALSE, TRUE, {}) ELSE UNCHANGED <<answers, pc, odd>>
     \/ /\ Receive("DescribePortal")
        /\ IF portals[Head(out).portal] = None
           THEN Fail(FALSE, TRUE, {}) ELSE UNCHANGED <<answers, pc, odd>>
  /\ waitForSync' = TRUE
  /\ UNCHANGED <<faults, preparedStatements, portals, closed, copyState, todo>>
  /\ UnchangedByMessage

(* Parameters that do not convert are refused too.                         *)
Bind ==
  /\ Receive("Bind")
  /\ waitForSync' = TRUE
  /\ LET m == Head(out)
         e == preparedStatements[m.name]
     IN \E bound \in IF e.stmt = 0 THEN {e # None} ELSE ComBind(e.stmt) :
        /\ IF bound \/ e.stmt \in closed \cup {0} THEN UNCHANGED faults ELSE Fault
        /\ IF bound THEN /\ portals' = [portals EXCEPT ![m.portal] = e]
                         /\ UNCHANGED <<answers, pc, odd>>
           ELSE Fail(FALSE, TRUE, {}) /\ UNCHANGED portals
  /\ UNCHANGED <<preparedStatements, closed, copyState, todo>>
  /\ UnchangedByMessage

Execute ==
  /\ Receive("Execute")
  /\ waitForSync' = TRUE
  /\ LET e == portals[Head(out).portal]
     IN \/ /\ e = None
           /\ Fail(FALSE, TRUE, {}) /\ UNCHANGED faults
        \/ /\ e # None
           /\ e.kind = "empty" \/ conn = "free"
           /\ UNCHANGED <<answers, pc, odd, faults>>
        \/ /\ e.kind \in {"engine", "inplace"} /\ conn = "free" /\ Fault
           /\ Fail(FALSE, TRUE, {})
  /\ UNCHANGED <<preparedStatements, portals, closed, copyState, todo>>
  /\ UnchangedByMessage

(* Close does not set waitForSync.                                         *)
Close ==
  /\ \/ /\ Receive("CloseStatement")
        /\ LET e == preparedStatements[Head(out).name] IN
           /\ preparedStatements' = [preparedStatements EXCEPT ![Head(out).name] = None]
           /\ closed' = Closing({e.stmt})
           /\ IF Panics(e) THEN Fail(FALSE, waitForSync, {"NilStmt"})
                           ELSE UNCHANGED <<answers, pc, odd>>
        /\ UNCHANGED portals
     \/ /\ Receive("ClosePortal")
        /\ LET e == portals[Head(out).portal] IN
           /\ portals' = [portals EXCEPT ![Head(out).portal] = None]
           /\ closed' = Closing({e.stmt})
           /\ IF Panics(e) THEN Fail(FALSE, waitForSync, {"NilStmt"})
                           ELSE UNCHANGED <<answers, pc, odd>>
        /\ UNCHANGED preparedStatements
  /\ UNCHANGED <<faults, waitForSync, copyState, todo>>
  /\ UnchangedByMessage

(* handleMessage knows no Flush.                                           *)
Flush ==
  /\ Receive("Flush")
  /\ EndOfMessages(<<Msg("Error")>>, {"Flush"})
  /\ UNCHANGED <<faults, preparedStatements, portals, closed, waitForSync,
                 copyState, todo>>
  /\ UnchangedByMessage

-----------------------------------------------------------------------------
(* Simple queries.                                                         *)

(* A query destroys the unnamed statement and portal, unless it is one of  *)
(* those psql or a workbench is known to send.                             *)
Query ==
  /\ Receive("Query")
  /\ LET q == Head(out).query
         s == preparedStatements[""]
         p == IF Panics(s) THEN None ELSE portals[""]
     IN IF q = <<"special">>
        THEN /\ pc' = "query" /\ todo' = q
             /\ UNCHANGED <<preparedStatements, portals, closed, answers, odd>>
        ELSE /\ preparedStatements' = [preparedStatements EXCEPT ![""] = None]
             /\ portals' = IF Panics(s) THEN portals ELSE [portals EXCEPT ![""] = None]
             /\ closed' = Closing({s.stmt, p.stmt})
             /\ IF Panics(s) \/ Panics(p)
                THEN Fail(FALSE, waitForSync, {"NilStmt"}) /\ UNCHANGED todo
                ELSE pc' = "query" /\ todo' = q /\ UNCHANGED <<answers, odd>>
  /\ UNCHANGED <<faults, waitForSync, copyState>>
  /\ UnchangedByMessage

(* The answers of a statement; those of the last one end the exchange.     *)
Done(ms, o) ==
  /\ todo' = Tail(todo)
  /\ IF Len(todo) = 1 THEN EndOfMessages(ms, o) ELSE Answer(ms, "query", o)

QueryFails(o) == todo' = << >> /\ EndOfMessages(<<Msg("Error")>>, o)

Statement(ks) == pc = "query" /\ Head(todo) \in ks /\ conn = "free"

Run ==
  /\ Statement({"engine", "inplace", "special"})
  /\ \/ Done(<< >>, {}) /\ UNCHANGED faults
     \/ Fault /\ QueryFails({})
  /\ UNCHANGED <<preparedStatements, portals, closed, waitForSync, copyState, out>>
  /\ UnchangedByMessage

Deallocate ==
  /\ Statement({"deallocate"})
  /\ \E n \in Names \ {""} :
       LET e == preparedStatements[n] IN
       /\ preparedStatements' = [preparedStatements EXCEPT ![n] = None]
       /\ closed' = Closing({e.stmt})
       /\ IF e = None THEN QueryFails({})
          ELSE IF Panics(e)
          THEN todo' = << >> /\ Fail(FALSE, waitForSync, {"NilStmt"})
          ELSE Done(<< >>, {})
  /\ UNCHANGED <<faults, portals, waitForSync, copyState, out>>
  /\ UnchangedByMessage

(* COPY FROM STDIN: CopyInResponse, and the handler waits for CopyData.    *)
CopyFromStdin ==
  /\ Statement({"copyin"})
  /\ \/ /\ copyState' = [active |-> TRUE, loader |-> FALSE, copyErr |-> FALSE]
        /\ todo' = Tail(todo)
        /\ Answer(<<Msg("CopyIn")>>, IF Len(todo) = 1 THEN "receive" ELSE "query", {})
        /\ UNCHANGED faults
     \/ Fault /\ QueryFails({}) /\ UNCHANGED copyState
  /\ UNCHANGED <<preparedStatements, portals, closed, waitForSync, out>>
  /\ UnchangedByMessage

UnchangedByCopyOut ==
  UNCHANGED <<faults, preparedStatements, portals, closed, waitForSync, copyState,
              out, client, moved, sends, gone, loaderVars, conn>>

(* The goroutines of a COPY wait for the connection while the writer of a  *)
(* canceled one still has it.                                              *)
CopyToStdout ==
  /\ Statement({"copyout"})
  /\ writer \in {"idle", "exited"}
  /\ StartOut /\ pc' = "select"
  /\ UNCHANGED <<answers, odd, todo>> /\ UnchangedByCopyOut

CopyOutEnds ==
  IF result = "err" \/ globalErr THEN QueryFails({})
  ELSE Done(<<Msg("CopyDone"), Count("CopyComplete", rows)>>, {})

Select ==
  /\ pc = "select"
  /\ \/ /\ Canceled /\ QueryFails({})
        /\ IF result = "none" THEN UNCHANGED outVars ELSE Forget
     \/ Joined /\ CopyOutEnds /\ Forget
     \/ /\ SeesBlocked /\ pc' = "unblock"
        /\ Note(IF sender = "opening" THEN {} ELSE {"SlowSender"})
        /\ UNCHANGED <<answers, todo, outVars>>
  /\ UnchangedByCopyOut

UnblockSender ==
  /\ \/ /\ pc = "unblock" /\ OpenForWriting /\ pc' = "release"
        /\ UNCHANGED <<answers, todo, odd>>
     \/ pc = "release" /\ sender = "done" /\ CopyOutEnds /\ Forget
  /\ UnchangedByCopyOut
-----------------------------------------------------------------------------
(* CopyData, CopyDone and CopyFail, which a client sends after CopyIn.     *)

UnchangedByCopyIn ==
  UNCHANGED <<preparedStatements, portals, closed, waitForSync, todo, client,
              moved, sends, gone, outVars, conn>>

CopyFails(o) ==
  /\ copyState' = [copyState EXCEPT !.copyErr = TRUE]
  /\ Fail(FALSE, waitForSync, Stale \cup o)

(* The first chunk starts a loader, and so does one after a loader that    *)
(* could not be started.                                                   *)
CopyData ==
  /\ Receive("CopyData")
  /\ LET o == IF copyState.copyErr THEN {"CopyAfterError"} ELSE {} IN
     \/ /\ copyState.loader
        /\ pc' = "load" /\ Note(o)
        /\ UNCHANGED <<answers, faults, copyState, loaderVars>>
     \/ /\ ~copyState.loader
        /\ Start /\ pc' = "ready" /\ Note(o)
        /\ UNCHANGED <<answers, faults, copyState>>
     \/ /\ ~copyState.loader /\ Fault
        /\ CopyFails(o) /\ UNCHANGED loaderVars
  /\ UnchangedByCopyIn

LoaderReady ==
  /\ pc = "ready"
  /\ \/ /\ opener = "ready"
        /\ copyState' = [copyState EXCEPT !.loader = TRUE]
        /\ pc' = "load" /\ UNCHANGED <<answers, odd>>
     \/ opener = "refused" /\ CopyFails({})
  /\ UNCHANGED <<faults, loaderVars, out>> /\ UnchangedByCopyIn

LoadChunk ==
  /\ \/ /\ pc = "load" /\ err
        /\ CopyFails({}) /\ UNCHANGED loaderVars
     \/ /\ pc = "load" /\ Write
        /\ pc' = "receive" /\ UNCHANGED <<answers, odd, copyState>>
     \/ /\ pc = "load" /\ Break
        /\ pc' = "abort" /\ UNCHANGED <<answers, odd, copyState>>
     \/ /\ pc = "abort" /\ reader = "exited"
        /\ ClosePipe /\ CopyFails({})
  /\ UNCHANGED <<faults, out>> /\ UnchangedByCopyIn

(* Mutant: an earlier error does not matter.                               *)
CopyDoneAnyway ==
  /\ Receive("CopyDone")
  /\ IF ~copyState.loader THEN EndOfMessages(<<Msg("Error")>>, {})
     ELSE pc' = "finish" /\ UNCHANGED <<answers, odd>>
  /\ UNCHANGED <<faults, copyState, loaderVars>> /\ UnchangedByCopyIn

(* After an error in CopyData the client has its answer already.           *)
CopyDone ==
  /\ Receive("CopyDone")
  /\ IF copyState.copyErr THEN pc' = "receive" /\ UNCHANGED <<answers, odd>>
     ELSE IF ~copyState.loader THEN EndOfMessages(<<Msg("Error")>>, {})
     ELSE pc' = "finish" /\ UNCHANGED <<answers, odd>>
  /\ UNCHANGED <<faults, copyState, loaderVars>> /\ UnchangedByCopyIn

(* Mutant: the rows are counted before the reader has returned.            *)
FinishEarly ==
  /\ \/ /\ pc \in {"finish", "rows"} /\ err
        /\ Fail(FALSE, waitForSync, Stale) /\ UNCHANGED <<loaderVars, copyState>>
     \/ /\ pc = "finish" /\ ~err
        /\ ClosePipe /\ pc' = "rows" /\ UNCHANGED <<answers, odd, copyState>>
     \/ /\ pc = "rows" /\ ~err
        /\ copyState' = NoCopy /\ UNCHANGED loaderVars
        /\ EndOfMessages(<<Count("CopyComplete", got)>>, {})
  /\ UNCHANGED <<faults, out>> /\ UnchangedByCopyIn

(* The end of the pipe lets the reader finish; its error is looked at      *)
(* before and after.                                                       *)
Finish ==
  /\ \/ /\ pc \in {"finish", "rows"} /\ err
        /\ pc = "rows" => reader = "exited"
        /\ Fail(FALSE, waitForSync, Stale) /\ UNCHANGED <<loaderVars, copyState>>
     \/ /\ pc = "finish" /\ ~err
        /\ ClosePipe /\ pc' = "rows" /\ UNCHANGED <<answers, odd, copyState>>
     \/ /\ pc = "rows" /\ ~err /\ reader = "exited"
        /\ copyState' = NoCopy /\ Drop
        /\ EndOfMessages(<<Count("CopyComplete", got)>>, {})
  /\ UNCHANGED <<faults, out>> /\ UnchangedByCopyIn

(* The state is dropped; nothing tells the loader.                         *)
CopyFail ==
  /\ Receive("CopyFail")
  /\ IF copyState.loader
     THEN copyState' = NoCopy /\ EndOfMessages(<< >>, {"CopyFail"})
     ELSE UNCHANGED copyState /\ EndOfMessages(<<Msg("Error")>>, {"CopyFail"})
  /\ UNCHANGED <<faults, loaderVars>> /\ UnchangedByCopyIn

-----------------------------------------------------------------------------

(* The end of the connection: nothing more to read, or Terminate.          *)
Hangup ==
  /\ \/ pc = "receive" /\ gone /\ out = << >> /\ UNCHANGED out
     \/ Receive("Terminate")
  /\ pc' = "closing"
  /\ Note(IF reader \in {"idle", "exited"} THEN {} ELSE {"LeftInCopy"})
  /\ UNCHANGED <<answers, faults, preparedStatements, portals, closed,
                 waitForSync, copyState, todo>>
  /\ UnchangedByMessage

(* ConnectionClosed and closeBackendConn, which needs the connection; then *)
(* the socket is closed.                                                   *)
CloseConnection ==
  /\ pc = "closing" /\ conn = "free"
  /\ pc' = "closed" /\ gone' = TRUE /\ answers' = << >>
  /\ UNCHANGED <<faults, odd, preparedStatements, portals, closed, waitForSync,
                 copyState, todo, out, client, moved, sends, outVars, loaderVars, conn>>

HandlerNext ==
  \/ handleStartup \/ Discard \/ Sync \/ Parse \/ Describe \/ Bind \/ Execute \/ Close \/ Flush
  \/ Query \/ Run \/ Deallocate \/ CopyFromStdin \/ CopyToStdout \/ Select
  \/ UnblockSender \/ CopyData \/ LoaderReady \/ LoadChunk \/ CopyDone \/ Finish
  \/ CopyFail \/ Hangup \/ CloseConnection

Goroutines ==
  \/ (LoaderNext \/ LoaderFaults) /\ UNCHANGED <<outVars, clientVars, handlerVars>>
  \/ (OutNext \/ OutFaults) /\ UNCHANGED <<loaderVars, clientVars, handlerVars>>

Next == ClientNext \/ HandlerNext \/ Goroutines

Spec == Init /\ [][Next]_vars

(* The handler and its goroutines are scheduled; the client reads its      *)
(* answers and brings to an end what it has begun.                         *)
ServerGoesOn ==
  \/ HandlerNext
  \/ LoaderNext /\ UNCHANGED <<outVars, clientVars, handlerVars>>
  \/ OutNext /\ UNCHANGED <<loaderVars, clientVars, handlerVars>>

ClientGoesOn ==
  \/ ReadAnswer
  \/ (SendSync \/ EndCopy) /\ UNCHANGED <<handlerVars, loaderVars, outVars, sessionVars>>

FairSpec == Spec /\ WF_vars(ServerGoesOn) /\ WF_vars(ClientGoesOn)

-----------------------------------------------------------------------------
(* Properties.                                                             *)

Readies == {i \in DOMAIN answers : answers[i].type = "Ready"}

(* Nothing has happened of what makes the handler answer out of turn.      *)
InStep == odd \cap {"CopyAfterError", "CopyFail", "NilStmt", "Flush"} = {}

(* receiveMessage, discardToSync and the COPY handlers send one            *)
(* ReadyForQuery per request between them: none is on its way to a client  *)
(* that has not asked, and never two, whichever of them reports an error.  *)
OneReady ==
  InStep => \A i, j \in Readies : i = j /\ client \notin {"idle", "batch"}

(* The n of the COPY n that handleCopyDone and handleCopyToStdout send is  *)
(* what the client has sent, or has received after CopyOutResponse: no     *)
(* chunk is lost between the handler, the pipe and the goroutines.         *)
CopyCounts ==
  InStep /\ answers # << >> /\ Head(answers).type = "CopyComplete" => Head(answers).n = moved

(* A COPY FROM STDIN becomes visible as a whole, and only when the client  *)
(* has ended it: the reader's statement commits at the end of a pipe that  *)
(* Finish closed, or Abort after the statement has failed.                 *)
CopyWhole == [][InStep /\ stored' > stored => client # "copying" /\ stored' = moved]_vars


=============================================================================
