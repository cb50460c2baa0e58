---------------------------- MODULE PgCopyProofs ----------------------------
(***************************************************************************)
(* The two halves of COPY keep count (CopyCounts and CopyWhole of          *)
(* PgProtocol), for any number of chunks, rows, statements and faults.     *)
(*                                                                         *)
(* The inductive invariant, Books, stands on Turn and has three parts.     *)
(* Pipes says how the pipe of each direction comes to its end: the write   *)
(* end of a COPY FROM is closed by the handler that then waits for the row *)
(* count, or after the reader has failed.  Counted places the chunks the   *)
(* client of a COPY FROM has sent: on their way, in the hand of the        *)
(* handler, in the pipe, or read.  Account follows the answers instead: a  *)
(* client that reads all of them will have counted what the handler and    *)
(* the sender of a COPY TO have counted, and the n of every CopyComplete   *)
(* among them is the count where it stands (Tale, Told).  Counted and      *)
(* Account hold while client and handler are in step (InStep).             *)
(***************************************************************************)
EXTENDS PgProtocolProofs

-----------------------------------------------------------------------------
(* The count of a client that reads its answers *)

(* What the client will have counted, and whether it receives a COPY TO,   *)
(* once it has read the answers s.                                         *)
Marks == {"CopyIn", "CopyOut", "CopyComplete"}
Stops == {"Ready", "Encryption", "CopyIn", "Error", "CopyDone"}
Modes == {"receiving", "other"}
Mode == IF client = "receiving" THEN "receiving" ELSE "other"
Moves(n, b, t) == IF t \in Marks THEN 0 ELSE IF t = "Row" /\ b = "receiving" THEN n + 1 ELSE n
Receives(b, t) == IF t = "CopyOut" THEN "receiving" ELSE IF t \in Stops THEN "other" ELSE b
Follows(s, m, r) ==
  \A i \in 1 .. Len(s) : /\ m[i] = Moves(m[i - 1], r[i - 1], s[i].type)
                         /\ r[i] = Receives(r[i - 1], s[i].type)
                         /\ s[i].type = "CopyComplete" => s[i].n = m[i - 1]
Tale(s, m0, r0, n, b) ==
  \E m \in [0 .. Len(s) -> Nat], r \in [0 .. Len(s) -> Modes] :
    m[0] = m0 /\ r[0] = r0 /\ m[Len(s)] = n /\ r[Len(s)] = b /\ Follows(s, m, r)

LEMMA TaleEmpty ==
  ASSUME NEW m0 \in Nat, NEW r0 \in Modes PROVE Tale(<< >>, m0, r0, m0, r0)
<1>1. Len(<< >>) = 0 /\ 0 .. 0 = {0}
  OBVIOUS
<1>2. \A i \in 1 .. Len(<< >>) : FALSE
  BY <1>1
<1> DEFINE m == [i \in 0 .. Len(<< >>) |-> m0]
           r == [i \in 0 .. Len(<< >>) |-> r0]
<1>3. /\ m \in [0 .. Len(<< >>) -> Nat] /\ r \in [0 .. Len(<< >>) -> Modes]
      /\ m[0] = m0 /\ r[0] = r0 /\ m[Len(<< >>)] = m0 /\ r[Len(<< >>)] = r0
  BY <1>1, Zenon
<1>4. Follows(<< >>, m, r)
  BY <1>2, Zenon DEF Follows
<1> HIDE DEF m, r
<1> QED
  BY <1>3, <1>4, Zenon DEF Tale

LEMMA TaleType ==
  ASSUME NEW s \in Seq(Answerable), NEW m0, NEW r0, NEW n, NEW b, Tale(s, m0, r0, n, b)
  PROVE  n \in Nat /\ b \in Modes /\ m0 \in Nat /\ r0 \in Modes
  BY DEF Tale

(* One more answer, the n of a CopyComplete being what the client has then. *)
LEMMA TaleAppend ==
  ASSUME NEW s \in Seq(Answerable), NEW a \in Answerable, NEW m0, NEW r0, NEW n, NEW b,
         Tale(s, m0, r0, n, b), a.type = "CopyComplete" => a.n = n
  PROVE  Tale(Append(s, a), m0, r0, Moves(n, b, a.type), Receives(b, a.type))
<1> DEFINE t == Append(s, a)
           l == Len(s)
<1>1. /\ Len(t) = l + 1 /\ l \in Nat /\ t[l + 1] = a /\ \A i \in 1 .. l : t[i] = s[i]
  BY AppendAt
<1>2. PICK m \in [0 .. l -> Nat], r \in [0 .. l -> Modes] :
        m[0] = m0 /\ r[0] = r0 /\ m[l] = n /\ r[l] = b /\ Follows(s, m, r)
  BY Zenon DEF Tale
<1>3. n \in Nat /\ b \in Modes
  BY <1>1, <1>2
<1>4. Moves(n, b, a.type) \in Nat /\ Receives(b, a.type) \in Modes
  BY <1>3 DEF Moves, Receives, Modes
<1> HIDE DEF t, l
<1> DEFINE m2 == [i \in 0 .. l + 1 |-> IF i = l + 1 THEN Moves(n, b, a.type) ELSE m[i]]
           r2 == [i \in 0 .. l + 1 |-> IF i = l + 1 THEN Receives(b, a.type) ELSE r[i]]
<1>5. /\ m2 \in [0 .. l + 1 -> Nat] /\ r2 \in [0 .. l + 1 -> Modes]
      /\ m2[0] = m0 /\ r2[0] = r0 /\ m2[l + 1] = Moves(n, b, a.type) /\ r2[l + 1] = Receives(b, a.type)
      /\ \A i \in 0 .. l : m2[i] = m[i] /\ r2[i] = r[i]
  BY <1>1, <1>2, <1>4
<1> HIDE DEF m2, r2
<1>6. ASSUME NEW i \in 1 .. Len(t)
      PROVE  /\ m2[i] = Moves(m2[i - 1], r2[i - 1], t[i].type)
             /\ r2[i] = Receives(r2[i - 1], t[i].type)
             /\ t[i].type = "CopyComplete" => t[i].n = m2[i - 1]
  <2>1. CASE i = l + 1
    <3>1. l \in Nat
      BY <1>1, Zenon
    <3>2. i - 1 = l /\ l \in 0 .. l
      BY <2>1, <3>1
    <3> QED
      BY <1>1, <1>2, <1>5, <2>1, <3>2, Zenon
  <2>2. CASE i # l + 1
    <3>1. i \in 1 .. l /\ i \in 0 .. l /\ i - 1 \in 0 .. l
      BY <1>1, <2>2
    <3> QED
      BY <1>1, <1>2, <1>5, <3>1, Zenon DEF Follows, l
  <2> QED
    BY <2>1, <2>2, Zenon
<1>7. Follows(t, m2, r2)
  BY <1>6, Zenon DEF Follows
<1> QED
  BY <1>1, <1>5, <1>7, Zenon DEF Tale, t

(* Reading the first answer.                                               *)
LEMMA TaleTail ==
  ASSUME NEW s \in Seq(Answerable), s # << >>, NEW m0, NEW r0, NEW n, NEW b,
         Tale(s, m0, r0, n, b)
  PROVE  /\ Tale(Tail(s), Moves(m0, r0, s[1].type), Receives(r0, s[1].type), n, b)
         /\ s[1].type = "CopyComplete" => s[1].n = m0
<1> DEFINE t == Tail(s)
           l == Len(t)
<1>1. l \in Nat /\ Len(s) = l + 1 /\ \A i \in 1 .. l : t[i] = s[i + 1]
  BY TailAt
<1>2. PICK m \in [0 .. l + 1 -> Nat], r \in [0 .. l + 1 -> Modes] :
        m[0] = m0 /\ r[0] = r0 /\ m[l + 1] = n /\ r[l + 1] = b /\ Follows(s, m, r)
  BY <1>1, Zenon DEF Tale
<1> HIDE DEF l, t
<1>3. l \in Nat
  BY <1>1, Zenon
<1> DEFINE m2 == [i \in 0 .. l |-> m[i + 1]]
           r2 == [i \in 0 .. l |-> r[i + 1]]
<1>4. /\ m2 \in [0 .. l -> Nat] /\ r2 \in [0 .. l -> Modes]
      /\ m2[l] = n /\ r2[l] = b /\ m2[0] = m[1] /\ r2[0] = r[1]
      /\ \A i \in 0 .. l : m2[i] = m[i + 1] /\ r2[i] = r[i + 1]
  BY <1>2, <1>3
<1> HIDE DEF m2, r2
<1>5. 1 \in 1 .. l + 1 /\ 1 - 1 = 0
  BY <1>3
<1>6. /\ m[1] = Moves(m0, r0, s[1].type) /\ r[1] = Receives(r0, s[1].type)
      /\ s[1].type = "CopyComplete" => s[1].n = m0
  BY <1>1, <1>2, <1>5, Zenon DEF Follows
<1>7. ASSUME NEW i \in 1 .. l
      PROVE  /\ m2[i] = Moves(m2[i - 1], r2[i - 1], t[i].type)
             /\ r2[i] = Receives(r2[i - 1], t[i].type)
             /\ t[i].type = "CopyComplete" => t[i].n = m2[i - 1]
  <2>1. i + 1 \in 1 .. l + 1 /\ (i + 1) - 1 = i /\ i \in 0 .. l /\ i - 1 \in 0 .. l /\ (i - 1) + 1 = i
    BY <1>3
  <2>2. /\ m[i + 1] = Moves(m[i], r[i], s[i + 1].type)
        /\ r[i + 1] = Receives(r[i], s[i + 1].type)
        /\ s[i + 1].type = "CopyComplete" => s[i + 1].n = m[i]
    BY <1>1, <1>2, <2>1, Zenon DEF Follows
  <2>3. m2[i] = m[i + 1] /\ r2[i] = r[i + 1] /\ m2[i - 1] = m[i] /\ r2[i - 1] = r[i]
    BY <1>4, <2>1, Zenon
  <2>4. t[i] = s[i + 1]
    BY <1>1, Zenon
  <2> QED
    BY <2>2, <2>3, <2>4, Zenon
<1>8. Follows(t, m2, r2)
  BY <1>7, Zenon DEF Follows, l
<1>9. Tale(t, Moves(m0, r0, s[1].type), Receives(r0, s[1].type), n, b)
  BY <1>4, <1>6, <1>8, Zenon DEF Tale, l
<1> QED
  BY <1>6, <1>9, Zenon DEF t

(* Errors and a Ready move nothing, whatever the client has counted.       *)
LEMMA TaleErrors ==
  ASSUME NEW s \in Seq(Answerable), \A i \in 1 .. Len(s) : s[i].type \in {"Error", "Ready"},
         NEW m0 \in Nat
  PROVE  Tale(s, m0, "other", m0, "other")
<1> DEFINE m == [i \in 0 .. Len(s) |-> m0]
           r == [i \in 0 .. Len(s) |-> "other"]
<1>1. Len(s) \in Nat
  OBVIOUS
<1>2. /\ m \in [0 .. Len(s) -> Nat] /\ r \in [0 .. Len(s) -> Modes]
      /\ m[0] = m0 /\ r[0] = "other" /\ m[Len(s)] = m0 /\ r[Len(s)] = "other"
      /\ \A i \in 0 .. Len(s) : m[i] = m0 /\ r[i] = "other"
  BY <1>1 DEF Modes
<1> HIDE DEF m, r
<1>3. ASSUME NEW i \in 1 .. Len(s)
      PROVE  /\ m[i] = Moves(m[i - 1], r[i - 1], s[i].type)
             /\ r[i] = Receives(r[i - 1], s[i].type)
             /\ s[i].type = "CopyComplete" => s[i].n = m[i - 1]
  <2>1. i \in 0 .. Len(s) /\ i - 1 \in 0 .. Len(s)
    BY <1>1
  <2>2. m[i] = m0 /\ m[i - 1] = m0 /\ r[i] = "other" /\ r[i - 1] = "other"
    BY <1>2, <2>1, Zenon
  <2>3. s[i].type \in {"Error", "Ready"}
    BY Zenon
  <2> QED
    BY <2>2, <2>3, Zenon DEF Moves, Receives, Marks, Stops
<1> QED
  BY <1>2, <1>3, Zenon DEF Tale, Follows

-----------------------------------------------------------------------------
(* The pipes *)

(* The read end of a COPY FROM: closed by Finish, or by the reader's error. *)
PipeEnds ==
  /\ pipe = "closed" => reader = "exited" \/ pc = "rows"
  /\ errPipe => reader = "exited"
  /\ reader = "exited" => err \/ (unread = 0 /\ ~readable)
  /\ reader = "unblock" => err
  /\ pc \in {"load", "finish", "rows"} => copyState.loader
  /\ err \in BOOLEAN /\ errPipe \in BOOLEAN /\ readable \in BOOLEAN

SelectPCs == {"select", "unblock", "release"}

OutEnds ==
  /\ result = "ok" => written = rows
  /\ result # "none" => writer = "exited"
  /\ sender = "done" /\ ~globalErr => lines = 0
  /\ sender \in {"opening", "opened"} => ~responded
  /\ pc \in {"unblock", "release"} => result # "none"
  /\ globalErr \in BOOLEAN /\ responded \in BOOLEAN /\ result \in {"none", "ok", "err"}

Pipes == PipeEnds /\ OutEnds

LEMMA FailGoes ==
  ASSUME NEW e, NEW sync, NEW o, Fail(e, sync, o)
  PROVE  pc' \in {"receive", "discard", "leaked"}
  BY Zenon DEF Fail, EndOfMessages, Answer

LEMMA EndGoes ==
  ASSUME NEW ms, NEW o, EndOfMessages(ms, o) \/ QueryFails(o) PROVE pc' \in {"receive", "leaked"}
  BY Zenon DEF EndOfMessages, Answer, QueryFails

LEMMA DoneGoes ==
  ASSUME NEW ms, NEW o, Done(ms, o) PROVE pc' \in {"receive", "query", "leaked"}
  BY Zenon DEF Done, EndOfMessages, Answer

LEMMA CopyFailsGoes ==
  ASSUME NEW o, CopyFails(o) PROVE pc' \in {"receive", "discard", "leaked"}
  BY FailGoes, Zenon DEF CopyFails

LEMMA CopyOutEndsGoes ==
  ASSUME CopyOutEnds PROVE pc' \in {"receive", "query", "leaked"}
<1>1. ASSUME QueryFails({}) PROVE pc' \in {"receive", "query", "leaked"}
  BY <1>1, EndGoes, Zenon
<1>2. ASSUME Done(<<Msg("CopyDone"), Count("CopyComplete", rows)>>, {})
      PROVE  pc' \in {"receive", "query", "leaked"}
  BY <1>2, DoneGoes, Zenon
<1> QED
  BY <1>1, <1>2, Zenon DEF CopyOutEnds

(* A step of the handler outside a COPY.                                   *)
LEMMA PipesAlone ==
  ASSUME Pipes, UNCHANGED <<loaderVars, outVars>>, pc \notin {"rows"},
         pc' \notin {"load", "finish", "rows", "unblock", "release"}
  PROVE  Pipes'
  BY DEF Pipes, PipeEnds, OutEnds, loaderVars, outVars

(* Where the steps of the handler that move no pipe go.                    *)
AloneGo == {"startup", "receive", "query", "discard", "closing", "closed", "leaked"}

LEMMA StartGoes ==
  ASSUME handleStartup \/ Discard \/ Sync \/ Hangup \/ CloseConnection
  PROVE  /\ pc \in {"startup", "discard", "receive", "closing"} /\ pc' \in AloneGo \ {"query"}
         /\ UNCHANGED <<loaderVars, outVars, copyState>>
<1>1. CASE handleStartup
  BY <1>1, Zenon DEF handleStartup, UnchangedByMessage, AloneGo
<1>2. CASE Discard
  BY <1>2, EndGoes, Zenon DEF Discard, UnchangedByMessage, AloneGo
<1>3. CASE Sync
  BY <1>3, EndGoes, Zenon DEF Sync, UnchangedByMessage, Receive, AloneGo
<1>4. CASE Hangup
  BY <1>4, Zenon DEF Hangup, UnchangedByMessage, Receive, AloneGo
<1>5. CASE CloseConnection
  BY <1>5, Zenon DEF CloseConnection, AloneGo
<1> QED
  BY <1>1, <1>2, <1>3, <1>4, <1>5, Zenon

LEMMA ExtendedGoes ==
  ASSUME Parse \/ Describe \/ Bind \/ Execute \/ Close \/ Flush
  PROVE  /\ pc = "receive" /\ pc' \in AloneGo \ {"query"} /\ UNCHANGED <<loaderVars, outVars, copyState>>
<1>1. CASE Parse
  BY <1>1, FailGoes, Zenon DEF Parse, UnchangedByMessage, Receive, AloneGo
<1>2. CASE Describe
  BY <1>2, FailGoes, Zenon DEF Describe, UnchangedByMessage, Receive, AloneGo
<1>3. CASE Bind
  BY <1>3, FailGoes, Zenon DEF Bind, UnchangedByMessage, Receive, AloneGo
<1>4. CASE Execute
  BY <1>4, FailGoes, Zenon DEF Execute, UnchangedByMessage, Receive, AloneGo
<1>5. CASE Close
  BY <1>5, FailGoes, Zenon DEF Close, UnchangedByMessage, Receive, AloneGo
<1>6. CASE Flush
  BY <1>6, EndGoes, Zenon DEF Flush, UnchangedByMessage, Receive, AloneGo
<1> QED
  BY <1>1, <1>2, <1>3, <1>4, <1>5, <1>6, Zenon

LEMMA QueryGoes ==
  ASSUME Query \/ Run \/ Deallocate \/ CopyFromStdin
  PROVE  /\ pc \in {"receive", "query"} /\ pc' \in AloneGo /\ UNCHANGED <<loaderVars, outVars>>
<1>1. CASE Query
  BY <1>1, FailGoes, Zenon DEF Query, UnchangedByMessage, Receive, AloneGo
<1>2. CASE Run
  BY <1>2, EndGoes, DoneGoes, Zenon DEF Run, UnchangedByMessage, Statement, AloneGo
<1>3. CASE Deallocate
  BY <1>3, EndGoes, DoneGoes, FailGoes, Zenon DEF Deallocate, UnchangedByMessage, Statement,
     AloneGo
<1>4. CASE CopyFromStdin
  BY <1>4, EndGoes, Zenon DEF CopyFromStdin, Answer, UnchangedByMessage, Statement, AloneGo
<1> QED
  BY <1>1, <1>2, <1>3, <1>4, Zenon

LEMMA CopyInPipes ==
  ASSUME Turn, Pipes, CopyData \/ LoaderReady \/ LoadChunk \/ CopyDone \/ Finish \/ CopyFail
  PROVE  Pipes'
<1>1. UNCHANGED outVars /\ copyState \in CopyStates
  BY Zenon DEF CopyData, LoaderReady, LoadChunk, CopyDone, Finish, CopyFail, UnchangedByCopyIn,
     Turn,
         QueuesType, HandlerType
<1> USE DEF AloneGo
<1>2. CASE CopyData
  <2>1. pc = "receive"
    BY <1>2, Zenon DEF CopyData, Receive
  <2>2. CASE copyState.loader /\ pc' = "load" /\ UNCHANGED <<copyState, loaderVars>>
    BY <1>1, <2>1, <2>2, Zenon DEF Pipes, PipeEnds, OutEnds, loaderVars, outVars
  <2>3. CASE Start /\ pc' = "ready"
    BY <1>1, <2>3, Zenon DEF Pipes, PipeEnds, OutEnds, Start, outVars
  <2>4. CASE pc' \in {"receive", "discard", "leaked"} /\ UNCHANGED loaderVars
    BY <1>1, <2>1, <2>4, PipesAlone, Zenon
  <2> QED
    BY <1>2, <2>2, <2>3, <2>4, CopyFailsGoes, Zenon DEF CopyData
<1>3. CASE LoaderReady
  <2>1. CASE pc = "ready" /\ pc' = "load" /\ copyState' = [copyState EXCEPT !.loader = TRUE]
    <3>1. UNCHANGED loaderVars /\ copyState'.loader
      BY <1>1, <1>3, <2>1, Zenon DEF LoaderReady, CopyStates
    <3> QED
      BY <1>1, <2>1, <3>1 DEF Pipes, PipeEnds, OutEnds, loaderVars, outVars
  <2>2. CASE pc = "ready" /\ pc' \in {"receive", "discard", "leaked"}
    BY <1>1, <1>3, <2>2, PipesAlone, Zenon DEF LoaderReady
  <2> QED
    BY <1>3, <2>1, <2>2, CopyFailsGoes, Zenon DEF LoaderReady
<1>4. CASE LoadChunk
  <2>1. CASE pc = "load" /\ pc' \in {"receive", "discard", "leaked"} /\ UNCHANGED loaderVars
    BY <1>1, <2>1, PipesAlone, Zenon
  <2>2. CASE pc = "load" /\ Write /\ pc' = "receive"
    BY <1>1, <2>2, Zenon DEF Pipes, PipeEnds, OutEnds, Write, outVars
  <2>3. CASE pc = "load" /\ Break /\ pc' = "abort"
    BY <1>1, <2>3, Zenon DEF Pipes, PipeEnds, OutEnds, Break, outVars
  <2>4. CASE pc = "abort" /\ reader = "exited" /\ ClosePipe /\ pc' \in {"receive", "discard", "leaked"}
    BY <1>1, <2>4 DEF Pipes, PipeEnds, OutEnds, ClosePipe, outVars
  <2> QED
    BY <1>4, <2>1, <2>2, <2>3, <2>4, CopyFailsGoes, Zenon DEF LoadChunk
<1>5. CASE CopyDone
  <2>1. pc = "receive" /\ UNCHANGED <<loaderVars, copyState>>
    BY <1>5, Zenon DEF CopyDone, Receive
  <2>2. CASE pc' \in {"receive", "leaked"}
    BY <1>1, <2>1, <2>2, PipesAlone, Zenon
  <2>3. CASE copyState.loader /\ pc' = "finish"
    BY <1>1, <2>1, <2>3 DEF Pipes, PipeEnds, OutEnds, loaderVars, outVars
  <2> QED
    BY <1>5, <2>2, <2>3, EndGoes, Zenon DEF CopyDone
<1>6. CASE Finish
  <2>1. CASE pc \in {"finish", "rows"} /\ (pc = "rows" => reader = "exited")
             /\ pc' \in {"receive", "discard", "leaked"} /\ UNCHANGED loaderVars
    BY <1>1, <2>1 DEF Pipes, PipeEnds, OutEnds, loaderVars, outVars
  <2>2. CASE pc = "finish" /\ ClosePipe /\ pc' = "rows" /\ UNCHANGED copyState
    BY <1>1, <2>2, Zenon DEF Pipes, PipeEnds, OutEnds, ClosePipe, outVars
  <2>3. CASE Drop /\ pc' \in {"receive", "leaked"}
    BY <1>1, <2>3, Zenon DEF Pipes, PipeEnds, OutEnds, Drop, outVars
  <2> QED
    BY <1>6, <2>1, <2>2, <2>3, EndGoes, FailGoes, Zenon DEF Finish
<1>7. CASE CopyFail
  <2>1. pc = "receive" /\ UNCHANGED loaderVars /\ pc' \in {"receive", "leaked"}
    BY <1>7, EndGoes, Zenon DEF CopyFail, Receive
  <2> QED
    BY <1>1, <2>1, PipesAlone, Zenon
<1> QED
  BY <1>2, <1>3, <1>4, <1>5, <1>6, <1>7, Zenon

LEMMA CopyOutPipes ==
  ASSUME Turn, Pipes, CopyToStdout \/ Select \/ UnblockSender PROVE Pipes'
<1>1. UNCHANGED <<loaderVars, copyState>> /\ pc \in QueryPCs /\ pc' \notin {"load", "finish", "rows"}
  <2>1. CASE CopyToStdout
    BY <2>1, Zenon DEF CopyToStdout, UnchangedByCopyOut, Statement, QueryPCs
  <2>2. CASE Select
    BY <2>2, CopyOutEndsGoes, EndGoes, Zenon DEF Select, UnchangedByCopyOut, QueryPCs
  <2>3. CASE UnblockSender
    BY <2>3, CopyOutEndsGoes, Zenon DEF UnblockSender, UnchangedByCopyOut, QueryPCs
  <2> QED
    BY <2>1, <2>2, <2>3, Zenon
<1>2. PipeEnds'
  BY <1>1, Zenon DEF Pipes, PipeEnds, loaderVars, QueryPCs
<1>3. CASE StartOut /\ pc' = "select"
  BY <1>2, <1>3, Zenon DEF Pipes, OutEnds, StartOut
<1>4. CASE Forget /\ pc' \in {"receive", "query", "leaked"}
  BY <1>2, <1>4, Zenon DEF Pipes, OutEnds, Forget
<1>5. CASE UNCHANGED outVars /\ pc' \in {"receive", "leaked"}
  BY <1>2, <1>5, Zenon DEF Pipes, OutEnds, outVars
<1>6. CASE UNCHANGED outVars /\ SeesBlocked
  BY <1>2, <1>6, Zenon DEF Pipes, OutEnds, outVars, SeesBlocked
<1>7. CASE pc = "unblock" /\ OpenForWriting
  BY <1>2, <1>7, Zenon DEF Pipes, OutEnds, OpenForWriting
<1>8. CASE CopyToStdout
  BY <1>3, <1>8, Zenon DEF CopyToStdout
<1>9. CASE Select
  BY <1>4, <1>5, <1>6, <1>9, EndGoes, CopyOutEndsGoes, Zenon DEF Select
<1>10. CASE UnblockSender
  BY <1>4, <1>7, <1>10, CopyOutEndsGoes, Zenon DEF UnblockSender
<1> QED
  BY <1>8, <1>9, <1>10, Zenon

LEMMA LoaderPipes ==
  ASSUME Turn, Pipes, LoaderNext \/ LoaderFaults, UNCHANGED <<outVars, clientVars, handlerVars>>
  PROVE  Pipes'
<1>1. UNCHANGED <<pc, copyState>> /\ OutEnds'
  BY Zenon DEF handlerVars, Pipes, OutEnds, outVars
<1>2. unread \in Nat
  BY Zenon DEF Turn, QueuesType, HandlerType
<1> USE DEF Pipes, PipeEnds
<1>3. CASE ExecuteCopy \/ Meet \/ Read
  <2>1. CASE ExecuteCopy
    BY <1>1, <2>1, Zenon DEF ExecuteCopy
  <2>2. CASE Meet
    BY <1>1, <2>2, Zenon DEF Meet
  <2>3. CASE Read
    BY <1>1, <2>3, Zenon DEF Read
  <2> QED
    BY <1>3, <2>1, <2>2, <2>3, Zenon
<1>4. CASE Commit \/ ReaderFails
  <2>1. CASE Commit
    BY <1>1, <2>1, Zenon DEF Commit
  <2>2. CASE ReaderFails
    BY <1>1, <2>2, Zenon DEF ReaderFails
  <2> QED
    BY <1>4, <2>1, <2>2, Zenon
<1>5. CASE ReaderReports \/ Unblock \/ UnblockFails
  <2>1. CASE ReaderReports
    BY <1>1, <2>1, Zenon DEF ReaderReports
  <2>2. CASE Unblock
    BY <1>1, <2>2, Zenon DEF Unblock
  <2>3. CASE UnblockFails
    BY <1>1, <2>3, Zenon DEF UnblockFails
  <2> QED
    BY <1>5, <2>1, <2>2, <2>3, Zenon
<1>6. CASE Collect \/ Opened \/ Check
  <2>1. CASE Collect
    BY <1>1, <2>1, Zenon DEF Collect
  <2>2. CASE Opened
    BY <1>1, <2>2, Zenon DEF Opened
  <2>3. CASE Check
    BY <1>1, <2>3, Zenon DEF Check
  <2> QED
    BY <1>6, <2>1, <2>2, <2>3
<1> QED
  BY <1>3, <1>4, <1>5, <1>6, Zenon DEF LoaderNext, LoaderFaults

LEMMA OutPipes ==
  ASSUME Turn, Pipes, OutNext \/ OutFaults, UNCHANGED <<loaderVars, clientVars, handlerVars>>
  PROVE  Pipes'
<1>1. UNCHANGED pc /\ PipeEnds'
  BY Zenon DEF handlerVars, Pipes, PipeEnds, loaderVars
<1> USE DEF Pipes, OutEnds
<1>2. CASE ExecuteOut \/ MeetOut
  BY <1>1, <1>2 DEF ExecuteOut, MeetOut
<1>3. CASE WriteLine \/ WriterDone
  BY <1>1, <1>3 DEF WriteLine, WriterDone
<1>4. CASE WriterReturnsError
  BY <1>1, <1>4, Zenon DEF WriterReturnsError
<1>5. CASE SenderOpened
  BY <1>1, <1>5, Zenon DEF SenderOpened
<1>6. CASE SendLine
  BY <1>1, <1>6, Zenon DEF SendLine
<1>7. CASE SenderDone
  BY <1>1, <1>7, Zenon DEF SenderDone
<1>8. CASE SenderReturnsError
  BY <1>1, <1>8, Zenon DEF SenderReturnsError
<1> QED
  BY <1>2, <1>3, <1>4, <1>5, <1>6, <1>7, <1>8, Zenon DEF OutNext, OutFaults, WriterFails,
     WriterBroken, WriterMissesPipe, SenderFails, ReadFails

LEMMA NextPipes == ASSUME Turn, Pipes, [Next]_vars PROVE Pipes'
<1>1. ASSUME UNCHANGED <<handlerVars, loaderVars, outVars>> PROVE Pipes'
  BY <1>1 DEF Pipes, PipeEnds, OutEnds, handlerVars, loaderVars, outVars
<1>2. CASE ClientNext
  BY <1>1, <1>2, Zenon DEF ClientNext, ReadAnswer, Leave
<1>3. CASE UNCHANGED vars
  BY <1>1, <1>3, Zenon DEF vars
<1>4. ASSUME UNCHANGED <<loaderVars, outVars>>, pc \in {"startup", "discard", "receive", "closing", "query"},
             pc' \in AloneGo
      PROVE  Pipes'
  BY <1>4, PipesAlone, Zenon DEF AloneGo
<1>5. CASE HandlerNext
  <2>1. CASE handleStartup \/ Discard \/ Sync \/ Hangup \/ CloseConnection
    BY <1>4, <2>1, StartGoes, Zenon
  <2>2. CASE Parse \/ Describe \/ Bind \/ Execute \/ Close \/ Flush
    BY <1>4, <2>2, ExtendedGoes, Zenon
  <2>3. CASE Query \/ Run \/ Deallocate \/ CopyFromStdin
    BY <1>4, <2>3, QueryGoes, Zenon
  <2>4. CASE CopyToStdout \/ Select \/ UnblockSender
    BY <2>4, CopyOutPipes, Zenon
  <2>5. CASE CopyData \/ LoaderReady \/ LoadChunk \/ CopyDone \/ Finish \/ CopyFail
    BY <2>5, CopyInPipes, Zenon
  <2> QED
    BY <1>5, <2>1, <2>2, <2>3, <2>4, <2>5, Zenon DEF HandlerNext
<1>6. CASE Goroutines
  BY <1>6, LoaderPipes, OutPipes, Zenon DEF Goroutines
<1> QED
  BY <1>2, <1>3, <1>5, <1>6, Zenon DEF Next

-----------------------------------------------------------------------------
(* COPY FROM: where the chunks are *)

(* The client is in a COPY, or the handler is with what it has sent.       *)
Sending == InCopy \/ pc \in {"ready", "load", "finish", "rows"}
InHand == IF pc \in {"ready", "load"} THEN 1 ELSE 0
Carried == IF copyState.loader \/ pc = "ready" THEN unread + got ELSE 0
Coming(k) == \A i \in 1 .. Len(out) : out[i].type = "CopyData" <=> i <= k

(* The chunks the client has sent are on their way, in the handler's hand, *)
(* in the pipe, or read.                                                   *)
Counted == ~Errs /\ Sending =>
  \/ pc \in {"abort", "closing", "closed", "leaked"}
  \/ /\ pc \in {"receive", "ready", "load", "finish", "rows"}
     /\ \E k \in 0 .. Len(out) : Coming(k) /\ moved = k + InHand + Carried

NewCopy == (\E i \in 1 .. Len(answers) : answers[i].type = "CopyIn") => ~copyState.loader

(* A step that starts no COPY and touches none.                            *)
LEMMA CountedNone ==
  ASSUME ~Errs' => ~InCopy', pc' \notin {"ready", "load", "finish", "rows"} PROVE Counted'
  BY Zenon DEF Counted, Sending

(* Nothing of a COPY is left behind a request.                             *)
LEMMA NotInCopy ==
  ASSUME QueuesType, Only({})', client' # "copying" PROVE ~InCopy'
  BY Zenon DEF Only, InCopy, CopyTypes

LEMMA InCopyBefore ==
  ASSUME QueuesType, client' = client, InCopy', out' = out \/ (out # << >> /\ out' = Tail(out))
  PROVE  InCopy
<1>1. CASE out' = out
  BY <1>1, Zenon DEF InCopy
<1>2. CASE out # << >> /\ out' = Tail(out)
  BY <1>2, PopOut, Zenon DEF InCopy
<1> QED
  BY <1>1, <1>2, Zenon

(* The handler is outside a COPY FROM.                                     *)
LEMMA CountedElsewhere ==
  ASSUME QueuesType, Counted, UNCHANGED <<client, copyState>>,
         out' = out \/ (out # << >> /\ out' = Tail(out)),
         pc \in {"startup", "discard"} \cup QueryPCs,
         pc' \notin {"ready", "load", "finish", "rows"}
  PROVE  Counted'
<1>1. ~Errs => ~InCopy
  BY Zenon DEF Counted, Sending, QueryPCs
<1>2. ~Errs' => ~InCopy'
  BY <1>1, InCopyBefore, Zenon DEF Errs
<1> QED
  BY <1>2, CountedNone, Zenon

(* The handler takes a message that is not of a COPY.                      *)
LEMMA CountedOther ==
  ASSUME QueuesType, Orderly, UNCHANGED <<client, copyState>>, out # << >>, out' = Tail(out),
         Head(out).type \notin CopyTypes \cup {"Terminate"},
         pc' \notin {"ready", "load", "finish", "rows"}
  PROVE  Counted'
<1>1. Head(out) = out[1] /\ 1 \in 1 .. Len(out)
  BY PopOut
<1>2. ~Errs => ~InCopy
  BY <1>1, Zenon DEF Orderly, Copying, InCopy, Only, CopyTypes
<1>3. ~Errs' => ~InCopy'
  BY <1>2, InCopyBefore, Zenon DEF Errs
<1> QED
  BY <1>3, CountedNone, Zenon

LEMMA ComingTail ==
  ASSUME QueuesType, out # << >>, out' = Tail(out), NEW k \in 0 .. Len(out), Coming(k)
  PROVE  /\ out[1].type = "CopyData" => k >= 1 /\ k - 1 \in 0 .. Len(out') /\ Coming(k - 1)'
         /\ out[1].type # "CopyData" => k = 0
<1>1. Len(out) \in Nat /\ Len(out) >= 1 /\ Len(out') = Len(out) - 1 /\ Len(out') \in Nat
  BY PopOut
<1>2. \A i \in 1 .. Len(out') : out'[i] = out[i + 1] /\ i + 1 \in 1 .. Len(out)
  BY PopOut, Zenon
<1>3. out[1].type = "CopyData" <=> 1 <= k
  BY <1>1 DEF Coming
<1>4. \A i \in 1 .. Len(out') : out'[i].type = "CopyData" <=> i + 1 <= k
  BY <1>2, Zenon DEF Coming
<1>5. Coming(k - 1)'
  BY <1>1, <1>4 DEF Coming
<1> QED
  BY <1>1, <1>3, <1>5

LEMMA CopyDataCounted ==
  ASSUME Turn, Orderly, Counted, InStep', CopyData PROVE Counted'
<1>1. /\ pc = "receive" /\ out # << >> /\ out' = Tail(out) /\ Head(out).type = "CopyData"
      /\ UNCHANGED <<moved, client>>
  BY Zenon DEF CopyData, Receive, UnchangedByCopyIn
<1>2. Head(out) = out[1] /\ 1 \in 1 .. Len(out) /\ copyState \in CopyStates
  BY <1>1, PopOut DEF Turn, QueuesType, HandlerType
<1>3. InCopy
  BY <1>1, <1>2, Zenon DEF InCopy, CopyTypes
<1>4. CASE Errs
  <2>1. CASE "CopyAfterError" \in odd'
    BY <2>1, OutOfStep, Zenon
  <2>2. CASE CopyFails({"CopyAfterError"})
    BY <1>2, <2>2, Zenon DEF CopyFails, Counted, Errs, CopyStates
  <2> QED
    BY <1>4, <2>1, <2>2, Zenon DEF CopyData, Note, Errs
<1>5. ASSUME ~Errs, NEW o, CopyFails(o) PROVE Counted'
  BY <1>2, <1>5, Zenon DEF CopyFails, Counted, Errs, CopyStates
<1>6. ASSUME ~Errs, copyState' = copyState, pc' \in {"load", "ready"}, Carried' = Carried PROVE Counted'
  <2>1. PICK k \in 0 .. Len(out) : Coming(k) /\ moved = k + InHand + Carried
    BY <1>1, <1>3, <1>6, Zenon DEF Counted, Sending
  <2>2. k >= 1 /\ k - 1 \in 0 .. Len(out') /\ Coming(k - 1)'
    BY <1>1, <1>2, <2>1, ComingTail, Zenon DEF Turn
  <2>3. InHand = 0 /\ InHand' = 1 /\ k \in Nat /\ Carried \in Nat
    BY <1>1, <1>6, <2>1 DEF InHand, Carried, Turn, QueuesType, HandlerType
  <2>4. moved' = (k - 1) + InHand' + Carried'
    BY <1>1, <1>6, <2>1, <2>3
  <2> QED
    BY <1>6, <2>2, <2>4, Zenon DEF Counted
<1>7. CASE ~Errs /\ copyState.loader /\ pc' = "load" /\ UNCHANGED <<copyState, loaderVars>>
  BY <1>6, <1>7, Zenon DEF Carried, loaderVars
<1>8. CASE ~Errs /\ ~copyState.loader /\ Start /\ pc' = "ready" /\ UNCHANGED copyState
  BY <1>1, <1>6, <1>8 DEF Carried, Start
<1> QED
  BY <1>4, <1>5, <1>7, <1>8, Zenon DEF CopyData

LEMMA CarriedNat == ASSUME Turn PROVE InHand \in Nat /\ Carried \in Nat
  BY DEF InHand, Carried, Turn, QueuesType, HandlerType

LEMMA CarriedNatNext == ASSUME Turn' PROVE InHand' \in Nat /\ Carried' \in Nat
<1>1. unread' \in Nat /\ got' \in Nat
  BY Zenon DEF Turn, QueuesType, HandlerType
<1>2. InHand' \in Nat
  BY Zenon DEF InHand
<1>3. unread' + got' \in Nat
  <2>1. \A a, b \in Nat : a + b \in Nat
    OBVIOUS
  <2> QED
    BY <1>1, <2>1, Zenon
<1>4. Carried' \in Nat
  BY <1>3, Zenon DEF Carried
<1> QED
  BY <1>2, <1>4, Zenon

LEMMA SumKept ==
  ASSUME NEW k \in Nat, NEW a \in Nat, NEW b \in Nat, NEW c \in Nat, NEW d \in Nat, c + d = a + b
  PROVE  k + a + b = k + c + d
  OBVIOUS

(* The handler's steps with a chunk.                                       *)
LEMMA LoadCounted ==
  ASSUME Turn, Turn', Pipes, Counted, LoaderReady \/ LoadChunk PROVE Counted'
<1>1. UNCHANGED <<moved, client, out>> /\ copyState \in CopyStates /\ unread \in Nat /\ got \in Nat
  BY Zenon DEF LoaderReady, LoadChunk, UnchangedByCopyIn, Turn, QueuesType, HandlerType
<1>2. ASSUME NEW o, CopyFails(o) PROVE Counted'
  BY <1>1, <1>2, Zenon DEF CopyFails, Counted, Errs, CopyStates
<1>3. ASSUME copyState'.copyErr = Errs, pc \in {"ready", "load"}, pc' \in {"load", "receive"},
             InHand' + Carried' = InHand + Carried
      PROVE  Counted'
  <2> SUFFICES ASSUME ~Errs PROVE Counted'
    BY <1>3, Zenon DEF Counted, Errs
  <2>1. PICK k \in 0 .. Len(out) : Coming(k) /\ moved = k + InHand + Carried
    BY <1>3, Zenon DEF Counted, Sending
  <2>2. InHand \in Nat /\ Carried \in Nat /\ InHand' \in Nat /\ Carried' \in Nat
    BY CarriedNat, CarriedNatNext, Zenon
  <2>3. k \in Nat /\ moved' = k + InHand + Carried
    BY <1>1, <2>1
  <2>4. moved' = k + InHand' + Carried'
    <3> DEFINE a == InHand
               b == Carried
               c == InHand'
               d == Carried'
    <3>1. a \in Nat /\ b \in Nat /\ c \in Nat /\ d \in Nat /\ c + d = a + b
      BY <1>3, <2>2, Zenon
    <3> HIDE DEF a, b, c, d
    <3>2. k + a + b = k + c + d
      BY <2>3, <3>1, SumKept
    <3> QED
      BY <2>3, <3>2, Zenon DEF a, b, c, d
  <2>5. Coming(k)' /\ k \in 0 .. Len(out')
    BY <1>1, <2>1, Zenon DEF Coming
  <2> QED
    BY <1>3, <2>4, <2>5, Zenon DEF Counted
<1>4. CASE LoaderReady
  <2>1. CASE opener = "ready" /\ copyState' = [copyState EXCEPT !.loader = TRUE] /\ pc' = "load"
    <3>1. pc = "ready" /\ UNCHANGED loaderVars /\ copyState'.loader /\ copyState'.copyErr = Errs
      BY <1>1, <1>4, <2>1, Zenon DEF LoaderReady, CopyStates, Errs
    <3>2. InHand' = InHand /\ Carried' = Carried
      BY <2>1, <3>1, Zenon DEF InHand, Carried, loaderVars
    <3> QED
      BY <1>3, <2>1, <3>1, <3>2, Zenon
  <2> QED
    BY <1>2, <1>4, <2>1, Zenon DEF LoaderReady
<1>5. CASE LoadChunk
  <2>1. CASE pc = "load" /\ Write /\ pc' = "receive" /\ UNCHANGED copyState
    <3>1. copyState.loader
      BY <2>1, Zenon DEF Pipes, PipeEnds
    <3>2. InHand' + Carried' = InHand + Carried
      BY <1>1, <2>1, <3>1 DEF InHand, Carried, Write
    <3> QED
      BY <1>3, <2>1, <3>2, Zenon DEF Errs
  <2>2. CASE pc' = "abort"
    BY <2>2, Zenon DEF Counted
  <2> QED
    BY <1>2, <1>5, <2>1, <2>2, Zenon DEF LoadChunk
<1> QED
  BY <1>4, <1>5, Zenon

(* The end of a COPY.                                                      *)
LEMMA EndCounted ==
  ASSUME Turn, Orderly, Pipes, Counted, InStep', CopyDone \/ Finish \/ CopyFail PROVE Counted'
<1>1. UNCHANGED <<moved, client>> /\ unread \in Nat /\ got \in Nat
  BY Zenon DEF CopyDone, Finish, CopyFail, UnchangedByCopyIn, Turn, QueuesType, HandlerType
<1>2. CASE CopyDone
  <2>1. /\ pc = "receive" /\ out # << >> /\ out' = Tail(out) /\ Head(out).type = "CopyDone"
        /\ UNCHANGED <<copyState, loaderVars>>
    BY <1>2, Zenon DEF CopyDone, Receive
  <2>2. Head(out) = out[1] /\ 1 \in 1 .. Len(out)
    BY <2>1, PopOut DEF Turn
  <2> SUFFICES ASSUME ~Errs PROVE Counted'
    BY <2>1, Zenon DEF Counted, Errs
  <2>3. client = "waiting" /\ Only({})'
    BY <2>1, <2>2, NothingAfter, Zenon DEF Turn, Orderly, Copying, CopyTypes
  <2>4. ~InCopy'
    BY <1>1, <2>3, NotInCopy, Zenon DEF Turn
  <2>5. CASE pc' \in {"receive", "leaked"}
    BY <2>4, <2>5, CountedNone, Zenon
  <2>6. CASE copyState.loader /\ pc' = "finish"
    <3>1. InCopy
      BY <2>1, <2>2, Zenon DEF InCopy, CopyTypes
    <3>2. PICK k \in 0 .. Len(out) : Coming(k) /\ moved = k + InHand + Carried
      BY <2>1, <3>1, Zenon DEF Counted, Sending
    <3>3. k = 0
      BY <2>1, <2>2, <3>2, ComingTail, Zenon DEF Turn
    <3>4. InHand = 0 /\ InHand' = 0 /\ Carried' = Carried
      BY <2>1, <2>6, Zenon DEF InHand, Carried, loaderVars
    <3>5. moved' = 0 + InHand' + Carried'
      BY <1>1, <3>2, <3>3, <3>4, Zenon
    <3>6. 0 \in 0 .. Len(out')
      BY <2>1, PopOut DEF Turn
    <3>7. Coming(0)'
      BY <2>3 DEF Only, Coming
    <3> QED
      BY <2>6, <3>5, <3>6, <3>7, Zenon DEF Counted
  <2> QED
    BY <1>2, <2>5, <2>6, EndGoes, Zenon DEF CopyDone, Errs
<1>3. CASE Finish
  <2>1. out' = out /\ pc \in {"finish", "rows"}
    BY <1>3, Zenon DEF Finish
  <2>2. client = "waiting" /\ Only({}) /\ ~Errs
    BY <2>1, Zenon DEF Orderly, Busy, EndPCs
  <2>3. ~InCopy'
    BY <1>1, <2>1, <2>2, Zenon DEF InCopy, Only, CopyTypes
  <2>4. CASE pc' \in {"receive", "discard", "leaked"}
    BY <2>3, <2>4, CountedNone, Zenon
  <2>5. CASE pc = "finish" /\ ClosePipe /\ pc' = "rows" /\ UNCHANGED copyState
    <3>1. PICK k \in 0 .. Len(out) : Coming(k) /\ moved = k + InHand + Carried
      BY <2>2, <2>5, Zenon DEF Counted, Sending
    <3>2. InHand' = InHand /\ Carried' = Carried
      BY <2>5, Zenon DEF InHand, Carried, ClosePipe
    <3>3. Coming(k)' /\ k \in 0 .. Len(out') /\ moved' = k + InHand' + Carried'
      BY <1>1, <2>1, <3>1, <3>2, Zenon DEF Coming
    <3> QED
      BY <2>5, <3>3, Zenon DEF Counted
  <2> QED
    BY <1>3, <2>4, <2>5, EndGoes, FailGoes, Zenon DEF Finish
<1>4. CASE CopyFail
  <2>1. "CopyFail" \in odd'
    BY <1>4, Zenon DEF CopyFail, EndOfMessages, Answer, Note
  <2> QED
    BY <2>1, OutOfStep, Zenon
<1> QED
  BY <1>2, <1>3, <1>4, Zenon

(* The client sends what is not of a COPY.                                 *)
LEMMA RequestCounted ==
  ASSUME Turn, Orderly, Orderly', client \in {"starting", "idle", "batch"}, client' # "copying",
         NEW m \in Sendable, Put(m), m.type \notin CopyTypes \cup {"Terminate"}, UNCHANGED pc
  PROVE  Counted'
<1>1. Len(out') = Len(out) + 1 /\ Len(out) \in Nat /\ out'[Len(out) + 1] = m
  BY PutOut, Zenon DEF Turn
<1>2. ~Only(CopyTypes)'
  BY <1>1 DEF Only
<1>3. ~Errs' => ~InCopy'
  BY <1>2, Zenon DEF Orderly, Copying, InCopy
<1>4. pc' \notin {"ready", "load", "finish", "rows"}
  BY Zenon DEF Orderly, Busy, LoadPCs, EndPCs
<1> QED
  BY <1>3, <1>4, CountedNone, Zenon

LEMMA CopySendsCounted ==
  ASSUME Turn, Orderly, Counted, SendCopyData \/ EndCopy, UNCHANGED <<handlerVars, loaderVars>>
  PROVE  Counted'
<1>1. ~gone /\ client = "copying" /\ UNCHANGED <<pc, copyState, unread, got>>
  BY Zenon DEF SendCopyData, EndCopy, Put, handlerVars, loaderVars
<1> SUFFICES ASSUME ~Errs, pc \notin {"abort", "closing", "closed", "leaked"} PROVE Counted'
  BY <1>1, Zenon DEF Counted, Errs
<1>2. /\ pc \in {"receive", "ready", "load", "finish", "rows"}
      /\ \E k \in 0 .. Len(out) : Coming(k) /\ moved = k + InHand + Carried
  BY <1>1, Zenon DEF Counted, Sending, InCopy
<1>3. PICK k \in 0 .. Len(out) : Coming(k) /\ moved = k + InHand + Carried
  BY <1>2, Zenon
<1>4. InHand' = InHand /\ Carried' = Carried /\ InHand \in Nat /\ Carried \in Nat
  BY <1>1, CarriedNat, Zenon DEF InHand, Carried
<1>5. \A i \in 1 .. Len(out) : out[i].type = "CopyData"
  BY <1>1, Zenon DEF Orderly, Copying, Only, Turn, LastWord
<1>6. CASE SendCopyData
  <2> DEFINE m == Request("CopyData", "", "", << >>)
  <2>1. m \in Sendable /\ m.type = "CopyData" /\ Put(m) /\ moved' = moved + 1
    BY <1>6, RequestIn, Zenon DEF SendCopyData, PlainTypes
  <2> HIDE DEF m
  <2>2. /\ Len(out') = Len(out) + 1 /\ Len(out) \in Nat /\ out'[Len(out) + 1] = m
        /\ \A i \in 1 .. Len(out) : out'[i] = out[i]
    BY <2>1, PutOut, Zenon DEF Turn
  <2>3. k = Len(out)
    BY <1>3, <1>5, <2>2 DEF Coming
  <2>4. Coming(k + 1)'
    BY <1>5, <2>1, <2>2, <2>3 DEF Coming
  <2>5. k + 1 \in 0 .. Len(out') /\ moved' = (k + 1) + InHand' + Carried'
    BY <1>3, <1>4, <2>1, <2>2, <2>3
  <2> QED
    BY <1>1, <1>2, <2>4, <2>5, Zenon DEF Counted
<1>7. CASE EndCopy
  <2>1. PICK t \in {"CopyDone", "CopyFail"} : Put(Request(t, "", "", << >>))
    BY <1>7, Zenon DEF EndCopy
  <2> DEFINE m == Request(t, "", "", << >>)
  <2>2. m \in Sendable /\ m.type # "CopyData" /\ Put(m) /\ moved' = moved
    BY <1>7, <2>1, RequestIn, Zenon DEF EndCopy, PlainTypes
  <2> HIDE DEF m
  <2>3. /\ Len(out') = Len(out) + 1 /\ Len(out) \in Nat /\ out'[Len(out) + 1] = m
        /\ \A i \in 1 .. Len(out) : out'[i] = out[i]
    BY <2>2, PutOut, Zenon DEF Turn
  <2>4. Coming(k)'
    BY <1>3, <2>2, <2>3 DEF Coming
  <2>5. k \in 0 .. Len(out') /\ moved' = k + InHand' + Carried'
    BY <1>3, <1>4, <2>2, <2>3
  <2> QED
    BY <1>1, <1>2, <2>4, <2>5, Zenon DEF Counted
<1> QED
  BY <1>6, <1>7, Zenon

LEMMA ReadCounted ==
  ASSUME Turn, Orderly, Counted, NewCopy, ReadAnswer PROVE Counted'
<1>1. /\ ~gone /\ answers # << >> /\ UNCHANGED <<out, pc, copyState, unread, got>>
      /\ 1 \in 1 .. Len(answers) /\ Head(answers) = answers[1]
  BY TailAt DEF ReadAnswer, handlerVars, loaderVars, Turn, QueuesType
<1>2. pc' \notin {"ready", "load", "finish", "rows"}
  BY <1>1, Zenon DEF Orderly, Busy, LoadPCs, EndPCs
<1> SUFFICES ASSUME ~Errs PROVE Counted'
  BY <1>1, Zenon DEF Counted, Errs
<1>3. client # "copying" /\ \A i \in 1 .. Len(out) : out[i].type \notin CopyTypes
  BY <1>1, Zenon DEF Orderly, Copying
<1>4. CASE client' # "copying"
  BY <1>1, <1>2, <1>3, <1>4, CountedNone, Zenon DEF InCopy
<1>5. CASE client' = "copying"
  <2>1. answers[1].type = "CopyIn" /\ moved' = 0
    BY <1>1, <1>3, <1>5, Zenon DEF ReadAnswer
  <2>2. out = << >> /\ pc = "receive" /\ ~copyState.loader
    BY <1>1, <2>1, Zenon DEF Orderly, CopyInLast, NewCopy
  <2>3. InHand' = 0 /\ Carried' = 0 /\ Len(out') = 0
    BY <1>1, <2>2, Zenon DEF InHand, Carried
  <2>4. Coming(0)' /\ 0 \in 0 .. Len(out') /\ moved' = 0 + InHand' + Carried'
    BY <2>1, <2>3 DEF Coming
  <2> QED
    BY <1>1, <2>2, <2>4, Zenon DEF Counted
<1> QED
  BY <1>4, <1>5, Zenon

LEMMA CountedSame ==
  ASSUME Turn, Counted, UNCHANGED <<client, moved, pc, copyState>>, Carried' = Carried,
         NEW m \in Sendable, m.type = "Terminate", out' = out \/ out' = Append(out, m)
  PROVE  Counted'
<1>1. out \in Seq(Sendable)
  BY Zenon DEF Turn, QueuesType
<1>3. /\ Len(out) \in Nat /\ Len(out') \in {Len(out), Len(out) + 1}
      /\ \A i \in 1 .. Len(out) : out'[i] = out[i]
      /\ \A i \in 1 .. Len(out') : i \in 1 .. Len(out) \/ out'[i] = m
  <2>1. CASE out' = out
    BY <1>1, <2>1
  <2>2. CASE out' = Append(out, m)
    <3>1. /\ Len(out') = Len(out) + 1 /\ Len(out) \in Nat /\ out'[Len(out) + 1] = m
          /\ \A i \in 1 .. Len(out) : out'[i] = out[i]
      BY <1>1, <2>2, AppendAt
    <3>2. \A i \in 1 .. Len(out') : i \in 1 .. Len(out) \/ i = Len(out) + 1
      BY <3>1
    <3> QED
      BY <3>1, <3>2, Zenon
  <2> QED
    BY <2>1, <2>2, Zenon
<1>4. (Errs' <=> Errs) /\ (InCopy' => InCopy) /\ InHand' = InHand
  BY <1>1, <1>3, Zenon DEF Errs, InCopy, CopyTypes, InHand
<1>5. ASSUME NEW k \in 0 .. Len(out), Coming(k) PROVE Coming(k)' /\ k \in 0 .. Len(out')
  <2>0. Len(out) \in Nat /\ Len(out') \in {Len(out), Len(out) + 1}
    BY <1>3, Zenon
  <2>1. k \in 0 .. Len(out')
    BY <2>0
  <2>2. ASSUME NEW i \in 1 .. Len(out') PROVE out'[i].type = "CopyData" <=> i <= k
    <3>1. CASE i \in 1 .. Len(out)
      BY <1>3, <1>5, <3>1, Zenon DEF Coming
    <3>2. CASE i \notin 1 .. Len(out)
      <4>1. out'[i].type # "CopyData"
        BY <1>1, <1>3, <3>2, Zenon
      <4>2. ~(i <= k)
        BY <2>0, <3>2
      <4> QED
        BY <4>1, <4>2, Zenon
    <3> QED
      BY <3>1, <3>2, Zenon
  <2> QED
    BY <2>1, <2>2, Zenon DEF Coming
<1> SUFFICES ASSUME ~Errs, Sending PROVE Counted'
  BY <1>4, Zenon DEF Counted, Sending
<1>6. CASE pc \in {"abort", "closing", "closed", "leaked"}
  BY <1>6, Zenon DEF Counted
<1>7. CASE pc \notin {"abort", "closing", "closed", "leaked"}
  <2>1. PICK k \in 0 .. Len(out) : Coming(k) /\ moved = k + InHand + Carried
    BY <1>7, Zenon DEF Counted
  <2>2. pc \in {"receive", "ready", "load", "finish", "rows"}
    BY <1>7, Zenon DEF Counted
  <2>3. Coming(k)' /\ k \in 0 .. Len(out') /\ moved' = k + InHand' + Carried'
    BY <1>4, <1>5, <2>1, Zenon
  <2> QED
    BY <2>2, <2>3, Zenon DEF Counted
<1> QED
  BY <1>6, <1>7, Zenon

LEMMA LoaderCarries ==
  ASSUME Turn, LoaderNext \/ LoaderFaults, UNCHANGED <<clientVars, handlerVars>>
  PROVE  Carried' = Carried /\ UNCHANGED <<client, moved, pc, copyState, out, answers, gone, odd>>
<1>1. UNCHANGED <<client, moved, pc, copyState, out, odd>> /\ unread \in Nat /\ got \in Nat
  BY Zenon DEF clientVars, handlerVars, Turn, QueuesType, HandlerType
<1>2. UNCHANGED <<answers, gone>>
  BY Zenon DEF LoaderNext, LoaderFaults
<1>3. unread' + got' = unread + got
  <2>1. CASE Read
    BY <1>1, <2>1 DEF Read
  <2>2. CASE UNCHANGED <<unread, got>>
    BY <2>2, Zenon
  <2> QED
    BY <2>1, <2>2, Zenon DEF LoaderNext, LoaderFaults, ExecuteCopy, Meet, Commit,
       ReaderReports, Unblock,
       Collect, Opened, Check, ReaderFails, UnblockFails
<1> QED
  BY <1>1, <1>2, <1>3, Zenon DEF Carried

-----------------------------------------------------------------------------
(* What the client is told *)

(* In a COPY only its failure is answered.                                 *)
ErrOnly == client = "copying" =>
  \A i \in 1 .. Len(answers) : answers[i].type \in {"Error", "Ready"}

AskedZero == \A i \in 1 .. Len(out) : out[i].type = "Query" => moved = 0

(* Where the handler is when the client will have counted n.               *)
Place(n, b) ==
  /\ pc = "query" => n = 0
  /\ pc \in SelectPCs => /\ n + lines = written
                         /\ responded => b = "receiving"
                         /\ ~responded => n = 0

Told == ~gone => \E n \in Nat, b \in Modes : Tale(answers, moved, Mode, n, b) /\ Place(n, b)

LEMMA JoinAppend ==
  ASSUME NEW s \in Seq(Answerable), NEW a \in Answerable PROVE s \o <<a>> = Append(s, a)
  OBVIOUS

LEMMA JoinAppend2 ==
  ASSUME NEW s \in Seq(Answerable), NEW a \in Answerable, NEW b \in Answerable
  PROVE  s \o <<a, b>> = Append(Append(s, a), b)
<1> DEFINE t == s \o <<a, b>>
           u == Append(Append(s, a), b)
<1>1. /\ t \in Seq(Answerable) /\ Len(s) \in Nat /\ Len(t) = Len(s) + 2
      /\ t[Len(s) + 1] = a /\ t[Len(s) + 2] = b /\ \A i \in 1 .. Len(s) : t[i] = s[i]
  OBVIOUS
<1>2. /\ u \in Seq(Answerable) /\ Len(u) = Len(s) + 2
      /\ u[Len(s) + 1] = a /\ u[Len(s) + 2] = b /\ \A i \in 1 .. Len(s) : u[i] = s[i]
  OBVIOUS
<1> HIDE DEF t, u
<1>3. t = [i \in 1 .. Len(t) |-> t[i]] /\ u = [i \in 1 .. Len(u) |-> u[i]]
  BY <1>1, <1>2
<1>4. \A i \in 1 .. Len(t) : t[i] = u[i]
  BY <1>1, <1>2
<1>5. t = u
  BY <1>1, <1>2, <1>3, <1>4, Zenon
<1> QED
  BY <1>5, Zenon DEF t, u

LEMMA JoinAppend3 ==
  ASSUME NEW s \in Seq(Answerable), NEW a \in Answerable, NEW b \in Answerable, NEW c \in Answerable
  PROVE  s \o <<a, b, c>> = Append(Append(Append(s, a), b), c)
<1> DEFINE t == s \o <<a, b, c>>
           u == Append(Append(Append(s, a), b), c)
<1>1. /\ t \in Seq(Answerable) /\ Len(s) \in Nat /\ Len(t) = Len(s) + 3
      /\ t[Len(s) + 1] = a /\ t[Len(s) + 2] = b /\ t[Len(s) + 3] = c
      /\ \A i \in 1 .. Len(s) : t[i] = s[i]
  OBVIOUS
<1>2. /\ u \in Seq(Answerable) /\ Len(u) = Len(s) + 3
      /\ u[Len(s) + 1] = a /\ u[Len(s) + 2] = b /\ u[Len(s) + 3] = c
      /\ \A i \in 1 .. Len(s) : u[i] = s[i]
  OBVIOUS
<1> HIDE DEF t, u
<1>3. t = [i \in 1 .. Len(t) |-> t[i]] /\ u = [i \in 1 .. Len(u) |-> u[i]]
  BY <1>1, <1>2
<1>4. \A i \in 1 .. Len(t) : t[i] = u[i]
  BY <1>1, <1>2
<1>5. t = u
  BY <1>1, <1>2, <1>3, <1>4, Zenon
<1> QED
  BY <1>5, Zenon DEF t, u

(* An answer that is no mark and no row.                                   *)
Moveless == {"Ready", "Error", "Encryption", "CopyDone"}

LEMMA TaleStops ==
  ASSUME NEW s \in Seq(Answerable), NEW a \in Answerable, NEW m0, NEW r0, NEW n, NEW b,
         Tale(s, m0, r0, n, b), a.type \in Moveless
  PROVE  Tale(Append(s, a), m0, r0, n, "other") /\ Append(s, a) \in Seq(Answerable)
<1>1. a.type # "CopyComplete" /\ Moves(n, b, a.type) = n /\ Receives(b, a.type) = "other"
  BY Zenon DEF Moveless, Moves, Receives, Marks, Stops
<1>2. Tale(Append(s, a), m0, r0, Moves(n, b, a.type), Receives(b, a.type))
  BY <1>1, TaleAppend, Zenon
<1>3. Append(s, a) \in Seq(Answerable)
  BY AppendAt, Zenon
<1> QED
  BY <1>1, <1>2, <1>3, Zenon

LEMMA TaleCompletes ==
  ASSUME NEW s \in Seq(Answerable), NEW a \in Answerable, NEW m0, NEW r0, NEW n, NEW b,
         Tale(s, m0, r0, n, b), a.type = "CopyComplete", a.n = n
  PROVE  Tale(Append(s, a), m0, r0, 0, b) /\ Append(s, a) \in Seq(Answerable)
<1>1. Moves(n, b, a.type) = 0 /\ Receives(b, a.type) = b
  BY Zenon DEF Moves, Receives, Marks, Stops
<1>2. Tale(Append(s, a), m0, r0, Moves(n, b, a.type), Receives(b, a.type))
  BY TaleAppend, Zenon
<1>3. Append(s, a) \in Seq(Answerable)
  BY AppendAt, Zenon
<1> QED
  BY <1>1, <1>2, <1>3, Zenon

-----------------------------------------------------------------------------
(* Steps that send nothing of a COPY *)

Plain == {<< >>, <<Msg("Ready")>>, <<Msg("Error")>>, <<Msg("Error"), Msg("Ready")>>,
          <<Msg("Encryption")>>}

LEMMA PlainAt ==
  ASSUME NEW ms \in Plain
  PROVE  /\ ms \in Seq(Answerable)
         /\ \A i \in 1 .. Len(ms) : ms[i].type \in {"Ready", "Error", "Encryption"}
<1>1. Msg("Ready") \in Answerable /\ Msg("Error") \in Answerable /\ Msg("Encryption") \in Answerable
  BY MsgIn, Zenon DEF ReplyTypes
<1>2. Msg("Ready").type = "Ready" /\ Msg("Error").type = "Error" /\ Msg("Encryption").type = "Encryption"
  BY Zenon DEF Msg
<1>3. CASE ms = << >>
  BY <1>3
<1>4. ASSUME NEW a \in Answerable, a.type \in {"Ready", "Error", "Encryption"}, ms = <<a>>
      PROVE  /\ ms \in Seq(Answerable)
             /\ \A i \in 1 .. Len(ms) : ms[i].type \in {"Ready", "Error", "Encryption"}
  BY <1>4
<1>5. CASE ms = <<Msg("Error"), Msg("Ready")>>
  BY <1>1, <1>2, <1>5
<1> QED
  BY <1>1, <1>2, <1>3, <1>4, <1>5, Zenon DEF Plain

LEMMA PlainTale ==
  ASSUME NEW s \in Seq(Answerable), NEW ms \in Plain, NEW m0, NEW r0, NEW n, NEW b,
         Tale(s, m0, r0, n, b)
  PROVE  \E c \in Modes : Tale(s \o ms, m0, r0, n, c)
<1> USE DEF Moveless
<1>1. Msg("Ready") \in Answerable /\ Msg("Error") \in Answerable /\ Msg("Encryption") \in Answerable
  BY MsgIn, Zenon DEF ReplyTypes
<1>2. Msg("Ready").type = "Ready" /\ Msg("Error").type = "Error" /\ Msg("Encryption").type = "Encryption"
  BY Zenon DEF Msg
<1>3. "other" \in Modes /\ b \in Modes
  BY TaleType, Zenon DEF Modes
<1>4. ASSUME NEW a \in Answerable, a.type \in Moveless, ms = <<a>> PROVE Tale(s \o ms, m0, r0, n, "other")
  BY <1>4, JoinAppend, TaleStops, Zenon
<1>5. CASE ms = << >>
  <2>1. s \o ms = s
    BY <1>5
  <2> QED
    BY <1>3, <2>1, Zenon
<1>6. CASE ms = <<Msg("Error"), Msg("Ready")>>
  <2>1. s \o ms = Append(Append(s, Msg("Error")), Msg("Ready"))
    BY <1>1, <1>6, JoinAppend2, Zenon
  <2>2. Tale(Append(s, Msg("Error")), m0, r0, n, "other") /\ Append(s, Msg("Error")) \in Seq(Answerable)
    BY <1>1, <1>2, TaleStops, Zenon
  <2>3. Tale(Append(Append(s, Msg("Error")), Msg("Ready")), m0, r0, n, "other")
    BY <1>1, <1>2, <2>2, TaleStops, Zenon
  <2> QED
    BY <1>3, <2>1, <2>3, Zenon
<1> QED
  BY <1>1, <1>2, <1>3, <1>4, <1>5, <1>6, Zenon DEF Plain

(* The answers after a step.                                               *)
LEMMA SentFrom ==
  ASSUME Turn, NEW ms \in Seq(Answerable), Send(ms)
  PROVE  \A i \in 1 .. Len(answers') :
           \/ i \in 1 .. Len(answers) /\ answers'[i] = answers[i]
           \/ \E j \in 1 .. Len(ms) : answers'[i] = ms[j]
<1>2. CASE gone
  <2>1. answers' = << >>
    BY <1>2, SendAt, Zenon DEF Turn
  <2> QED
    BY <2>1
<1>3. CASE ~gone
  <2>1. /\ Len(answers) \in Nat /\ Len(ms) \in Nat /\ Len(answers') = Len(answers) + Len(ms)
        /\ \A i \in 1 .. Len(answers) : answers'[i] = answers[i]
        /\ \A i \in Len(answers) + 1 .. Len(answers') : answers'[i] = ms[i - Len(answers)]
    BY <1>3, SendAt, Zenon DEF Turn
  <2>2. ASSUME NEW i \in 1 .. Len(answers'), i \notin 1 .. Len(answers)
        PROVE  \E j \in 1 .. Len(ms) : answers'[i] = ms[j]
    <3>1. i \in Len(answers) + 1 .. Len(answers') /\ i - Len(answers) \in 1 .. Len(ms)
      BY <2>1, <2>2
    <3> QED
      BY <2>1, <3>1, Zenon
  <2> QED
    BY <2>1, <2>2, Zenon
<1> QED
  BY <1>2, <1>3, Zenon DEF Turn, QueuesType

LEMMA PlainSent ==
  ASSUME Turn, NEW ms \in Plain, Send(ms)
  PROVE  \A i \in 1 .. Len(answers') :
           \/ i \in 1 .. Len(answers) /\ answers'[i] = answers[i]
           \/ answers'[i].type \in {"Ready", "Error", "Encryption"}
  BY PlainAt, SentFrom, Zenon

LEMMA PlainKeeps ==
  ASSUME Turn, Orderly', NewCopy, ErrOnly, AskedZero, Told, NEW ms \in Plain, Send(ms),
         UNCHANGED <<client, moved, gone>>, out' = out \/ (out # << >> /\ out' = Tail(out)),
         copyState'.loader => copyState.loader \/ pc' # "receive",
         pc' \notin SelectPCs, pc' = "query" => pc = "query"
  PROVE  NewCopy' /\ ErrOnly' /\ AskedZero' /\ Told'
<1>1. NewCopy'
  BY PlainSent, Zenon DEF NewCopy, Orderly, CopyInLast
<1>2. ErrOnly'
  BY PlainSent, Zenon DEF ErrOnly, Orderly, Starting
<1>3. AskedZero'
  <2>1. CASE out' = out
    BY <2>1, Zenon DEF AskedZero
  <2>2. CASE out # << >> /\ out' = Tail(out)
    BY <2>2, PopOut, Zenon DEF AskedZero, Turn
  <2> QED
    BY <2>1, <2>2, Zenon
<1>4. Told'
  <2> SUFFICES ASSUME ~gone PROVE Told'
    BY Zenon DEF Told
  <2>1. PICK n \in Nat, b \in Modes : Tale(answers, moved, Mode, n, b) /\ Place(n, b)
    BY Zenon DEF Told
  <2>2. answers' = answers \o ms /\ answers \in Seq(Answerable) /\ Mode' = Mode
    BY Zenon DEF Send, Turn, QueuesType, Mode
  <2>3. PICK c \in Modes : Tale(answers', moved, Mode, n, c)
    BY <2>1, <2>2, PlainTale, Zenon
  <2>4. Place(n, c)'
    BY <2>1, Zenon DEF Place
  <2>5. Tale(answers', moved', Mode', n, c)
    BY <2>2, <2>3, Zenon
  <2> QED
    BY <2>4, <2>5, Zenon DEF Told
<1> QED
  BY <1>1, <1>2, <1>3, <1>4, Zenon

(* What the handler's steps outside a COPY send.                           *)
PlainStep ==
  /\ \E ms \in Plain : Send(ms)
  /\ UNCHANGED <<client, moved, gone>> /\ odd \subseteq odd'
  /\ out' = out \/ (out # << >> /\ out' = Tail(out))

LEMMA PlainNothing ==
  ASSUME Turn, answers' = answers PROVE \E ms \in Plain : Send(ms)
  BY NoMessage, Zenon DEF Turn, Plain

LEMMA PlainFail ==
  ASSUME Turn, NEW e \in BOOLEAN, NEW s \in BOOLEAN, NEW o, Fail(e, s, o)
  PROVE  (\E ms \in Plain : Send(ms)) /\ odd \subseteq odd'
<1>1. odd \subseteq odd'
  BY FailSends, Zenon DEF Turn
<1>2. answers' = answers \/ Send(<<Msg("Error"), Msg("Ready")>>)
  BY FailSends, Zenon DEF Turn
<1> QED
  BY <1>1, <1>2, PlainNothing, Zenon DEF Plain

LEMMA PlainEnd ==
  ASSUME NEW o, EndOfMessages(<< >>, o) \/ EndOfMessages(<<Msg("Error")>>, o) \/ QueryFails(o)
  PROVE  (\E ms \in Plain : Send(ms)) /\ odd \subseteq odd'
<1>1. Send(<<Msg("Ready")>>) \/ Send(<<Msg("Error"), Msg("Ready")>>)
  BY AnswerSends, JoinReady, Zenon DEF EndOfMessages, QueryFails
<1>2. odd \subseteq odd'
  BY AnswerSends, Zenon DEF EndOfMessages, QueryFails
<1> QED
  BY <1>1, <1>2, Zenon DEF Plain

LEMMA PlainDone ==
  ASSUME NEW o, Done(<< >>, o) PROVE (\E ms \in Plain : Send(ms)) /\ odd \subseteq odd'
<1>1. CASE Answer(<< >>, "query", o)
  BY <1>1, AnswerSends, Zenon DEF Plain
<1> QED
  BY <1>1, PlainEnd, Zenon DEF Done

LEMMA StartPlain ==
  ASSUME Turn, handleStartup \/ Discard \/ Sync \/ Hangup PROVE PlainStep
<1>1. CASE handleStartup
  <2>1. UNCHANGED <<client, moved, gone, odd>> /\ (out' = out \/ (out # << >> /\ out' = Tail(out)))
    BY <1>1, Zenon DEF handleStartup, UnchangedByMessage
  <2>2. \E ms \in Plain : Send(ms)
    <3>1. CASE answers' = answers
      BY <3>1, PlainNothing, Zenon
    <3>2. CASE Send(<<Msg("Encryption")>>)
      BY <3>2, Zenon DEF Plain
    <3>3. ASSUME NEW ms \in sendClientStartupMessages \cup chooseInitialDatabase, Send(ms)
          PROVE  \E t \in Plain : Send(t)
      BY <3>3, Zenon DEF Plain, sendClientStartupMessages, chooseInitialDatabase
    <3> QED
      BY <1>1, <3>1, <3>2, <3>3, Zenon DEF handleStartup
  <2> QED
    BY <2>1, <2>2, Zenon DEF PlainStep
<1>2. CASE Discard
  <2>1. UNCHANGED <<client, moved, gone>> /\ (out' = out \/ (out # << >> /\ out' = Tail(out)))
    BY <1>2, Zenon DEF Discard, UnchangedByMessage
  <2>2. (\E ms \in Plain : Send(ms)) /\ odd \subseteq odd'
    BY <1>2, PlainNothing, PlainEnd, Zenon DEF Discard
  <2> QED
    BY <2>1, <2>2, Zenon DEF PlainStep
<1>3. CASE Sync
  BY <1>3, PlainEnd, Zenon DEF Sync, Receive, UnchangedByMessage, PlainStep
<1>4. CASE Hangup
  <2>1. answers' = answers /\ odd \subseteq odd'
    BY <1>4, Zenon DEF Hangup, Note
  <2> QED
    BY <1>4, <2>1, PlainNothing, Zenon DEF Hangup, Receive, UnchangedByMessage, PlainStep
<1> QED
  BY <1>1, <1>2, <1>3, <1>4, Zenon

BatchTypes == {"Parse", "Bind", "Execute", "Flush", "DescribeStatement", "DescribePortal",
               "CloseStatement", "ClosePortal"}

LEMMA ExtendedPlain ==
  ASSUME Turn, Parse \/ Describe \/ Bind \/ Execute \/ Close \/ Flush
  PROVE  PlainStep /\ \E t \in BatchTypes : Receive(t)
<1>0. waitForSync \in BOOLEAN
  BY Zenon DEF Turn, QueuesType, HandlerType
<1>1. UNCHANGED <<client, moved, gone>>
  BY Zenon DEF Parse, Describe, Bind, Execute, Close, Flush, UnchangedByMessage
<1>2. PICK t \in BatchTypes : Receive(t)
  BY Zenon DEF Parse, Describe, Bind, Execute, Close, Flush, BatchTypes
<1>3. out # << >> /\ out' = Tail(out)
  BY <1>2, Zenon DEF Receive
<1>4. \/ answers' = answers /\ odd' = odd
      \/ \E s \in BOOLEAN, o \in {{}, {"NilStmt"}} : Fail(FALSE, s, o)
      \/ \E o \in {{"Flush"}} : EndOfMessages(<<Msg("Error")>>, o)
  <2>1. CASE Parse
    BY <2>1, Zenon DEF Parse
  <2>2. CASE Describe
    BY <2>2, Zenon DEF Describe
  <2>3. CASE Bind
    BY <2>3, Zenon DEF Bind
  <2>4. CASE Execute
    BY <2>4, Zenon DEF Execute
  <2>5. CASE Close
    BY <1>0, <2>5, Zenon DEF Close
  <2>6. CASE Flush
    BY <2>6, Zenon DEF Flush
  <2> QED
    BY <2>1, <2>2, <2>3, <2>4, <2>5, <2>6, Zenon
<1>5. (\E ms \in Plain : Send(ms)) /\ odd \subseteq odd'
  BY <1>4, PlainNothing, PlainFail, PlainEnd, Zenon
<1> QED
  BY <1>1, <1>2, <1>3, <1>5, Zenon DEF PlainStep

LEMMA QueryPlain ==
  ASSUME Turn, Query \/ Run \/ Deallocate PROVE PlainStep /\ copyState' = copyState
<1>0. waitForSync \in BOOLEAN
  BY Zenon DEF Turn, QueuesType, HandlerType
<1>1. CASE Query
  <2>1. UNCHANGED <<client, moved, gone, copyState>> /\ out # << >> /\ out' = Tail(out)
    BY <1>1, Zenon DEF Query, UnchangedByMessage, Receive
  <2>2. \/ answers' = answers /\ odd' = odd
        \/ \E o \in {{"NilStmt"}} : Fail(FALSE, waitForSync, o)
    BY <1>1, Zenon DEF Query
  <2>3. (\E ms \in Plain : Send(ms)) /\ odd \subseteq odd'
    BY <1>0, <2>2, PlainNothing, PlainFail, Zenon
  <2> QED
    BY <2>1, <2>3, Zenon DEF PlainStep
<1>2. CASE Run \/ Deallocate
  <2>1. UNCHANGED <<client, moved, gone, copyState, out>>
    BY <1>2, Zenon DEF Run, Deallocate, UnchangedByMessage
  <2>2. \E o \in {{}, {"NilStmt"}} : Done(<< >>, o) \/ QueryFails(o) \/ Fail(FALSE, waitForSync, o)
    BY <1>2, Zenon DEF Run, Deallocate
  <2>3. (\E ms \in Plain : Send(ms)) /\ odd \subseteq odd'
    BY <1>0, <2>2, PlainFail, PlainEnd, PlainDone, Zenon
  <2> QED
    BY <2>1, <2>3, Zenon DEF PlainStep
<1> QED
  BY <1>1, <1>2, Zenon

(* CopyFails, and a chunk that is taken.                                   *)
LEMMA CopyFailsPlain ==
  ASSUME Turn, NEW o, CopyFails(o)
  PROVE  (\E ms \in Plain : Send(ms)) /\ odd \subseteq odd' /\ copyState'.loader = copyState.loader
<1>1. waitForSync \in BOOLEAN /\ copyState \in CopyStates
  BY Zenon DEF Turn, QueuesType, HandlerType
<1>2. copyState'.loader = copyState.loader
  BY <1>1, Zenon DEF CopyFails, CopyStates
<1>3. Fail(FALSE, waitForSync, Stale \cup o)
  BY Zenon DEF CopyFails
<1> QED
  BY <1>1, <1>2, <1>3, PlainFail, Zenon

LEMMA CopyPlain ==
  ASSUME Turn, CopyData \/ LoaderReady \/ LoadChunk \/ CopyDone
  PROVE  /\ PlainStep /\ pc' \notin QueryPCs
         /\ copyState'.loader => copyState.loader \/ pc' # "receive"
<1>1. UNCHANGED <<client, moved, gone>> /\ (out' = out \/ (out # << >> /\ out' = Tail(out)))
  BY Zenon DEF CopyData, LoaderReady, LoadChunk, CopyDone, UnchangedByCopyIn, Receive
<1>2. \/ \E o : CopyFails(o)
      \/ /\ answers' = answers /\ odd \subseteq odd' /\ pc' \in {"load", "ready", "receive", "abort", "finish"}
         /\ copyState' = copyState \/ pc' = "load"
      \/ EndOfMessages(<<Msg("Error")>>, {}) /\ copyState' = copyState
  <2>1. CASE CopyData
    <3>1. ASSUME NEW o, Note(o) PROVE odd \subseteq odd'
      BY <3>1, Zenon DEF Note
    <3> QED
      BY <2>1, <3>1, Zenon DEF CopyData
  <2>2. CASE LoaderReady
    BY <2>2, Zenon DEF LoaderReady
  <2>3. CASE LoadChunk
    BY <2>3, Zenon DEF LoadChunk
  <2>4. CASE CopyDone
    BY <2>4, Zenon DEF CopyDone
  <2> QED
    BY <2>1, <2>2, <2>3, <2>4, Zenon
<1>3. (\E ms \in Plain : Send(ms)) /\ odd \subseteq odd'
  BY <1>2, CopyFailsPlain, PlainNothing, PlainEnd, Zenon
<1>4. pc' \notin QueryPCs
  BY <1>2, CopyFailsGoes, EndGoes, Zenon DEF QueryPCs
<1>5. copyState'.loader => copyState.loader \/ pc' # "receive"
  <2>1. CASE pc' = "load"
    BY <2>1, Zenon
  <2> QED
    BY <1>2, <2>1, CopyFailsPlain, Zenon
<1> QED
  BY <1>1, <1>3, <1>4, <1>5, Zenon DEF PlainStep

-----------------------------------------------------------------------------
(* COPY n *)

Account == NewCopy /\ ErrOnly /\ AskedZero /\ Told

(* The pipe is closed and empty: everything the client has sent is read.   *)
LEMMA RowsRead ==
  ASSUME Turn, Orderly, Pipes, Counted, pc = "rows", unread = 0 PROVE got = moved
<1>1. copyState.loader /\ ~Errs /\ Only({}) /\ got \in Nat /\ Len(out) \in Nat
  BY DEF Pipes, PipeEnds, Orderly, Busy, EndPCs, Turn, QueuesType, HandlerType
<1>2. PICK k \in 0 .. Len(out) : Coming(k) /\ moved = k + InHand + Carried
  BY <1>1, Zenon DEF Counted, Sending
<1>3. k = 0
  <2>1. CASE Len(out) = 0
    BY <2>1
  <2>2. CASE Len(out) # 0
    <3>1. 1 \in 1 .. Len(out)
      BY <1>1, <2>2
    <3>2. out[1].type # "CopyData"
      BY <1>1, <3>1, Zenon DEF Only
    <3>3. ~(1 <= k)
      BY <1>2, <3>1, <3>2, Zenon DEF Coming
    <3> QED
      BY <1>1, <3>3
  <2> QED
    BY <2>1, <2>2, Zenon
<1>4. InHand = 0 /\ Carried = got
  BY <1>1 DEF InHand, Carried
<1> QED
  BY <1>1, <1>2, <1>3, <1>4

LEMMA ModeIn == Mode \in Modes
  BY Zenon DEF Mode, Modes

LEMMA FinishAccount ==
  ASSUME Turn, Orderly, Orderly', Pipes, Counted, Account, Finish PROVE Account'
<1>1. UNCHANGED <<client, moved, gone, out>> /\ waitForSync \in BOOLEAN /\ pc \in EndPCs
  BY Zenon DEF Finish, UnchangedByCopyIn, Turn, QueuesType, HandlerType, EndPCs
<1>2. CASE Fail(FALSE, waitForSync, Stale) /\ UNCHANGED copyState
  <2>1. PICK ms \in Plain : Send(ms)
    BY <1>1, <1>2, PlainFail, Zenon
  <2>2. pc' \notin SelectPCs \cup {"query"}
    BY <1>2, FailGoes, Zenon DEF SelectPCs
  <2> QED
    BY <1>1, <1>2, <2>1, <2>2, PlainKeeps, Zenon DEF Account
<1>3. CASE pc' = "rows" /\ answers' = answers
  <2>1. PICK ms \in Plain : Send(ms)
    BY <1>3, PlainNothing, Zenon
  <2> QED
    BY <1>1, <1>3, <2>1, PlainKeeps, Zenon DEF Account, SelectPCs
<1>4. CASE /\ pc = "rows" /\ ~err /\ reader = "exited" /\ copyState' = NoCopy
           /\ EndOfMessages(<<Count("CopyComplete", got)>>, {})
  <2>1. client = "waiting" /\ answers = << >> /\ moved \in Nat
    BY <1>4, Zenon DEF Orderly, Busy, EndPCs, Turn, QueuesType
  <2>2. NewCopy' /\ ErrOnly' /\ AskedZero'
    BY <1>1, <1>4, <2>1, Zenon DEF NewCopy, ErrOnly, AskedZero, NoCopy, Account
  <2>3. got = moved
    BY <1>4, RowsRead, Zenon DEF Pipes, PipeEnds
  <2> DEFINE a == Count("CopyComplete", got)
             r == Msg("Ready")
  <2>4. /\ a \in Answerable /\ r \in Answerable /\ a.type = "CopyComplete" /\ a.n = moved
        /\ r.type = "Ready"
    BY <2>1, <2>3, MsgIn, Zenon DEF ReplyTypes
  <2>5. Send(<<a, r>>) /\ pc' \in {"receive", "leaked"}
    BY <1>4, <2>1, <2>3, AnswerSends, JoinReady, Zenon DEF EndOfMessages
  <2> HIDE DEF a, r
  <2>6. ASSUME ~gone PROVE \E n \in Nat, b \in Modes : Tale(answers', moved, Mode, n, b)
    <3>1. << >> \in Seq(Answerable)
      OBVIOUS
    <3>2. Tale(<< >>, moved, Mode, moved, Mode)
      BY <2>1, ModeIn, TaleEmpty, Zenon
    <3>3. Tale(Append(<< >>, a), moved, Mode, 0, Mode) /\ Append(<< >>, a) \in Seq(Answerable)
      BY <2>4, <3>1, <3>2, TaleCompletes, Zenon
    <3>4. Tale(Append(Append(<< >>, a), r), moved, Mode, 0, "other")
      BY <2>4, <3>3, TaleStops, Zenon DEF Moveless
    <3>5. answers' = Append(Append(<< >>, a), r)
      BY <2>1, <2>4, <2>5, <2>6, <3>1, JoinAppend2, Zenon DEF Send
    <3>6. 0 \in Nat /\ "other" \in Modes
      BY Zenon DEF Modes
    <3> QED
      BY <3>4, <3>5, <3>6, Zenon
  <2>7. \A n, b : Place(n, b)'
    BY <2>5, Zenon DEF Place, SelectPCs
  <2>8. Mode' = Mode
    BY <1>1, Zenon DEF Mode
  <2>9. Told'
    BY <1>1, <2>6, <2>7, <2>8, Zenon DEF Told
  <2> QED
    BY <2>2, <2>9, Zenon DEF Account
<1> QED
  BY <1>2, <1>3, <1>4, Zenon DEF Finish

LEMMA CopyFromStdinAccount ==
  ASSUME Turn, Orderly, Orderly', Account, CopyFromStdin PROVE Account'
<1>1. UNCHANGED <<client, moved, gone, out>> /\ pc = "query" /\ todo # << >>
  BY Zenon DEF CopyFromStdin, UnchangedByMessage, Statement, Turn, Todo, QueryPCs
<1>2. CASE QueryFails({}) /\ UNCHANGED copyState
  <2>1. PICK ms \in Plain : Send(ms)
    BY <1>2, PlainEnd, Zenon
  <2>2. pc' \notin SelectPCs \cup {"query"}
    BY <1>2, EndGoes, Zenon DEF SelectPCs
  <2> QED
    BY <1>1, <1>2, <2>1, <2>2, PlainKeeps, Zenon DEF Account
<1>3. CASE /\ copyState' = [active |-> TRUE, loader |-> FALSE, copyErr |-> FALSE]
           /\ Answer(<<Msg("CopyIn")>>, IF Len(todo) = 1 THEN "receive" ELSE "query", {})
  <2>1. client \in {"waiting", "receiving"}
    BY <1>1, Working, Zenon DEF Turn, QueryPCs
  <2>2. NewCopy' /\ ErrOnly' /\ AskedZero'
    BY <1>1, <1>3, <2>1, Zenon DEF NewCopy, ErrOnly, AskedZero, Account
  <2> DEFINE a == Msg("CopyIn")
  <2>3. a \in Answerable /\ a.type = "CopyIn" /\ answers \in Seq(Answerable)
    BY MsgIn, Zenon DEF Turn, QueuesType
  <2>4. Send(<<a>>) /\ pc' \in {"receive", "query", "leaked"}
    BY <1>3, AnswerSends, Zenon
  <2> HIDE DEF a
  <2>5. ASSUME ~gone PROVE Tale(answers', moved, Mode, 0, "other")
    <3>1. PICK n \in Nat, b \in Modes : Tale(answers, moved, Mode, n, b)
      BY <2>5, Zenon DEF Account, Told
    <3>2. Tale(Append(answers, a), moved, Mode, Moves(n, b, a.type), Receives(b, a.type))
      BY <2>3, <3>1, TaleAppend, Zenon
    <3>3. Moves(n, b, a.type) = 0 /\ Receives(b, a.type) = "other"
      BY <2>3, Zenon DEF Moves, Receives, Marks, Stops
    <3>4. answers' = Append(answers, a)
      BY <2>3, <2>4, <2>5, JoinAppend, Zenon DEF Send
    <3> QED
      BY <3>2, <3>3, <3>4, Zenon
  <2>6. Place(0, "other")' /\ Mode' = Mode /\ 0 \in Nat /\ "other" \in Modes
    BY <1>1, <2>4, Zenon DEF Place, SelectPCs, Mode, Modes
  <2>7. Told'
    BY <1>1, <2>5, <2>6, Zenon DEF Told
  <2> QED
    BY <2>2, <2>7, Zenon DEF Account
<1> QED
  BY <1>2, <1>3, Zenon DEF CopyFromStdin

(* NewCopy, ErrOnly and AskedZero while a query runs.                      *)
LEMMA WorkingAccount ==
  ASSUME Turn, Orderly, pc \in QueryPCs, UNCHANGED <<client, out, moved>>, Account,
         NEW ms, Reply(ms), Send(ms)
  PROVE  NewCopy' /\ ErrOnly' /\ AskedZero'
<1>1. client \in {"waiting", "receiving"}
  BY Working, Zenon DEF Turn
<1>2. \A i \in 1 .. Len(answers) : answers[i].type # "CopyIn"
  BY Zenon DEF Orderly, CopyInLast, QueryPCs
<1>3. \A j \in 1 .. Len(ms) : ms[j].type # "CopyIn"
  BY Zenon DEF Reply, ReplyTypes
<1>4. \A i \in 1 .. Len(answers') : answers'[i].type # "CopyIn"
  BY <1>2, <1>3, SentFrom, Zenon DEF Reply
<1> QED
  BY <1>1, <1>4, Zenon DEF NewCopy, ErrOnly, AskedZero, Account

LEMMA CopyOutEndsAccount ==
  ASSUME Turn, Orderly, Orderly', Pipes, Account, pc \in SelectPCs, result # "none",
         sender = "done", CopyOutEnds, UNCHANGED <<client, moved, gone, out, copyState>>
  PROVE  Account'
<1>1. CASE QueryFails({})
  <2>1. PICK ms \in Plain : Send(ms)
    BY <1>1, PlainEnd, Zenon
  <2>2. pc' \notin SelectPCs \cup {"query"}
    BY <1>1, EndGoes, Zenon DEF SelectPCs
  <2> QED
    BY <2>1, <2>2, PlainKeeps, Zenon DEF Account
<1>2. ASSUME result # "err", ~globalErr, Done(<<Msg("CopyDone"), Count("CopyComplete", rows)>>, {})
      PROVE  Account'
  <2> DEFINE d == Msg("CopyDone")
             a == Count("CopyComplete", rows)
             r == Msg("Ready")
  <2>0. rows \in Nat
    BY Zenon DEF Turn, QueuesType
  <2>1. /\ d \in Answerable /\ a \in Answerable /\ r \in Answerable /\ d.type = "CopyDone"
        /\ a.type = "CopyComplete" /\ a.n = rows /\ r.type = "Ready" /\ answers \in Seq(Answerable)
    BY <2>0, MsgIn DEF ReplyTypes, Turn, QueuesType
  <2>2. CASE Send(<<d, a>>) \/ Send(<<d, a, r>>)
    <3>0. pc' \in {"receive", "query", "leaked"}
      BY <1>2, DoneGoes, Zenon
    <3> HIDE DEF d, a, r
    <3>1. ASSUME ~gone PROVE \E b \in Modes : Tale(answers', moved, Mode, 0, b)
      <4>1. PICK n \in Nat, b \in Modes : Tale(answers, moved, Mode, n, b) /\ Place(n, b)
        BY <3>1, Zenon DEF Account, Told
      <4>2. n = rows
        <5>1. result = "ok" /\ lines = 0 /\ n + lines = written
          BY <1>2, <4>1, Zenon DEF Pipes, OutEnds, Place
        <5> QED
          BY <5>1 DEF Pipes, OutEnds
      <4>3. Tale(Append(answers, d), moved, Mode, n, "other") /\ Append(answers, d) \in Seq(Answerable)
        BY <2>1, <4>1, TaleStops, Zenon DEF Moveless
      <4>4. /\ Tale(Append(Append(answers, d), a), moved, Mode, 0, "other")
            /\ Append(Append(answers, d), a) \in Seq(Answerable)
        BY <2>1, <4>2, <4>3, TaleCompletes, Zenon
      <4>5. Tale(Append(Append(Append(answers, d), a), r), moved, Mode, 0, "other")
        BY <2>1, <4>4, TaleStops, Zenon DEF Moveless
      <4>6. answers' \in {Append(Append(answers, d), a), Append(Append(Append(answers, d), a), r)}
        BY <2>1, <2>2, <3>1, JoinAppend2, JoinAppend3, ZenonT(30) DEF Send
      <4>7. "other" \in Modes
        BY Zenon DEF Modes
      <4> QED
        BY <4>4, <4>5, <4>6, <4>7, Zenon
    <3>2. \A b : Place(0, b)'
      BY <3>0, Zenon DEF Place, SelectPCs
    <3>3. Mode' = Mode /\ 0 \in Nat
      BY Zenon DEF Mode
    <3>4. Told'
      BY <3>1, <3>2, <3>3, Zenon DEF Told
    <3>5. Reply(<<d, a>>) /\ Reply(<<d, a, r>>)
      BY <2>0, ReplyIn, Zenon DEF d, a, r
    <3>6. pc \in QueryPCs
      BY Zenon DEF SelectPCs, QueryPCs
    <3> QED
      BY <2>2, <3>4, <3>5, <3>6, WorkingAccount, Zenon DEF Account
  <2> QED
    BY <1>2, <2>0, <2>2, AnswerSends, JoinReady, Zenon DEF Done, EndOfMessages
<1> QED
  BY <1>1, <1>2, Zenon DEF CopyOutEnds

(* A step of a COPY TO that sends nothing.                                 *)
LEMMA QuietAccount ==
  ASSUME Turn, Orderly, Account, pc \in QueryPCs,
         UNCHANGED <<client, moved, gone, out, answers>>,
         \A n \in Nat, b \in Modes : Place(n, b) => Place(n, b)'
  PROVE  Account'
<1>1. Send(<< >>)
  BY NoMessage, Zenon DEF Turn
<1>2. NewCopy' /\ ErrOnly' /\ AskedZero'
  BY <1>1, ReplyIn, WorkingAccount, Zenon
<1>3. Mode' = Mode
  BY Zenon DEF Mode
<1>4. Told'
  BY <1>3, Zenon DEF Account, Told
<1> QED
  BY <1>2, <1>4, Zenon DEF Account

LEMMA CopyOutAccount ==
  ASSUME Turn, Orderly, Orderly', Pipes, Account, CopyToStdout \/ Select \/ UnblockSender
  PROVE  Account'
<1>1. UNCHANGED <<client, moved, gone, out, copyState>>
  BY Zenon DEF CopyToStdout, Select, UnblockSender, UnchangedByCopyOut
<1>2. CASE CopyToStdout
  <2>1. pc = "query" /\ pc' = "select" /\ StartOut /\ answers' = answers
    BY <1>2, Zenon DEF CopyToStdout, Statement
  <2>2. \A n \in Nat, b \in Modes : Place(n, b) => Place(n, b)'
    BY <2>1 DEF Place, StartOut, SelectPCs
  <2> QED
    BY <1>1, <2>1, <2>2, QuietAccount, Zenon DEF QueryPCs
<1>3. CASE QueryFails({}) /\ pc = "select"
  <2>1. PICK ms \in Plain : Send(ms)
    BY <1>3, PlainEnd, Zenon
  <2>2. pc' \notin SelectPCs \cup {"query"}
    BY <1>3, EndGoes, Zenon DEF SelectPCs
  <2> QED
    BY <1>1, <2>1, <2>2, PlainKeeps, Zenon DEF Account
<1>4. CASE pc = "select" /\ Joined /\ CopyOutEnds
  BY <1>1, <1>4, CopyOutEndsAccount, Zenon DEF Joined, SelectPCs
<1>5. CASE pc = "select" /\ pc' = "unblock" /\ UNCHANGED <<answers, outVars>>
  <2>1. \A n \in Nat, b \in Modes : Place(n, b) => Place(n, b)'
    BY <1>5, Zenon DEF Place, SelectPCs, outVars
  <2> QED
    BY <1>1, <1>5, <2>1, QuietAccount, Zenon DEF QueryPCs
<1>6. CASE pc = "unblock" /\ OpenForWriting /\ pc' = "release" /\ UNCHANGED answers
  <2>1. \A n \in Nat, b \in Modes : Place(n, b) => Place(n, b)'
    BY <1>6, Zenon DEF Place, SelectPCs, OpenForWriting
  <2> QED
    BY <1>1, <1>6, <2>1, QuietAccount, Zenon DEF QueryPCs
<1>7. CASE pc = "release" /\ sender = "done" /\ CopyOutEnds
  BY <1>1, <1>7, CopyOutEndsAccount, Zenon DEF SelectPCs, Pipes, OutEnds
<1>8. CASE Select
  BY <1>3, <1>4, <1>5, <1>8, Zenon DEF Select
<1>9. CASE UnblockSender
  BY <1>6, <1>7, <1>9, Zenon DEF UnblockSender
<1> QED
  BY <1>2, <1>8, <1>9, Zenon

(* The goroutines of a COPY TO: a line is in the pipe, or the client is    *)
(* sent it and knows that it receives.                                     *)
LEMMA OutAccount ==
  ASSUME Turn, Orderly, Pipes, Account, OutNext \/ OutFaults, UNCHANGED <<clientVars, handlerVars>>
  PROVE  Account'
<1>1. /\ UNCHANGED <<client, moved, gone, out, pc, copyState>> /\ lines \in Nat /\ written \in Nat
      /\ answers \in Seq(Answerable)
  BY Zenon DEF clientVars, handlerVars, OutNext, OutFaults, Turn, QueuesType
<1>2. ASSUME answers' = answers, UNCHANGED responded, written' = written + (lines' - lines), lines' \in Nat
      PROVE  Account'
  <2>1. CASE pc \in QueryPCs
    <3>1. \A n \in Nat, b \in Modes : Place(n, b) => Place(n, b)'
      BY <1>1, <1>2 DEF Place
    <3> QED
      BY <1>1, <1>2, <2>1, <3>1, QuietAccount, Zenon
  <2>2. CASE pc \notin QueryPCs
    <3>1. \A n, b : Place(n, b)'
      BY <1>1, <2>2, Zenon DEF Place, QueryPCs, SelectPCs
    <3>2. Mode' = Mode
      BY <1>1, Zenon DEF Mode
    <3>3. Told'
      BY <1>1, <1>2, <3>1, <3>2, Zenon DEF Account, Told
    <3> QED
      BY <1>1, <1>2, <3>3, Zenon DEF Account, NewCopy, ErrOnly, AskedZero
  <2> QED
    BY <2>1, <2>2, Zenon
<1> DEFINE o == Msg("CopyOut")
           l == Msg("Row")
<1>3. o \in Answerable /\ l \in Answerable /\ o.type = "CopyOut" /\ l.type = "Row"
  BY MsgIn, Zenon DEF ReplyTypes
<1>4. Reply(<<o>>) /\ Reply(<<l>>) /\ Reply(<<o, l>>)
  BY <1>3 DEF Reply, ReplyTypes
<1>5. SenderOpened /\ ~(globalErr \/ text) => Send(<<o>>)
  BY Zenon DEF SenderOpened
<1>6. SendLine => Send(IF responded THEN <<l>> ELSE <<o, l>>)
  <2>1. << >> \o <<l>> = <<l>> /\ <<o>> \o <<l>> = <<o, l>>
    BY <1>3, JoinOne
  <2> QED
    BY <2>1, Zenon DEF SendLine
<1> HIDE DEF o, l
<1>7. CASE SenderOpened
  <2>1. pc \in SelectPCs /\ pc \in QueryPCs /\ ~responded
    BY <1>7, Zenon DEF SenderOpened, Turn, AtWork, SelectPCs, QueryPCs, Pipes, OutEnds
  <2>2. CASE globalErr \/ text
    <3>1. answers' = answers /\ ~responded' /\ UNCHANGED <<lines, written>>
      <4>1. Send(<< >>) /\ ~responded' /\ UNCHANGED <<lines, written>>
        BY <1>7, <2>2, Zenon DEF SenderOpened
      <4> QED
        BY <4>1, NoMessage, Zenon DEF Turn
    <3>2. \A n \in Nat, b \in Modes : Place(n, b) => Place(n, b)'
      BY <1>1, <2>1, <3>1, Zenon DEF Place
    <3> QED
      BY <1>1, <2>1, <3>1, <3>2, QuietAccount, Zenon
  <2>3. CASE ~(globalErr \/ text)
    <3>1. Send(<<o>>) /\ responded' /\ UNCHANGED <<lines, written>>
      BY <1>5, <1>7, <2>3, Zenon DEF SenderOpened
    <3>2. NewCopy' /\ ErrOnly' /\ AskedZero'
      BY <1>1, <1>4, <2>1, <3>1, WorkingAccount, Zenon
    <3>3. ASSUME ~gone PROVE Tale(answers', moved, Mode, 0, "receiving") /\ Place(0, "receiving")'
      <4>1. PICK n \in Nat, b \in Modes : Tale(answers, moved, Mode, n, b) /\ Place(n, b)
        BY <3>3, Zenon DEF Account, Told
      <4>2. n = 0
        BY <2>1, <4>1, Zenon DEF Place
      <4>3. Tale(Append(answers, o), moved, Mode, Moves(n, b, o.type), Receives(b, o.type))
        BY <1>1, <1>3, <4>1, TaleAppend, Zenon
      <4>4. Moves(n, b, o.type) = 0 /\ Receives(b, o.type) = "receiving"
        BY <1>3, Zenon DEF Moves, Receives, Marks
      <4>5. answers' = Append(answers, o)
        BY <1>1, <1>3, <3>1, <3>3, JoinAppend, Zenon DEF Send
      <4>6. Place(0, "receiving")'
        BY <1>1, <2>1, <3>1, <4>1, <4>2, Zenon DEF Place
      <4> QED
        BY <4>3, <4>4, <4>5, <4>6, Zenon
    <3>4. Mode' = Mode /\ 0 \in Nat /\ "receiving" \in Modes
      BY <1>1, Zenon DEF Mode, Modes
    <3>5. Told'
      BY <1>1, <3>3, <3>4, Zenon DEF Told
    <3> QED
      BY <3>2, <3>5, Zenon DEF Account
  <2> QED
    BY <2>2, <2>3, Zenon
<1>8. CASE SendLine
  <2>1. pc \in SelectPCs /\ pc \in QueryPCs /\ lines' = lines - 1 /\ lines' \in Nat /\ responded' = TRUE /\ UNCHANGED written
    BY <1>1, <1>8 DEF SendLine, Turn, AtWork, SelectPCs, QueryPCs
  <2>2. NewCopy' /\ ErrOnly' /\ AskedZero'
    BY <1>1, <1>4, <1>6, <1>8, <2>1, WorkingAccount
  <2>3. ASSUME ~gone PROVE \E n \in Nat : Tale(answers', moved, Mode, n, "receiving") /\ Place(n, "receiving")'
    <3>1. PICK n \in Nat, b \in Modes : Tale(answers, moved, Mode, n, b) /\ Place(n, b)
      BY <2>3 DEF Account, Told
    <3>2. ASSUME NEW s \in Seq(Answerable), Tale(s, moved, Mode, n, "receiving")
          PROVE  Tale(Append(s, l), moved, Mode, n + 1, "receiving")
      <4>1. Tale(Append(s, l), moved, Mode, Moves(n, "receiving", l.type), Receives("receiving", l.type))
        BY <1>3, <3>2, TaleAppend, Zenon
      <4>2. Moves(n, "receiving", l.type) = n + 1 /\ Receives("receiving", l.type) = "receiving"
        BY <1>3, Zenon DEF Moves, Receives, Marks, Stops
      <4> QED
        BY <4>1, <4>2, Zenon
    <3>3. PICK s \in Seq(Answerable) : Tale(s, moved, Mode, n, "receiving") /\ answers' = Append(s, l)
      <4>1. CASE responded
        <5>1. b = "receiving" /\ answers' = Append(answers, l)
          BY <1>1, <1>3, <1>6, <1>8, <2>1, <2>3, <3>1, <4>1, JoinAppend DEF Place, Send
        <5> QED
          BY <1>1, <3>1, <5>1, Zenon
      <4>2. CASE ~responded
        <5>1. n = 0 /\ answers' = Append(Append(answers, o), l)
          BY <1>1, <1>3, <1>6, <1>8, <2>1, <2>3, <3>1, <4>2, JoinAppend2 DEF Place, Send
        <5>2. Tale(Append(answers, o), moved, Mode, Moves(n, b, o.type), Receives(b, o.type))
          BY <1>1, <1>3, <3>1, TaleAppend
        <5>3. Moves(n, b, o.type) = 0 /\ Receives(b, o.type) = "receiving"
          BY <1>3 DEF Moves, Receives, Marks
        <5>4. Append(answers, o) \in Seq(Answerable)
          BY <1>1, <1>3, AppendAt, Zenon
        <5> QED
          BY <5>1, <5>2, <5>3, <5>4, Zenon
      <4> QED
        BY <4>1, <4>2, Zenon
    <3>4. Tale(answers', moved, Mode, n + 1, "receiving")
      BY <3>2, <3>3, Zenon
    <3>5. n + 1 \in Nat /\ (n + 1) + (lines - 1) = written
      BY <1>1, <2>1, <3>1 DEF Place
    <3>6. Place(n + 1, "receiving")'
      BY <1>1, <2>1, <3>5, Zenon DEF Place, SelectPCs
    <3> QED
      BY <3>4, <3>5, <3>6, Zenon
  <2>4. Mode' = Mode /\ "receiving" \in Modes
    BY <1>1, Zenon DEF Mode, Modes
  <2>5. Told'
    BY <1>1, <2>3, <2>4, Zenon DEF Told
  <2> QED
    BY <2>2, <2>5 DEF Account
<1>9. CASE WriteLine
  <2>1. written' = written + (lines' - lines) /\ lines' \in Nat /\ UNCHANGED <<responded, answers>>
    BY <1>1, <1>9 DEF WriteLine
  <2> QED
    BY <1>2, <2>1, Zenon
<1>10. ASSUME UNCHANGED <<answers, responded, written, lines>> PROVE Account'
  <2>1. written' = written + (lines' - lines) /\ lines' \in Nat
    BY <1>1, <1>10
  <2> QED
    BY <1>2, <1>10, <2>1, Zenon
<1> QED
  BY <1>7, <1>8, <1>9, <1>10, Zenon DEF OutNext, OutFaults, ExecuteOut, MeetOut, WriterDone,
     WriterBroken, WriterMissesPipe,
     WriterFails, WriterReturnsError, SenderDone, SenderFails, ReadFails, SenderReturnsError

LEMMA QueryAccount ==
  ASSUME Turn, Orderly, Orderly', Account, Query PROVE Account'
<1>1. PlainStep /\ copyState' = copyState
  BY QueryPlain, Zenon
<1>2. pc = "receive" /\ out # << >> /\ Head(out).type = "Query" /\ pc' \in AloneGo
  BY QueryGoes, Zenon DEF Query, Receive
<1>3. PICK ms \in Plain : Send(ms)
  BY <1>1, Zenon DEF PlainStep
<1>4. CASE pc' # "query"
  BY <1>1, <1>2, <1>3, <1>4, PlainKeeps, Zenon DEF Account, PlainStep, AloneGo, SelectPCs
<1>5. CASE pc' = "query"
  <2>1. Head(out) = out[1] /\ 1 \in 1 .. Len(out)
    BY <1>2, TailAt DEF Turn, QueuesType
  <2>2. moved = 0 /\ answers = << >> /\ client = "waiting"
    BY <1>2, <2>1, Zenon DEF Account, AskedZero, Orderly, Asked, Asks
  <2>3. answers' = answers
    BY <1>5, FailGoes, Zenon DEF Query
  <2>4. UNCHANGED <<client, moved, gone>> /\ Mode' = Mode
    BY <1>1, Zenon DEF PlainStep, Mode
  <2>5. Tale(<< >>, 0, Mode, 0, Mode) /\ Mode \in Modes /\ 0 \in Nat
    BY TaleEmpty, ModeIn, Zenon
  <2>6. Place(0, Mode)'
    BY <1>5, Zenon DEF Place, SelectPCs
  <2>7. Told'
    BY <2>2, <2>3, <2>4, <2>5, <2>6, Zenon DEF Told
  <2>8. NewCopy' /\ ErrOnly'
    BY <2>2, <2>3, <2>4 DEF NewCopy, ErrOnly
  <2>9. AskedZero'
    BY <2>2, <2>4, Zenon DEF AskedZero
  <2> QED
    BY <2>7, <2>8, <2>9, Zenon DEF Account
<1> QED
  BY <1>4, <1>5, Zenon

(* The socket is closed, on either side.                                   *)
LEMMA GoneAccount ==
  ASSUME Turn, Account, gone' = TRUE, answers' = << >>, UNCHANGED <<client, moved>>,
         NEW m \in Sendable, m.type = "Terminate", out' = out \/ out' = Append(out, m)
  PROVE  Account'
<1>1. Told' /\ NewCopy' /\ ErrOnly'
  BY DEF Told, NewCopy, ErrOnly
<1>2. AskedZero'
  <2>1. CASE out' = out
    BY <2>1, Zenon DEF Account, AskedZero
  <2>2. CASE out' = Append(out, m)
    BY <2>2, AppendAt DEF Account, AskedZero, Turn, QueuesType
  <2> QED
    BY <2>1, <2>2, Zenon
<1> QED
  BY <1>1, <1>2, Zenon DEF Account

LEMMA SendsAccount ==
  ASSUME Turn, Orderly, Account, SendStartup \/ SendQuery \/ SendExtended \/ SendSync,
         UNCHANGED <<handlerVars, outVars, sessionVars>>
  PROVE  Account'
<1>1. UNCHANGED <<answers, gone, pc, copyState, lines, written, responded>>
  BY Zenon DEF handlerVars, outVars, sessionVars
<1>2. PICK m \in Sendable :
        /\ Put(m) /\ moved' \in {moved, 0}
        /\ client \in {"starting", "idle", "batch"} /\ client' \in {"waiting", "batch", "asking"}
        /\ m.type = "Query" => moved' = 0
  BY SendsRequest, Zenon
<1>3. answers = << >> /\ moved' \in Nat /\ pc \notin QueryPCs
  <2>1. answers = << >>
    BY <1>2, Zenon DEF Orderly, Quiet, Starting
  <2>2. moved \in Nat
    BY Zenon DEF Turn, QueuesType
  <2>3. moved' \in Nat
    BY <1>2, <2>2
  <2>4. pc \notin QueryPCs
    BY <1>2, Zenon DEF Orderly, Busy
  <2> QED
    BY <2>1, <2>3, <2>4, Zenon
<1>4. NewCopy' /\ ErrOnly'
  BY <1>1, <1>2, <1>3 DEF NewCopy, ErrOnly
<1>5. AskedZero'
  <2>1. /\ Len(out) \in Nat /\ Len(out') = Len(out) + 1 /\ out'[Len(out) + 1] = m
        /\ \A i \in 1 .. Len(out) : out'[i] = out[i]
    BY <1>2, PutOut, Zenon DEF Turn
  <2>2. ASSUME NEW i \in 1 .. Len(out'), out'[i].type = "Query" PROVE moved' = 0
    <3>1. CASE i \in 1 .. Len(out)
      BY <1>2, <2>1, <2>2, <3>1, Zenon DEF Account, AskedZero
    <3>2. CASE i \notin 1 .. Len(out)
      <4>1. i = Len(out) + 1
        BY <2>1, <3>2
      <4> QED
        BY <1>2, <2>1, <2>2, <4>1, Zenon
    <3> QED
      BY <3>1, <3>2, Zenon
  <2> QED
    BY <2>2, Zenon DEF AskedZero
<1>6. Tale(<< >>, moved', Mode', moved', Mode') /\ Mode' \in Modes
  <2>1. Mode' = "other" /\ "other" \in Modes
    BY <1>2, Zenon DEF Mode, Modes
  <2> QED
    BY <1>3, <2>1, TaleEmpty, Zenon
<1>7. \A n, b : Place(n, b)'
  BY <1>1, <1>3, Zenon DEF Place, QueryPCs, SelectPCs
<1>8. Told'
  BY <1>1, <1>3, <1>6, <1>7, Zenon DEF Told
<1> QED
  BY <1>4, <1>5, <1>8, Zenon DEF Account

LEMMA CopySendsAccount ==
  ASSUME Turn, Orderly, Account, SendCopyData \/ EndCopy,
         UNCHANGED <<handlerVars, outVars, sessionVars>>
  PROVE  Account'
<1>1. /\ UNCHANGED <<answers, gone, pc, copyState>> /\ client = "copying" /\ moved \in Nat
      /\ client' \in {"copying", "waiting"} /\ moved' \in {moved, moved + 1}
  BY Zenon DEF handlerVars, sessionVars, SendCopyData, EndCopy, Turn, QueuesType
<1>2. \A i \in 1 .. Len(answers) : answers[i].type \in {"Error", "Ready"}
  BY <1>1, Zenon DEF Account, ErrOnly
<1>3. NewCopy' /\ ErrOnly'
  BY <1>1, <1>2, Zenon DEF NewCopy, ErrOnly
<1>4. PICK m \in Sendable : Put(m) /\ m.type # "Query"
  BY RequestIn, Zenon DEF SendCopyData, EndCopy, PlainTypes
<1>5. AskedZero'
  <2>1. /\ Len(out) \in Nat /\ Len(out') = Len(out) + 1 /\ out'[Len(out) + 1] = m
        /\ \A i \in 1 .. Len(out) : out'[i] = out[i]
    BY <1>4, PutOut, Zenon DEF Turn
  <2>2. \A i \in 1 .. Len(out) : out[i].type # "Query"
    BY <1>1, Zenon DEF Orderly, Asked, Asks
  <2>3. \A i \in 1 .. Len(out') : out'[i].type # "Query"
    BY <1>4, <2>1, <2>2
  <2> QED
    BY <2>3, Zenon DEF AskedZero
<1>6. moved' \in Nat /\ Mode' = "other" /\ "other" \in Modes
  BY <1>1 DEF Mode, Modes
<1>7. Tale(answers, moved', "other", moved', "other")
  BY <1>2, <1>6, TaleErrors, Zenon DEF Turn, QueuesType
<1>8. \A n, b : Place(n, b)'
  BY <1>1, Zenon DEF Orderly, Busy, Place, QueryPCs, SelectPCs
<1>9. Told'
  BY <1>1, <1>6, <1>7, <1>8, Zenon DEF Told
<1> QED
  BY <1>3, <1>5, <1>9, Zenon DEF Account

LEMMA ReadAccount ==
  ASSUME Turn, Orderly, Account, ReadAnswer PROVE Account'
<1> DEFINE t == answers[1].type
<1>1. /\ answers \in Seq(Answerable) /\ answers # << >> /\ ~gone /\ Head(answers) = answers[1]
      /\ 1 \in 1 .. Len(answers) /\ answers[1] \in Answerable /\ moved \in Nat
  BY TailAt DEF ReadAnswer, Turn, QueuesType
<1>2. t \in ReplyTypes \cup {"Ready", "Encryption", "CopyIn"}
  BY <1>1, Zenon DEF Answerable
<1>3. /\ client' = CASE t = "Ready" -> "idle"
                     [] t = "Encryption" -> "starting"
                     [] t = "CopyIn" -> "copying"
                     [] t = "CopyOut" -> "receiving"
                     [] t \in {"Error", "CopyDone"} /\ client \in {"copying", "receiving"}
                          -> "waiting"
                     [] OTHER -> client
      /\ moved' = CASE t \in {"CopyIn", "CopyOut", "CopyComplete"} -> 0
                    [] t = "Row" /\ client = "receiving" -> moved + 1
                    [] OTHER -> moved
      /\ answers' = << >> \/ (gone' = gone /\ answers' = Tail(answers))
      /\ gone' = gone \/ (gone' = TRUE /\ answers' = << >>)
  <2>1. gone' = (t = "Ready" /\ client \in {"idle", "batch"})
    BY <1>1, Zenon DEF ReadAnswer
  <2>2. answers' = IF gone' THEN << >> ELSE Tail(answers)
    BY Zenon DEF ReadAnswer
  <2>3. gone = FALSE
    BY <1>1, Zenon DEF Turn, QueuesType
  <2>4. /\ answers' = << >> \/ (gone' = gone /\ answers' = Tail(answers))
        /\ gone' = gone \/ (gone' = TRUE /\ answers' = << >>)
    BY <2>1, <2>2, <2>3, Zenon
  <2> QED
    BY <1>1, <2>4, Zenon DEF ReadAnswer
<1>4. UNCHANGED <<out, pc, copyState, lines, written, responded>>
  BY Zenon DEF ReadAnswer, handlerVars, outVars
<1> HIDE DEF t
<1>5. /\ Tail(answers) \in Seq(Answerable) /\ Len(Tail(answers)) = Len(answers) - 1 /\ Len(answers) \in Nat
      /\ \A i \in 1 .. Len(Tail(answers)) : Tail(answers)[i] = answers[i + 1] /\ i + 1 \in 1 .. Len(answers)
  BY <1>1, TailAt, Zenon
<1>6. \A i \in 1 .. Len(answers') : \E j \in 1 .. Len(answers) : j > 1 /\ answers'[i] = answers[j]
  <2>1. CASE answers' = << >>
    BY <2>1
  <2>2. CASE answers' = Tail(answers)
    <3>1. ASSUME NEW i \in 1 .. Len(answers') PROVE \E j \in 1 .. Len(answers) : j > 1 /\ answers'[i] = answers[j]
      <4>1. i + 1 \in 1 .. Len(answers) /\ i + 1 > 1 /\ answers'[i] = answers[i + 1]
        BY <1>5, <2>2
      <4> QED
        BY <4>1, Zenon
    <3> QED
      BY <3>1, Zenon
  <2> QED
    BY <1>3, <2>1, <2>2, Zenon
<1>7. NewCopy'
  BY <1>4, <1>6, Zenon DEF Account, NewCopy
<1>8. AskedZero'
  BY <1>1, <1>4, Zenon DEF AskedZero, Orderly, Asked, Asks
<1>9. ErrOnly'
  <2> SUFFICES ASSUME client' = "copying" PROVE ErrOnly'
    BY Zenon DEF ErrOnly
  <2>1. CASE client = "copying"
    BY <1>6, <2>1, Zenon DEF Account, ErrOnly
  <2>2. CASE t = "CopyIn"
    <3>1. Len(answers) = 1
      BY <1>1, <2>2, Zenon DEF Orderly, CopyInLast, t
    <3>2. \A i \in 1 .. Len(answers') : FALSE
      BY <1>6, <3>1
    <3> QED
      BY <3>2, Zenon DEF ErrOnly
  <2> QED
    BY <1>2, <1>3, <2>1, <2>2, Zenon
<1>10. Told'
  <2> SUFFICES ASSUME ~gone' PROVE Told'
    BY Zenon DEF Told
  <2>1. PICK n \in Nat, b \in Modes : Tale(answers, moved, Mode, n, b) /\ Place(n, b)
    BY <1>1, Zenon DEF Account, Told
  <2>2. Tale(Tail(answers), Moves(moved, Mode, t), Receives(Mode, t), n, b)
    BY <1>1, <2>1, TaleTail, Zenon DEF t
  <2>3. moved' = Moves(moved, Mode, t)
    BY <1>2, <1>3, Zenon DEF Moves, Marks, Mode
  <2>4. Mode' = Receives(Mode, t)
    BY <1>2, <1>3, Zenon DEF Receives, Stops, Mode, ReplyTypes
  <2>5. Tale(answers', moved', Mode', n, b)
    <3>1. CASE answers' = Tail(answers)
      BY <2>2, <2>3, <2>4, <3>1, Zenon
    <3> QED
      BY <1>1, <1>3, <3>1, Zenon DEF ReadAnswer
  <2>6. Place(n, b)'
    BY <1>4, <2>1, Zenon DEF Place
  <2> QED
    BY <2>5, <2>6, Zenon DEF Told
<1> QED
  BY <1>7, <1>8, <1>9, <1>10, Zenon DEF Account

-----------------------------------------------------------------------------
(* All steps *)

Books == Pipes /\ (InStep => Counted /\ Account)

LEMMA InitBooks == ASSUME Init PROVE Books
<1>1. Turn /\ pc = "startup" /\ client = "starting" /\ out = << >> /\ answers = << >> /\ moved = 0
  BY InitTurn, Zenon DEF Init, SessionInit
<1>2. Pipes
  BY Zenon DEF Init, LoaderInit, OutInit, Pipes, PipeEnds, OutEnds
<1>3. \A i \in 1 .. Len(out) : FALSE
  BY <1>1
<1>4. \A i \in 1 .. Len(answers) : FALSE
  BY <1>1
<1>5. Counted
  BY <1>1, <1>3, Zenon DEF Counted, Sending, InCopy
<1>6. NewCopy /\ ErrOnly /\ AskedZero
  BY <1>3, <1>4, Zenon DEF NewCopy, ErrOnly, AskedZero
<1>7. Tale(<< >>, 0, Mode, 0, Mode) /\ Mode \in Modes /\ 0 \in Nat
  BY TaleEmpty, ModeIn, Zenon
<1>8. \A n, b : Place(n, b)
  BY <1>1, Zenon DEF Place, SelectPCs
<1>9. Told
  BY <1>1, <1>7, <1>8, Zenon DEF Told
<1> QED
  BY <1>2, <1>5, <1>6, <1>9, Zenon DEF Books, Account

LEMMA EndNotes ==
  ASSUME NEW ms, NEW o, EndOfMessages(ms, o) \/ QueryFails(o) \/ Done(ms, o) PROVE odd \subseteq odd'
  BY Zenon DEF EndOfMessages, QueryFails, Done, Answer, Note

LEMMA CopyOutEndsNotes == ASSUME CopyOutEnds PROVE odd \subseteq odd'
  BY EndNotes, Zenon DEF CopyOutEnds

LEMMA OddGrows == ASSUME Turn, HandlerNext PROVE odd \subseteq odd'
<1>0. waitForSync \in BOOLEAN
  BY Zenon DEF Turn, QueuesType, HandlerType
<1>1. CASE handleStartup \/ Discard \/ Sync \/ Hangup
  BY <1>1, StartPlain, Zenon DEF PlainStep
<1>2. CASE Parse \/ Describe \/ Bind \/ Execute \/ Close \/ Flush
  BY <1>2, ExtendedPlain, Zenon DEF PlainStep
<1>3. CASE Query \/ Run \/ Deallocate
  BY <1>3, QueryPlain, Zenon DEF PlainStep
<1>4. CASE CopyData \/ LoaderReady \/ LoadChunk \/ CopyDone
  BY <1>4, CopyPlain, Zenon DEF PlainStep
<1>5. CASE CopyFromStdin
  BY <1>5, EndNotes, Zenon DEF CopyFromStdin, Answer, Note
<1>6. CASE CopyToStdout \/ UnblockSender
  BY <1>6, CopyOutEndsNotes, Zenon DEF CopyToStdout, UnblockSender
<1>7. CASE Select
  BY <1>7, CopyOutEndsNotes, EndNotes, Zenon DEF Select, Note
<1>8. CASE Finish
  BY <1>0, <1>8, EndNotes, PlainFail, Zenon DEF Finish
<1>9. CASE CopyFail
  BY <1>9, EndNotes, Zenon DEF CopyFail
<1>10. CASE CloseConnection
  BY <1>10, Zenon DEF CloseConnection
<1> QED
  BY <1>1, <1>2, <1>3, <1>4, <1>5, <1>6, <1>7, <1>8, <1>9, <1>10, Zenon DEF HandlerNext

LEMMA PlainAccount ==
  ASSUME Turn, Orderly', Account, PlainStep, copyState'.loader => copyState.loader \/ pc' # "receive",
         pc' \notin SelectPCs, pc' = "query" => pc = "query"
  PROVE  Account'
<1>1. PICK ms \in Plain : Send(ms)
  BY Zenon DEF PlainStep
<1> QED
  BY <1>1, PlainKeeps, Zenon DEF Account, PlainStep

LEMMA HandlerBooks ==
  ASSUME Turn, Turn', Books, InStep', HandlerNext PROVE Counted' /\ Account'
<1>1. InStep /\ QueuesType /\ Orderly /\ Orderly' /\ Counted /\ Account /\ Pipes
  BY OddGrows, InStepBefore, Zenon DEF Turn, Books
<1>2. ASSUME PlainStep, UNCHANGED copyState, pc' \in AloneGo, pc' = "query" => pc = "query" PROVE Account'
  BY <1>1, <1>2, PlainAccount, Zenon DEF AloneGo, SelectPCs
<1>3. ASSUME PlainStep, UNCHANGED copyState, pc \in {"startup", "discard"} \cup QueryPCs, pc' \in AloneGo
      PROVE  Counted'
  BY <1>1, <1>3, CountedElsewhere, Zenon DEF PlainStep, AloneGo
<1>4. ASSUME NEW t, t \notin CopyTypes \cup {"Terminate"}, Receive(t), PlainStep, UNCHANGED copyState,
             pc' \in AloneGo
      PROVE  Counted'
  BY <1>1, <1>4, CountedOther, Zenon DEF PlainStep, Receive, AloneGo
<1>5. CASE handleStartup \/ Discard
  <2>1. PlainStep /\ UNCHANGED copyState /\ pc' \in AloneGo \ {"query"}
    BY <1>5, StartPlain, StartGoes, Zenon
  <2>2. pc \in {"startup", "discard"}
    BY <1>5, Zenon DEF handleStartup, Discard
  <2> QED
    BY <1>2, <1>3, <2>1, <2>2, Zenon
<1>6. CASE Sync
  <2>1. PlainStep /\ UNCHANGED copyState /\ pc' \in AloneGo \ {"query"}
    BY <1>6, StartPlain, StartGoes, Zenon
  <2>2. Receive("Sync")
    BY <1>6, Zenon DEF Sync
  <2> QED
    BY <1>2, <1>4, <2>1, <2>2, Zenon DEF CopyTypes
<1>7. CASE Hangup
  <2>1. PlainStep /\ UNCHANGED copyState /\ pc' = "closing"
    BY <1>7, StartPlain, StartGoes, Zenon DEF Hangup
  <2> QED
    BY <1>2, <2>1, Zenon DEF Counted, AloneGo
<1>8. CASE CloseConnection
  <2> DEFINE m == Request("Terminate", "", "", << >>)
  <2>1. m \in Sendable /\ m.type = "Terminate"
    BY RequestIn, Zenon DEF PlainTypes
  <2>2. pc' = "closed" /\ gone' = TRUE /\ answers' = << >> /\ UNCHANGED <<client, moved, out>>
    BY <1>8, Zenon DEF CloseConnection
  <2> HIDE DEF m
  <2>3. Account'
    BY <1>1, <2>1, <2>2, GoneAccount, Zenon
  <2> QED
    BY <2>2, <2>3, Zenon DEF Counted
<1>9. CASE Parse \/ Describe \/ Bind \/ Execute \/ Close \/ Flush
  <2>1. PICK t \in BatchTypes : Receive(t)
    BY <1>9, ExtendedPlain, Zenon
  <2>2. t \notin CopyTypes \cup {"Terminate"}
    BY Zenon DEF BatchTypes, CopyTypes
  <2>3. PlainStep /\ UNCHANGED copyState /\ pc' \in AloneGo \ {"query"}
    BY <1>9, ExtendedPlain, ExtendedGoes, Zenon
  <2> QED
    BY <1>2, <1>4, <2>1, <2>2, <2>3, Zenon
<1>10. CASE Query
  <2>1. Receive("Query")
    BY <1>10, Zenon DEF Query
  <2>2. PlainStep /\ UNCHANGED copyState /\ pc' \in AloneGo
    BY <1>10, QueryPlain, QueryGoes, Zenon
  <2> QED
    BY <1>1, <1>4, <1>10, <2>1, <2>2, QueryAccount DEF CopyTypes
<1>11. CASE Run \/ Deallocate
  <2>1. PlainStep /\ UNCHANGED copyState /\ pc' \in AloneGo
    BY <1>11, QueryPlain, QueryGoes, Zenon
  <2>2. pc = "query"
    BY <1>11, Zenon DEF Run, Deallocate, Statement
  <2> QED
    BY <1>2, <1>3, <2>1, <2>2, Zenon DEF QueryPCs
<1>12. CASE CopyFromStdin
  <2>1. pc = "query" /\ UNCHANGED <<client, out>> /\ pc' \in AloneGo
    BY <1>12, QueryGoes, Zenon DEF CopyFromStdin, Statement, UnchangedByMessage
  <2>2. Only({}) /\ client # "copying"
    BY <1>1, <2>1, Zenon DEF Orderly, Busy, QueryPCs
  <2>3. ~InCopy'
    BY <2>1, <2>2, Zenon DEF InCopy, Only, CopyTypes
  <2>4. Counted'
    BY <2>1, <2>3, CountedNone, Zenon DEF AloneGo
  <2> QED
    BY <1>1, <1>12, <2>4, CopyFromStdinAccount, Zenon
<1>13. CASE CopyToStdout \/ Select \/ UnblockSender
  <2>1. UNCHANGED <<client, out, copyState>> /\ pc \in QueryPCs
    BY <1>13, Zenon DEF CopyToStdout, Select, UnblockSender, UnchangedByCopyOut, Statement,
       QueryPCs
  <2>2. pc' \notin {"ready", "load", "finish", "rows"}
    BY <1>13, CopyOutEndsGoes, EndGoes, Zenon DEF CopyToStdout, Select, UnblockSender
  <2>3. Counted'
    BY <1>1, <2>1, <2>2, CountedElsewhere
  <2> QED
    BY <1>1, <1>13, <2>3, CopyOutAccount, Zenon
<1>14. CASE CopyData \/ LoaderReady \/ LoadChunk \/ CopyDone
  <2>1. Counted'
    BY <1>1, <1>14, CopyDataCounted, LoadCounted, EndCounted
  <2>2. Account'
    BY <1>1, <1>14, CopyPlain, PlainAccount, Zenon DEF QueryPCs, SelectPCs
  <2> QED
    BY <2>1, <2>2, Zenon
<1>15. CASE Finish
  BY <1>1, <1>15, EndCounted, FinishAccount, Zenon
<1>16. CASE CopyFail
  <2>1. "CopyFail" \in odd'
    BY <1>16, Zenon DEF CopyFail, EndOfMessages, Answer, Note
  <2> QED
    BY <2>1, OutOfStep, Zenon
<1> QED
  BY <1>5, <1>6, <1>7, <1>8, <1>9, <1>10, <1>11, <1>12, <1>13, <1>14, <1>15, <1>16, Zenon
     DEF HandlerNext

LEMMA ClientBooks ==
  ASSUME Turn, Turn', Books, InStep', ClientNext PROVE Counted' /\ Account'
<1>1. UNCHANGED odd /\ UNCHANGED handlerVars
  BY Zenon DEF ClientNext, ReadAnswer, Leave, handlerVars
<1>2. InStep /\ Orderly /\ Orderly' /\ Counted /\ Account
  BY <1>1, InStepBefore, Zenon DEF Turn, Books
<1>3. ASSUME SendStartup \/ SendQuery \/ SendExtended \/ SendSync,
             UNCHANGED <<handlerVars, loaderVars, outVars, sessionVars>>
      PROVE  Counted' /\ Account'
  <2>1. PICK m \in Sendable :
          /\ Put(m) /\ m.type \notin CopyTypes \cup {"Terminate"}
          /\ client \in {"starting", "idle", "batch"} /\ client' \in {"waiting", "batch", "asking"}
    BY <1>3, SendsRequest, Zenon
  <2>2. client' # "copying" /\ UNCHANGED pc
    BY <1>3, <2>1, Zenon DEF handlerVars
  <2>3. Counted'
    BY <1>2, <2>1, <2>2, RequestCounted, Zenon
  <2> QED
    BY <1>2, <1>3, <2>3, SendsAccount, Zenon
<1>4. ASSUME SendCopyData \/ EndCopy, UNCHANGED <<handlerVars, loaderVars, outVars, sessionVars>>
      PROVE  Counted' /\ Account'
  BY <1>2, <1>4, CopySendsCounted, CopySendsAccount, Zenon
<1>5. CASE ReadAnswer
  BY <1>2, <1>5, ReadCounted, ReadAccount, Zenon DEF Account
<1>6. CASE Leave
  <2> DEFINE m == Request("Terminate", "", "", << >>)
  <2>1. m \in Sendable /\ m.type = "Terminate"
    BY RequestIn, Zenon DEF PlainTypes
  <2>2. out' = out \/ out' = Append(out, m)
    BY <1>6, Zenon DEF Leave
  <2>3. gone' = TRUE /\ answers' = << >> /\ UNCHANGED <<client, moved, pc, copyState, unread, got>>
    BY <1>6, Zenon DEF Leave, handlerVars, loaderVars
  <2>4. Carried' = Carried
    BY <2>3, Zenon DEF Carried
  <2> HIDE DEF m
  <2> QED
    BY <1>2, <2>1, <2>2, <2>3, <2>4, GoneAccount, CountedSame
<1> QED
  BY <1>3, <1>4, <1>5, <1>6, Zenon DEF ClientNext

LEMMA GoroutinesBooks ==
  ASSUME Turn, Turn', Books, InStep', Goroutines PROVE Counted' /\ Account'
<1>1. UNCHANGED <<clientVars, handlerVars>>
  BY Zenon DEF Goroutines
<1>2. InStep /\ Orderly /\ Counted /\ Account /\ Pipes
  BY <1>1, InStepBefore, Zenon DEF Turn, Books, handlerVars
<1> DEFINE m == Request("Terminate", "", "", << >>)
<1>3. m \in Sendable /\ m.type = "Terminate"
  BY RequestIn, Zenon DEF PlainTypes
<1> HIDE DEF m
<1>4. CASE (LoaderNext \/ LoaderFaults) /\ UNCHANGED outVars
  <2>1. Carried' = Carried /\ UNCHANGED <<client, moved, pc, copyState, out, answers, gone>>
    BY <1>1, <1>4, LoaderCarries, Zenon
  <2>2. UNCHANGED <<lines, written, responded>>
    BY <1>4, Zenon DEF outVars
  <2>3. Account'
    BY <1>2, <2>1, <2>2, Zenon DEF Account, NewCopy, ErrOnly, AskedZero, Told, Place, Mode
  <2> QED
    BY <1>2, <1>3, <2>1, <2>3, CountedSame
<1>5. CASE (OutNext \/ OutFaults) /\ UNCHANGED loaderVars
  <2>1. UNCHANGED <<client, moved, pc, copyState, out, unread, got>>
    BY <1>1, <1>5, Zenon DEF clientVars, handlerVars, loaderVars
  <2>2. Carried' = Carried
    BY <2>1, Zenon DEF Carried
  <2> QED
    BY <1>1, <1>2, <1>3, <1>5, <2>1, <2>2, CountedSame, OutAccount
<1> QED
  BY <1>4, <1>5, Zenon DEF Goroutines

LEMMA NextBooks == ASSUME Turn, Turn', Books, [Next]_vars PROVE Books'
<1>1. Pipes'
  BY NextPipes, Zenon DEF Books
<1>2. CASE UNCHANGED vars
  BY <1>1, <1>2, Zenon DEF Books, InStep, Counted, Account, NewCopy, ErrOnly, AskedZero, Told,
     Place, Mode, Sending,
     InCopy, Errs, Coming, InHand, Carried, vars, sessionVars, clientVars, handlerVars, loaderVars, outVars
<1> QED
  BY <1>1, <1>2, HandlerBooks, ClientBooks, GoroutinesBooks, Zenon DEF Books, Next

LEMMA BooksCount == ASSUME Turn, Books PROVE CopyCounts
<1> SUFFICES ASSUME InStep, answers # << >>, Head(answers).type = "CopyComplete"
             PROVE  Head(answers).n = moved
  BY Zenon DEF CopyCounts
<1>1. answers \in Seq(Answerable) /\ ~gone /\ Head(answers) = answers[1]
  BY TailAt, Zenon DEF Turn, QueuesType, Silent
<1>2. PICK n \in Nat, b \in Modes : Tale(answers, moved, Mode, n, b)
  BY <1>1, Zenon DEF Books, Account, Told
<1> QED
  BY <1>1, <1>2, TaleTail, Zenon

(* The n of COPY n, which handleCopyDone and handleCopyToStdout send, is   *)
(* what the client has sent or received since the COPY began, whatever     *)
(* other statements are in its query and whatever fails, for every number  *)
(* of chunks, rows and statements.                                         *)
THEOREM CopyCountsRight == ASSUME CopyEndsQuery PROVE Spec => []CopyCounts
<1>1. Init => Turn /\ Books
  BY InitTurn, InitBooks, Zenon
<1>2. Turn /\ Books /\ [Next]_vars => Turn' /\ Books'
  BY NextTurn, NextBooks, Zenon
<1>3. Turn /\ Books => CopyCounts
  BY BooksCount, Zenon
<1> QED
  BY <1>1, <1>2, <1>3, PTL DEF Spec

(* Only the reader's Commit makes rows visible.                            *)
LEMMA OnlyCommit ==
  ASSUME Turn, [Next]_vars PROVE stored' \in {stored, 0} \/ Commit
<1>1. CASE ClientNext \/ UNCHANGED vars
  BY <1>1, Zenon DEF ClientNext, ReadAnswer, Leave, vars, loaderVars
<1>2. CASE HandlerNext
  <2>1. CASE handleStartup \/ Discard \/ Sync \/ Hangup \/ CloseConnection
    BY <2>1, StartGoes, Zenon DEF loaderVars
  <2>2. CASE Parse \/ Describe \/ Bind \/ Execute \/ Close \/ Flush
    BY <2>2, ExtendedGoes, Zenon DEF loaderVars
  <2>3. CASE Query \/ Run \/ Deallocate \/ CopyFromStdin
    BY <2>3, QueryGoes, Zenon DEF loaderVars
  <2>4. CASE CopyToStdout \/ Select \/ UnblockSender
    BY <2>4, Zenon DEF CopyToStdout, Select, UnblockSender, UnchangedByCopyOut, loaderVars
  <2>5. CASE CopyData \/ LoaderReady \/ CopyFail
    BY <2>5, Zenon DEF CopyData, LoaderReady, CopyFail, Start, loaderVars
  <2>6. CASE LoadChunk
    BY <2>6, Zenon DEF LoadChunk, Write, Break, ClosePipe, loaderVars
  <2>7. CASE CopyDone \/ Finish
    BY <2>7, Zenon DEF CopyDone, Finish, ClosePipe, Drop, loaderVars
  <2> QED
    BY <1>2, <2>1, <2>2, <2>3, <2>4, <2>5, <2>6, <2>7, Zenon DEF HandlerNext
<1>3. CASE Goroutines
  <2>1. CASE LoaderNext
    BY <2>1, Zenon DEF LoaderNext, ExecuteCopy, Meet, Read, ReaderReports, Unblock, Collect,
       Opened, Check
  <2>2. CASE LoaderFaults
    BY <2>2, Zenon DEF LoaderFaults, ReaderFails, UnblockFails
  <2>3. CASE UNCHANGED loaderVars
    BY <2>3, Zenon DEF loaderVars
  <2> QED
    BY <1>3, <2>1, <2>2, <2>3, Zenon DEF Goroutines
<1> QED
  BY <1>1, <1>2, <1>3, Zenon DEF Next

LEMMA BooksWhole ==
  ASSUME Turn, Books, [Next]_vars, InStep, stored' > stored
  PROVE  client # "copying" /\ stored' = moved
<1>1. stored \in Nat /\ Orderly /\ Counted /\ Pipes
  BY Zenon DEF Turn, QueuesType, HandlerType, Books
<1>2. Commit
  BY <1>1, OnlyCommit
<1>3. pc = "rows" /\ unread = 0 /\ stored' = got
  BY <1>1, <1>2, Zenon DEF Commit, Pipes, PipeEnds
<1> QED
  BY <1>1, <1>3, RowsRead DEF Orderly, Busy, EndPCs

(* COPY FROM STDIN is all or nothing: what DuckDB's statement makes        *)
(* visible is every chunk the client has sent in this COPY, and only after *)
(* the client has ended it, whatever the reader, the opener of the pipe    *)
(* and the handler do between them and whatever fails.                     *)
THEOREM CopyAllOrNothing == ASSUME CopyEndsQuery PROVE Spec => CopyWhole
<1>1. Init => Turn /\ Books
  BY InitTurn, InitBooks
<1>2. Turn /\ Books /\ [Next]_vars => Turn' /\ Books'
  BY NextTurn, NextBooks
<1>3. Turn /\ Books /\ [Next]_vars =>
        [InStep /\ stored' > stored => client # "copying" /\ stored' = moved]_vars
  BY BooksWhole, Zenon
<1> QED
  BY <1>1, <1>2, <1>3, PTL DEF Spec, CopyWhole
=============================================================================
