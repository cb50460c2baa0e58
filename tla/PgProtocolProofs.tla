-------------------------- MODULE PgProtocolProofs --------------------------
(***************************************************************************)
(* One ReadyForQuery per request (OneReady of PgProtocol), for queries of  *)
(* any length, results and pipes of any size, and any number of messages   *)
(* and faults.                                                             *)
(*                                                                         *)
(* The inductive invariant, Turn, says whose turn it is.  A request that   *)
(* will be answered is the last thing on its way to the handler and the    *)
(* client waits for it (Asked); while the handler is in a query or loads a *)
(* chunk the client sends nothing else (Busy); ReadyForQuery is the last   *)
(* answer and the handler has left the query (ReadyLast); the client is    *)
(* let into a COPY FROM by the last answer only (CopyInLast), and what it  *)
(* sends there is not answered before it ends or fails (Copying).  All of  *)
(* it holds while the two are in step (InStep); Silent, LastWord, AtWork   *)
(* and Todo hold always.                                                   *)
(***************************************************************************)
EXTENDS PgProtocol, TLAPS

(* What the client can send and the handler can answer.                    *)
PlainTypes == {"Startup", "EncryptionRequest", "CancelRequest", "Sync", "CopyData",
               "CopyDone", "CopyFail", "Terminate"}
Sendable == Extended \cup {Simple(q) : q \in Queries}
              \cup {Request(t, "", "", << >>) : t \in PlainTypes}
ReplyTypes == {"Error", "CopyOut", "Row", "CopyDone", "CopyComplete"}
Answerable == [type : ReplyTypes \cup {"Ready", "Encryption", "CopyIn"}, n : Nat]
CopyStates == [active : BOOLEAN, loader : BOOLEAN, copyErr : BOOLEAN]

HandlerType ==
  /\ todo \in Seq(Statements) /\ copyState \in CopyStates /\ waitForSync \in BOOLEAN
  /\ unread \in Nat /\ got \in Nat /\ stored \in Nat

QueuesType ==
  /\ out \in Seq(Sendable) /\ answers \in Seq(Answerable) /\ gone \in BOOLEAN
  /\ rows \in Nat /\ lines \in Nat /\ written \in Nat /\ moved \in Nat
  /\ HandlerType

QueryPCs == {"query", "select", "unblock", "release"}
LoadPCs == {"ready", "load", "abort"}
EndPCs == {"finish", "rows"}
BusyPCs == QueryPCs \cup LoadPCs \cup EndPCs
StartPCs == {"startup", "closing", "closed"}
CopyTypes == {"CopyData", "CopyDone", "CopyFail"}
Asks == {"Query", "Sync", "Startup"}
Errs == copyState.copyErr

(* Whatever else is on its way to the handler, Terminate is the end.       *)
Only(S) == \A i \in 1 .. Len(out) : out[i].type \in S \cup {"Terminate"}
Ends(i) == \A j \in 1 .. Len(out) : j > i => out[j].type = "Terminate"

Silent == gone => answers = << >>

LastWord == \A i \in 1 .. Len(out) : out[i].type = "Terminate" => gone

(* A request for an answer that ends with ReadyForQuery.                   *)
Asked == \A i \in 1 .. Len(out) :
  out[i].type \in Asks => client = "waiting" /\ answers = << >> /\ Ends(i)

Starting ==
  /\ client = "starting" => answers = << >> /\ Only({}) /\ pc \in StartPCs
  /\ client = "asking" => pc \in StartPCs
  /\ \A i \in 1 .. Len(out) : out[i].type = "EncryptionRequest" =>
       client = "asking" /\ answers = << >> /\ Ends(i)
  /\ \A i \in 1 .. Len(answers) : answers[i].type = "Encryption" =>
       client = "asking" /\ Len(answers) = 1 /\ Only({})
  /\ client = "asking" => \A i \in 1 .. Len(answers) : answers[i].type = "Encryption"

Busy ==
  /\ pc \in QueryPCs \cup EndPCs => Only({}) /\ client \in {"waiting", "receiving"}
  /\ pc \in EndPCs => client = "waiting"
  /\ pc \in LoadPCs \cup EndPCs => ~Errs /\ answers = << >>
  /\ pc \in LoadPCs => client \in {"copying", "waiting"} /\ Only(CopyTypes)

Quiet == client \in {"idle", "batch"} => answers = << >>

InCopy == client = "copying" \/ \E i \in 1 .. Len(out) : out[i].type \in CopyTypes

ReadyLast == \A i \in 1 .. Len(answers) : answers[i].type = "Ready" =>
  i = Len(answers) /\ pc \notin BusyPCs /\ (InCopy => Errs)

CopyInLast == \A i \in 1 .. Len(answers) : answers[i].type = "CopyIn" =>
  /\ i = Len(answers) /\ client \in {"waiting", "receiving"}
  /\ out = << >> /\ pc = "receive" /\ ~Errs

Copying == ~Errs =>
  /\ client = "copying" => answers = << >> /\ Only({"CopyData"})
  /\ \A i \in 1 .. Len(out) : out[i].type \in CopyTypes =>
       /\ client \in {"copying", "waiting"} /\ answers = << >> /\ Only(CopyTypes)
       /\ out[i].type # "CopyData" => client = "waiting" /\ Ends(i)

(* The goroutine of COPY TO does not outlive its statement.                *)
AtWork == sender \in {"opening", "opened", "reading"} => pc \in {"select", "unblock", "release"}

LastIn(q) == \A i \in 1 .. Len(q) - 1 : q[i] # "copyin"
Todo == pc \in QueryPCs => todo # << >> /\ LastIn(todo)

(* The hypothesis: a COPY FROM STDIN is the last statement of its query.   *)
(* After another one the loop of handleQuery goes on with the next         *)
(* statement while the client is already in the COPY.                      *)
CopyEndsQuery == \A q \in Queries : LastIn(q)

Orderly == Asked /\ Starting /\ Busy /\ Quiet /\ ReadyLast /\ CopyInLast /\ Copying
Turn == QueuesType /\ Silent /\ LastWord /\ AtWork /\ Todo /\ (InStep => Orderly)

-----------------------------------------------------------------------------
(* Sequences and messages *)

LEMMA TailAt ==
  ASSUME NEW S, NEW s \in Seq(S), s # << >>
  PROVE  /\ Tail(s) \in Seq(S) /\ Len(s) \in Nat /\ Len(s) >= 1
         /\ Len(Tail(s)) = Len(s) - 1 /\ Head(s) = s[1] /\ s[1] \in S
         /\ \A i \in 1 .. Len(Tail(s)) : Tail(s)[i] = s[i + 1] /\ i + 1 \in 1 .. Len(s)
  OBVIOUS

LEMMA JoinAt ==
  ASSUME NEW S, NEW s \in Seq(S), NEW t \in Seq(S)
  PROVE  /\ s \o t \in Seq(S) /\ Len(s \o t) = Len(s) + Len(t)
         /\ Len(s) \in Nat /\ Len(t) \in Nat
         /\ \A i \in 1 .. Len(s) : (s \o t)[i] = s[i]
         /\ \A i \in Len(s) + 1 .. Len(s) + Len(t) : (s \o t)[i] = t[i - Len(s)]
  OBVIOUS

LEMMA AppendAt ==
  ASSUME NEW S, NEW s \in Seq(S), NEW e \in S
  PROVE  /\ Append(s, e) \in Seq(S) /\ Len(Append(s, e)) = Len(s) + 1 /\ Len(s) \in Nat
         /\ \A i \in 1 .. Len(s) : Append(s, e)[i] = s[i]
         /\ Append(s, e)[Len(s) + 1] = e
  OBVIOUS

LEMMA EmptyAt == ASSUME NEW S, NEW s \in Seq(S) PROVE s = << >> <=> Len(s) = 0
  OBVIOUS

LEMMA MsgIn ==
  /\ \A t \in ReplyTypes \cup {"Ready", "Encryption", "CopyIn"} :
       Msg(t) \in Answerable /\ Msg(t).type = t
  /\ \A t \in ReplyTypes, k \in Nat : Count(t, k) \in Answerable /\ Count(t, k).type = t
                                      /\ Count(t, k).n = k
  BY Zenon DEF Msg, Count, Answerable

LEMMA RequestIn ==
  /\ \A t \in PlainTypes : Request(t, "", "", << >>) \in Sendable
                           /\ Request(t, "", "", << >>).type = t
  /\ \A q \in Queries : Simple(q) \in Sendable /\ Simple(q).type = "Query" /\ Simple(q).query = q
  BY Zenon DEF Sendable, Request, Simple

LEMMA SentTypes ==
  ASSUME NEW m \in Sendable
  PROVE  /\ m.type = "Query" => m.query \in Queries
         /\ m \in Extended => m.type \notin PlainTypes \cup {"Query"}
<1>1. m \in Extended => m.type \notin PlainTypes \cup {"Query"}
  BY ClientAssumption, Zenon DEF PlainTypes
<1>2. ASSUME NEW q \in Queries, m = Simple(q) PROVE m.query \in Queries
  BY <1>2, Zenon DEF Simple, Request
<1>3. ASSUME NEW t \in PlainTypes, m = Request(t, "", "", << >>) PROVE m.type # "Query"
  BY <1>3, Zenon DEF Request, PlainTypes
<1> QED
  BY <1>1, <1>2, <1>3, Zenon DEF Sendable

-----------------------------------------------------------------------------
(* The queues in a step *)

LEMMA PopOut ==
  ASSUME QueuesType, out # << >>, out' = Tail(out)
  PROVE  /\ out' \in Seq(Sendable) /\ Len(out) \in Nat /\ Len(out) >= 1
         /\ Len(out') = Len(out) - 1 /\ Head(out) = out[1] /\ out[1] \in Sendable
         /\ \A i \in 1 .. Len(out') : out'[i] = out[i + 1] /\ i + 1 \in 1 .. Len(out)
  BY TailAt, Zenon DEF QueuesType

LEMMA PutOut ==
  ASSUME QueuesType, NEW m \in Sendable, Put(m)
  PROVE  /\ ~gone /\ out' \in Seq(Sendable) /\ Len(out) \in Nat
         /\ Len(out') = Len(out) + 1 /\ out'[Len(out) + 1] = m
         /\ \A i \in 1 .. Len(out) : out'[i] = out[i]
  BY AppendAt DEF QueuesType, Put

LEMMA SendAt ==
  ASSUME QueuesType, Silent, NEW ms \in Seq(Answerable), Send(ms)
  PROVE  /\ answers' \in Seq(Answerable) /\ Len(answers) \in Nat /\ Len(ms) \in Nat
         /\ gone => answers' = << >>
         /\ ~gone => /\ Len(answers') = Len(answers) + Len(ms)
                     /\ \A i \in 1 .. Len(answers) : answers'[i] = answers[i]
                     /\ \A i \in Len(answers) + 1 .. Len(answers') : answers'[i] = ms[i - Len(answers)]
  BY JoinAt DEF QueuesType, Silent, Send

(* A message is taken, or the handler goes on, without an answer.          *)
LEMMA NoAnswer ==
  ASSUME QueuesType, Orderly, UNCHANGED <<client, answers, copyState>>,
         \/ out # << >> /\ out' = Tail(out)
         \/ out' = out /\ answers = << >>,
         pc' \notin BusyPCs, pc \in StartPCs => pc' \in StartPCs
  PROVE  Orderly'
<1>1. \E d \in {0, 1} : /\ Len(out') = Len(out) - d
                        /\ \A i \in 1 .. Len(out') : out'[i] = out[i + d] /\ i + d \in 1 .. Len(out)
  <2>1. CASE out # << >> /\ out' = Tail(out)
    BY <2>1, PopOut, Zenon
  <2>2. CASE out' = out
    BY <2>2 DEF QueuesType
  <2> QED
    BY <2>1, <2>2, Zenon
<1>2. PICK d \in {0, 1} : /\ Len(out') = Len(out) - d
                          /\ \A i \in 1 .. Len(out') : out'[i] = out[i + d] /\ i + d \in 1 .. Len(out)
  BY <1>1, Zenon
<1>3. Len(out) \in Nat /\ Len(out') \in Nat /\ (out = << >> <=> Len(out) = 0)
  BY <1>2, EmptyAt DEF QueuesType
<1>4. \A S : Only(S) => Only(S)'
  BY <1>2, Zenon DEF Only
<1>5. \A i \in 1 .. Len(out') : Ends(i + d) => Ends(i)'
  BY <1>2, <1>3 DEF Ends
<1>6. Asked'
  BY <1>2, <1>5, Zenon DEF Orderly, Asked
<1>7. Starting'
  BY <1>2, <1>4, <1>5, Zenon DEF Orderly, Starting
<1>8. Busy' /\ Quiet'
  BY Zenon DEF Orderly, Busy, Quiet, BusyPCs
<1>9. ReadyLast'
  BY <1>2, Zenon DEF Orderly, ReadyLast, InCopy, Errs
<1>10. CopyInLast'
  BY EmptyAt DEF Orderly, CopyInLast, QueuesType
<1>11. Copying'
  BY <1>2, <1>4, <1>5, Zenon DEF Orderly, Copying, Errs
<1> QED
  BY <1>6, <1>7, <1>8, <1>9, <1>10, <1>11, Zenon DEF Orderly


(* What ends with at most one ReadyForQuery, and holds nothing else that   *)
(* changes what the client does next.                                      *)
Reply(ms) ==
  /\ ms \in Seq(Answerable)
  /\ \A i \in 1 .. Len(ms) : ms[i].type \in ReplyTypes \/ (ms[i].type = "Ready" /\ i = Len(ms))

(* A request is answered: no other is on its way, or the client is in a    *)
(* COPY that has failed.                                                   *)
LEMMA Replies ==
  ASSUME QueuesType, Silent, NEW ms, Reply(ms), Send(ms), gone' = gone, client' = client,
         client \in {"waiting", "receiving", "copying"},
         \A i \in 1 .. Len(answers) : answers[i].type \in ReplyTypes,
         Only(CopyTypes)', Errs' \/ (Only({})' /\ client # "copying"),
         pc' \notin BusyPCs
  PROVE  Orderly'
<1>1. /\ answers' \in Seq(Answerable) /\ Len(answers') \in Nat
      /\ \A i \in 1 .. Len(answers') : \/ answers'[i].type \in ReplyTypes
                                       \/ answers'[i].type = "Ready" /\ i = Len(answers')
  <2>1. CASE gone
    BY <2>1, SendAt DEF Reply
  <2>2. CASE ~gone
    <3>1. /\ answers' \in Seq(Answerable) /\ Len(answers) \in Nat /\ Len(ms) \in Nat
          /\ Len(answers') = Len(answers) + Len(ms)
          /\ \A i \in 1 .. Len(answers) : answers'[i] = answers[i]
          /\ \A i \in Len(answers) + 1 .. Len(answers') : answers'[i] = ms[i - Len(answers)]
      BY <2>2, SendAt, Zenon DEF Reply
    <3>2. ASSUME NEW i \in 1 .. Len(answers')
          PROVE  \/ answers'[i].type \in ReplyTypes
                 \/ answers'[i].type = "Ready" /\ i = Len(answers')
      <4>1. CASE i <= Len(answers)
        BY <3>1, <4>1
      <4>2. CASE i > Len(answers)
        <5>1. i - Len(answers) \in 1 .. Len(ms) /\ answers'[i] = ms[i - Len(answers)]
          BY <3>1, <4>2
        <5> QED
          BY <3>1, <5>1 DEF Reply
      <4> QED
        BY <3>1, <4>1, <4>2
    <3> QED
      BY <3>1, <3>2
  <2> QED
    BY <2>1, <2>2, Zenon DEF QueuesType
<1>2. \A i \in 1 .. Len(answers') : answers'[i].type \notin {"Encryption", "CopyIn"}
  BY <1>1, Zenon DEF ReplyTypes
<1>3. \A i \in 1 .. Len(out)' : out'[i].type \notin Asks \cup {"EncryptionRequest"}
  BY Zenon DEF Only, CopyTypes, Asks
<1>4. Asked' /\ Starting' /\ CopyInLast'
  BY <1>2, <1>3, Zenon DEF Asked, Starting, CopyInLast
<1>5. Busy' /\ Quiet'
  BY Zenon DEF Busy, Quiet, BusyPCs
<1>6. (InCopy => Errs)'
  BY Zenon DEF InCopy, Only, CopyTypes
<1>7. ReadyLast'
  BY <1>1, <1>6, Zenon DEF ReadyLast, ReplyTypes
<1>8. Copying'
  BY <1>6, Zenon DEF Copying, InCopy
<1> QED
  BY <1>4, <1>5, <1>7, <1>8, Zenon DEF Orderly


(* While a query runs, the client waits or receives and nothing is on its  *)
(* way to the handler.                                                     *)
LEMMA Working ==
  ASSUME QueuesType, Orderly, pc \in QueryPCs
  PROVE  /\ Only({}) /\ client \in {"waiting", "receiving"}
         /\ \A i \in 1 .. Len(answers) : answers[i].type \in ReplyTypes
<1>1. Only({}) /\ client \in {"waiting", "receiving"}
  BY Zenon DEF Orderly, Busy
<1>2. \A i \in 1 .. Len(answers) : answers[i] \in Answerable
  BY DEF QueuesType
<1>3. \A i \in 1 .. Len(answers) : answers[i].type \notin {"Ready", "Encryption", "CopyIn"}
  BY <1>1, Zenon DEF Orderly, ReadyLast, CopyInLast, Starting, BusyPCs, QueryPCs
<1> QED
  BY <1>1, <1>2, <1>3, Zenon DEF Answerable

LEMMA Works ==
  ASSUME QueuesType, Silent, Orderly, NEW ms \in Seq(Answerable), Send(ms),
         \A i \in 1 .. Len(ms) : ms[i].type \in ReplyTypes,
         UNCHANGED <<gone, client, out, copyState>>, pc \in QueryPCs, pc' \in QueryPCs
  PROVE  Orderly'
<1>1. /\ Only({}) /\ client \in {"waiting", "receiving"}
      /\ \A i \in 1 .. Len(answers) : answers[i].type \in ReplyTypes
  BY Working, Zenon
<1>2. \A i \in 1 .. Len(answers') : answers'[i].type \in ReplyTypes
  <2>1. CASE gone
    BY <2>1, SendAt
  <2>2. CASE ~gone
    <3>1. /\ Len(answers) \in Nat /\ Len(ms) \in Nat
          /\ Len(answers') = Len(answers) + Len(ms)
          /\ \A i \in 1 .. Len(answers) : answers'[i] = answers[i]
          /\ \A i \in Len(answers) + 1 .. Len(answers') : answers'[i] = ms[i - Len(answers)]
      BY <2>2, SendAt, Zenon
    <3>2. ASSUME NEW i \in 1 .. Len(answers') PROVE answers'[i].type \in ReplyTypes
      <4>1. CASE i <= Len(answers)
        BY <1>1, <3>1, <4>1
      <4>2. CASE i > Len(answers)
        BY <3>1, <4>2
      <4> QED
        BY <3>1, <4>1, <4>2
    <3> QED
      BY <3>2, Zenon
  <2> QED
    BY <2>1, <2>2, Zenon DEF QueuesType
<1>3. \A i \in 1 .. Len(answers') : answers'[i].type \notin {"Ready", "Encryption", "CopyIn"}
  BY <1>2, Zenon DEF ReplyTypes
<1>4. \A i \in 1 .. Len(out)' : out'[i].type \notin Asks \cup CopyTypes \cup {"EncryptionRequest"}
  BY <1>1, Zenon DEF Only, Asks, CopyTypes
<1>5. Only({})'
  BY <1>1, Zenon DEF Only
<1>6. Asked' /\ Starting' /\ Quiet' /\ ReadyLast' /\ CopyInLast' /\ Copying'
  BY <1>1, <1>3, <1>4, Zenon DEF Asked, Starting, Quiet, ReadyLast, CopyInLast, Copying
<1>7. Busy'
  BY <1>1, <1>5, Zenon DEF Busy, QueryPCs, LoadPCs, EndPCs
<1> QED
  BY <1>6, <1>7, Zenon DEF Orderly

(* A chunk, or the end of a COPY, keeps the handler busy without answers.  *)
LEMMA Loads ==
  ASSUME QueuesType, UNCHANGED <<client, answers>>, ~Errs', answers = << >>,
         client \in {"copying", "waiting"}, Only(CopyTypes)',
         client = "copying" => Only({"CopyData"})',
         \A i \in 1 .. Len(out)' : out'[i].type \in CopyTypes \ {"CopyData"} =>
            client = "waiting" /\ Ends(i)',
         pc' \in LoadPCs \cup EndPCs \cup {"receive"},
         pc' \in EndPCs => client = "waiting" /\ Only({})'
  PROVE  Orderly'
<1>1. \A i \in 1 .. Len(out)' : out'[i].type \notin Asks \cup {"EncryptionRequest"}
  BY Zenon DEF Only, Asks, CopyTypes
<1>2. Len(answers') = 0
  BY EmptyAt, Zenon DEF QueuesType
<1>3. Asked' /\ Starting' /\ Quiet' /\ ReadyLast' /\ CopyInLast'
  BY <1>1, <1>2 DEF Asked, Starting, Quiet, ReadyLast, CopyInLast
<1>4. Copying'
  BY Zenon DEF Copying
<1>5. Busy'
  BY Zenon DEF Busy, QueryPCs, LoadPCs, EndPCs
<1> QED
  BY <1>3, <1>4, <1>5, Zenon DEF Orderly


-----------------------------------------------------------------------------
(* The handler's steps *)

LEMMA AnswerSends ==
  ASSUME NEW ms, NEW next, NEW o, Answer(ms, next, o)
  PROVE  Send(ms) /\ pc' \in {next, "leaked"} /\ odd \cup o \subseteq odd'
  BY Zenon DEF Answer, Send, Note

LEMMA ReplyIn ==
  /\ Reply(<< >>) /\ Reply(<<Msg("Ready")>>) /\ Reply(<<Msg("Error")>>)
  /\ Reply(<<Msg("Error"), Msg("Ready")>>)
  /\ \A k \in Nat : /\ Reply(<<Count("CopyComplete", k), Msg("Ready")>>)
                    /\ Reply(<<Msg("CopyDone"), Count("CopyComplete", k)>>)
                    /\ Reply(<<Msg("CopyDone"), Count("CopyComplete", k), Msg("Ready")>>)
  BY MsgIn DEF Reply, ReplyTypes

LEMMA JoinOne ==
  ASSUME NEW a \in Answerable, NEW b \in Answerable PROVE <<a>> \o <<b>> = <<a, b>>
<1> DEFINE s == <<a>> \o <<b>>
<1>1. s \in Seq(Answerable) /\ Len(s) = 2 /\ s[1] = a /\ s[2] = b
  OBVIOUS
<1> HIDE DEF s
<1>2. s = [i \in 1 .. 2 |-> s[i]] /\ <<a, b>> = [i \in 1 .. 2 |-> <<a, b>>[i]]
  BY <1>1
<1>3. \A i \in 1 .. 2 : s[i] = <<a, b>>[i]
  BY <1>1
<1>4. s = <<a, b>>
  BY <1>2, <1>3, Zenon
<1> QED
  BY <1>4, Zenon DEF s

LEMMA JoinTwo ==
  ASSUME NEW a \in Answerable, NEW b \in Answerable, NEW c \in Answerable
  PROVE  <<a, b>> \o <<c>> = <<a, b, c>>
<1> DEFINE s == <<a, b>> \o <<c>>
<1>1. s \in Seq(Answerable) /\ Len(s) = 3 /\ s[1] = a /\ s[2] = b /\ s[3] = c
  OBVIOUS
<1> HIDE DEF s
<1>2. s = [i \in 1 .. 3 |-> s[i]] /\ <<a, b, c>> = [i \in 1 .. 3 |-> <<a, b, c>>[i]]
  BY <1>1
<1>3. \A i \in 1 .. 3 : s[i] = <<a, b, c>>[i]
  BY <1>1
<1>4. s = <<a, b, c>>
  BY <1>2, <1>3, Zenon
<1> QED
  BY <1>4, Zenon DEF s

LEMMA JoinReady ==
  /\ << >> \o <<Msg("Ready")>> = <<Msg("Ready")>>
  /\ <<Msg("Error")>> \o <<Msg("Ready")>> = <<Msg("Error"), Msg("Ready")>>
  /\ \A k \in Nat :
       /\ <<Count("CopyComplete", k)>> \o <<Msg("Ready")>>
            = <<Count("CopyComplete", k), Msg("Ready")>>
       /\ <<Msg("CopyDone"), Count("CopyComplete", k)>> \o <<Msg("Ready")>>
            = <<Msg("CopyDone"), Count("CopyComplete", k), Msg("Ready")>>
<1>1. << >> \o <<Msg("Ready")>> = <<Msg("Ready")>>
  OBVIOUS
<1>2. /\ Msg("Ready") \in Answerable /\ Msg("Error") \in Answerable /\ Msg("CopyDone") \in Answerable
      /\ \A k \in Nat : Count("CopyComplete", k) \in Answerable
  BY MsgIn, Zenon DEF ReplyTypes
<1> QED
  BY <1>1, <1>2, JoinOne, JoinTwo, Zenon

LEMMA NoMessage == ASSUME QueuesType PROVE answers' = answers <=> Send(<< >>)
  BY DEF QueuesType, Send

LEMMA FailSends ==
  ASSUME QueuesType, NEW e \in BOOLEAN, NEW s \in BOOLEAN, NEW o, Fail(e, s, o)
  PROVE  /\ odd \cup o \subseteq odd'
         /\ \/ ~e /\ s /\ pc' = "discard" /\ answers' = answers
            \/ /\ e \/ ~s
               /\ pc' \in {"receive", "leaked"} /\ Send(<<Msg("Error"), Msg("Ready")>>)
<1>1. CASE ~e /\ s
  BY <1>1, Zenon DEF Fail, Note
<1>2. CASE e \/ ~s
  BY <1>2, AnswerSends, JoinReady, Zenon DEF Fail, EndOfMessages
<1> QED
  BY <1>1, <1>2, Zenon

LEMMA InStepBefore == ASSUME odd \subseteq odd', InStep' PROVE InStep
  BY Zenon DEF InStep

LEMMA OutOfStep ==
  ASSUME NEW o \in {"CopyAfterError", "CopyFail", "NilStmt", "Flush"}, o \in odd'
  PROVE  ~InStep'
  BY Zenon DEF InStep

LEMMA QueuesKept ==
  ASSUME Turn, (out # << >> /\ out' = Tail(out)) \/ out' = out,
         NEW ms \in Seq(Answerable), Send(ms), UNCHANGED <<gone, moved>>, HandlerType',
         rows' \in Nat, lines' \in Nat, written' \in Nat
  PROVE  QueuesType' /\ Silent' /\ LastWord'
<1>1. QueuesType'
  <2>1. out' \in Seq(Sendable)
    BY PopOut, Zenon DEF Turn, QueuesType
  <2>2. answers' \in Seq(Answerable)
    BY SendAt, Zenon DEF Turn
  <2> QED
    BY <2>1, <2>2, Zenon DEF Turn, QueuesType
<1>2. Silent'
  BY SendAt, Zenon DEF Turn, Silent
<1>3. LastWord'
  <2>1. CASE out # << >> /\ out' = Tail(out)
    BY <2>1, PopOut, Zenon DEF Turn, LastWord
  <2>2. CASE out' = out
    BY <2>2, Zenon DEF Turn, LastWord
  <2> QED
    BY <2>1, <2>2, Zenon
<1> QED
  BY <1>1, <1>2, <1>3, Zenon

(* What a step of the handler that leaves a COPY TO alone does not touch.  *)
LEMMA HandlerKeeps ==
  ASSUME Turn, (out # << >> /\ out' = Tail(out)) \/ out' = out,
         NEW ms \in Seq(Answerable), Send(ms), UNCHANGED <<gone, moved, outVars>>,
         HandlerType', pc \notin {"select", "unblock", "release"}
  PROVE  QueuesType' /\ Silent' /\ LastWord' /\ AtWork'
<1>1. rows' \in Nat /\ lines' \in Nat /\ written' \in Nat
  BY Zenon DEF Turn, QueuesType, outVars
<1>2. QueuesType' /\ Silent' /\ LastWord'
  BY <1>1, QueuesKept, Zenon
<1>3. AtWork'
  BY Zenon DEF Turn, AtWork, outVars
<1> QED
  BY <1>2, <1>3, Zenon

LEMMA TurnFrom ==
  ASSUME Turn, QueuesType', Silent', LastWord', AtWork', Todo', odd \subseteq odd',
         InStep /\ Orderly /\ InStep' => Orderly'
  PROVE  Turn'
  BY InStepBefore, Zenon DEF Turn

LEMMA NothingAfter ==
  ASSUME QueuesType, out # << >>, out' = Tail(out), Ends(1) PROVE Only({})'
  BY PopOut DEF Ends, Only

(* A request for ReadyForQuery is answered.                                *)
LEMMA AskAnswered ==
  ASSUME QueuesType, Silent, Orderly, out # << >>, out' = Tail(out), Head(out).type \in Asks,
         NEW ms, Reply(ms), Send(ms), UNCHANGED <<client, gone>>, pc' \notin BusyPCs
  PROVE  Orderly'
<1>1. Head(out) = out[1] /\ 1 \in 1 .. Len(out)
  BY PopOut
<1>2. client = "waiting" /\ answers = << >> /\ Ends(1)
  BY <1>1, Zenon DEF Orderly, Asked
<1>3. Only({})' /\ Only(CopyTypes)'
  BY <1>2, NothingAfter, Zenon DEF Only
<1> QED
  BY <1>2, <1>3, Replies

LEMMA handleStartupTurn == ASSUME Turn, handleStartup PROVE Turn'
<1>1. /\ pc = "startup" /\ UNCHANGED <<gone, client, moved, outVars, loaderVars, copyState, todo, odd>>
  BY Zenon DEF handleStartup, UnchangedByMessage
<1>2. HandlerType'
  BY <1>1, Zenon DEF Turn, QueuesType, HandlerType, loaderVars, handleStartup
<1> USE DEF Turn
<1>3. CASE out' = out /\ answers' = answers /\ gone /\ pc' = "closing"
  <2>1. QueuesType' /\ Silent' /\ LastWord' /\ AtWork'
    BY <1>1, <1>2, <1>3, HandlerKeeps, NoMessage, ReplyIn, Zenon DEF Reply
  <2>2. Orderly => Orderly'
    BY <1>1, <1>3, NoAnswer, Zenon DEF StartPCs, BusyPCs, QueryPCs, LoadPCs, EndPCs, Silent
  <2> QED
    BY <1>1, <1>3, <2>1, <2>2, TurnFrom, Zenon DEF Todo, QueryPCs
<1>4. ASSUME out # << >>, out' = Tail(out), Head(out).type = "EncryptionRequest",
             pc' \in {"startup", "closing"}, Send(<<Msg("Encryption")>>)
      PROVE  Turn'
  <2>0. <<Msg("Encryption")>> \in Seq(Answerable) /\ Msg("Encryption").type = "Encryption"
    BY MsgIn
  <2>1. QueuesType' /\ Silent' /\ LastWord' /\ AtWork'
    BY <1>1, <1>2, <1>4, <2>0, HandlerKeeps, Zenon
  <2>2. ASSUME Orderly PROVE Orderly'
    <3>1. Head(out) = out[1] /\ 1 \in 1 .. Len(out)
      BY <1>4, PopOut
    <3>2. client = "asking" /\ answers = << >> /\ Ends(1)
      BY <1>4, <2>2, <3>1, Zenon DEF Orderly, Starting
    <3>3. Only({})'
      BY <1>4, <3>2, NothingAfter, Zenon
    <3>4. /\ \A i \in 1 .. Len(answers') : answers'[i].type = "Encryption" /\ Len(answers') = 1
          /\ Len(answers') \in Nat
      <4> DEFINE ms == <<Msg("Encryption")>>
      <4>1. ms \in Seq(Answerable) /\ Len(ms) = 1 /\ ms[1].type = "Encryption" /\ Send(ms)
        BY <1>4, <2>0, Zenon
      <4> HIDE DEF ms
      <4>2. CASE gone
        BY <4>1, <4>2, SendAt
      <4>3. CASE ~gone
        BY <3>2, <4>1, <4>3, SendAt
      <4> QED
        BY <4>2, <4>3, Zenon DEF QueuesType
    <3>5. \A i \in 1 .. Len(out)' : out'[i].type \notin Asks \cup CopyTypes \cup {"EncryptionRequest"}
      BY <3>3, Zenon DEF Only, Asks, CopyTypes
    <3>6. Asked' /\ Quiet' /\ ReadyLast' /\ CopyInLast' /\ Copying'
      BY <1>1, <3>2, <3>4, <3>5, Zenon DEF Asked, Quiet, ReadyLast, CopyInLast, Copying
    <3>7. Starting'
      BY <1>1, <1>4, <3>2, <3>3, <3>4, <3>5, Zenon DEF Starting, StartPCs
    <3>8. Busy'
      BY <1>4, Zenon DEF Busy, QueryPCs, LoadPCs, EndPCs
    <3> QED
      BY <3>6, <3>7, <3>8, Zenon DEF Orderly
  <2> QED
    BY <1>1, <1>4, <2>1, <2>2, TurnFrom, Zenon DEF Todo, QueryPCs
<1>5. ASSUME out # << >>, out' = Tail(out), Head(out).type = "Startup",
             NEW ms \in {<<Msg("Ready")>>, << >>, <<Msg("Error")>>},
             pc' \in {"receive", "closing"}, Send(ms)
      PROVE  Turn'
  <2>0. Reply(ms) /\ ms \in Seq(Answerable)
    <3>1. Reply(ms)
      BY ReplyIn, Zenon
    <3> QED
      BY <3>1, Zenon DEF Reply
  <2>1. QueuesType' /\ Silent' /\ LastWord' /\ AtWork'
    BY <1>1, <1>2, <1>5, <2>0, HandlerKeeps, Zenon
  <2>2. Orderly => Orderly'
    BY <1>1, <1>5, <2>0, AskAnswered, Zenon DEF BusyPCs, QueryPCs, LoadPCs, EndPCs, Asks
  <2> QED
    BY <1>1, <1>5, <2>1, <2>2, TurnFrom, Zenon DEF Todo, QueryPCs
<1>6. CASE out # << >> /\ out' = Tail(out) /\ pc' = "closing" /\ answers' = answers
  <2>1. QueuesType' /\ Silent' /\ LastWord' /\ AtWork'
    BY <1>1, <1>2, <1>6, HandlerKeeps, NoMessage, ReplyIn, Zenon DEF Reply
  <2>2. Orderly => Orderly'
    BY <1>1, <1>6, NoAnswer, Zenon DEF StartPCs, BusyPCs, QueryPCs, LoadPCs, EndPCs
  <2> QED
    BY <1>1, <1>6, <2>1, <2>2, TurnFrom, Zenon DEF Todo, QueryPCs
<1>7. CASE out # << >> /\ out' = Tail(out) /\ Head(out).type = "EncryptionRequest"
  BY <1>4, <1>7, Zenon DEF handleStartup
<1>8. CASE out # << >> /\ out' = Tail(out) /\ Head(out).type = "Startup"
  BY <1>5, <1>8, Zenon DEF handleStartup, sendClientStartupMessages, chooseInitialDatabase
<1> QED
  BY <1>3, <1>6, <1>7, <1>8, Zenon DEF handleStartup


LEMMA DiscardTurn == ASSUME Turn, Discard PROVE Turn'
<1>1. /\ pc = "discard" /\ UNCHANGED <<gone, client, moved, outVars, loaderVars, copyState, todo>>
  BY Zenon DEF Discard, UnchangedByMessage
<1>2. HandlerType'
  BY <1>1, Zenon DEF Turn, QueuesType, HandlerType, loaderVars, Discard
<1> USE DEF Turn
<1> DEFINE ms == <<Msg("Error"), Msg("Ready")>>
<1>3. Reply(ms) /\ ms \in Seq(Answerable)
  BY ReplyIn, Zenon DEF Reply
<1> HIDE DEF ms
<1>4. ASSUME EndOfMessages(<<Msg("Error")>>, {})
      PROVE  Send(ms) /\ pc' \in {"receive", "leaked"} /\ odd \subseteq odd'
  BY <1>4, AnswerSends, JoinReady, Zenon DEF EndOfMessages, ms
<1>5. CASE out # << >> /\ out' = Tail(out) /\ Head(out).type = "Sync"
  <2>1. EndOfMessages(<<Msg("Error")>>, {})
    BY <1>5, Zenon DEF Discard
  <2>2. QueuesType' /\ Silent' /\ LastWord' /\ AtWork'
    BY <1>1, <1>2, <1>3, <1>4, <1>5, <2>1, HandlerKeeps, Zenon
  <2>3. Orderly => Orderly'
    BY <1>1, <1>3, <1>4, <1>5, <2>1, AskAnswered, Zenon DEF BusyPCs, QueryPCs, LoadPCs, EndPCs,
       Asks
  <2> QED
    BY <1>4, <2>1, <2>2, <2>3, TurnFrom, Zenon DEF Todo, QueryPCs
<1>6. CASE out # << >> /\ out' = Tail(out) /\ Head(out).type # "Sync"
  <2>1. UNCHANGED <<answers, pc, odd>>
    BY <1>6, Zenon DEF Discard
  <2>2. QueuesType' /\ Silent' /\ LastWord' /\ AtWork'
    BY <1>1, <1>2, <1>6, <2>1, HandlerKeeps, NoMessage, ReplyIn, Zenon DEF Reply
  <2>3. Orderly => Orderly'
    BY <1>1, <1>6, <2>1, NoAnswer, Zenon DEF StartPCs, BusyPCs, QueryPCs, LoadPCs, EndPCs
  <2> QED
    BY <1>1, <2>1, <2>2, <2>3, TurnFrom, Zenon DEF Todo, QueryPCs
<1>7. CASE gone /\ out' = out /\ EndOfMessages(<<Msg("Error")>>, {})
  <2>1. QueuesType' /\ Silent' /\ LastWord' /\ AtWork'
    BY <1>1, <1>2, <1>3, <1>4, <1>7, HandlerKeeps, Zenon
  <2>2. answers = << >> /\ answers' = answers
    BY <1>1, <1>7, <2>1, Zenon DEF Silent
  <2>3. Orderly => Orderly'
    BY <1>1, <1>4, <1>7, <2>2, NoAnswer, Zenon DEF StartPCs, BusyPCs, QueryPCs, LoadPCs, EndPCs
  <2> QED
    BY <1>4, <1>7, <2>1, <2>3, TurnFrom, Zenon DEF Todo, QueryPCs
<1> QED
  BY <1>5, <1>6, <1>7, Zenon DEF Discard

LEMMA SyncTurn == ASSUME Turn, Sync PROVE Turn'
<1>1. /\ pc = "receive" /\ UNCHANGED <<gone, client, moved, outVars, loaderVars, copyState, todo>>
      /\ out # << >> /\ out' = Tail(out) /\ Head(out).type = "Sync"
  BY Zenon DEF Sync, Receive, UnchangedByMessage
<1>2. HandlerType'
  BY <1>1, Zenon DEF Turn, QueuesType, HandlerType, loaderVars, Sync
<1> USE DEF Turn
<1> DEFINE ms == <<Msg("Ready")>>
<1>3. Reply(ms) /\ ms \in Seq(Answerable)
  BY ReplyIn, Zenon DEF Reply
<1> HIDE DEF ms
<1>4. Send(ms) /\ pc' \in {"receive", "leaked"} /\ odd \subseteq odd'
  BY AnswerSends, JoinReady, Zenon DEF Sync, EndOfMessages, ms
<1>5. QueuesType' /\ Silent' /\ LastWord' /\ AtWork'
  BY <1>1, <1>2, <1>3, <1>4, HandlerKeeps, Zenon
<1>6. Orderly => Orderly'
  BY <1>1, <1>3, <1>4, AskAnswered, Zenon DEF BusyPCs, QueryPCs, LoadPCs, EndPCs, Asks
<1> QED
  BY <1>4, <1>5, <1>6, TurnFrom, Zenon DEF Todo, QueryPCs

(* Parse, Describe, Bind, Execute, Close and Flush.                        *)
LEMMA ExtendedTurn ==
  ASSUME Turn, Parse \/ Describe \/ Bind \/ Execute \/ Close \/ Flush PROVE Turn'
<1> DEFINE ms == <<Msg("Error"), Msg("Ready")>>
<1>1. Reply(ms) /\ ms \in Seq(Answerable)
  BY ReplyIn, Zenon DEF Reply
<1>2. QueuesType
  BY Zenon DEF Turn
<1> HIDE DEF ms
<1>3. /\ pc = "receive" /\ UNCHANGED <<gone, client, moved, outVars, loaderVars, copyState, todo>>
      /\ out # << >> /\ out' = Tail(out)
  BY Zenon DEF Parse, Describe, Bind, Execute, Close, Flush, Receive, UnchangedByMessage
<1>4. /\ odd \subseteq odd'
      /\ \/ UNCHANGED <<answers, pc>>
         \/ answers' = answers /\ pc' = "discard"
         \/ Send(ms) /\ pc' \in {"receive", "leaked"} /\ ~InStep'
  <2>1. ASSUME NEW o, Fail(FALSE, TRUE, o)
        PROVE  odd \subseteq odd' /\ answers' = answers /\ pc' = "discard"
    BY <1>2, <2>1, FailSends, Zenon
  <2>2. ASSUME waitForSync \in BOOLEAN, Fail(FALSE, waitForSync, {"NilStmt"})
        PROVE  /\ odd \subseteq odd' /\ ~InStep'
               /\ \/ answers' = answers /\ pc' = "discard"
                  \/ Send(ms) /\ pc' \in {"receive", "leaked"}
    BY <1>2, <2>2, FailSends, OutOfStep, Zenon DEF ms
  <2>3. CASE Parse
    BY <2>1, <2>3, Zenon DEF Parse
  <2>4. CASE Describe
    BY <2>1, <2>4, Zenon DEF Describe
  <2>5. CASE Bind
    BY <2>1, <2>5, Zenon DEF Bind
  <2>6. CASE Execute
    BY <2>1, <2>6, Zenon DEF Execute
  <2>7. CASE Close
    <3>1. waitForSync \in BOOLEAN
      BY <1>2, Zenon DEF QueuesType, HandlerType
    <3> QED
      BY <2>2, <2>7, <3>1, Zenon DEF Close
  <2>8. CASE Flush
    BY <2>8, AnswerSends, JoinReady, OutOfStep, Zenon DEF Flush, EndOfMessages, ms
  <2> QED
    BY <2>3, <2>4, <2>5, <2>6, <2>7, <2>8, Zenon
<1>5. HandlerType'
  <2>1. waitForSync' \in BOOLEAN
    BY Zenon DEF Turn, QueuesType, HandlerType, Parse, Describe, Bind, Execute, Close, Flush
  <2> QED
    BY <1>3, <2>1, Zenon DEF Turn, QueuesType, HandlerType, loaderVars
<1>6. QueuesType' /\ Silent' /\ LastWord' /\ AtWork'
  <2>1. CASE answers' = answers
    BY <1>2, <1>3, <1>5, <2>1, HandlerKeeps, NoMessage, ReplyIn, Zenon DEF Reply
  <2>2. CASE Send(ms)
    BY <1>1, <1>3, <1>5, <2>2, HandlerKeeps, Zenon
  <2> QED
    BY <1>4, <2>1, <2>2, Zenon
<1>7. Orderly /\ InStep' => Orderly'
  BY <1>2, <1>3, <1>4, NoAnswer, Zenon DEF StartPCs, BusyPCs, QueryPCs, LoadPCs, EndPCs
<1> QED
  BY <1>3, <1>4, <1>6, <1>7, TurnFrom, Zenon DEF Todo, QueryPCs


LEMMA QueryTurn == ASSUME Turn, CopyEndsQuery, Query PROVE Turn'
<1> DEFINE q == Head(out).query
<1>1. /\ pc = "receive" /\ UNCHANGED <<gone, client, moved, outVars, loaderVars, copyState, waitForSync>>
      /\ out # << >> /\ out' = Tail(out) /\ Head(out).type = "Query"
  BY Zenon DEF Query, Receive, UnchangedByMessage
<1>2. QueuesType /\ waitForSync \in BOOLEAN
  BY Zenon DEF Turn, QueuesType, HandlerType
<1>3. q \in Queries /\ q \in Seq(Statements) /\ q # << >> /\ LastIn(q)
  BY <1>1, <1>2, PopOut, SentTypes, ClientAssumption, Zenon DEF CopyEndsQuery
<1> HIDE DEF q
<1>4. \/ pc' = "query" /\ todo' = q /\ UNCHANGED <<answers, odd>>
      \/ Fail(FALSE, waitForSync, {"NilStmt"}) /\ todo' = todo
  BY Zenon DEF Query, q
<1>5. HandlerType'
  BY <1>1, <1>2, <1>3, <1>4, Zenon DEF QueuesType, HandlerType, loaderVars
<1>6. CASE Fail(FALSE, waitForSync, {"NilStmt"})
  <2> DEFINE ms == <<Msg("Error"), Msg("Ready")>>
  <2>1. /\ ms \in Seq(Answerable)
        /\ answers' = answers \/ Send(ms)
        /\ pc' \in {"discard", "receive", "leaked"} /\ odd \subseteq odd' /\ ~InStep'
    BY <1>2, <1>6, FailSends, OutOfStep, ReplyIn, Zenon DEF Reply
  <2> HIDE DEF ms
  <2>2. QueuesType' /\ Silent' /\ LastWord' /\ AtWork'
    <3>1. CASE answers' = answers
      BY <1>1, <1>2, <1>5, <3>1, HandlerKeeps, NoMessage, ReplyIn, Zenon DEF Reply
    <3>2. CASE Send(ms)
      BY <1>1, <1>5, <2>1, <3>2, HandlerKeeps, Zenon
    <3> QED
      BY <2>1, <3>1, <3>2, Zenon
  <2> QED
    BY <2>1, <2>2, TurnFrom, Zenon DEF Todo, QueryPCs
<1>7. CASE pc' = "query" /\ todo' = q /\ UNCHANGED <<answers, odd>>
  <2>1. QueuesType' /\ Silent' /\ LastWord' /\ AtWork'
    BY <1>1, <1>2, <1>5, <1>7, HandlerKeeps, NoMessage, ReplyIn, Zenon DEF Reply
  <2>2. Todo'
    BY <1>3, <1>7, Zenon DEF Todo
  <2>3. ASSUME Orderly PROVE Orderly'
    <3>1. client = "waiting" /\ answers = << >> /\ Ends(1)
      BY <1>1, <1>2, <2>3, PopOut DEF Orderly, Asked, Asks
    <3>2. Only({})'
      BY <1>1, <1>2, <3>1, NothingAfter, Zenon
    <3>3. \A i \in 1 .. Len(out)' : out'[i].type \notin Asks \cup CopyTypes \cup {"EncryptionRequest"}
      BY <3>2, Zenon DEF Only, Asks, CopyTypes
    <3>4. Len(answers') = 0 /\ client' = "waiting" /\ pc' = "query"
      BY <1>1, <1>7, <3>1, Zenon
    <3>5. Asked' /\ Starting' /\ Quiet' /\ ReadyLast' /\ CopyInLast' /\ Copying'
      BY <3>3, <3>4 DEF Asked, Starting, Quiet, ReadyLast, CopyInLast, Copying
    <3>6. Busy'
      BY <3>2, <3>4, Zenon DEF Busy, LoadPCs, EndPCs
    <3> QED
      BY <3>5, <3>6, Zenon DEF Orderly
  <2> QED
    BY <1>7, <2>1, <2>2, <2>3, TurnFrom, Zenon
<1> QED
  BY <1>4, <1>6, <1>7, Zenon

-----------------------------------------------------------------------------
(* The statements of a query *)

(* The answers of the last statement end the exchange, and those of        *)
(* another one leave the handler in the query.                             *)
LEMMA DoneOrderly ==
  ASSUME Turn, NEW ms, NEW ns, Reply(ms), Reply(ns), ns = ms \o <<Msg("Ready")>>,
         \A i \in 1 .. Len(ms) : ms[i].type \in ReplyTypes,
         NEW o, Done(ms, o), pc \in QueryPCs, UNCHANGED <<gone, client, out, copyState>>
  PROVE  /\ odd \cup o \subseteq odd' /\ todo' \in Seq(Statements) /\ Todo'
         /\ \/ Send(ms) /\ pc' \in {"query", "leaked"}
            \/ Send(ns) /\ pc' \in {"receive", "leaked"}
         /\ Orderly => Orderly'
<1>1. QueuesType /\ Silent /\ todo \in Seq(Statements) /\ todo # << >> /\ LastIn(todo)
  BY Zenon DEF Turn, QueuesType, HandlerType, Todo
<1>2. /\ todo' \in Seq(Statements) /\ Len(todo) \in Nat /\ Len(todo) >= 1
      /\ Len(todo') = Len(todo) - 1
      /\ \A i \in 1 .. Len(todo') : todo'[i] = todo[i + 1]
  BY <1>1, TailAt, Zenon DEF Done
<1>3. ASSUME Orderly
      PROVE  /\ Only({}) /\ Only(CopyTypes) /\ client \in {"waiting", "receiving"}
             /\ \A i \in 1 .. Len(answers) : answers[i].type \in ReplyTypes
  BY <1>1, <1>3, Working, Zenon DEF Only
<1>4. ASSUME Only({}), Only(CopyTypes) PROVE Only({})' /\ Only(CopyTypes)'
  BY <1>4, Zenon DEF Only
<1>5. CASE Len(todo) = 1
  <2>1. Send(ns) /\ pc' \in {"receive", "leaked"} /\ odd \cup o \subseteq odd'
    BY <1>5, AnswerSends, Zenon DEF Done, EndOfMessages
  <2>2. Orderly => Orderly'
    BY <1>1, <1>3, <1>4, <2>1, Replies, Zenon DEF BusyPCs, QueryPCs, LoadPCs, EndPCs
  <2> QED
    BY <1>2, <2>1, <2>2, Zenon DEF Todo, QueryPCs
<1>6. CASE Len(todo) # 1
  <2>1. Send(ms) /\ pc' \in {"query", "leaked"} /\ odd \cup o \subseteq odd'
    BY <1>6, AnswerSends, Zenon DEF Done
  <2>2. CASE pc' = "query"
    <3>1. Orderly => Orderly'
      BY <1>1, <2>1, <2>2, Works, Zenon DEF Reply, QueryPCs
    <3>2. Todo'
      <4>1. todo' # << >>
        BY <1>2, <1>6, EmptyAt
      <4>0. \A m \in Nat : \A i \in 1 .. (m - 1) - 1 : i \in 1 .. m - 1 /\ i + 1 \in 1 .. m - 1
        OBVIOUS
      <4>2. \A i \in 1 .. Len(todo') - 1 : todo'[i] = todo[i + 1] /\ i + 1 \in 1 .. Len(todo) - 1
        BY <1>2, <4>0, Zenon
      <4>3. LastIn(todo')
        BY <1>1, <4>2, Zenon DEF LastIn
      <4> QED
        BY <4>1, <4>3, Zenon DEF Todo
    <3> QED
      BY <1>2, <2>1, <3>1, <3>2, Zenon
  <2>3. CASE pc' = "leaked"
    <3>1. Orderly => Orderly'
      BY <1>1, <1>3, <1>4, <2>1, <2>3, Replies, Zenon DEF BusyPCs, QueryPCs, LoadPCs, EndPCs
    <3> QED
      BY <1>2, <2>1, <2>3, <3>1, Zenon DEF Todo, QueryPCs
  <2> QED
    BY <2>1, <2>2, <2>3, Zenon
<1> QED
  BY <1>5, <1>6, Zenon

LEMMA QueryFailsOrderly ==
  ASSUME Turn, NEW o, QueryFails(o), pc \in QueryPCs, UNCHANGED <<gone, client, out, copyState>>
  PROVE  /\ odd \cup o \subseteq odd' /\ todo' \in Seq(Statements) /\ Todo'
         /\ Send(<<Msg("Error"), Msg("Ready")>>) /\ pc' \in {"receive", "leaked"}
         /\ Orderly => Orderly'
<1>1. QueuesType /\ Silent /\ todo' \in Seq(Statements)
  BY DEF Turn, QueryFails
<1> DEFINE ms == <<Msg("Error"), Msg("Ready")>>
<1>2. Reply(ms) /\ Send(ms) /\ pc' \in {"receive", "leaked"} /\ odd \cup o \subseteq odd'
  BY ReplyIn, AnswerSends, JoinReady, Zenon DEF QueryFails, EndOfMessages
<1> HIDE DEF ms
<1>3. ASSUME Orderly PROVE Orderly'
  <2>1. /\ Only({}) /\ client \in {"waiting", "receiving"}
        /\ \A i \in 1 .. Len(answers) : answers[i].type \in ReplyTypes
    BY <1>1, <1>3, Working, Zenon
  <2>2. Only({})' /\ Only(CopyTypes)'
    BY <2>1, Zenon DEF Only
  <2> QED
    BY <1>1, <1>2, <2>1, <2>2, Replies, Zenon DEF BusyPCs, QueryPCs, LoadPCs, EndPCs
<1> QED
  BY <1>1, <1>2, <1>3, Zenon DEF Todo, QueryPCs, ms


(* A statement that changes neither the queue of the handler nor a COPY.   *)
LEMMA StatementTurn ==
  ASSUME Turn, pc = "query", UNCHANGED <<gone, client, moved, out, outVars, loaderVars, copyState,
         waitForSync>>, Done(<< >>, {}) \/ QueryFails({})
  PROVE  Turn'
<1>1. /\ odd \subseteq odd' /\ todo' \in Seq(Statements) /\ Todo' /\ (Orderly => Orderly')
      /\ \E ms \in Seq(Answerable) : Send(ms)
  <2>1. CASE Done(<< >>, {})
    <3> DEFINE ms == << >>
               ns == <<Msg("Ready")>>
    <3>1. /\ Reply(ms) /\ Reply(ns) /\ ns = ms \o <<Msg("Ready")>> /\ Done(ms, {})
          /\ \A i \in 1 .. Len(ms) : ms[i].type \in ReplyTypes
      BY <2>1, ReplyIn, JoinReady
    <3> HIDE DEF ms, ns
    <3>2. /\ odd \subseteq odd' /\ todo' \in Seq(Statements) /\ Todo' /\ (Orderly => Orderly')
          /\ Send(ms) \/ Send(ns)
      BY <3>1, DoneOrderly, Zenon DEF QueryPCs
    <3> QED
      BY <3>1, <3>2, Zenon DEF Reply
  <2>2. CASE QueryFails({})
    BY <2>2, QueryFailsOrderly, ReplyIn, Zenon DEF QueryPCs, Reply
  <2> QED
    BY <2>1, <2>2, Zenon
<1>2. HandlerType'
  BY <1>1, Zenon DEF Turn, QueuesType, HandlerType, loaderVars
<1>3. QueuesType' /\ Silent' /\ LastWord' /\ AtWork'
  BY <1>1, <1>2, HandlerKeeps, Zenon
<1> QED
  BY <1>1, <1>3, TurnFrom, Zenon

LEMMA RunTurn == ASSUME Turn, Run PROVE Turn'
<1>1. /\ pc = "query" /\ UNCHANGED <<gone, client, moved, out, outVars, loaderVars, copyState, waitForSync>>
      /\ Done(<< >>, {}) \/ QueryFails({})
  BY Zenon DEF Run, Statement, UnchangedByMessage
<1> QED
  BY <1>1, StatementTurn, Zenon

LEMMA DeallocateTurn == ASSUME Turn, Deallocate PROVE Turn'
<1>1. /\ pc = "query" /\ UNCHANGED <<gone, client, moved, out, outVars, loaderVars, copyState, waitForSync>>
      /\ \/ Done(<< >>, {}) \/ QueryFails({})
         \/ todo' = << >> /\ Fail(FALSE, waitForSync, {"NilStmt"})
  BY Zenon DEF Deallocate, Statement, UnchangedByMessage
<1>2. CASE todo' = << >> /\ Fail(FALSE, waitForSync, {"NilStmt"})
  <2>1. QueuesType /\ waitForSync \in BOOLEAN
    BY Zenon DEF Turn, QueuesType, HandlerType
  <2>2. HandlerType'
    BY <1>1, <1>2, <2>1 DEF QueuesType, HandlerType, loaderVars
  <2> DEFINE ms == <<Msg("Error"), Msg("Ready")>>
  <2>3. /\ ms \in Seq(Answerable)
        /\ answers' = answers \/ Send(ms)
        /\ pc' \in {"discard", "receive", "leaked"} /\ odd \subseteq odd' /\ ~InStep'
    BY <1>2, <2>1, FailSends, OutOfStep, ReplyIn, Zenon DEF Reply
  <2> HIDE DEF ms
  <2>4. QueuesType' /\ Silent' /\ LastWord' /\ AtWork'
    <3>1. CASE answers' = answers
      BY <1>1, <2>1, <2>2, <3>1, HandlerKeeps, NoMessage, ReplyIn, Zenon DEF Reply
    <3>2. CASE Send(ms)
      BY <1>1, <2>2, <2>3, <3>2, HandlerKeeps, Zenon
    <3> QED
      BY <2>3, <3>1, <3>2, Zenon
  <2> QED
    BY <2>3, <2>4, TurnFrom, Zenon DEF Todo, QueryPCs
<1> QED
  BY <1>1, <1>2, StatementTurn, Zenon

LEMMA CopyFromStdinTurn == ASSUME Turn, CopyFromStdin PROVE Turn'
<1>1. /\ pc = "query" /\ Head(todo) = "copyin"
      /\ UNCHANGED <<gone, client, moved, out, outVars, loaderVars, waitForSync>>
  BY Zenon DEF CopyFromStdin, Statement, UnchangedByMessage
<1>2. QueuesType /\ Silent /\ todo \in Seq(Statements) /\ todo # << >> /\ LastIn(todo)
  BY <1>1, Zenon DEF Turn, QueuesType, HandlerType, Todo, QueryPCs
<1>3. Len(todo) = 1
  <2>1. Len(todo) \in Nat /\ Len(todo) >= 1 /\ todo[1] = "copyin"
    BY <1>1, <1>2, TailAt, Zenon
  <2> QED
    BY <1>2, <2>1 DEF LastIn
<1>4. CASE QueryFails({}) /\ copyState' = copyState
  BY <1>1, <1>4, StatementTurn, Zenon
<1> DEFINE ms == <<Msg("CopyIn")>>
<1>5. ms \in Seq(Answerable) /\ Len(ms) = 1 /\ ms[1].type = "CopyIn"
  BY MsgIn
<1>6. CASE /\ copyState' = [active |-> TRUE, loader |-> FALSE, copyErr |-> FALSE]
           /\ todo' = Tail(todo) /\ Answer(ms, "receive", {})
  <2> HIDE DEF ms
  <2>1. Send(ms) /\ pc' \in {"receive", "leaked"} /\ odd \subseteq odd'
    BY <1>6, AnswerSends, Zenon
  <2>2. HandlerType'
    BY <1>1, <1>2, <1>6, TailAt, Zenon DEF QueuesType, HandlerType, loaderVars, CopyStates
  <2>3. QueuesType' /\ Silent' /\ LastWord' /\ AtWork'
    BY <1>1, <1>5, <2>1, <2>2, HandlerKeeps, Zenon
  <2>4. ASSUME Orderly PROVE Orderly'
    <3>1. /\ Only({}) /\ client \in {"waiting", "receiving"}
          /\ \A i \in 1 .. Len(answers) : answers[i].type \in ReplyTypes
      BY <1>1, <1>2, <2>4, Working, Zenon DEF QueryPCs
    <3>2. ~Errs'
      BY <1>6, Zenon DEF Errs
    <3>3. \A i \in 1 .. Len(out)' : out'[i].type \notin Asks \cup CopyTypes \cup {"EncryptionRequest"}
      BY <1>1, <3>1, Zenon DEF Only, Asks, CopyTypes
    <3>4. /\ \A i \in 1 .. Len(answers') : answers'[i].type \notin {"Ready", "Encryption"}
          /\ \A i \in 1 .. Len(answers') : answers'[i].type = "CopyIn" => i = Len(answers') /\ ~gone
      <4>1. CASE gone
        BY <1>2, <1>5, <2>1, <4>1, SendAt
      <4>2. CASE ~gone
        <5>0. /\ Len(answers) \in Nat /\ Len(answers') = Len(answers) + Len(ms)
              /\ \A i \in 1 .. Len(answers) : answers'[i] = answers[i]
              /\ \A i \in Len(answers) + 1 .. Len(answers') : answers'[i] = ms[i - Len(answers)]
          BY <1>2, <1>5, <2>1, <4>2, SendAt, Zenon
        <5>1. /\ Len(answers') = Len(answers) + 1 /\ Len(answers) \in Nat
              /\ \A i \in 1 .. Len(answers) : answers'[i] = answers[i]
              /\ answers'[Len(answers')] = ms[1]
          BY <1>5, <5>0
        <5>2. answers'[Len(answers')].type = "CopyIn"
          BY <1>5, <5>1, Zenon
        <5> QED
          BY <3>1, <4>2, <5>1, <5>2 DEF ReplyTypes
      <4> QED
        BY <1>2, <4>1, <4>2, Zenon DEF QueuesType
    <3>5. ~gone => out' = << >> /\ pc' = "receive"
      <4>1. ~gone => pc' = "receive"
        BY <1>6, Zenon DEF Answer
      <4>2. ASSUME ~gone PROVE Len(out) = 0
        BY <1>2, <3>1, <4>2 DEF Only, Turn, LastWord, QueuesType
      <4> QED
        BY <1>1, <1>2, <4>1, <4>2, EmptyAt, Zenon DEF QueuesType
    <3>6. CopyInLast'
      BY <1>1, <3>1, <3>2, <3>4, <3>5, Zenon DEF CopyInLast
    <3>7. Asked' /\ Starting' /\ Quiet' /\ ReadyLast' /\ Copying'
      BY <1>1, <3>1, <3>3, <3>4, Zenon DEF Asked, Starting, Quiet, ReadyLast, Copying
    <3>8. Busy'
      BY <2>1, Zenon DEF Busy, QueryPCs, LoadPCs, EndPCs
    <3> QED
      BY <3>6, <3>7, <3>8, Zenon DEF Orderly
  <2> QED
    BY <2>1, <2>3, <2>4, TurnFrom, Zenon DEF Todo, QueryPCs
<1> QED
  BY <1>3, <1>4, <1>6, Zenon DEF CopyFromStdin


LEMMA WorksOn ==
  ASSUME QueuesType, Silent, Orderly, UNCHANGED <<answers, gone, client, out, copyState>>,
         pc \in QueryPCs, pc' \in QueryPCs
  PROVE  Orderly'
<1> DEFINE ms == << >>
<1>1. ms \in Seq(Answerable) /\ Send(ms) /\ \A i \in 1 .. Len(ms) : ms[i].type \in ReplyTypes
  BY NoMessage
<1> HIDE DEF ms
<1> QED
  BY <1>1, Works, Zenon

LEMMA CopyToStdoutTurn == ASSUME Turn, CopyToStdout PROVE Turn'
<1>1. /\ pc = "query" /\ pc' = "select" /\ StartOut
      /\ UNCHANGED <<gone, client, moved, out, loaderVars, copyState, waitForSync, answers, odd, todo>>
  BY Zenon DEF CopyToStdout, Statement, UnchangedByCopyOut
<1>2. QueuesType /\ Silent
  BY Zenon DEF Turn
<1>3. HandlerType'
  BY <1>1, <1>2, Zenon DEF QueuesType, HandlerType, loaderVars
<1>4. << >> \in Seq(Answerable) /\ Send(<< >>) /\ Len(<< >>) = 0
  BY <1>1, <1>2, NoMessage
<1>5. rows' \in Nat /\ lines' \in Nat /\ written' \in Nat
  BY <1>1, ClientAssumption DEF StartOut
<1>6. QueuesType' /\ Silent' /\ LastWord'
  BY <1>1, <1>3, <1>4, <1>5, QueuesKept, Zenon
<1>7. AtWork' /\ Todo'
  BY <1>1, Zenon DEF Turn, AtWork, Todo, QueryPCs
<1>8. Orderly => Orderly'
  BY <1>1, <1>2, WorksOn, Zenon DEF QueryPCs
<1> QED
  BY <1>1, <1>6, <1>7, <1>8, TurnFrom, Zenon

(* The answers of a COPY TO, which end its statement.                      *)
LEMMA CopyOutEndsTurn ==
  ASSUME Turn, pc \in QueryPCs, CopyOutEnds \/ QueryFails({}),
         UNCHANGED <<gone, client, moved, out, loaderVars, copyState, waitForSync>>,
         rows' \in Nat, lines' \in Nat, written' \in Nat,
         sender' \notin {"opening", "opened", "reading"}
  PROVE  Turn'
<1>1. QueuesType /\ Silent /\ rows \in Nat
  BY Zenon DEF Turn, QueuesType
<1>2. /\ odd \subseteq odd' /\ todo' \in Seq(Statements) /\ Todo' /\ (Orderly => Orderly')
      /\ \E ms \in Seq(Answerable) : Send(ms)
  <2>1. CASE QueryFails({})
    BY <2>1, QueryFailsOrderly, ReplyIn, Zenon DEF Reply
  <2>2. CASE Done(<<Msg("CopyDone"), Count("CopyComplete", rows)>>, {})
    <3> DEFINE ms == <<Msg("CopyDone"), Count("CopyComplete", rows)>>
               ns == <<Msg("CopyDone"), Count("CopyComplete", rows), Msg("Ready")>>
    <3>1. Reply(ms) /\ Reply(ns) /\ ns = ms \o <<Msg("Ready")>> /\ Done(ms, {})
      BY <1>1, <2>2, ReplyIn, JoinReady, Zenon
    <3>2. \A i \in 1 .. Len(ms) : ms[i].type \in ReplyTypes
      BY <1>1, MsgIn DEF ReplyTypes
    <3> HIDE DEF ms, ns
    <3>3. /\ odd \subseteq odd' /\ todo' \in Seq(Statements) /\ Todo' /\ (Orderly => Orderly')
          /\ Send(ms) \/ Send(ns)
      BY <3>1, <3>2, DoneOrderly, Zenon
    <3> QED
      BY <3>1, <3>3, Zenon DEF Reply
  <2> QED
    BY <2>1, <2>2, Zenon DEF CopyOutEnds
<1>3. HandlerType'
  BY <1>1, <1>2, Zenon DEF QueuesType, HandlerType, loaderVars
<1>4. QueuesType' /\ Silent' /\ LastWord'
  BY <1>2, <1>3, QueuesKept, Zenon
<1>5. AtWork'
  BY Zenon DEF AtWork
<1> QED
  BY <1>2, <1>4, <1>5, TurnFrom, Zenon

LEMMA SelectTurn == ASSUME Turn, Select \/ UnblockSender PROVE Turn'
<1>1. /\ pc \in {"select", "unblock", "release"}
      /\ UNCHANGED <<gone, client, moved, out, loaderVars, copyState, waitForSync>>
  BY Zenon DEF Select, UnblockSender, UnchangedByCopyOut
<1>2. QueuesType /\ Silent /\ rows \in Nat /\ lines \in Nat /\ written \in Nat
  BY Zenon DEF Turn, QueuesType
<1>3. \/ /\ CopyOutEnds \/ QueryFails({})
         /\ Forget \/ (sender = "done" /\ UNCHANGED outVars)
      \/ /\ UNCHANGED <<answers, todo, rows, lines, written>> /\ pc' \in {"unblock", "release"}
         /\ odd \subseteq odd'
  BY Zenon DEF Select, UnblockSender, Canceled, OpenForWriting, Note, outVars
<1>4. CASE /\ CopyOutEnds \/ QueryFails({})
           /\ Forget \/ (sender = "done" /\ UNCHANGED outVars)
  <2>1. /\ rows' \in Nat /\ lines' \in Nat /\ written' \in Nat
        /\ sender' \notin {"opening", "opened", "reading"}
    BY <1>2, <1>4 DEF Forget, outVars
  <2> QED
    BY <1>1, <1>4, <2>1, CopyOutEndsTurn, Zenon DEF QueryPCs
<1>5. CASE /\ UNCHANGED <<answers, todo, rows, lines, written>> /\ pc' \in {"unblock", "release"}
           /\ odd \subseteq odd'
  <2>1. HandlerType'
    BY <1>1, <1>2, <1>5, Zenon DEF QueuesType, HandlerType, loaderVars
  <2>2. << >> \in Seq(Answerable) /\ Send(<< >>) /\ Len(<< >>) = 0
    BY <1>2, <1>5, NoMessage
  <2>3. QueuesType' /\ Silent' /\ LastWord'
    BY <1>1, <1>2, <1>5, <2>1, <2>2, QueuesKept, Zenon
  <2>4. AtWork' /\ Todo'
    BY <1>1, <1>5, Zenon DEF Turn, AtWork, Todo, QueryPCs
  <2>5. Orderly => Orderly'
    BY <1>1, <1>2, <1>5, WorksOn, Zenon DEF QueryPCs
  <2> QED
    BY <1>5, <2>3, <2>4, <2>5, TurnFrom, Zenon
<1> QED
  BY <1>3, <1>4, <1>5, Zenon


-----------------------------------------------------------------------------
(* The messages of a COPY FROM *)

(* What the handler's queue looks like in a COPY FROM that has not failed. *)
InOrder ==
  /\ client \in {"copying", "waiting"} /\ answers = << >> /\ ~Errs /\ Only(CopyTypes)
  /\ client = "copying" => Only({"CopyData"})
  /\ \A i \in 1 .. Len(out) : out[i].type \in CopyTypes \ {"CopyData"} => client = "waiting" /\ Ends(i)

LEMMA CopyInOrder ==
  ASSUME QueuesType, Orderly,
         \/ pc \in LoadPCs
         \/ ~Errs /\ out # << >> /\ Head(out).type \in CopyTypes
  PROVE  InOrder
<1>1. CASE pc \in LoadPCs
  <2>1. client \in {"copying", "waiting"} /\ answers = << >> /\ ~Errs /\ Only(CopyTypes)
    BY <1>1, Zenon DEF Orderly, Busy
  <2> QED
    BY <2>1, Zenon DEF InOrder, Orderly, Copying
<1>2. CASE ~Errs /\ out # << >> /\ Head(out).type \in CopyTypes
  <2>1. Head(out) = out[1] /\ 1 \in 1 .. Len(out)
    BY <1>2, TailAt DEF QueuesType
  <2>2. client \in {"copying", "waiting"} /\ answers = << >> /\ Only(CopyTypes)
    BY <1>2, <2>1, Zenon DEF Orderly, Copying
  <2> QED
    BY <1>2, <2>2, Zenon DEF InOrder, Orderly, Copying
<1> QED
  BY <1>1, <1>2, Zenon

LEMMA TakenInOrder ==
  ASSUME QueuesType, InOrder, (out # << >> /\ out' = Tail(out)) \/ out' = out, client' = client
  PROVE  /\ Only(CopyTypes)' /\ (client = "copying" => Only({"CopyData"})')
         /\ \A i \in 1 .. Len(out)' : out'[i].type \in CopyTypes \ {"CopyData"} =>
              client = "waiting" /\ Ends(i)'
<1>1. CASE out' = out
  BY <1>1, Zenon DEF InOrder, Only, Ends
<1>2. CASE out # << >> /\ out' = Tail(out)
  <2>1. /\ Len(out) \in Nat /\ Len(out') = Len(out) - 1
        /\ \A i \in 1 .. Len(out') : out'[i] = out[i + 1] /\ i + 1 \in 1 .. Len(out)
    BY <1>2, PopOut, Zenon
  <2>2. \A S : Only(S) => Only(S)'
    BY <2>1, Zenon DEF Only
  <2>3. \A i \in 1 .. Len(out') : Ends(i + 1) => Ends(i)'
    BY <2>1 DEF Ends
  <2> QED
    BY <2>1, <2>2, <2>3, Zenon DEF InOrder
<1> QED
  BY <1>1, <1>2, Zenon

(* The handler goes on with the COPY and answers nothing.                  *)
LEMMA CopyGoesOn ==
  ASSUME Turn, UNCHANGED <<gone, client, moved, outVars, answers, todo, waitForSync>>,
         (out # << >> /\ out' = Tail(out)) \/ out' = out, HandlerType', odd \subseteq odd',
         pc \notin QueryPCs, pc' \in LoadPCs \cup {"receive"},
         InStep /\ Orderly /\ InStep' => InOrder /\ ~Errs'
  PROVE  Turn'
<1>1. QueuesType /\ << >> \in Seq(Answerable) /\ Send(<< >>)
  BY NoMessage DEF Turn
<1>2. QueuesType' /\ Silent' /\ LastWord' /\ AtWork'
  BY <1>1, HandlerKeeps, Zenon DEF QueryPCs
<1>3. ASSUME InStep, Orderly, InStep' PROVE Orderly'
  <2>1. InOrder /\ ~Errs'
    BY <1>3, Zenon
  <2>2. /\ Only(CopyTypes)' /\ (client = "copying" => Only({"CopyData"})')
        /\ \A i \in 1 .. Len(out)' : out'[i].type \in CopyTypes \ {"CopyData"} =>
              client = "waiting" /\ Ends(i)'
    BY <1>1, <2>1, TakenInOrder, Zenon
  <2> QED
    BY <1>1, <2>1, <2>2, Loads, Zenon DEF InOrder, LoadPCs, EndPCs
<1> QED
  BY <1>2, <1>3, TurnFrom, Zenon DEF Todo, QueryPCs, LoadPCs

(* An error is reported, and remembered.                                   *)
LEMMA CopyFailsTurn ==
  ASSUME Turn, UNCHANGED <<gone, client, moved, outVars, todo, waitForSync>>,
         (out # << >> /\ out' = Tail(out)) \/ out' = out, pc \notin QueryPCs,
         unread' \in Nat, got' \in Nat, stored' \in Nat, NEW o, CopyFails(o),
         InStep /\ Orderly /\ InStep' => InOrder
  PROVE  Turn'
<1>1. QueuesType /\ Silent /\ waitForSync \in BOOLEAN /\ copyState \in CopyStates
  BY Zenon DEF Turn, QueuesType, HandlerType
<1>2. HandlerType' /\ Errs'
  BY <1>1, Zenon DEF QueuesType, HandlerType, CopyFails, CopyStates, Errs
<1> DEFINE ms == <<Msg("Error"), Msg("Ready")>>
<1>3. Reply(ms) /\ ms \in Seq(Answerable)
  BY ReplyIn, Zenon DEF Reply
<1>4. /\ odd \subseteq odd'
      /\ \/ pc' = "discard" /\ answers' = answers
         \/ pc' \in {"receive", "leaked"} /\ Send(ms)
  BY <1>1, FailSends, Zenon DEF CopyFails
<1> HIDE DEF ms
<1>5. \E ns : Reply(ns) /\ ns \in Seq(Answerable) /\ Send(ns)
  <2>1. CASE answers' = answers
    BY <1>1, <2>1, NoMessage, ReplyIn, Zenon DEF Reply
  <2>2. CASE Send(ms)
    BY <1>3, <2>2, Zenon
  <2> QED
    BY <1>4, <2>1, <2>2, Zenon
<1>6. PICK ns : Reply(ns) /\ ns \in Seq(Answerable) /\ Send(ns)
  BY <1>5, Zenon
<1>7. QueuesType' /\ Silent' /\ LastWord' /\ AtWork'
  BY <1>2, <1>6, HandlerKeeps, Zenon DEF QueryPCs
<1>8. ASSUME InStep, Orderly, InStep' PROVE Orderly'
  <2>1. InOrder
    BY <1>8, Zenon
  <2>2. Only(CopyTypes)'
    BY <1>1, <2>1, TakenInOrder, Zenon
  <2>3. Len(answers) = 0 /\ client \in {"copying", "waiting"}
    BY <2>1, Zenon DEF InOrder
  <2> QED
    BY <1>1, <1>2, <1>4, <1>6, <2>2, <2>3, Replies DEF BusyPCs, QueryPCs, LoadPCs, EndPCs
<1> QED
  BY <1>4, <1>7, <1>8, TurnFrom, Zenon DEF Todo, QueryPCs


LEMMA CopyDataTurn == ASSUME Turn, CopyData PROVE Turn'
<1>1. /\ pc = "receive" /\ out # << >> /\ out' = Tail(out) /\ Head(out).type = "CopyData"
      /\ UNCHANGED <<gone, client, moved, outVars, todo, waitForSync>>
  BY Zenon DEF CopyData, Receive, UnchangedByCopyIn
<1>2. QueuesType /\ copyState \in CopyStates
  BY Zenon DEF Turn, QueuesType, HandlerType
<1> DEFINE o == IF copyState.copyErr THEN {"CopyAfterError"} ELSE {}
<1>3. ASSUME o \subseteq odd', InStep' PROVE ~Errs
  BY <1>2, <1>3, OutOfStep, Zenon DEF Errs, CopyStates
<1>4. ASSUME InStep, Orderly, InStep', ~Errs PROVE InOrder
  BY <1>1, <1>2, <1>4, CopyInOrder, Zenon DEF CopyTypes
<1>5. CASE UNCHANGED <<answers, copyState>> /\ Note(o) /\ pc' \in {"load", "ready"}
           /\ (UNCHANGED loaderVars \/ Start)
  <2>1. HandlerType' /\ odd \cup o \subseteq odd'
    BY <1>1, <1>2, <1>5 DEF QueuesType, HandlerType, loaderVars, Start, Note
  <2>2. InStep /\ Orderly /\ InStep' => InOrder /\ ~Errs'
    BY <1>3, <1>4, <1>5, <2>1, Zenon DEF Errs
  <2> QED
    BY <1>1, <1>5, <2>1, <2>2, CopyGoesOn, Zenon DEF LoadPCs, QueryPCs
<1>6. CASE CopyFails(o) /\ UNCHANGED loaderVars
  <2>1. unread' \in Nat /\ got' \in Nat /\ stored' \in Nat /\ o \subseteq odd'
    <3>1. unread' \in Nat /\ got' \in Nat /\ stored' \in Nat /\ waitForSync \in BOOLEAN
      BY <1>2, <1>6, Zenon DEF QueuesType, HandlerType, loaderVars
    <3>2. Fail(FALSE, waitForSync, Stale \cup o)
      BY <1>6, Zenon DEF CopyFails
    <3> HIDE DEF o
    <3>3. odd \cup (Stale \cup o) \subseteq odd'
      BY <1>2, <3>1, <3>2, FailSends, Zenon
    <3> QED
      BY <3>1, <3>3, Zenon
  <2>2. InStep /\ Orderly /\ InStep' => InOrder
    BY <1>3, <1>4, <2>1, Zenon
  <2> HIDE DEF o
  <2> QED
    BY <1>1, <1>6, <2>1, <2>2, CopyFailsTurn, Zenon DEF QueryPCs
<1> QED
  BY <1>5, <1>6, Zenon DEF CopyData

LEMMA LoaderReadyTurn == ASSUME Turn, LoaderReady PROVE Turn'
<1>1. /\ pc = "ready" /\ UNCHANGED <<gone, client, moved, outVars, todo, waitForSync, out, loaderVars>>
  BY Zenon DEF LoaderReady, UnchangedByCopyIn
<1>2. QueuesType /\ copyState \in CopyStates /\ unread' \in Nat /\ got' \in Nat /\ stored' \in Nat
  BY <1>1, Zenon DEF Turn, QueuesType, HandlerType, loaderVars
<1>3. Orderly => InOrder
  BY <1>1, <1>2, CopyInOrder, Zenon DEF LoadPCs
<1>4. CASE copyState' = [copyState EXCEPT !.loader = TRUE] /\ pc' = "load" /\ UNCHANGED <<answers, odd>>
  <2>1. HandlerType' /\ (Errs' <=> Errs)
    BY <1>1, <1>2, <1>4, Zenon DEF QueuesType, HandlerType, CopyStates, Errs
  <2> QED
    BY <1>1, <1>3, <1>4, <2>1, CopyGoesOn, Zenon DEF LoadPCs, QueryPCs, InOrder
<1>5. CASE CopyFails({})
  BY <1>1, <1>2, <1>3, <1>5, CopyFailsTurn, Zenon DEF QueryPCs
<1> QED
  BY <1>4, <1>5, Zenon DEF LoaderReady

LEMMA LoadChunkTurn == ASSUME Turn, LoadChunk PROVE Turn'
<1>1. /\ pc \in {"load", "abort"} /\ UNCHANGED <<gone, client, moved, outVars, todo, waitForSync, out>>
  BY Zenon DEF LoadChunk, UnchangedByCopyIn
<1>2. QueuesType /\ copyState \in CopyStates /\ unread' \in Nat /\ got' \in Nat /\ stored' \in Nat
  BY DEF Turn, QueuesType, HandlerType, loaderVars, LoadChunk, Write, Break, ClosePipe
<1>3. Orderly => InOrder
  BY <1>1, <1>2, CopyInOrder, Zenon DEF LoadPCs
<1>4. CASE UNCHANGED <<answers, odd, copyState>> /\ pc' \in {"receive", "abort"}
  <2>1. HandlerType' /\ (Errs' <=> Errs)
    BY <1>1, <1>2, <1>4, Zenon DEF QueuesType, HandlerType, Errs
  <2> QED
    BY <1>1, <1>3, <1>4, <2>1, CopyGoesOn, Zenon DEF LoadPCs, QueryPCs, InOrder
<1>5. CASE CopyFails({})
  BY <1>1, <1>2, <1>3, <1>5, CopyFailsTurn, Zenon DEF QueryPCs
<1> QED
  BY <1>4, <1>5, Zenon DEF LoadChunk

LEMMA CopyDoneTurn == ASSUME Turn, CopyDone PROVE Turn'
<1>1. /\ pc = "receive" /\ out # << >> /\ out' = Tail(out) /\ Head(out).type = "CopyDone"
      /\ UNCHANGED <<gone, client, moved, outVars, todo, waitForSync, copyState, loaderVars>>
  BY Zenon DEF CopyDone, Receive, UnchangedByCopyIn
<1>2. QueuesType /\ copyState \in CopyStates /\ HandlerType'
  BY <1>1, Zenon DEF Turn, QueuesType, HandlerType, loaderVars
<1>3. ASSUME Orderly, ~Errs
      PROVE  client = "waiting" /\ answers = << >> /\ Only({})' /\ Only(CopyTypes)'
  <2>1. InOrder
    BY <1>1, <1>2, <1>3, CopyInOrder, Zenon DEF CopyTypes
  <2>2. Head(out) = out[1] /\ 1 \in 1 .. Len(out)
    BY <1>1, <1>2, PopOut
  <2>3. client = "waiting" /\ answers = << >> /\ Ends(1)
    BY <1>1, <2>1, <2>2, Zenon DEF InOrder, CopyTypes
  <2>4. Only({})'
    BY <1>1, <1>2, <2>3, NothingAfter, Zenon
  <2> QED
    BY <2>3, <2>4, Zenon DEF Only
<1>4. CASE Errs /\ pc' = "receive" /\ UNCHANGED <<answers, odd>>
  <2>1. QueuesType' /\ Silent' /\ LastWord' /\ AtWork'
    BY <1>1, <1>2, <1>4, HandlerKeeps, NoMessage, ReplyIn, Zenon DEF Reply
  <2>2. Orderly => Orderly'
    BY <1>1, <1>2, <1>4, NoAnswer, Zenon DEF StartPCs, BusyPCs, QueryPCs, LoadPCs, EndPCs
  <2> QED
    BY <1>1, <1>4, <2>1, <2>2, TurnFrom, Zenon DEF Todo, QueryPCs
<1>5. CASE ~Errs /\ EndOfMessages(<<Msg("Error")>>, {})
  <2> DEFINE ms == <<Msg("Error"), Msg("Ready")>>
  <2>1. Reply(ms) /\ ms \in Seq(Answerable)
    BY ReplyIn, Zenon DEF Reply
  <2>2. Send(ms) /\ pc' \in {"receive", "leaked"} /\ odd \subseteq odd'
    BY <1>5, AnswerSends, JoinReady, Zenon DEF EndOfMessages
  <2> HIDE DEF ms
  <2>3. QueuesType' /\ Silent' /\ LastWord' /\ AtWork'
    BY <1>1, <1>2, <2>1, <2>2, HandlerKeeps, Zenon
  <2>4. ASSUME Orderly PROVE Orderly'
    <3>1. Len(answers) = 0 /\ client = "waiting" /\ Only({})' /\ Only(CopyTypes)'
      BY <1>3, <1>5, <2>4, Zenon
    <3> QED
      BY <1>1, <1>2, <2>1, <2>2, <3>1, Replies DEF BusyPCs, QueryPCs, LoadPCs, EndPCs, Turn
  <2> QED
    BY <2>2, <2>3, <2>4, TurnFrom DEF Todo, QueryPCs
<1>6. CASE ~Errs /\ pc' = "finish" /\ UNCHANGED <<answers, odd>>
  <2>1. QueuesType' /\ Silent' /\ LastWord' /\ AtWork'
    BY <1>1, <1>2, <1>6, HandlerKeeps, NoMessage, ReplyIn, Zenon DEF Reply
  <2>2. ASSUME Orderly PROVE Orderly'
    <3>1. client = "waiting" /\ answers = << >> /\ Only({})' /\ Only(CopyTypes)'
      BY <1>3, <1>6, <2>2, Zenon
    <3>2. \A i \in 1 .. Len(out)' : out'[i].type \notin CopyTypes
      BY <3>1, Zenon DEF Only, CopyTypes
    <3>3. ~Errs'
      BY <1>1, <1>6, Zenon DEF Errs
    <3> QED
      BY <1>1, <1>2, <1>6, <3>1, <3>2, <3>3, Loads, Zenon DEF EndPCs
  <2> QED
    BY <1>6, <2>1, <2>2, TurnFrom, Zenon DEF Todo, QueryPCs
<1> QED
  BY <1>4, <1>5, <1>6, Zenon DEF CopyDone, Errs


LEMMA FinishTurn == ASSUME Turn, Finish PROVE Turn'
<1>1. /\ pc \in EndPCs /\ UNCHANGED <<gone, client, moved, outVars, todo, waitForSync, out>>
  BY Zenon DEF Finish, UnchangedByCopyIn, EndPCs
<1>2. /\ QueuesType /\ Silent /\ copyState \in CopyStates /\ waitForSync \in BOOLEAN /\ got \in Nat
  BY Zenon DEF Turn, QueuesType, HandlerType
<1>3. ASSUME Orderly
      PROVE  client = "waiting" /\ answers = << >> /\ ~Errs /\ Only({})' /\ Only(CopyTypes)'
  BY <1>1, <1>3, Zenon DEF Orderly, Busy, Only
<1>4. CASE ClosePipe /\ pc' = "rows" /\ UNCHANGED <<answers, odd, copyState>>
  <2>1. HandlerType'
    BY <1>1, <1>2, <1>4, Zenon DEF QueuesType, HandlerType, ClosePipe
  <2>2. QueuesType' /\ Silent' /\ LastWord' /\ AtWork'
    BY <1>1, <1>2, <1>4, <2>1, HandlerKeeps, NoMessage, ReplyIn, Zenon DEF Reply, EndPCs
  <2>3. ASSUME Orderly PROVE Orderly'
    <3>1. client = "waiting" /\ answers = << >> /\ ~Errs /\ Only({})' /\ Only(CopyTypes)'
      BY <1>3, <2>3, Zenon
    <3>2. \A i \in 1 .. Len(out)' : out'[i].type \notin CopyTypes
      BY <3>1, Zenon DEF Only, CopyTypes
    <3>3. ~Errs'
      BY <1>4, <3>1, Zenon DEF Errs
    <3> QED
      BY <1>1, <1>2, <1>4, <3>1, <3>2, <3>3, Loads, Zenon DEF EndPCs
  <2> QED
    BY <1>4, <2>2, <2>3, TurnFrom, Zenon DEF Todo, QueryPCs
<1>5. ASSUME NEW ms, Reply(ms), Send(ms), pc' \in {"receive", "leaked", "discard"}, odd \subseteq odd',
             HandlerType'
      PROVE  Turn'
  <2>1. QueuesType' /\ Silent' /\ LastWord' /\ AtWork'
    BY <1>1, <1>5, HandlerKeeps, Zenon DEF Reply, EndPCs
  <2>2. ASSUME Orderly PROVE Orderly'
    <3>1. Len(answers) = 0 /\ client = "waiting" /\ Only({})' /\ Only(CopyTypes)'
      BY <1>3, <2>2, Zenon
    <3> QED
      BY <1>1, <1>2, <1>5, <3>1, Replies DEF BusyPCs, QueryPCs, LoadPCs, EndPCs
  <2> QED
    BY <1>5, <2>1, <2>2, TurnFrom, Zenon DEF Todo, QueryPCs
<1>6. CASE Fail(FALSE, waitForSync, Stale) /\ UNCHANGED <<loaderVars, copyState>>
  <2>1. HandlerType'
    BY <1>1, <1>2, <1>6, Zenon DEF QueuesType, HandlerType, loaderVars
  <2> DEFINE ms == <<Msg("Error"), Msg("Ready")>>
             ns == << >>
  <2>2. Reply(ms) /\ Reply(ns)
    BY ReplyIn, Zenon
  <2>3. /\ odd \subseteq odd' /\ pc' \in {"receive", "leaked", "discard"}
        /\ answers' = answers \/ Send(ms)
    BY <1>2, <1>6, FailSends, Zenon
  <2>4. answers' = answers => Send(ns)
    BY <1>2, NoMessage, Zenon
  <2> HIDE DEF ms, ns
  <2> QED
    BY <1>5, <2>1, <2>2, <2>3, <2>4, Zenon
<1>7. CASE copyState' = NoCopy /\ Drop /\ EndOfMessages(<<Count("CopyComplete", got)>>, {})
  <2>1. HandlerType'
    BY <1>1, <1>2, <1>7, Zenon DEF QueuesType, HandlerType, Drop, NoCopy, CopyStates
  <2> DEFINE ms == <<Count("CopyComplete", got), Msg("Ready")>>
  <2>2. Reply(ms)
    BY <1>2, ReplyIn, Zenon
  <2>3. Send(ms) /\ pc' \in {"receive", "leaked"} /\ odd \subseteq odd'
    BY <1>2, <1>7, AnswerSends, JoinReady, Zenon DEF EndOfMessages
  <2> HIDE DEF ms
  <2> QED
    BY <1>5, <2>1, <2>2, <2>3, Zenon
<1> QED
  BY <1>4, <1>6, <1>7, Zenon DEF Finish

LEMMA CopyFailTurn == ASSUME Turn, CopyFail PROVE Turn'
<1>1. /\ pc = "receive" /\ out # << >> /\ out' = Tail(out)
      /\ UNCHANGED <<gone, client, moved, outVars, todo, waitForSync, loaderVars>>
      /\ copyState' \in {copyState, NoCopy}
      /\ \/ EndOfMessages(<< >>, {"CopyFail"})
         \/ EndOfMessages(<<Msg("Error")>>, {"CopyFail"})
  BY Zenon DEF CopyFail, Receive, UnchangedByCopyIn
<1>2. HandlerType'
  <2>1. NoCopy \in CopyStates
    BY Zenon DEF NoCopy, CopyStates
  <2>2. copyState' \in CopyStates
    BY <1>1, <2>1, Zenon DEF Turn, QueuesType, HandlerType
  <2> QED
    BY <1>1, <2>2, Zenon DEF Turn, QueuesType, HandlerType, loaderVars
<1> DEFINE ms == <<Msg("Ready")>>
           ns == <<Msg("Error"), Msg("Ready")>>
<1>3. ms \in Seq(Answerable) /\ ns \in Seq(Answerable)
  BY ReplyIn, Zenon DEF Reply
<1>4. (Send(ms) \/ Send(ns)) /\ pc' \in {"receive", "leaked"} /\ odd \cup {"CopyFail"} \subseteq odd'
  BY <1>1, AnswerSends, JoinReady, Zenon DEF EndOfMessages
<1> HIDE DEF ms, ns
<1>5. QueuesType' /\ Silent' /\ LastWord' /\ AtWork'
  BY <1>1, <1>2, <1>3, <1>4, HandlerKeeps, Zenon
<1>6. ~InStep'
  BY <1>4, OutOfStep, Zenon
<1> QED
  BY <1>4, <1>5, <1>6, TurnFrom, Zenon DEF Todo, QueryPCs

LEMMA HangupTurn == ASSUME Turn, Hangup \/ CloseConnection PROVE Turn'
<1>1. CASE Hangup
  <2>1. /\ pc = "receive" /\ pc' = "closing" /\ odd \subseteq odd'
        /\ (out # << >> /\ out' = Tail(out)) \/ (gone /\ out' = out)
        /\ UNCHANGED <<gone, client, moved, outVars, loaderVars, copyState, todo, waitForSync, answers>>
    BY <1>1, Zenon DEF Hangup, Receive, UnchangedByMessage, Note
  <2>2. QueuesType /\ Silent /\ HandlerType'
    BY <2>1, Zenon DEF Turn, QueuesType, HandlerType, loaderVars
  <2>3. QueuesType' /\ Silent' /\ LastWord' /\ AtWork'
    BY <2>1, <2>2, HandlerKeeps, NoMessage, ReplyIn, Zenon DEF Reply
  <2>4. Orderly => Orderly'
    BY <2>1, <2>2, NoAnswer, Zenon DEF StartPCs, BusyPCs, QueryPCs, LoadPCs, EndPCs, Silent
  <2> QED
    BY <2>1, <2>3, <2>4, TurnFrom, Zenon DEF Todo, QueryPCs
<1>2. CASE CloseConnection
  <2>1. /\ pc = "closing" /\ pc' = "closed" /\ gone' = TRUE /\ answers' = << >>
        /\ UNCHANGED <<odd, waitForSync, copyState, todo, out, client, moved, outVars, loaderVars>>
    BY <1>2, Zenon DEF CloseConnection
  <2>2. QueuesType'
    BY <2>1 DEF Turn, QueuesType, HandlerType, loaderVars, outVars
  <2>3. Silent' /\ LastWord' /\ AtWork' /\ Todo'
    BY <2>1, Zenon DEF Turn, Silent, LastWord, AtWork, Todo, QueryPCs, outVars
  <2>4. ASSUME Orderly PROVE Orderly'
    <3>1. Len(answers') = 0
      BY <2>1, Zenon
    <3>2. \A S : Only(S)' <=> Only(S)
      BY <2>1, Zenon DEF Only
    <3>3. \A i : Ends(i)' <=> Ends(i)
      BY <2>1, Zenon DEF Ends
    <3>4. Asked' /\ Copying'
      BY <2>1, <2>4, <3>2, <3>3, Zenon DEF Orderly, Asked, Copying, Errs
    <3>5. Starting'
      BY <2>1, <2>4, <3>1, <3>2, <3>3 DEF Orderly, Starting, StartPCs
    <3>6. Busy' /\ Quiet' /\ ReadyLast' /\ CopyInLast'
      BY <2>1, <3>1 DEF Busy, Quiet, ReadyLast, CopyInLast, QueryPCs, LoadPCs, EndPCs
    <3> QED
      BY <3>4, <3>5, <3>6, Zenon DEF Orderly
  <2> QED
    BY <2>1, <2>2, <2>3, <2>4, TurnFrom, Zenon
<1> QED
  BY <1>1, <1>2, Zenon


-----------------------------------------------------------------------------
(* The client's steps *)

LEMMA ClientPuts ==
  ASSUME Turn, NEW m \in Sendable, Put(m), m.type # "Terminate", moved' \in Nat,
         UNCHANGED <<handlerVars, loaderVars, outVars, sessionVars>>
  PROVE  QueuesType' /\ Silent' /\ LastWord' /\ AtWork' /\ Todo' /\ odd' = odd
<1>1. QueuesType /\ ~gone /\ UNCHANGED <<gone, answers, pc, todo, sender, odd>>
  BY Zenon DEF Turn, Put, handlerVars, outVars, sessionVars
<1>2. HandlerType'
  BY Zenon DEF Turn, QueuesType, HandlerType, handlerVars, loaderVars
<1>3. QueuesType'
  BY <1>2, PutOut, Zenon DEF Turn, QueuesType, sessionVars, outVars
<1>4. LastWord'
  <2>1. ASSUME NEW i \in 1 .. Len(out') PROVE out'[i].type # "Terminate"
    <3>1. CASE i <= Len(out)
      BY <1>1, <3>1, PutOut DEF Turn, LastWord
    <3>2. CASE i > Len(out)
      BY <1>1, <3>2, PutOut
    <3> QED
      BY <1>1, <3>1, <3>2, PutOut
  <2> QED
    BY <2>1, Zenon DEF LastWord
<1>5. Silent' /\ AtWork' /\ Todo'
  BY <1>1, Zenon DEF Turn, Silent, AtWork, Todo
<1> QED
  BY <1>1, <1>3, <1>4, <1>5, Zenon

(* A client that is not in an exchange begins one, or goes on with a batch. *)
LEMMA Requests ==
  ASSUME Turn, Orderly, NEW m \in Sendable, Put(m), UNCHANGED <<answers, pc, copyState>>,
         client \in {"starting", "idle", "batch"}, client' \in {"waiting", "batch", "asking"},
         m.type \notin CopyTypes, m.type \in Asks => client' = "waiting",
         m.type = "EncryptionRequest" => client' = "asking",
         client' = "asking" => client = "starting"
  PROVE  Orderly'
<1>1. /\ Len(out) \in Nat /\ Len(out') = Len(out) + 1 /\ out'[Len(out) + 1] = m
      /\ \A i \in 1 .. Len(out) : out'[i] = out[i]
  BY PutOut, Zenon DEF Turn
<1>2. answers = << >> /\ Len(answers') = 0 /\ (client' = "asking" => pc \in StartPCs)
  BY Zenon DEF Orderly, Quiet, Starting
<1>3. \A i \in 1 .. Len(out) : /\ out[i].type \notin Asks \cup {"EncryptionRequest"}
                               /\ ~Errs => out[i].type \notin CopyTypes
  BY Zenon DEF Orderly, Asked, Starting, Copying
<1>4. ASSUME NEW i \in 1 .. Len(out'), i = Len(out) + 1 PROVE Ends(i)'
  BY <1>1, <1>4 DEF Ends
<1>5. \A i \in 1 .. Len(out') : out'[i].type \in Asks \cup {"EncryptionRequest"} =>
                               i = Len(out) + 1 /\ out'[i] = m /\ Ends(i)'
  BY <1>1, <1>3, <1>4
<1>6. Asked'
  BY <1>2, <1>5, Zenon DEF Asked
<1>7. Starting'
  <2>1. \A i \in 1 .. Len(answers') : FALSE
    BY <1>2
  <2>2. \A i \in 1 .. Len(out') : out'[i].type = "EncryptionRequest" =>
          client' = "asking" /\ answers' = << >> /\ Ends(i)'
    BY <1>2, <1>5, Zenon
  <2>3. client' # "starting" /\ (client' = "asking" => pc' \in StartPCs)
    BY <1>2, Zenon DEF StartPCs
  <2> QED
    BY <2>1, <2>2, <2>3, Zenon DEF Starting
<1>8. Busy' /\ Quiet' /\ ReadyLast' /\ CopyInLast'
  BY <1>2 DEF Orderly, Starting, Busy, Quiet, ReadyLast, CopyInLast, StartPCs, QueryPCs,
     LoadPCs, EndPCs
<1>9. Copying'
  <2>1. (~Errs)' => ~Errs
    BY Zenon DEF Errs
  <2>2. ~Errs => \A i \in 1 .. Len(out') : out'[i].type \notin CopyTypes
    BY <1>1, <1>3
  <2>3. client' # "copying"
    OBVIOUS
  <2> QED
    BY <2>1, <2>2, <2>3, Zenon DEF Copying
<1> QED
  BY <1>6, <1>7, <1>8, <1>9, Zenon DEF Orderly

(* Outside a COPY the client sends a request, or a message of a batch.     *)
LEMMA SendsRequest ==
  ASSUME Turn, SendStartup \/ SendQuery \/ SendExtended \/ SendSync
  PROVE  \E m \in Sendable :
           /\ Put(m) /\ m.type \notin CopyTypes \cup {"Terminate"} /\ moved' \in {moved, 0}
           /\ client \in {"starting", "idle", "batch"} /\ client' \in {"waiting", "batch", "asking"}
           /\ m.type \in Asks => client' = "waiting"
           /\ m.type = "Query" => moved' = 0
           /\ m.type = "EncryptionRequest" => client' = "asking"
           /\ client' = "asking" => client = "starting"
<1>2. ASSUME NEW m \in Sendable, Put(m), m.type \notin CopyTypes \cup {"Terminate"},
             moved' \in {moved, 0},
             client \in {"starting", "idle", "batch"}, client' \in {"waiting", "batch", "asking"},
             m.type \in Asks => client' = "waiting", m.type = "Query" => moved' = 0,
             m.type = "EncryptionRequest" => client' = "asking",
             client' = "asking" => client = "starting"
      PROVE  \E r \in Sendable :
               /\ Put(r) /\ r.type \notin CopyTypes \cup {"Terminate"} /\ moved' \in {moved, 0}
               /\ client \in {"starting", "idle", "batch"} /\ client' \in {"waiting", "batch", "asking"}
               /\ r.type \in Asks => client' = "waiting"
               /\ r.type = "Query" => moved' = 0
               /\ r.type = "EncryptionRequest" => client' = "asking"
               /\ client' = "asking" => client = "starting"
  BY <1>2, Zenon
<1>3. CASE SendStartup
  <2>1. PICK t \in {"Startup", "EncryptionRequest", "CancelRequest"} :
          /\ Put(Request(t, "", "", << >>)) /\ client = "starting" /\ moved' = moved
          /\ client' = IF t = "EncryptionRequest" THEN "asking" ELSE "waiting"
    BY <1>3, Zenon DEF SendStartup
  <2> DEFINE m == Request(t, "", "", << >>)
  <2>2. m \in Sendable /\ m.type = t
    BY RequestIn, Zenon DEF PlainTypes
  <2> HIDE DEF m
  <2>3. Put(m)
    BY <2>1, Zenon DEF m
  <2> QED
    BY <1>2, <2>1, <2>2, <2>3, Zenon DEF CopyTypes, Asks
<1>4. CASE SendQuery
  <2>1. PICK q \in Queries : Put(Simple(q)) /\ client = "idle" /\ client' = "waiting" /\ moved' = 0
    BY <1>4, Zenon DEF SendQuery, Post
  <2>2. Simple(q) \in Sendable /\ Simple(q).type = "Query"
    BY RequestIn, Zenon
  <2> QED
    BY <1>2, <2>1, <2>2, Zenon DEF CopyTypes, Asks
<1>5. CASE SendExtended
  <2>1. PICK m \in Extended : Put(m) /\ client \in {"idle", "batch"} /\ client' = "batch" /\ moved' = moved
    BY <1>5, Zenon DEF SendExtended, Post
  <2>2. m \in Sendable
    BY Zenon DEF Sendable
  <2>3. m.type \notin PlainTypes \cup {"Query"}
    BY <2>2, SentTypes, Zenon
  <2> QED
    BY <1>2, <2>1, <2>2, <2>3, Zenon DEF CopyTypes, Asks, PlainTypes
<1>6. CASE SendSync
  <2>1. Put(Request("Sync", "", "", << >>)) /\ client = "batch" /\ client' = "waiting" /\ moved' = moved
    BY <1>6, Zenon DEF SendSync
  <2> DEFINE m == Request("Sync", "", "", << >>)
  <2>2. m \in Sendable /\ m.type = "Sync"
    BY RequestIn, Zenon DEF PlainTypes
  <2>3. Put(m)
    BY <2>1, Zenon
  <2> HIDE DEF m
  <2> QED
    BY <1>2, <2>1, <2>2, <2>3, Zenon DEF CopyTypes, Asks
<1> QED
  BY <1>3, <1>4, <1>5, <1>6, Zenon

LEMMA SendsTurn ==
  ASSUME Turn, SendStartup \/ SendQuery \/ SendExtended \/ SendSync,
         UNCHANGED <<handlerVars, loaderVars, outVars, sessionVars>>
  PROVE  Turn'
<1>1. moved \in Nat /\ UNCHANGED <<answers, pc, copyState>>
  BY Zenon DEF Turn, QueuesType, handlerVars, sessionVars
<1>2. PICK m \in Sendable :
        /\ Put(m) /\ m.type \notin CopyTypes \cup {"Terminate"} /\ moved' \in {moved, 0}
        /\ client \in {"starting", "idle", "batch"} /\ client' \in {"waiting", "batch", "asking"}
        /\ m.type \in Asks => client' = "waiting"
        /\ m.type = "EncryptionRequest" => client' = "asking"
        /\ client' = "asking" => client = "starting"
  BY SendsRequest, Zenon
<1>3. moved' \in Nat
  BY <1>1, <1>2
<1>4. QueuesType' /\ Silent' /\ LastWord' /\ AtWork' /\ Todo' /\ odd' = odd
  BY <1>2, <1>3, ClientPuts, Zenon
<1>5. Orderly => Orderly'
  BY <1>1, <1>2, Requests, Zenon
<1> QED
  BY <1>4, <1>5, TurnFrom, Zenon

LEMMA CopySendsTurn ==
  ASSUME Turn, SendCopyData \/ EndCopy, UNCHANGED <<handlerVars, loaderVars, outVars, sessionVars>>
  PROVE  Turn'
<1>1. moved \in Nat /\ ~gone /\ UNCHANGED <<answers, pc, copyState>>
  BY Zenon DEF Turn, QueuesType, handlerVars, sessionVars, SendCopyData, EndCopy, Put
<1>2. \E t \in CopyTypes : /\ Put(Request(t, "", "", << >>)) /\ client = "copying" /\ moved' \in Nat
                           /\ client' = IF t = "CopyData" THEN "copying" ELSE "waiting"
  <2>1. CASE SendCopyData
    <3>1. /\ "CopyData" \in CopyTypes /\ Put(Request("CopyData", "", "", << >>))
          /\ client = "copying" /\ client' = "copying" /\ moved' \in Nat
      <4>1. moved' \in Nat /\ "CopyData" \in CopyTypes
        <5>1. moved' = moved + 1
          BY <2>1, Zenon DEF SendCopyData
        <5> QED
          BY <1>1, <5>1 DEF CopyTypes
      <4> QED
        BY <2>1, <4>1, Zenon DEF SendCopyData
    <3> QED
      BY <3>1, Zenon
  <2>2. CASE EndCopy
    BY <1>1, <2>2, Zenon DEF EndCopy, CopyTypes
  <2> QED
    BY <2>1, <2>2, Zenon
<1>3. PICK t \in CopyTypes : /\ Put(Request(t, "", "", << >>)) /\ client = "copying" /\ moved' \in Nat
                             /\ client' = IF t = "CopyData" THEN "copying" ELSE "waiting"
  BY <1>2, Zenon
<1> DEFINE m == Request(t, "", "", << >>)
<1>4. m \in Sendable /\ m.type = t
  BY RequestIn, Zenon DEF PlainTypes, CopyTypes
<1>5. Put(m)
  BY <1>3, Zenon
<1> HIDE DEF m
<1>6. QueuesType' /\ Silent' /\ LastWord' /\ AtWork' /\ Todo' /\ odd' = odd
  BY <1>3, <1>4, <1>5, ClientPuts, Zenon DEF CopyTypes
<1>7. /\ Len(out) \in Nat /\ Len(out') = Len(out) + 1 /\ out'[Len(out) + 1] = m
      /\ \A i \in 1 .. Len(out) : out'[i] = out[i]
  BY <1>4, <1>5, PutOut, Zenon DEF Turn
<1>8. ASSUME Orderly PROVE Orderly'
  <2>1. \A i \in 1 .. Len(out') : out'[i].type \notin Asks \cup {"EncryptionRequest"}
    <3>1. \A i \in 1 .. Len(out) : out[i].type \notin Asks \cup {"EncryptionRequest"}
      BY <1>3, <1>8, Zenon DEF Orderly, Asked, Starting
    <3>2. m.type \notin Asks \cup {"EncryptionRequest"}
      BY <1>4, Zenon DEF CopyTypes, Asks
    <3> QED
      BY <1>7, <3>1, <3>2
  <2>2. \A i \in 1 .. Len(answers') : answers'[i].type \notin {"Encryption", "CopyIn"}
    BY <1>1, <1>3, <1>8, Zenon DEF Orderly, Starting, CopyInLast
  <2>3. Asked' /\ Starting' /\ Quiet' /\ CopyInLast'
    BY <1>3, <2>1, <2>2, Zenon DEF Asked, Starting, Quiet, CopyInLast
  <2>4. Busy'
    <3>1. \A S : m.type \in S /\ Only(S) => Only(S)'
      BY <1>7 DEF Only
    <3> QED
      BY <1>1, <1>3, <1>4, <1>8, <3>1, Zenon DEF Orderly, Busy, Errs
  <2>5. ReadyLast'
    BY <1>1, <1>3, <1>8, Zenon DEF Orderly, ReadyLast, InCopy, Errs
  <2>6. Copying'
    <3>1. ASSUME ~Errs PROVE \A i \in 1 .. Len(out) : out[i].type = "CopyData"
      BY <1>1, <1>3, <1>8, <3>1, Zenon DEF Orderly, Copying, Only, Turn, LastWord
    <3>2. ASSUME ~Errs PROVE answers = << >>
      BY <1>3, <1>8, <3>2, Zenon DEF Orderly, Copying
    <3> QED
      <4>1. ASSUME ~Errs, NEW i \in 1 .. Len(out')
            PROVE  out'[i].type = "CopyData" \/ (i = Len(out) + 1 /\ out'[i].type = t)
        BY <1>4, <1>7, <3>1, <4>1
      <4>2. ASSUME ~Errs PROVE Only(CopyTypes)' /\ (client' = "copying" => Only({"CopyData"})')
        BY <1>3, <4>1, <4>2, Zenon DEF Only, CopyTypes
      <4>3. ASSUME NEW i \in 1 .. Len(out'), i = Len(out) + 1 PROVE Ends(i)'
        BY <1>7, <4>3 DEF Ends
      <4>4. ASSUME ~Errs, NEW i \in 1 .. Len(out'), out'[i].type # "CopyData"
            PROVE  client' = "waiting" /\ Ends(i)'
        BY <1>3, <4>1, <4>3, <4>4, Zenon
      <4>5. client' \in {"copying", "waiting"} /\ (Errs' <=> Errs)
        BY <1>1, <1>3, Zenon DEF Errs
      <4> QED
        BY <1>1, <3>2, <4>2, <4>4, <4>5, Zenon DEF Copying
  <2> QED
    BY <2>3, <2>4, <2>5, <2>6, Zenon DEF Orderly
<1> QED
  BY <1>6, <1>8, TurnFrom, Zenon


LEMMA Reads ==
  ASSUME ReadAnswer
  PROVE  LET t == Head(answers).type IN
         /\ t = "Ready" => client' = "idle"
         /\ t = "Encryption" => client' = "starting"
         /\ t = "CopyIn" => client' = "copying"
         /\ t \notin {"Ready", "Encryption", "CopyIn"} => client' \in {client, "waiting", "receiving"}
         /\ gone' => t = "Ready" /\ client \in {"idle", "batch"}
         /\ gone' \in BOOLEAN
<1> DEFINE t == Head(answers).type
<1>1. client' = CASE t = "Ready" -> "idle"
                  [] t = "Encryption" -> "starting"
                  [] t = "CopyIn" -> "copying"
                  [] t = "CopyOut" -> "receiving"
                  [] t \in {"Error", "CopyDone"} /\ client \in {"copying", "receiving"}
                       -> "waiting"
                  [] OTHER -> client
  BY Zenon DEF ReadAnswer
<1>2. gone' = (t = "Ready" /\ client \in {"idle", "batch"})
  BY Zenon DEF ReadAnswer
<1> HIDE DEF t
<1>3. CASE t \in {"Ready", "Encryption", "CopyIn", "CopyOut"}
  BY <1>1, <1>2, <1>3, Zenon DEF t
<1>4. CASE t \notin {"Ready", "Encryption", "CopyIn", "CopyOut"}
  <2>1. client' \in {client, "waiting"}
    BY <1>1, <1>4, Zenon
  <2> QED
    BY <1>2, <1>4, <2>1, Zenon DEF t
<1> QED
  BY <1>3, <1>4, Zenon

LEMMA ReadAnswerTurn == ASSUME Turn, ReadAnswer PROVE Turn'
<1>1. /\ ~gone /\ answers # << >> /\ gone' \in BOOLEAN
      /\ UNCHANGED <<out, pc, todo, copyState, odd, sender>>
      /\ answers' = IF gone' THEN << >> ELSE Tail(answers)
  BY Zenon DEF ReadAnswer, handlerVars, outVars
<1>2. /\ Tail(answers) \in Seq(Answerable) /\ Len(answers) \in Nat /\ Len(answers) >= 1
      /\ Len(Tail(answers)) = Len(answers) - 1 /\ Head(answers) = answers[1] /\ answers[1] \in Answerable
      /\ \A i \in 1 .. Len(Tail(answers)) : Tail(answers)[i] = answers[i + 1] /\ i + 1 \in 1 .. Len(answers)
  BY <1>1, TailAt, Zenon DEF Turn, QueuesType
<1>3. moved' \in Nat
  BY DEF Turn, QueuesType, ReadAnswer
<1>4. QueuesType'
  <2>1. HandlerType'
    BY Zenon DEF Turn, QueuesType, HandlerType, ReadAnswer, handlerVars, loaderVars
  <2> QED
    BY <1>1, <1>2, <1>3, <2>1 DEF Turn, QueuesType, ReadAnswer, outVars
<1>5. Silent' /\ LastWord' /\ AtWork' /\ Todo'
  BY <1>1, Zenon DEF Turn, Silent, LastWord, AtWork, Todo
<1>6. ASSUME Orderly PROVE Orderly'
  <2> DEFINE t == answers[1].type
  <2>1. /\ client \notin {"idle", "batch", "starting"}
        /\ client = "asking" => t = "Encryption"
        /\ pc \notin LoadPCs \cup EndPCs
    BY <1>1, <1>2, <1>6 DEF Orderly, Quiet, Starting, Busy
  <2> HIDE DEF t
  <2>8. 1 \in 1 .. Len(answers) /\ answers[1].type = t
    BY <1>2 DEF t
  <2>9. /\ t = "Ready" => client' = "idle"
        /\ t = "Encryption" => client' = "starting"
        /\ t = "CopyIn" => client' = "copying"
        /\ t \notin {"Ready", "Encryption", "CopyIn"} => client' \in {client, "waiting", "receiving"}
        /\ gone' => client \in {"idle", "batch"}
    BY <1>2, Reads, Zenon DEF t
  <2>2. ~gone' /\ answers' = Tail(answers)
    BY <1>1, <2>1, <2>9, Zenon
  <2>3. \A i \in 1 .. Len(out) : out[i].type \notin Asks \cup {"EncryptionRequest"}
    BY <1>1, <1>6, Zenon DEF Orderly, Asked, Starting
  <2>4. /\ \A S : Only(S)' <=> Only(S)
        /\ Errs' <=> Errs
    BY <1>1, Zenon DEF Only, Errs
  <2>5. Asked'
    BY <1>1, <2>3, Zenon DEF Asked
  <2>6. CASE t \in {"Ready", "Encryption", "CopyIn"}
    <3>1. Len(answers) = 1
      <4>1. CASE t = "Ready"
        BY <2>8, <1>6, <4>1, Zenon DEF Orderly, ReadyLast
      <4>2. CASE t = "Encryption"
        BY <2>8, <1>6, <4>2, Zenon DEF Orderly, Starting
      <4>3. CASE t = "CopyIn"
        BY <2>8, <1>6, <4>3, Zenon DEF Orderly, CopyInLast
      <4> QED
        BY <2>6, <4>1, <4>2, <4>3, Zenon
    <3>2. answers' = << >> /\ Len(answers') = 0
      BY <1>2, <2>2, <3>1, <1>4, EmptyAt DEF QueuesType
    <3>3. ReadyLast' /\ CopyInLast' /\ Quiet'
      BY <3>2 DEF ReadyLast, CopyInLast, Quiet
    <3>4. CASE t = "Ready"
      <4>1. client' = "idle" /\ pc \notin BusyPCs /\ (InCopy => Errs)
        BY <2>8, <2>9, <1>6, <3>4, Zenon DEF Orderly, ReadyLast
      <4>2. Starting'
        BY <1>1, <2>3, <3>2, <4>1 DEF Starting
      <4>3. Busy' /\ Copying'
        BY <1>1, <2>4, <4>1, Zenon DEF Busy, Copying, BusyPCs, InCopy
      <4> QED
        BY <2>5, <3>3, <4>2, <4>3, Zenon DEF Orderly
    <3>5. CASE t = "Encryption"
      <4>1. client' = "starting" /\ client = "asking" /\ Only({}) /\ pc \in StartPCs
        BY <2>8, <2>9, <1>6, <3>5, Zenon DEF Orderly, Starting
      <4>2. Starting'
        BY <1>1, <2>3, <2>4, <3>2, <4>1 DEF Starting
      <4>3. Busy' /\ Copying'
        BY <1>1, <2>4, <4>1, Zenon DEF Busy, Copying, StartPCs, QueryPCs, LoadPCs, EndPCs,
           Only, CopyTypes
      <4> QED
        BY <2>5, <3>3, <4>2, <4>3 DEF Orderly
    <3>6. CASE t = "CopyIn"
      <4>1. client' = "copying" /\ out = << >> /\ pc = "receive" /\ ~Errs
        BY <2>8, <2>9, <1>6, <3>6, Zenon DEF Orderly, CopyInLast
      <4>2. \A i \in 1 .. Len(out) : FALSE
        BY <4>1
      <4>3. Starting'
        BY <1>1, <3>2, <4>1, <4>2, Zenon DEF Starting
      <4>4. Busy' /\ Copying'
        BY <1>1, <3>2, <4>1, <4>2, Zenon DEF Busy, Copying, StartPCs, QueryPCs, LoadPCs,
           EndPCs, Only
      <4> QED
        BY <2>5, <3>3, <4>3, <4>4 DEF Orderly
    <3> QED
      BY <2>6, <3>4, <3>5, <3>6, Zenon
  <2>7. CASE t \notin {"Ready", "Encryption", "CopyIn"}
    <3>1. client \notin {"idle", "batch", "starting", "asking"} /\ client' \in {client, "waiting", "receiving"}
      BY <2>1, <2>7, <2>9, Zenon
    <3>2. \A i \in 1 .. Len(answers) : answers[i].type # "Encryption"
      BY <1>6, <3>1, Zenon DEF Orderly, Starting
    <3>3. Starting'
      BY <1>1, <1>2, <2>2, <2>3, <3>1, <3>2, Zenon DEF Starting
    <3>4. Busy' /\ Quiet'
      BY <1>1, <1>6, <2>1, <2>4, <3>1, Zenon DEF Orderly, Busy, Quiet
    <3>5. ReadyLast'
      <4>1. InCopy' => InCopy
        BY <1>1, <3>1, Zenon DEF InCopy
      <4>2. ASSUME NEW i \in 1 .. Len(answers'), answers'[i].type = "Ready"
            PROVE  i = Len(answers') /\ pc' \notin BusyPCs /\ (InCopy => Errs)
        <5>1. i + 1 \in 1 .. Len(answers) /\ answers[i + 1].type = "Ready"
          BY <1>2, <2>2, <4>2, Zenon
        <5>2. i + 1 = Len(answers) /\ pc \notin BusyPCs /\ (InCopy => Errs)
          BY <1>6, <5>1, Zenon DEF Orderly, ReadyLast
        <5> QED
          <6>1. i = Len(answers')
            <7>1. Len(answers') = Len(answers) - 1 /\ Len(answers) \in Nat
              BY <1>2, <2>2, Zenon
            <7> HIDE <4>2
            <7> QED
              BY <5>2, <7>1
          <6> QED
            BY <1>1, <5>2, <6>1, Zenon
      <4> QED
        BY <2>4, <4>1, <4>2, Zenon DEF ReadyLast
    <3>6. CopyInLast'
      <4>1. ASSUME NEW i \in 1 .. Len(answers'), answers'[i].type = "CopyIn"
            PROVE  /\ i = Len(answers') /\ client \in {"waiting", "receiving"}
                   /\ out = << >> /\ pc = "receive" /\ ~Errs
        <5>1. i + 1 \in 1 .. Len(answers) /\ answers[i + 1].type = "CopyIn"
          BY <1>2, <2>2, <4>1, Zenon
        <5>2. /\ i + 1 = Len(answers) /\ client \in {"waiting", "receiving"}
              /\ out = << >> /\ pc = "receive" /\ ~Errs
          BY <1>6, <5>1, Zenon DEF Orderly, CopyInLast
        <5>3. Len(answers') = Len(answers) - 1 /\ Len(answers) \in Nat
          BY <1>2, <2>2
        <5>4. i = Len(answers')
          BY <5>2, <5>3
        <5> QED
          BY <5>2, <5>4, Zenon
      <4> QED
        BY <1>1, <2>4, <3>1, <4>1, Zenon DEF CopyInLast
    <3>7. Copying'
      BY <1>1, <1>6, <2>4, <3>1, Zenon DEF Orderly, Copying
    <3> QED
      BY <2>5, <3>3, <3>4, <3>5, <3>6, <3>7, Zenon DEF Orderly
  <2> QED
    BY <2>6, <2>7, Zenon
<1> QED
  BY <1>1, <1>4, <1>5, <1>6, TurnFrom, Zenon

LEMMA LeaveTurn == ASSUME Turn, Leave PROVE Turn'
<1>1. /\ gone' = TRUE /\ answers' = << >> /\ UNCHANGED <<client, moved, pc, todo, copyState, odd, sender>>
      /\ out' \in {out, Append(out, Request("Terminate", "", "", << >>))}
  BY Zenon DEF Leave, handlerVars, outVars
<1>2. /\ out' \in Seq(Sendable) /\ Len(out) \in Nat /\ Len(out') \in {Len(out), Len(out) + 1}
      /\ \A i \in 1 .. Len(out) : out'[i] = out[i]
      /\ \A i \in 1 .. Len(out') : i \notin 1 .. Len(out) => out'[i].type = "Terminate"
  <2> DEFINE m == Request("Terminate", "", "", << >>)
  <2>1. m \in Sendable /\ m.type = "Terminate"
    BY RequestIn, Zenon DEF PlainTypes
  <2> HIDE DEF m
  <2>2. out' = out \/ out' = Append(out, m)
    BY <1>1, Zenon DEF m
  <2>3. CASE out' = out
    BY <2>3 DEF Turn, QueuesType
  <2>4. CASE out' = Append(out, m)
    BY <2>1, <2>4, AppendAt DEF Turn, QueuesType
  <2> QED
    BY <2>2, <2>3, <2>4, Zenon
<1>3. QueuesType'
  <2>1. HandlerType'
    BY Zenon DEF Turn, QueuesType, HandlerType, Leave, handlerVars, loaderVars
  <2> QED
    <3>1. rows' \in Nat /\ lines' \in Nat /\ written' \in Nat /\ moved' \in Nat
      BY <1>1, Zenon DEF Turn, QueuesType, Leave, outVars
    <3>2. answers' \in Seq(Answerable) /\ gone' \in BOOLEAN
      <4>1. << >> \in Seq(Answerable)
        OBVIOUS
      <4> QED
        BY <1>1, <4>1, Zenon
    <3> QED
      BY <1>2, <2>1, <3>1, <3>2, Zenon DEF QueuesType
<1>4. Silent' /\ LastWord' /\ AtWork' /\ Todo'
  BY <1>1, Zenon DEF Turn, Silent, LastWord, AtWork, Todo
<1>5. ASSUME Orderly PROVE Orderly'
  <2>1. Len(answers') = 0
    BY <1>1, Zenon
  <2>2. \A S : Only(S) => Only(S)'
    BY <1>2, Zenon DEF Only
  <2>3. \A i \in 1 .. Len(out) : Ends(i) => Ends(i)'
    BY <1>2, Zenon DEF Ends
  <2>4. \A i \in 1 .. Len(out') : out'[i].type # "Terminate" => i \in 1 .. Len(out) /\ out'[i] = out[i]
    BY <1>2, Zenon
  <2>5. Asked'
    BY <1>1, <1>5, <2>3, <2>4, Zenon DEF Orderly, Asked, Asks
  <2>6. Starting'
    <3>1. \A i \in 1 .. Len(answers') : FALSE
      BY <2>1
    <3>2. client' = "starting" => Only({})' /\ pc' \in StartPCs
      BY <1>1, <1>5, <2>2, Zenon DEF Orderly, Starting
    <3>3. client' = "asking" => pc' \in StartPCs
      BY <1>1, <1>5, Zenon DEF Orderly, Starting
    <3>4. ASSUME NEW i \in 1 .. Len(out'), out'[i].type = "EncryptionRequest"
          PROVE  client' = "asking" /\ Ends(i)'
      BY <1>1, <1>5, <2>3, <2>4, <3>4, Zenon DEF Orderly, Starting
    <3> QED
      BY <1>1, <3>1, <3>2, <3>3, <3>4, Zenon DEF Starting
  <2>7. Quiet' /\ ReadyLast' /\ CopyInLast'
    <3>1. \A i \in 1 .. Len(answers') : FALSE
      BY <2>1
    <3> QED
      BY <1>1, <3>1, Zenon DEF Quiet, ReadyLast, CopyInLast
  <2>10. Busy'
    BY <1>1, <1>5, <2>2, Zenon DEF Orderly, Busy, Errs
  <2>8. Copying'
    BY <1>1, <1>5, <2>2, <2>3, <2>4, Zenon DEF Orderly, Copying, Errs, CopyTypes
  <2> QED
    BY <2>5, <2>6, <2>7, <2>8, <2>10, Zenon DEF Orderly
<1> QED
  BY <1>1, <1>3, <1>4, <1>5, TurnFrom, Zenon


-----------------------------------------------------------------------------
(* The goroutines' steps *)

LEMMA LoaderTurn ==
  ASSUME Turn, LoaderNext \/ LoaderFaults, UNCHANGED <<outVars, clientVars, handlerVars>>
  PROVE  Turn'
<1>1. UNCHANGED <<answers, gone, outVars, clientVars, handlerVars>>
  BY Zenon DEF LoaderNext, LoaderFaults
<1>2. unread' \in Nat /\ got' \in Nat /\ stored' \in Nat
  <2>0. unread \in Nat /\ got \in Nat /\ stored \in Nat
    BY Zenon DEF Turn, QueuesType, HandlerType
  <2>1. CASE Read
    BY <2>0, <2>1 DEF Read
  <2>2. CASE Commit
    BY <2>0, <2>2, Zenon DEF Commit
  <2>3. CASE ~Read /\ ~Commit
    <3>1. UNCHANGED <<unread, got, stored>>
      BY <2>3, Zenon DEF LoaderNext, LoaderFaults, ExecuteCopy, Meet, ReaderReports, Unblock,
         Collect,
         Opened, Check, ReaderFails, UnblockFails
    <3> QED
      BY <2>0, <3>1, Zenon
  <2> QED
    BY <2>1, <2>2, <2>3, Zenon
<1>3. QueuesType'
  <2>1. HandlerType'
    BY <1>1, <1>2, Zenon DEF Turn, QueuesType, HandlerType, handlerVars
  <2> QED
    BY <1>1, <2>1, Zenon DEF Turn, QueuesType, outVars, clientVars
<1>4. UNCHANGED <<answers, gone, client, out, pc, todo, copyState, odd, sender>>
  BY <1>1, Zenon DEF outVars, clientVars, handlerVars
<1>5. Silent' /\ LastWord' /\ AtWork' /\ Todo'
  BY <1>4, Zenon DEF Turn, Silent, LastWord, AtWork, Todo
<1>6. Orderly => Orderly'
  BY <1>4, ZenonT(30) DEF Orderly, Asked, Starting, Busy, Quiet, ReadyLast, CopyInLast, Copying,
     InCopy, Errs,
              Only, Ends
<1> QED
  BY <1>3, <1>4, <1>5, <1>6, TurnFrom, Zenon

LEMMA OutTurn ==
  ASSUME Turn, OutNext \/ OutFaults, UNCHANGED <<loaderVars, clientVars, handlerVars>>
  PROVE  Turn'
<1>1. UNCHANGED <<gone, client, moved, out, pc, todo, copyState, waitForSync, odd>>
  BY Zenon DEF OutNext, OutFaults, clientVars, handlerVars
<1>2. QueuesType /\ Silent /\ HandlerType'
  BY <1>1, Zenon DEF Turn, QueuesType, HandlerType, loaderVars
<1>3. \E ms \in Seq(Answerable) : /\ Send(ms) /\ \A i \in 1 .. Len(ms) : ms[i].type \in ReplyTypes
                                  /\ ms # << >> => sender \in {"opened", "reading"}
  <2>1. ASSUME answers' = answers
        PROVE  \E ms \in Seq(Answerable) : /\ Send(ms) /\ \A i \in 1 .. Len(ms) : ms[i].type \in ReplyTypes
                                           /\ ms # << >> => sender \in {"opened", "reading"}
    <3> DEFINE ms == << >>
    <3>1. /\ ms \in Seq(Answerable) /\ Send(ms) /\ ms = << >>
          /\ \A i \in 1 .. Len(ms) : ms[i].type \in ReplyTypes
      BY <1>2, <2>1, NoMessage
    <3> QED
      BY <3>1, Zenon
  <2>2. CASE SenderOpened
    <3> DEFINE ms == IF globalErr \/ text THEN << >> ELSE <<Msg("CopyOut")>>
    <3>1. Send(ms) /\ sender = "opened"
      BY <2>2, Zenon DEF SenderOpened
    <3>2. ms \in Seq(Answerable) /\ \A i \in 1 .. Len(ms) : ms[i].type \in ReplyTypes
      BY MsgIn DEF ReplyTypes
    <3> HIDE DEF ms
    <3> QED
      BY <3>1, <3>2, Zenon
  <2>3. CASE SendLine
    <3> DEFINE m == Msg("Row")
               c == Msg("CopyOut")
               ms == (IF responded THEN << >> ELSE <<c>>) \o <<m>>
    <3>1. Send(ms) /\ sender = "reading"
      BY <2>3, Zenon DEF SendLine
    <3>2. m \in Answerable /\ m.type \in ReplyTypes /\ c \in Answerable /\ c.type \in ReplyTypes
      BY MsgIn DEF ReplyTypes
    <3> HIDE DEF m, c
    <3>3. ms \in Seq(Answerable) /\ \A i \in 1 .. Len(ms) : ms[i].type \in ReplyTypes
      BY <3>2
    <3> HIDE DEF ms
    <3> QED
      BY <3>1, <3>3, Zenon
  <2>4. CASE ~SenderOpened /\ ~SendLine
    <3>1. answers' = answers
      BY <2>4, Zenon DEF OutNext, OutFaults, ExecuteOut, MeetOut, WriteLine, WriterDone,
         WriterBroken, WriterMissesPipe, WriterFails, WriterReturnsError, SenderDone,
         SenderFails, ReadFails, SenderReturnsError
    <3> QED
      BY <2>1, <3>1, Zenon
  <2> QED
    BY <2>2, <2>3, <2>4, Zenon
<1>4. PICK ms \in Seq(Answerable) : /\ Send(ms) /\ \A i \in 1 .. Len(ms) : ms[i].type \in ReplyTypes
                                    /\ ms # << >> => sender \in {"opened", "reading"}
  BY <1>3, Zenon
<1>5. /\ rows' \in Nat /\ lines' \in Nat /\ written' \in Nat
      /\ sender' \in {"opening", "opened", "reading"} => sender \in {"opening", "opened", "reading"}
  <2>0. rows \in Nat /\ lines \in Nat /\ written \in Nat
    BY Zenon DEF Turn, QueuesType
  <2>1. CASE WriteLine
    BY <2>0, <2>1 DEF WriteLine
  <2>2. CASE SendLine
    BY <2>0, <2>2 DEF SendLine
  <2>3. CASE SenderOpened
    BY <2>0, <2>3, Zenon DEF SenderOpened
  <2>4. CASE ~WriteLine /\ ~SendLine /\ ~SenderOpened
    <3>1. UNCHANGED <<rows, lines, written>>
      BY <2>4, Zenon DEF OutNext, OutFaults, ExecuteOut, MeetOut, WriterDone, WriterBroken,
         WriterFails, WriterMissesPipe,
         WriterReturnsError, SenderDone, SenderFails, ReadFails, SenderReturnsError
    <3>2. sender' \in {sender, "done"} \/ sender = "opening"
      BY <2>4, Zenon DEF OutNext, OutFaults, ExecuteOut, MeetOut, WriterDone, WriterBroken,
         WriterFails, WriterMissesPipe,
         WriterReturnsError, SenderDone, SenderFails, ReadFails, SenderReturnsError
    <3> QED
      BY <2>0, <3>1, <3>2, Zenon
  <2> QED
    BY <2>1, <2>2, <2>3, <2>4, Zenon
<1>6. QueuesType' /\ Silent' /\ LastWord'
  BY <1>1, <1>2, <1>4, <1>5, QueuesKept, Zenon
<1>7. AtWork' /\ Todo'
  BY <1>1, <1>5, Zenon DEF Turn, AtWork, Todo
<1>8. ASSUME Orderly PROVE Orderly'
  <2>1. CASE ms = << >>
    <3>1. answers' = answers
      BY <1>2, <1>4, <2>1, NoMessage, Zenon
    <3> QED
      BY <1>1, <1>8, <3>1, ZenonT(30) DEF Orderly, Asked, Starting, Busy, Quiet, ReadyLast,
         CopyInLast, Copying,
                              InCopy, Errs, Only, Ends
  <2>2. CASE ms # << >>
    <3>1. pc \in QueryPCs
      BY <1>4, <2>2, Zenon DEF Turn, AtWork, QueryPCs
    <3> QED
      BY <1>1, <1>2, <1>4, <1>8, <3>1, Works, Zenon
  <2> QED
    BY <2>1, <2>2, Zenon
<1> QED
  BY <1>1, <1>6, <1>7, <1>8, TurnFrom, Zenon

LEMMA StutterTurn == ASSUME Turn, UNCHANGED vars PROVE Turn'
<1>1. UNCHANGED <<answers, gone, client, moved, out, pc, todo, copyState, waitForSync, odd, sender,
                  rows, lines, written, unread, got, stored>>
  BY Zenon DEF vars, sessionVars, loaderVars, outVars, clientVars, handlerVars
<1>2. QueuesType'
  BY <1>1, Zenon DEF Turn, QueuesType, HandlerType
<1>3. Silent' /\ LastWord' /\ AtWork' /\ Todo'
  BY <1>1, Zenon DEF Turn, Silent, LastWord, AtWork, Todo
<1>4. Orderly => Orderly'
  BY <1>1, ZenonT(30) DEF Orderly, Asked, Starting, Busy, Quiet, ReadyLast, CopyInLast, Copying,
     InCopy, Errs,
              Only, Ends
<1> QED
  BY <1>1, <1>2, <1>3, <1>4, TurnFrom, Zenon

LEMMA InitTurn == ASSUME Init PROVE Turn
<1>1. /\ answers = << >> /\ gone = FALSE /\ client = "starting" /\ moved = 0 /\ out = << >>
      /\ waitForSync = FALSE /\ copyState = NoCopy /\ pc = "startup" /\ todo = << >>
      /\ rows = 0 /\ lines = 0 /\ written = 0 /\ unread = 0 /\ got = 0 /\ stored = 0
      /\ sender = "idle"
  BY Zenon DEF Init, SessionInit, LoaderInit, OutInit
<1>2. NoCopy \in CopyStates /\ NoCopy.copyErr = FALSE
  BY Zenon DEF NoCopy, CopyStates
<1>3. << >> \in Seq(Statements) /\ << >> \in Seq(Sendable) /\ << >> \in Seq(Answerable)
  OBVIOUS
<1>4. QueuesType
  <2>1. todo \in Seq(Statements) /\ out \in Seq(Sendable) /\ answers \in Seq(Answerable)
    BY <1>1, <1>3, Zenon
  <2>2. copyState \in CopyStates /\ waitForSync \in BOOLEAN /\ gone \in BOOLEAN
    BY <1>1, <1>2, Zenon
  <2> QED
    BY <1>1, <2>1, <2>2, Zenon DEF QueuesType, HandlerType
<1>5. (\A i \in 1 .. Len(out) : FALSE) /\ (\A i \in 1 .. Len(answers) : FALSE)
  BY <1>1
<1>6. Silent /\ LastWord /\ AtWork /\ Todo
  BY <1>1, <1>5, Zenon DEF Silent, LastWord, AtWork, Todo, QueryPCs
<1>7. Asked /\ Starting /\ Quiet /\ ReadyLast /\ CopyInLast /\ Only({})
  BY <1>1, <1>5, Zenon DEF Asked, Starting, Quiet, ReadyLast, CopyInLast, Only, StartPCs
<1>8. Busy /\ Copying
  BY <1>1, <1>5, Zenon DEF Busy, Copying, QueryPCs, LoadPCs, EndPCs
<1> QED
  BY <1>4, <1>6, <1>7, <1>8, Zenon DEF Turn, Orderly


LEMMA NextTurn == ASSUME CopyEndsQuery, Turn, [Next]_vars PROVE Turn'
<1>1. CASE ClientNext
  <2>1. CASE /\ SendStartup \/ SendQuery \/ SendExtended \/ SendSync
             /\ UNCHANGED <<handlerVars, loaderVars, outVars, sessionVars>>
    BY <2>1, SendsTurn, Zenon
  <2>2. CASE /\ SendCopyData \/ EndCopy
             /\ UNCHANGED <<handlerVars, loaderVars, outVars, sessionVars>>
    BY <2>2, CopySendsTurn, Zenon
  <2> QED
    BY <1>1, <2>1, <2>2, ReadAnswerTurn, LeaveTurn, Zenon DEF ClientNext
<1>2. CASE HandlerNext
  <2>1. CASE handleStartup \/ Discard \/ Sync \/ Query \/ Run \/ Deallocate \/ CopyFromStdin
    BY <2>1, handleStartupTurn, DiscardTurn, SyncTurn, QueryTurn, RunTurn, DeallocateTurn,
       CopyFromStdinTurn, Zenon
  <2>2. CASE Parse \/ Describe \/ Bind \/ Execute \/ Close \/ Flush
    BY <2>2, ExtendedTurn, Zenon
  <2>3. CASE CopyToStdout \/ Select \/ UnblockSender
    BY <2>3, CopyToStdoutTurn, SelectTurn, Zenon
  <2>4. CASE CopyData \/ LoaderReady \/ LoadChunk \/ CopyDone \/ Finish \/ CopyFail
    BY <2>4, CopyDataTurn, LoaderReadyTurn, LoadChunkTurn, CopyDoneTurn, FinishTurn,
       CopyFailTurn, Zenon
  <2>5. CASE Hangup \/ CloseConnection
    BY <2>5, HangupTurn, Zenon
  <2> QED
    BY <1>2, <2>1, <2>2, <2>3, <2>4, <2>5, Zenon DEF HandlerNext
<1>3. CASE Goroutines
  BY <1>3, LoaderTurn, OutTurn, Zenon DEF Goroutines
<1>4. CASE UNCHANGED vars
  BY <1>4, StutterTurn, Zenon
<1> QED
  BY <1>1, <1>2, <1>3, <1>4, Zenon DEF Next

LEMMA TurnReady == ASSUME Turn PROVE OneReady
<1>1. SUFFICES ASSUME InStep, NEW i \in Readies, NEW j \in Readies
               PROVE  i = j /\ client \notin {"idle", "batch"}
  BY Zenon DEF OneReady
<1>2. DOMAIN answers = 1 .. Len(answers) /\ Len(answers) \in Nat
  BY DEF Turn, QueuesType
<1>3. ReadyLast /\ Quiet
  BY <1>1, Zenon DEF Turn, Orderly
<1>4. ASSUME NEW k \in Readies PROVE k = Len(answers) /\ k \in 1 .. Len(answers)
  <2>1. k \in 1 .. Len(answers) /\ answers[k].type = "Ready"
    BY <1>2, Zenon DEF Readies
  <2> QED
    BY <1>3, <2>1, Zenon DEF ReadyLast
<1>5. i = j /\ Len(answers) # 0
  <2>1. i = Len(answers) /\ j = Len(answers) /\ i \in 1 .. Len(answers)
    BY <1>4, Zenon
  <2> QED
    BY <1>2, <2>1
<1>6. answers # << >>
  BY <1>5
<1> QED
  BY <1>3, <1>5, <1>6, Zenon DEF Quiet

(* One ReadyForQuery per request, whatever the client sends and whatever   *)
(* fails, as long as COPY FROM STDIN is the last statement of its query    *)
(* and nothing happens that InStep excludes.                               *)
THEOREM ReadyOncePerRequest == ASSUME CopyEndsQuery PROVE Spec => []OneReady
<1>1. Init => Turn
  BY InitTurn, Zenon
<1>2. Turn /\ [Next]_vars => Turn'
  BY NextTurn, Zenon
<1>3. Turn => OneReady
  BY TurnReady, Zenon
<1> QED
  BY <1>1, <1>2, <1>3, PTL DEF Spec
=============================================================================
