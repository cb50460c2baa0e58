------------------------- MODULE PgReplicationProofs ------------------------
(***************************************************************************)
(* The two parts of a Postgres subscription, each for any number of        *)
(* everything.                                                             *)
(*                                                                         *)
(* For every log of the source and any number of faults, the subscriber of *)
(* PgReplicator stores what the source had at the stored LSN, never tells  *)
(* the source more than it has stored, and implements ReplicaPromise,      *)
(* until something happens that it does not cope with (odd).  The          *)
(* inductive invariant follows the stream: what the open transaction would *)
(* leave, were the delta buffer flushed now, is the source after the       *)
(* messages sent so far (Streamed), unless the source sends again what is  *)
(* stored (Replay).                                                        *)
(*                                                                         *)
(* The commands on a subscription (PgSubscriptions) follow.                *)
(***************************************************************************)
EXTENDS PgReplicator, PgSubscriptions, TLAPS

LSNs == 0 .. Len(Log)
Created == pc \in {"stopped", "running", "exiting"}

TypeOK ==
    /\ pc \in {"new", "attached", "copied", "published", "created", "orphaned", "stopped",
               "running", "exiting"}
    /\ committed \in 0 .. Early /\ snapshotLSN \in 0 .. Early /\ base \in LSNs
    /\ slot \in {None} \union LSNs /\ odd \in {None} \union LSNs
    /\ next \in 1 .. Len(Log) + 1 /\ phase \in {"between", "body"} /\ idx \in Nat
    /\ lastWrittenLSN \in LSNs /\ lastCommitLSN \in LSNs
    /\ delta \subseteq Rows
    /\ saved \in LSNs /\ disk \in [Rows -> Nat] /\ confirmed \in LSNs

\* The command CREATE SUBSCRIPTION, before there is a replication.
Creating ==
    /\ confirmed = 0 /\ slot \in {None, 0} /\ odd = None
    /\ pc \in {"new", "attached"} => base = 0
    /\ pc \in {"attached", "copied", "published", "created"} => snapshotLSN <= committed
    /\ pc \in {"copied", "published", "created"} => snapshotLSN <= base
    /\ saved = IF pc = "created" THEN snapshotLSN ELSE 0

\* Where the parts of the state can be.
Control ==
    /\ phase = "between" => idx = 0
    /\ phase = "body" => next \in Txns
    /\ ~txOpen => truncated = {}
    /\ pc \notin {"running", "exiting"} => ~txOpen /\ ~connected
    /\ pc \in {"running", "exiting"} => lastWrittenLSN = saved
    /\ Created => slot # None
    /\ ~Created => Creating

\* What is on disk.
Sound ==
    odd = None =>
        /\ disk = Expected(Position)
        /\ confirmed <= saved
        /\ Created => Larger(slot, saved) = Position

\* The source after i messages of its transaction n.
UpTo(o, n, i) == o[1] < n \/ (o[1] = n /\ o[2] <= i)
Gone(o, n, i) == \E p \in Ops \ Rows : UpTo(p, n, i) /\ Before(o, p) /\ Table(p) = Table(o)
Part(n, i) == [o \in Rows |-> IF UpTo(o, n, i) /\ ~Gone(o, n, i) THEN 1 ELSE 0]

\* The source sends what is stored already: nothing of it is kept.
Replay ==
    /\ next <= saved
    /\ phase = "body" => next < saved
    /\ ~processMessages /\ delta = {} /\ ~txOpen

\* The source sends what is not stored yet.
Streamed ==
    /\ next > saved /\ next - 1 >= Position
    /\ phase = "body" => processMessages
    /\ Flushed = Part(next, idx)
    /\ \A o \in delta : UpTo(o, next, idx)
    /\ \/ lastCommitLSN = next - 1
       \/ lastCommitLSN = saved /\ Position = next - 1
    /\ ~dirtyStream => idx = 0

\* A connection or an open transaction has its place in the stream.
InStream == odd = None /\ (Receiving \/ txOpen) => Replay \/ Streamed

IInv == TypeOK /\ Control /\ Sound /\ InStream
-----------------------------------------------------------------------------
(* The tables after a part of the log *)

LEMMA OpsFact ==
    ASSUME NEW o \in Ops
    PROVE  /\ o[1] \in Txns /\ o[1] \in Nat /\ o[2] \in Nat /\ o[2] >= 1
           /\ o[2] <= Len(Log[o[1]].msgs) /\ o = <<o[1], o[2]>>
<1>1. PICK g \in Txns : o \in {g} \X (1 .. Len(Log[g].msgs))
  BY Zenon DEF Ops
<1>2. g \in Nat /\ Len(Log) \in Nat /\ Len(Log[g].msgs) \in Nat
  BY LogAssumption DEF Txns
<1> QED
  BY <1>1, <1>2

LEMMA OpsIntro ==
    ASSUME NEW n \in Txns, NEW i \in Nat, i < Len(Log[n].msgs)
    PROVE  <<n, i + 1>> \in Ops
<1>1. Len(Log[n].msgs) \in Nat
  BY LogAssumption DEF Txns
<1>2. <<n, i + 1>> \in {n} \X (1 .. Len(Log[n].msgs))
  BY <1>1
<1> QED
  BY <1>2, Zenon DEF Ops

LEMMA PartNone ==
    ASSUME NEW n \in 1 .. Len(Log) + 1
    PROVE  Part(n, 0) = Expected(n - 1)
<1>0. Len(Log) \in Nat /\ n \in Nat
  BY LogAssumption
<1>1. \A o \in Ops : UpTo(o, n, 0) <=> TxnOf(o) <= n - 1
  BY OpsFact, <1>0 DEF UpTo, TxnOf
<1>2. \A o \in Rows : Gone(o, n, 0) <=> Removed(o, n - 1)
  BY <1>1, Zenon DEF Gone, Removed
<1> QED
  BY <1>1, <1>2, Zenon DEF Part, Expected, Rows

LEMMA PartAll ==
    ASSUME NEW n \in Txns
    PROVE  Part(n, Len(Log[n].msgs)) = Expected(n)
<1>0. Len(Log) \in Nat /\ n \in Nat
  BY LogAssumption DEF Txns
<1>1. \A o \in Ops : UpTo(o, n, Len(Log[n].msgs)) <=> TxnOf(o) <= n
  BY OpsFact, <1>0 DEF UpTo, TxnOf
<1>2. \A o \in Rows : Gone(o, n, Len(Log[n].msgs)) <=> Removed(o, n)
  BY <1>1, Zenon DEF Gone, Removed
<1> QED
  BY <1>1, <1>2, Zenon DEF Part, Expected, Rows

\* One message more.
LEMMA UpToNext ==
    ASSUME NEW n \in Txns, NEW i \in Nat, i < Len(Log[n].msgs), NEW o \in Ops
    PROVE  /\ UpTo(o, n, i + 1) <=> UpTo(o, n, i) \/ o = <<n, i + 1>>
           /\ ~UpTo(<<n, i + 1>>, n, i)
<1>1. n \in Nat
  BY LogAssumption DEF Txns
<1> QED
  BY <1>1, OpsFact DEF UpTo

LEMMA PartRow ==
    ASSUME NEW n \in Txns, NEW i \in Nat, i < Len(Log[n].msgs), <<n, i + 1>> \in Rows
    PROVE  /\ Part(n, i)[<<n, i + 1>>] = 0
           /\ \A o \in Rows : Part(n, i + 1)[o] = IF o = <<n, i + 1>> THEN 1 ELSE Part(n, i)[o]
<1> DEFINE c == <<n, i + 1>>
<1>0. c \in Ops /\ Rows \subseteq Ops /\ n \in Nat
  BY LogAssumption DEF Rows, Txns
<1>1. ~UpTo(c, n, i) /\ UpTo(c, n, i + 1)
  BY <1>0, UpToNext, Zenon
<1>2. ASSUME NEW o \in Rows PROVE Gone(o, n, i + 1) <=> Gone(o, n, i)
  BY <1>0, UpToNext, Zenon DEF Gone
<1>3. ~Gone(c, n, i + 1)
  <2>1. SUFFICES ASSUME NEW p \in Ops \ Rows, UpTo(p, n, i + 1), Before(c, p) PROVE FALSE
    BY Zenon DEF Gone
  <2>2. p[1] \in Nat /\ p[2] \in Nat
    BY OpsFact, Zenon
  <2> QED
    BY <1>0, <2>1, <2>2 DEF UpTo, Before
<1>4. ASSUME NEW o \in Rows, o # c PROVE UpTo(o, n, i + 1) <=> UpTo(o, n, i)
  BY <1>0, <1>4, UpToNext, Zenon
<1> QED
  BY <1>1, <1>2, <1>3, <1>4, Zenon DEF Part

LEMMA PartTruncate ==
    ASSUME NEW n \in Txns, NEW i \in Nat, i < Len(Log[n].msgs), <<n, i + 1>> \in Ops \ Rows
    PROVE  \A o \in Rows : Part(n, i + 1)[o] = IF Table(o) = Table(<<n, i + 1>>) THEN 0
                                              ELSE Part(n, i)[o]
<1> DEFINE c == <<n, i + 1>>
<1>0. c \in Ops /\ Rows \subseteq Ops /\ n \in Nat
  BY LogAssumption DEF Rows, Txns
<1> SUFFICES ASSUME NEW o \in Rows
             PROVE  Part(n, i + 1)[o] = IF Table(o) = Table(c) THEN 0 ELSE Part(n, i)[o]
  OBVIOUS
<1>1. UpTo(o, n, i + 1) <=> UpTo(o, n, i)
  BY <1>0, UpToNext, Zenon
<1>2. UpTo(c, n, i + 1)
  BY <1>0 DEF UpTo
<1>3. UpTo(o, n, i) => Before(o, c)
  BY <1>0, OpsFact DEF UpTo, Before
<1>4. Table(o) # Table(c) => (Gone(o, n, i + 1) <=> Gone(o, n, i))
  BY <1>0, UpToNext, Zenon DEF Gone
<1>5. Table(o) = Table(c) /\ UpTo(o, n, i) => Gone(o, n, i + 1)
  BY <1>0, <1>2, <1>3, Zenon DEF Gone
<1> QED
  BY <1>1, <1>4, <1>5, Zenon DEF Part
-----------------------------------------------------------------------------
(* The beginning, and the steps that store nothing *)

LEMMA Numbers ==
    /\ Len(Log) \in Nat /\ Early \in Nat /\ Early <= Len(Log) /\ None \notin Nat
    /\ LSNs \subseteq Nat /\ 0 \in LSNs /\ 0 .. Early \subseteq LSNs
    /\ \A n \in LSNs : n <= Len(Log)
BY LogAssumption, BoundAssumption DEF LSNs, None

LEMMA PositionType ==
    ASSUME TypeOK PROVE Position \in LSNs /\ Position # None /\ saved <= Position
BY Numbers DEF TypeOK, Position, Larger

\* With the buffer and the transaction empty, a flush changes nothing.
LEMMA FlushedType ==
    ASSUME TypeOK
    PROVE  /\ Flushed \in [Rows -> Nat]
           /\ delta = {} /\ truncated = {} => Flushed = disk
BY DEF TypeOK, Flushed

LEMMA InitIInv == Init => IInv /\ Reached = 0
<1> SUFFICES ASSUME Init PROVE IInv /\ Reached = 0
  OBVIOUS
<1>1. TypeOK
  <2>1. disk \in [Rows -> Nat]
    BY Zenon DEF Init
  <2> QED
    BY <2>1, Numbers DEF Init, TypeOK
<1>2. Control
  BY Numbers, Zenon DEF Init, Control, Created, Creating
<1>3. Position = 0
  BY Zenon DEF Init, Position, Larger
<1>4. \A o \in Rows : ~(TxnOf(o) <= 0)
  BY OpsFact, Numbers DEF Rows, TxnOf, Txns
<1>5. disk = Expected(0)
  BY <1>4, Zenon DEF Init, Expected
<1>6. Sound
  BY <1>3, <1>5 DEF Init, Sound, Created
<1>7. InStream
  BY Zenon DEF Init, InStream, Receiving
<1> QED
  BY <1>1, <1>2, <1>3, <1>6, <1>7, Zenon DEF IInv, Reached, Init

streamed == <<createVars, odd, streamVars, processMessages, lastWrittenLSN, lastCommitLSN,
              dirtyStream, delta, diskVars>>

\* Errors, reports and time leave what is in memory.
LEMMA QuietIInv ==
    ASSUME IInv, pc = "running", pc' \in {"running", "exiting"}, UNCHANGED streamed,
           confirmed' \in {confirmed, lastWrittenLSN},
           \/ UNCHANGED txVars /\ (Receiving' => Receiving)
           \/ txOpen' = FALSE /\ truncated' = {} /\ ~Receiving'
    PROVE  IInv' /\ Reached' = Reached
<1> USE DEF streamed, createVars, streamVars, diskVars, txVars
<1>1. TypeOK'
  BY Zenon DEF IInv, TypeOK
<1>2. Control'
  BY Zenon DEF IInv, Control, Created, Creating
<1>3. Position' = Position
  BY Zenon DEF Position
<1>4. Sound'
  BY <1>3, Numbers DEF IInv, Sound, Control, Created, TypeOK
<1>5. InStream'
  <2>1. CASE UNCHANGED txVars /\ (Receiving' => Receiving)
    <3>1. Flushed' = Flushed
      BY <2>1, Zenon DEF Flushed
    <3> QED
      BY <1>3, <2>1, <3>1, Zenon DEF IInv, InStream, Replay, Streamed
  <2>2. CASE txOpen' = FALSE /\ ~Receiving'
    BY <2>2, Zenon DEF InStream
  <2> QED
    BY <2>1, <2>2, ZenonT(30)
<1> QED
  BY <1>1, <1>2, <1>3, <1>4, <1>5, Zenon DEF IInv, Reached

LEMMA ErrorsIInv ==
    ASSUME IInv,
           \/ sendStandbyStatusUpdate \/ Elapse \/ CommitFails \/ TickFails \/ ChangeFails
           \/ ConnectionFails \/ Leave
    PROVE  IInv' /\ Reached' = Reached
<1> USE DEF quietVars, memoryVars, lsnVars, flagVars, bufVars, Receiving, ForcesCommit
<1>1. UNCHANGED streamed
  BY Zenon DEF sendStandbyStatusUpdate, Elapse, CommitFails, TickFails, ChangeFails,
     ConnectionFails,
         Leave, streamed
<1>2. pc = "running" /\ pc' \in {"running", "exiting"}
  BY Zenon DEF sendStandbyStatusUpdate, Elapse, CommitFails, TickFails, ChangeFails,
     ConnectionFails,
         Leave, handleErrWithRetry
<1>3. confirmed' \in {confirmed, lastWrittenLSN}
  BY Zenon DEF sendStandbyStatusUpdate, Elapse, CommitFails, TickFails, ChangeFails,
     ConnectionFails,
         Leave
<1>4. CASE CommitFails \/ TickFails
  <2>1. txOpen' = FALSE /\ truncated' = {} /\ ~Receiving'
    BY <1>4, Zenon DEF CommitFails, TickFails, rollback, handleErrWithRetry
  <2> QED
    BY <1>1, <1>2, <1>3, <2>1, QuietIInv, Zenon
<1>5. CASE sendStandbyStatusUpdate \/ Elapse \/ ChangeFails \/ ConnectionFails \/ Leave
  <2>1. UNCHANGED txVars /\ (Receiving' => Receiving)
    BY <1>5, Zenon DEF sendStandbyStatusUpdate, Elapse, ChangeFails, ConnectionFails, Leave,
                handleErrWithRetry
  <2> QED
    BY <1>1, <1>2, <1>3, <2>1, QuietIInv, ZenonT(30)
<1> QED
  BY <1>4, <1>5, Zenon

\* CREATE SUBSCRIPTION: the copy is taken at or after the LSN that is stored.
LEMMA CreateIInv ==
    ASSUME IInv, SourceCommits \/ CreateSubscription
    PROVE  IInv' /\ Reached' >= Reached
<1> USE DEF createVars, loopVars, diskVars, memoryVars, lsnVars, flagVars, bufVars, txVars,
            streamVars
<1>0. /\ ~Created /\ Creating /\ ~txOpen /\ ~connected /\ odd = None
      /\ disk = Expected(Position) /\ Position = Larger(saved, base)
  BY Zenon DEF IInv, Control, Creating, Created, Sound, Position, SourceCommits,
     CreateSubscription,
         ReadLSN, doSnapshot, CreatePublicationIfNotExists, doCreateSubscription,
         CreateReplicationSlotIfNotExists
<1>1. /\ committed \in Nat /\ snapshotLSN \in LSNs /\ saved \in LSNs /\ base \in LSNs
      /\ committed \in LSNs
  BY Numbers, Zenon DEF IInv, TypeOK
<1>2. /\ UNCHANGED <<connected, streamVars, memoryVars, txVars, confirmed>>
  BY Zenon DEF SourceCommits, CreateSubscription, ReadLSN, doSnapshot,
     CreatePublicationIfNotExists,
         doCreateSubscription, CreateReplicationSlotIfNotExists
<1>3. InStream'
  BY <1>0, <1>2, Zenon DEF InStream, Receiving
<1>4. ASSUME UNCHANGED <<odd, slot>>, ~Created', TypeOK', Creating', Position' >= Position,
             disk' = Expected(Position')
      PROVE  IInv' /\ Reached' >= Reached
  <2>1. Control'
    BY <1>0, <1>2, <1>4, Zenon DEF IInv, Control, Created
  <2>2. Sound'
    BY <1>0, <1>1, <1>2, <1>4, Numbers DEF Sound, Creating, IInv, TypeOK
  <2> QED
    BY <1>0, <1>3, <1>4, <2>1, <2>2, Zenon DEF IInv, Reached
<1>5. CASE SourceCommits
  <2>1. TypeOK'
    BY <1>1, <1>2, <1>5, BoundAssumption DEF IInv, TypeOK, SourceCommits
  <2>2. Creating' /\ ~Created'
    BY <1>0, <1>1, <1>2, <1>5, Numbers DEF Creating, SourceCommits, Created
  <2>3. Position' = Position /\ Position \in Nat
    BY <1>1, <1>5, Numbers, PositionType, Zenon DEF Position, SourceCommits, IInv
  <2> QED
    BY <1>0, <1>4, <1>5, <2>1, <2>2, <2>3 DEF SourceCommits
<1>6. CASE ReadLSN
  <2>1. TypeOK'
    BY <1>1, <1>2, <1>6, Zenon DEF IInv, TypeOK, ReadLSN
  <2>2. Creating' /\ ~Created'
    BY <1>0, <1>1, <1>2, <1>6, Numbers DEF Creating, ReadLSN, Created
  <2>3. Position' = Position /\ Position \in Nat
    BY <1>1, <1>6, Numbers, PositionType, Zenon DEF Position, ReadLSN, IInv
  <2> QED
    BY <1>0, <1>4, <1>6, <2>1, <2>2, <2>3 DEF ReadLSN
<1>7. CASE doSnapshot /\ pc' = "copied"
  <2>0. saved = 0 /\ base = 0 /\ disk' = Expected(committed) /\ base' = committed
        /\ UNCHANGED <<committed, slot, odd, saved, snapshotLSN>>
    BY <1>0, <1>7, Zenon DEF Creating, doSnapshot
  <2>1. TypeOK'
    <3>1. disk' \in [Rows -> Nat]
      BY <2>0, Zenon DEF Expected
    <3> QED
      BY <1>1, <1>2, <1>7, <2>0, <3>1, Zenon DEF IInv, TypeOK
  <2>2. Creating' /\ ~Created'
    BY <1>0, <1>1, <1>2, <1>7, <2>0, Zenon DEF Creating, Created, doSnapshot
  <2>3. Position' = committed /\ Position = 0
    BY <1>1, <2>0, Numbers DEF Position, Larger
  <2> QED
    BY <1>1, <1>4, <2>0, <2>1, <2>2, <2>3
<1>8. CASE doSnapshot /\ pc' = "new"
  <2>0. UNCHANGED <<committed, base, slot, odd, saved, disk>> /\ snapshotLSN' = 0
        /\ pc = "attached"
    BY <1>8, Zenon DEF doSnapshot
  <2>1. TypeOK'
    BY <1>1, <1>2, <1>8, <2>0, Numbers DEF IInv, TypeOK
  <2>2. Creating' /\ ~Created'
    BY <1>0, <1>2, <1>8, <2>0, Zenon DEF Creating, Created
  <2>3. Position' = Position /\ Position \in Nat
    BY <1>1, <2>0, Numbers, PositionType, Zenon DEF Position, IInv
  <2> QED
    BY <1>0, <1>4, <2>0, <2>1, <2>2, <2>3
<1>9. CASE CreatePublicationIfNotExists
  <2>1. TypeOK'
    BY <1>1, <1>2, <1>9, Zenon DEF IInv, TypeOK, CreatePublicationIfNotExists
  <2>2. Creating' /\ ~Created'
    BY <1>0, <1>1, <1>2, <1>9, Numbers, Zenon DEF Creating, CreatePublicationIfNotExists,
       Created
  <2>3. Position' = Position /\ Position \in Nat
    BY <1>1, <1>9, Numbers, PositionType, Zenon DEF Position, CreatePublicationIfNotExists, IInv
  <2> QED
    BY <1>0, <1>4, <1>9, <2>1, <2>2, <2>3 DEF CreatePublicationIfNotExists
<1>10. CASE doCreateSubscription
  <2>0. /\ pc = "published" /\ UNCHANGED <<createVars, odd, disk>> /\ snapshotLSN <= base
        /\ saved = 0
        /\ \/ pc' = "created" /\ saved' = snapshotLSN
           \/ pc' = "orphaned" /\ saved' = saved
    BY <1>0, <1>10, Zenon DEF doCreateSubscription, Creating
  <2>1. TypeOK'
    BY <1>1, <1>2, <2>0, Zenon DEF IInv, TypeOK
  <2>2. Creating' /\ ~Created'
    BY <1>0, <1>1, <1>2, <2>0, Numbers, Zenon DEF Creating, Created
  <2>3. Position' = Position /\ Position \in Nat
    BY <1>1, <2>0, Numbers DEF Position, Larger
  <2> QED
    BY <1>0, <1>4, <2>0, <2>1, <2>2, <2>3
<1>11. CASE CreateReplicationSlotIfNotExists /\ pc' = "created"
  <2>0. UNCHANGED <<createVars, odd, diskVars>> /\ pc = "created"
    BY <1>11, Zenon DEF CreateReplicationSlotIfNotExists
  <2>1. TypeOK'
    BY <1>1, <1>2, <1>11, <2>0, Zenon DEF IInv, TypeOK
  <2>2. Creating' /\ ~Created'
    BY <1>0, <1>2, <1>11, <2>0, Zenon DEF Creating, Created
  <2>3. Position' = Position /\ Position \in Nat
    BY <1>1, <2>0, Numbers, PositionType, Zenon DEF Position, IInv
  <2> QED
    BY <1>0, <1>4, <2>0, <2>1, <2>2, <2>3
<1>12. CASE CreateReplicationSlotIfNotExists /\ pc' = "stopped"
  <2>0. /\ UNCHANGED <<base, diskVars>> /\ saved = snapshotLSN /\ snapshotLSN <= base
        /\ committed' = 0 /\ snapshotLSN' = 0 /\ pc = "created"
        /\ slot' = (IF slot # None THEN slot ELSE committed)
        /\ Deviates(base # IF slot # None THEN snapshotLSN ELSE committed)
    BY <1>0, <1>12, Zenon DEF CreateReplicationSlotIfNotExists, Creating, replicationSlotExists
  <2>1. slot' \in LSNs /\ odd' \in {None, Position}
    BY <1>0, <1>1, <2>0, Numbers, Zenon DEF Creating, Deviates
  <2>2. TypeOK'
    BY <1>1, <1>2, <1>12, <2>0, <2>1, Numbers, PositionType DEF IInv, TypeOK
  <2>3. Control'
    BY <1>0, <1>2, <1>12, <2>1, Numbers, Zenon DEF IInv, Control, Created
  <2>4. Position' = Position /\ Position \in Nat
    BY <1>1, <2>0, Numbers, PositionType, Zenon DEF Position, IInv
  <2>5. odd' = None => base = IF slot # None THEN snapshotLSN ELSE committed
    BY <1>0, <2>0, PositionType, Zenon DEF Deviates, IInv
  <2>6. odd' = None => Larger(slot', saved') = Position'
    BY <1>0, <1>1, <2>0, <2>4, <2>5, Numbers DEF Larger, Creating
  <2>7. Sound'
    BY <1>0, <1>1, <1>2, <2>0, <2>4, <2>6, Numbers DEF Sound, Creating
  <2> QED
    BY <1>0, <1>3, <2>1, <2>2, <2>3, <2>4, <2>7 DEF IInv, Reached
<1> QED
  BY <1>5, <1>6, <1>7, <1>8, <1>9, <1>10, <1>11, <1>12, Zenon
     DEF CreateSubscription, doSnapshot, CreateReplicationSlotIfNotExists
-----------------------------------------------------------------------------
(* Commits *)

LEMMA CommitType ==
    ASSUME TypeOK, NEW lsn \in LSNs, commitOngoingTxn(lsn)
    PROVE  /\ saved' \in LSNs /\ lastWrittenLSN' \in LSNs
           /\ delta' \subseteq Rows /\ disk' \in [Rows -> Nat]
           /\ lastWrittenLSN = saved => lastWrittenLSN' = saved'
           /\ Flushed' = Flushed
<1>1. CASE txOpen
  <2>1. disk' = Flushed /\ delta' = {} /\ truncated' = {} /\ saved' = lsn /\ lastWrittenLSN' = lsn
    BY <1>1, Zenon DEF commitOngoingTxn
  <2>2. disk' \in [Rows -> Nat]
    BY <2>1, FlushedType, Zenon
  <2>3. Flushed' = disk'
    BY <2>1, <2>2 DEF Flushed
  <2> QED
    BY <2>1, <2>2, <2>3, Zenon
<1>2. CASE ~txOpen
  <2>1. UNCHANGED <<disk, delta, truncated, saved, lastWrittenLSN>>
    BY <1>2, Zenon DEF commitOngoingTxn, diskVars, bufVars
  <2>2. Flushed' = Flushed
    BY <2>1, Zenon DEF Flushed
  <2> QED
    BY <2>1, <2>2, Zenon DEF TypeOK
<1> QED
  BY <1>1, <1>2, Zenon

\* Between two transactions, or before the first change of one, a commit stores
\* the whole of what came before.
LEMMA CommitBatch ==
    ASSUME IInv, odd = None, pc \in {"running", "exiting"}, idx = 0,
           commitOngoingTxn(lastCommitLSN), UNCHANGED base
    PROVE  /\ saved' >= saved /\ Position' >= Position
           /\ disk' = Expected(Position') /\ Larger(slot, saved') = Position'
           /\ txOpen => Streamed /\ Position' = next - 1 /\ saved' < next /\ delta' = {}
           /\ ~txOpen => UNCHANGED <<saved, delta, disk>> /\ Position' = Position
<1>0. /\ saved \in Nat /\ base \in Nat /\ Position \in Nat /\ next \in Nat /\ lastCommitLSN \in Nat
      /\ slot \in Nat /\ next \in 1 .. Len(Log) + 1
      /\ disk = Expected(Position) /\ Larger(slot, saved) = Position
  <2>1. TypeOK
    BY Zenon DEF IInv
  <2>2. Position \in Nat
    BY <2>1, Numbers, PositionType, Zenon
  <2>3. slot # None /\ disk = Expected(Position) /\ Larger(slot, saved) = Position
    BY Zenon DEF IInv, Control, Sound, Created
  <2>4. /\ saved \in Nat /\ base \in Nat /\ next \in Nat /\ lastCommitLSN \in Nat
        /\ slot \in Nat /\ next \in 1 .. Len(Log) + 1
    <3>1. /\ saved \in LSNs /\ base \in LSNs /\ lastCommitLSN \in LSNs
          /\ slot \in {None} \union LSNs /\ next \in 1 .. Len(Log) + 1
      BY <2>1, Zenon DEF TypeOK
    <3>2. next \in Nat
      BY <3>1, Numbers
    <3> QED
      BY <2>3, <3>1, <3>2, Numbers, Zenon
  <2> QED
    BY <2>2, <2>3, <2>4, Zenon
<1>1. CASE txOpen
  <2>1. Streamed
    BY <1>1, Zenon DEF IInv, InStream, Replay
  <2>2. disk' = Flushed /\ saved' = lastCommitLSN /\ delta' = {}
    BY <1>1, Zenon DEF commitOngoingTxn
  <2>3. Position' = next - 1 /\ saved' >= saved /\ saved' < next
    BY <1>0, <2>1, <2>2 DEF Streamed, Position, Larger
  <2>4. disk' = Expected(next - 1)
    BY <1>0, <2>1, <2>2, PartNone, Zenon DEF Streamed
  <2>5. Larger(slot, saved') = Position'
    BY <1>0, <2>1, <2>2 DEF Streamed, Position, Larger
  <2> QED
    BY <1>0, <1>1, <2>1, <2>2, <2>3, <2>4, <2>5, Zenon DEF Streamed
<1>2. CASE ~txOpen
  <2>1. UNCHANGED <<saved, delta, disk>>
    BY <1>2, Zenon DEF commitOngoingTxn, diskVars, bufVars
  <2>2. Position' = Position
    BY <2>1, Zenon DEF Position
  <2> QED
    BY <1>0, <1>2, <2>1, <2>2
<1> QED
  BY <1>1, <1>2, Zenon

LEMMA Fields ==
    ASSUME TypeOK
    PROVE  /\ saved \in LSNs /\ base \in LSNs /\ lastCommitLSN \in LSNs /\ confirmed \in LSNs
           /\ saved \in Nat /\ base \in Nat /\ lastCommitLSN \in Nat /\ confirmed \in Nat
           /\ next \in 1 .. Len(Log) + 1 /\ next \in Nat /\ idx \in Nat
           /\ Position \in Nat /\ Position # None /\ saved <= Position /\ base <= Position
<1>1. saved \in LSNs /\ base \in LSNs /\ lastCommitLSN \in LSNs /\ confirmed \in LSNs
  BY Zenon DEF TypeOK
<1>2. next \in 1 .. Len(Log) + 1 /\ idx \in Nat
  BY Zenon DEF TypeOK
<1>3. next \in Nat
  BY <1>2, Numbers
<1>4. saved \in Nat /\ base \in Nat /\ lastCommitLSN \in Nat /\ confirmed \in Nat
  BY <1>1, Numbers, Zenon
<1>5. Position \in Nat /\ Position # None /\ saved <= Position /\ base <= Position
  BY <1>4, Numbers DEF Position, Larger
<1> QED
  BY <1>1, <1>2, <1>3, <1>4, <1>5, Zenon

\* After the first thing that the subscriber does not cope with, only the
\* types and the control are left.
LEMMA Assemble ==
    ASSUME IInv, TypeOK', Control', odd' = odd \/ (odd = None /\ odd' = Position),
           odd = None /\ odd' = None => Sound' /\ InStream' /\ Position' >= Position
    PROVE  IInv' /\ Reached' >= Reached
<1>1. TypeOK /\ Position # None /\ Position \in Nat
  BY Fields, Zenon DEF IInv
<1>2. CASE odd = None /\ odd' = None
  BY <1>2, Zenon DEF IInv, Reached
<1>3. CASE odd' # None
  <2>1. Sound' /\ InStream'
    BY <1>3, Zenon DEF Sound, InStream
  <2>2. odd' \in Nat
    BY <1>1, <1>3, Numbers, Zenon DEF TypeOK
  <2>3. Reached' = odd' /\ Reached = odd'
    BY <1>1, <1>3, Zenon DEF Reached
  <2> QED
    BY <2>1, <2>2, <2>3 DEF IInv
<1> QED
  BY <1>1, <1>2, <1>3, Zenon

LEMMA HandledControl ==
    ASSUME IInv, pc = "running", pc' = "running", UNCHANGED slot,
           phase' = "between" => idx' = 0, phase' = "body" => next' \in Txns,
           ~txOpen' => truncated' = {}, lastWrittenLSN' = saved'
    PROVE  Control'
BY Zenon DEF IInv, Control, Created

\* What the commit of a batch leaves, before the first change of a transaction.
LEMMA CommitLive ==
    ASSUME IInv, odd = None, pc \in {"running", "exiting"}, idx = 0,
           commitOngoingTxn(lastCommitLSN),
           UNCHANGED <<base, slot, next, idx, lastCommitLSN, confirmed>>
    PROVE  /\ Sound' /\ Position' >= Position
           /\ Streamed /\ (phase' = "body" => processMessages') => Streamed'
<1>1. /\ saved' >= saved /\ Position' >= Position
      /\ disk' = Expected(Position') /\ Larger(slot, saved') = Position'
      /\ txOpen => Streamed /\ Position' = next - 1 /\ saved' < next /\ delta' = {}
      /\ ~txOpen => UNCHANGED <<saved, delta, disk>> /\ Position' = Position
  BY CommitBatch, Zenon
<1>2. TypeOK /\ confirmed <= saved /\ lastCommitLSN \in LSNs
  BY Fields, Zenon DEF IInv, Sound
<1>3. saved' \in Nat /\ Flushed' = Flushed
  BY <1>2, CommitType, Numbers, Zenon
<1>4. saved \in Nat /\ confirmed \in Nat /\ next \in Nat
  BY <1>2, Fields, Zenon
<1>5. Sound'
  BY <1>1, <1>2, <1>3, <1>4 DEF Sound
<1>6. ASSUME Streamed, phase' = "body" => processMessages' PROVE Streamed'
  <2>1. CASE txOpen
    <3>1. saved' = lastCommitLSN
      BY <2>1, Zenon DEF commitOngoingTxn
    <3> QED
      BY <1>1, <1>3, <1>4, <1>6, <2>1, <3>1 DEF Streamed
  <2>2. CASE ~txOpen
    BY <1>1, <1>3, <1>6, <2>2, Zenon DEF Streamed
  <2> QED
    BY <2>1, <2>2, Zenon
<1> QED
  BY <1>1, <1>5, <1>6, Zenon

\* The commit of a batch that nothing of the current transaction is in, if there
\* is a batch.
LEMMA CommitStream ==
    ASSUME IInv, odd = None, pc \in {"running", "exiting"}, Replay \/ Streamed,
           ~(txOpen /\ dirtyStream),
           commitOngoingTxn(lastCommitLSN), txOpen' = FALSE,
           dirtyStream' = Settled(dirtyStream),
           UNCHANGED <<base, slot, next, phase, idx, processMessages, lastCommitLSN, confirmed>>
    PROVE  Sound' /\ Position' >= Position /\ (Replay' \/ Streamed')
<1>1. CASE txOpen
  <2>1. Streamed /\ idx = 0
    BY <1>1, Zenon DEF Replay, Streamed
  <2>2. phase' = "body" => processMessages'
    BY <2>1, Zenon DEF Streamed
  <2> QED
    BY <2>1, <2>2, CommitLive, Zenon
<1>2. CASE ~txOpen
  <2>1. UNCHANGED <<saved, disk, delta, truncated>> /\ (~dirtyStream' => ~dirtyStream)
    BY <1>2, Zenon DEF commitOngoingTxn, Settled, diskVars, bufVars
  <2>2. Position' = Position /\ Position \in Nat /\ Flushed' = Flushed
    BY <2>1, Fields, Zenon DEF IInv, Position, Flushed
  <2>3. Sound'
    BY <2>1, <2>2, Zenon DEF IInv, Sound, Control, Created
  <2>4. Replay => Replay'
    BY <1>2, <2>1, Zenon DEF Replay
  <2>5. Streamed => Streamed'
    BY <2>1, <2>2, Zenon DEF Streamed
  <2> QED
    BY <2>2, <2>3, <2>4, <2>5
<1> QED
  BY <1>1, <1>2, Zenon

-----------------------------------------------------------------------------
(* The handlers of processMessage keep the invariant and never take the    *)
(* replica back.                                                           *)

LEMMA RelationIInv ==
    ASSUME IInv, Relation
    PROVE  IInv' /\ Reached' >= Reached
<1> USE DEF diskVars, bufVars, txVars, flagVars
<1>0. /\ pc = "running" /\ connected /\ UNCHANGED <<pc, createVars, connected, confirmed>>
      /\ UNCHANGED <<next, phase, idx, processMessages, lastCommitLSN>>
      /\ phase = "body"
      /\ Deviates(Table(Change) \in relations /\ txOpen /\ dirtyStream)
  BY Zenon DEF Relation, Handled, Receiving, SendRelation, RelationNext, ChangeNext
<1>1. TypeOK /\ lastCommitLSN \in LSNs /\ lastWrittenLSN = saved /\ next \in Txns
      /\ Position # None /\ Position \in Nat
  BY <1>0, Fields, Zenon DEF IInv, Control
<1>2. odd' = odd \/ (odd = None /\ odd' = Position)
  BY <1>0, Zenon DEF Deviates
<1>3. CASE Table(Change) \in relations
  <2>0. commitOngoingTxn(lastCommitLSN) /\ txOpen' = FALSE
        /\ dirtyStream' = Settled(dirtyStream)
    BY <1>3, Zenon DEF Relation, commitAndClose
  <2>1. /\ saved' \in LSNs /\ lastWrittenLSN' \in LSNs
        /\ delta' \subseteq Rows /\ disk' \in [Rows -> Nat]
        /\ lastWrittenLSN' = saved' /\ Flushed' = Flushed
    BY <1>1, <2>0, CommitType, Zenon
  <2>2. odd' \in {None} \union LSNs
    BY <1>1, <1>2, PositionType, Zenon DEF TypeOK
  <2>3. TypeOK'
    BY <1>0, <1>1, <2>1, <2>2, Zenon DEF TypeOK, createVars
  <2>4. truncated' = {}
    BY <2>0, Zenon DEF commitOngoingTxn, IInv, Control
  <2>5. Control'
    BY <1>0, <1>1, <2>1, <2>4, HandledControl, Zenon DEF createVars
  <2>6. ASSUME odd = None, odd' = None PROVE Sound' /\ InStream' /\ Position' >= Position
    <3>1. ~(txOpen /\ dirtyStream)
      BY <1>0, <1>1, <1>3, <2>6, Zenon DEF Deviates
    <3>2. Replay \/ Streamed
      BY <1>0, <2>6, Zenon DEF IInv, InStream, Receiving
    <3>3. Sound' /\ Position' >= Position /\ (Replay' \/ Streamed')
      BY <1>0, <2>0, <2>6, <3>1, <3>2, CommitStream, Zenon DEF createVars
    <3> QED
      BY <3>3, Zenon DEF InStream
  <2> QED
    BY <1>2, <2>3, <2>5, <2>6, Assemble, Zenon
<1>4. CASE Table(Change) \notin relations
  <2>0. UNCHANGED <<diskVars, lastWrittenLSN, bufVars, txVars, flagVars>> /\ odd' = odd
    BY <1>0, <1>4, Zenon DEF Relation, Deviates
  <2>1. TypeOK'
    BY <1>0, <1>1, <2>0, Zenon DEF TypeOK, createVars
  <2>2. Control'
    BY <1>0, <1>1, <2>0, HandledControl, Zenon DEF IInv, Control, createVars
  <2>3. Position' = Position /\ Flushed' = Flushed
    BY <1>0, <2>0, Zenon DEF Position, Flushed, createVars
  <2>4. Sound'
    BY <1>0, <2>0, <2>3, Zenon DEF IInv, Sound, Created, createVars
  <2>5. InStream'
    BY <1>0, <2>0, <2>3, Zenon DEF IInv, InStream, Receiving, Replay, Streamed
  <2> QED
    BY <1>1, <1>2, <2>1, <2>2, <2>3, <2>4, <2>5, Assemble
<1> QED
  BY <1>3, <1>4, Zenon

LEMMA BeginIInv ==
    ASSUME IInv, BeginStale \/ Begin
    PROVE  IInv' /\ Reached' >= Reached
<1> USE DEF diskVars, bufVars, txVars, flagVars, lsnVars, createVars
<1>0. /\ pc = "running" /\ connected /\ UNCHANGED <<pc, createVars, connected, confirmed>>
      /\ UNCHANGED <<next, idx, lastCommitLSN>>
      /\ phase = "between" /\ phase' = "body" /\ next \in Txns
  BY Zenon DEF BeginStale, Begin, Handled, Receiving, SendBegin, BeginNext
<1>1. TypeOK /\ lastCommitLSN \in LSNs /\ lastWrittenLSN = saved /\ idx = 0
      /\ Position # None /\ Position \in Nat /\ saved \in Nat /\ next \in Nat
  BY <1>0, Fields, Zenon DEF IInv, Control
<1>2. ASSUME odd = None PROVE Replay \/ Streamed
  BY <1>0, <1>2, Zenon DEF IInv, InStream, Receiving
<1>3. CASE BeginStale
  <2>0. /\ UNCHANGED <<odd, saved, disk, lastWrittenLSN, delta, txOpen, truncated>>
        /\ processMessages' = FALSE /\ lastWrittenLSN > next
    BY <1>3, Zenon DEF BeginStale, Stale
  <2>1. TypeOK'
    BY <1>0, <1>1, <2>0, Zenon DEF TypeOK
  <2>2. Control'
    BY <1>0, <1>1, <2>0, HandledControl, Zenon DEF IInv, Control
  <2>3. Position' = Position
    BY <1>0, <2>0, Zenon DEF Position
  <2>4. Sound'
    BY <1>0, <2>0, <2>3, Zenon DEF IInv, Sound, Created
  <2>5. odd = None => Replay
    BY <1>1, <1>2, <2>0 DEF Streamed
  <2>6. odd = None => Replay'
    BY <1>0, <1>1, <2>0, <2>5, Zenon DEF Replay
  <2>7. InStream'
    BY <2>0, <2>6, Zenon DEF InStream
  <2> QED
    BY <1>1, <2>0, <2>1, <2>2, <2>3, <2>4, <2>7, Assemble
<1>4. CASE Begin
  <2>0. processMessages' = TRUE /\ Deviates(next <= lastWrittenLSN)
    BY <1>4, Zenon DEF Begin
  <2>1. odd' = odd \/ (odd = None /\ odd' = Position)
    BY <2>0, Zenon DEF Deviates
  <2>2. odd' \in {None} \union LSNs
    BY <1>1, <2>1, PositionType, Zenon DEF TypeOK
  <2>3. odd = None /\ odd' = None => Streamed
    BY <1>1, <1>2, <2>0, Zenon DEF Deviates, Replay
  <2>4. CASE mayExtendBatchTxn(commitCount)
    <3>0. UNCHANGED <<diskVars, lastWrittenLSN, bufVars, txVars, flagVars>>
      BY <1>4, <2>4, Zenon DEF Begin
    <3>1. TypeOK'
      BY <1>0, <1>1, <2>2, <3>0, Zenon DEF TypeOK
    <3>2. Control'
      BY <1>0, <1>1, <3>0, HandledControl, Zenon DEF IInv, Control
    <3>3. Position' = Position /\ Flushed' = Flushed
      BY <1>0, <3>0, Zenon DEF Position, Flushed
    <3>4. odd = None => Sound'
      BY <1>0, <3>0, <3>3, Zenon DEF IInv, Sound, Created
    <3>5. odd = None /\ odd' = None => Streamed'
      BY <1>0, <2>0, <2>3, <3>0, <3>3, Zenon DEF Streamed
    <3> QED
      BY <1>1, <2>1, <3>1, <3>2, <3>3, <3>4, <3>5, Assemble DEF InStream
  <2>5. CASE ~mayExtendBatchTxn(commitCount)
    <3>0. commitOngoingTxn(lastCommitLSN) /\ txOpen' = TRUE
      BY <1>4, <2>5, Zenon DEF Begin
    <3>1. /\ saved' \in LSNs /\ lastWrittenLSN' \in LSNs
          /\ delta' \subseteq Rows /\ disk' \in [Rows -> Nat]
          /\ lastWrittenLSN' = saved'
      BY <1>1, <3>0, CommitType, Zenon
    <3>2. TypeOK'
      BY <1>0, <1>1, <2>2, <3>1 DEF TypeOK
    <3>3. Control'
      BY <1>0, <1>1, <3>0, <3>1, HandledControl, Zenon
    <3>4. ASSUME odd = None, odd' = None PROVE Sound' /\ Position' >= Position /\ Streamed'
      BY <1>0, <1>1, <2>0, <2>3, <3>0, <3>4, CommitLive, Zenon
    <3> QED
      BY <2>1, <3>2, <3>3, <3>4, Assemble, Zenon DEF InStream
  <2> QED
    BY <2>4, <2>5, Zenon
<1> QED
  BY <1>3, <1>4, Zenon

LEMMA ChangeIInv ==
    ASSUME IInv, Row \/ Truncate
    PROVE  IInv' /\ Reached' >= Reached
<1> USE DEF diskVars, bufVars, txVars, flagVars, lsnVars, createVars
<1>0. /\ pc = "running" /\ connected /\ UNCHANGED <<pc, createVars, connected, confirmed>>
      /\ UNCHANGED <<next, phase, lastCommitLSN, lastWrittenLSN, saved, disk, processMessages>>
      /\ phase = "body" /\ idx' = idx + 1 /\ idx < Len(Log[next].msgs)
  BY Zenon DEF Row, Truncate, Handled, Receiving, SendChange, ChangeNext
<1>1. TypeOK /\ lastWrittenLSN = saved /\ next \in Txns
      /\ Position # None /\ Position \in Nat /\ saved \in Nat /\ next \in Nat /\ idx \in Nat
  BY <1>0, Fields, Zenon DEF IInv, Control
<1>2. ASSUME odd = None PROVE Replay \/ Streamed
  BY <1>0, <1>2, Zenon DEF IInv, InStream, Receiving
<1>3. Change \in Ops /\ Change = <<next, idx + 1>>
  BY <1>0, <1>1, OpsIntro, Zenon DEF Change
<1>4. Position' = Position
  BY <1>0, Zenon DEF Position
<1>5. odd = None => Sound'
  BY <1>0, <1>4, Zenon DEF IInv, Sound, Created
<1>6. odd' = odd \/ (odd = None /\ odd' = Position)
  BY Zenon DEF Row, Truncate, Deviates
<1>7. odd' \in {None} \union LSNs
  BY <1>1, <1>6, PositionType, Zenon DEF TypeOK
<1>8. \A o \in Rows : UpTo(o, next, idx) => UpTo(o, next, idx + 1)
  BY <1>0, <1>1, UpToNext, Zenon DEF Rows
<1>9. UpTo(Change, next, idx + 1) /\ ~UpTo(Change, next, idx)
  BY <1>0, <1>1, <1>3, UpToNext, Zenon
<1>10. CASE Row /\ processMessages
  <2>0. /\ delta' = delta \union {Change} /\ Change \in Rows /\ dirtyStream' = TRUE
        /\ UNCHANGED <<txVars, odd>>
    BY <1>3, <1>10, Zenon DEF Row, Rows
  <2>1. TypeOK'
    BY <1>0, <1>1, <1>7, <2>0 DEF TypeOK
  <2>2. Control'
    BY <1>0, <1>1, <2>0, HandledControl, Zenon DEF IInv, Control
  <2>3. ASSUME odd = None PROVE Streamed'
    <3>1. Streamed
      BY <1>2, <1>10, <2>3, Zenon DEF Replay
    <3>2. Change \notin delta
      BY <1>9, <3>1, Zenon DEF Streamed
    <3>3. /\ Part(next, idx)[Change] = 0
          /\ \A o \in Rows : Part(next, idx + 1)[o] = IF o = Change THEN 1 ELSE Part(next, idx)[o]
      BY <1>0, <1>1, <1>3, <2>0, PartRow, Zenon
    <3>4. \A o \in Rows : /\ disk[o] \in Nat
                          /\ Flushed[o] = (IF Table(o) \in truncated THEN 0 ELSE disk[o])
                                          + (IF o \in delta THEN 1 ELSE 0)
      BY <1>1, Zenon DEF Flushed, TypeOK
    <3>5. Flushed' = [o \in Rows |-> IF o = Change THEN 1 ELSE Flushed[o]]
      <4>1. \A o \in Rows : o # Change => (o \in delta' <=> o \in delta)
        BY <2>0, Zenon
      <4>2. Flushed[Change] = 0
        BY <3>1, <3>3, Zenon DEF Streamed
      <4>3. (IF Table(Change) \in truncated THEN 0 ELSE disk[Change]) = 0
        BY <2>0, <3>2, <3>4, <4>2
      <4>4. ASSUME NEW o \in Rows
            PROVE  (IF Table(o) \in truncated THEN 0 ELSE disk[o])
                     + (IF o \in delta' THEN 1 ELSE 0)
                   = IF o = Change THEN 1 ELSE Flushed[o]
        BY <2>0, <3>4, <4>1, <4>3
      <4>5. Flushed' = [o \in Rows |-> (IF Table(o) \in truncated THEN 0 ELSE disk[o])
                                       + (IF o \in delta' THEN 1 ELSE 0)]
        BY <1>0, <2>0, Zenon DEF Flushed
      <4> QED
        BY <4>4, <4>5, Zenon
    <3>6. Part(next, idx + 1) = [o \in Rows |-> IF o = Change THEN 1 ELSE Flushed[o]]
      <4>1. Part(next, idx + 1) = [o \in Rows |-> Part(next, idx + 1)[o]]
        BY Zenon DEF Part
      <4> QED
        BY <3>1, <3>3, <4>1, Zenon DEF Streamed
    <3>7. \A o \in delta' : UpTo(o, next, idx')
      BY <1>0, <1>1, <1>8, <1>9, <2>0, <3>1, Zenon DEF Streamed, TypeOK
    <3> QED
      BY <1>0, <1>1, <1>4, <1>10, <2>0, <3>1, <3>5, <3>6, <3>7, Zenon DEF Streamed
  <2> QED
    BY <1>1, <1>4, <1>5, <1>6, <2>0, <2>1, <2>2, <2>3, Assemble DEF InStream
<1>11. CASE Truncate /\ processMessages
  <2>0. /\ UNCHANGED delta /\ Change \notin Rows /\ dirtyStream' = TRUE
        /\ txOpen' = TRUE /\ truncated' = truncated \union {Table(Change)}
        /\ Deviates(processMessages /\ \E o \in delta : Table(o) = Table(Change))
    BY <1>3, <1>11, Zenon DEF Truncate, Rows
  <2>1. TypeOK'
    BY <1>0, <1>1, <1>7, <2>0 DEF TypeOK
  <2>2. Control'
    BY <1>0, <1>1, <2>0, HandledControl, Zenon DEF IInv, Control
  <2>3. ASSUME odd = None, odd' = None PROVE Streamed'
    <3>1. Streamed
      BY <1>2, <1>11, <2>3, Zenon DEF Replay
    <3>2. \A o \in delta : Table(o) # Table(Change)
      BY <1>1, <1>11, <2>0, <2>3, Zenon DEF Deviates
    <3>3. \A o \in Rows : Part(next, idx + 1)[o] = IF Table(o) = Table(Change) THEN 0
                                                   ELSE Part(next, idx)[o]
      BY <1>0, <1>1, <1>3, <2>0, PartTruncate, Zenon
    <3>4. Flushed' = [o \in Rows |-> IF Table(o) = Table(Change) THEN 0 ELSE Flushed[o]]
      <4>1. Flushed' = [o \in Rows |-> (IF Table(o) \in truncated' THEN 0 ELSE disk[o])
                                       + (IF o \in delta THEN 1 ELSE 0)]
        BY <1>0, <2>0, Zenon DEF Flushed
      <4>2. ASSUME NEW o \in Rows
            PROVE  (IF Table(o) \in truncated' THEN 0 ELSE disk[o])
                     + (IF o \in delta THEN 1 ELSE 0)
                   = IF Table(o) = Table(Change) THEN 0 ELSE Flushed[o]
        BY <2>0, <3>2 DEF Flushed
      <4> QED
        BY <4>1, <4>2, Zenon
    <3>5. Part(next, idx + 1) = [o \in Rows |-> IF Table(o) = Table(Change) THEN 0
                                                ELSE Flushed[o]]
      <4>1. Part(next, idx + 1) = [o \in Rows |-> Part(next, idx + 1)[o]]
        BY DEF Part
      <4> QED
        BY <3>1, <3>3, <4>1, Zenon DEF Streamed
    <3>6. \A o \in delta' : UpTo(o, next, idx')
      BY <1>0, <1>1, <1>8, <2>0, <3>1, Zenon DEF Streamed, TypeOK
    <3> QED
      BY <1>0, <1>1, <1>4, <1>11, <2>0, <3>1, <3>4, <3>5, <3>6, Zenon DEF Streamed
  <2> QED
    BY <1>1, <1>4, <1>5, <1>6, <2>1, <2>2, <2>3, Assemble DEF InStream
<1>12. CASE ~processMessages
  <2>0. UNCHANGED <<delta, dirtyStream, txVars>>
    BY <1>12, Zenon DEF Row, Truncate
  <2>1. TypeOK'
    BY <1>0, <1>1, <1>7, <2>0 DEF TypeOK
  <2>2. Control'
    BY <1>0, <1>1, <2>0, HandledControl, Zenon DEF IInv, Control
  <2>3. odd = None => Replay'
    BY <1>0, <1>2, <1>12, <2>0, Zenon DEF Replay, Streamed
  <2> QED
    BY <1>1, <1>4, <1>5, <1>6, <2>1, <2>2, <2>3, Assemble DEF InStream
<1> QED
  BY <1>10, <1>11, <1>12, Zenon

LEMMA CommitIInv ==
    ASSUME IInv, Commit
    PROVE  IInv' /\ Reached' >= Reached
<1> USE DEF diskVars, bufVars, txVars, createVars
<1>0. /\ pc = "running" /\ connected /\ UNCHANGED <<pc, createVars, connected, confirmed, odd>>
      /\ phase = "body" /\ idx = Len(Log[next].msgs)
      /\ next' = next + 1 /\ phase' = "between" /\ idx' = 0
      /\ lastCommitLSN' = next /\ processMessages' = FALSE
      /\ \/ UNCHANGED <<saved, disk, lastWrittenLSN, delta, txOpen, truncated>>
         \/ commitOngoingTxn(next) /\ txOpen' = FALSE
  BY Zenon DEF Commit, Handled, Receiving, SendCommit, CommitNext, commitAndClose
<1>1. TypeOK /\ lastWrittenLSN = saved /\ next \in Txns
      /\ Position \in Nat /\ saved \in Nat /\ next \in Nat /\ base \in Nat /\ base <= Position
      /\ confirmed \in Nat
  BY <1>0, Fields, Zenon DEF IInv, Control
<1>2. next \in LSNs /\ next' \in 1 .. Len(Log) + 1 /\ next' \in Nat
  BY <1>0, <1>1, Numbers DEF LSNs, Txns
<1>3. odd = None => Replay \/ Streamed
  BY <1>0, Zenon DEF IInv, InStream, Receiving
<1>4. odd = None /\ Streamed => Flushed = Expected(next) /\ Expected(next) = Part(next', 0)
  <2>1. Part(next, Len(Log[next].msgs)) = Expected(next)
    BY <1>1, PartAll, Zenon
  <2>2. Part(next', 0) = Expected(next' - 1) /\ next' - 1 = next
    BY <1>0, <1>1, <1>2, PartNone
  <2> QED
    BY <1>0, <2>1, <2>2, Zenon DEF Streamed
<1>5. CASE txOpen /\ commitOngoingTxn(next) /\ txOpen' = FALSE
  <2>0. /\ saved' = next /\ disk' = Flushed /\ delta' = {} /\ truncated' = {}
        /\ lastWrittenLSN' = next
    BY <1>5, Zenon DEF commitOngoingTxn
  <2>1. disk' \in [Rows -> Nat] /\ Flushed' = Flushed
    BY <1>1, <1>2, <1>5, CommitType, Zenon
  <2>2. TypeOK'
    BY <1>0, <1>1, <1>2, <2>0, <2>1, Zenon DEF TypeOK
  <2>3. Control'
    BY <1>0, <2>0, HandledControl, Zenon
  <2>4. ASSUME odd = None PROVE Sound' /\ InStream' /\ Position' >= Position
    <3>1. Streamed
      BY <1>3, <1>5, <2>4, Zenon DEF Replay
    <3>2. Position' = next /\ Position' >= Position
      BY <1>0, <1>1, <2>0, <3>1 DEF Position, Larger, Streamed
    <3>3. Larger(slot, saved) = Position /\ confirmed <= saved /\ slot \in Nat
      BY <1>0, <1>1, <2>4, Numbers, Zenon DEF IInv, Sound, Control, Created, TypeOK
    <3>4. Larger(slot, next) = next /\ confirmed <= next
      BY <1>1, <3>1, <3>3 DEF Larger, Streamed
    <3>5. Sound'
      BY <1>0, <1>4, <2>0, <2>4, <3>1, <3>2, <3>4, Zenon DEF Sound
    <3>6. Streamed'
      BY <1>0, <1>1, <1>4, <2>0, <2>1, <2>4, <3>1, <3>2 DEF Streamed
    <3> QED
      BY <3>2, <3>5, <3>6, Zenon DEF InStream
  <2> QED
    BY <1>0, <2>2, <2>3, <2>4, Assemble, Zenon
<1>6. CASE UNCHANGED <<saved, disk, lastWrittenLSN, delta, truncated>> /\ (txOpen' <=> txOpen)
  <2>1. TypeOK'
    BY <1>0, <1>1, <1>2, <1>6, Zenon DEF TypeOK
  <2>2. Control'
    BY <1>0, <1>1, <1>6, HandledControl, Zenon DEF IInv, Control
  <2>3. Position' = Position /\ Flushed' = Flushed
    BY <1>0, <1>6, Zenon DEF Position, Flushed
  <2>4. Sound'
    BY <1>0, <1>6, <2>3, Zenon DEF IInv, Sound, Created
  <2>5. Replay => Replay'
    BY <1>0, <1>1, <1>6 DEF Replay
  <2>6. ASSUME odd = None, Streamed PROVE Streamed'
    <3>1. \A o \in delta : UpTo(o, next + 1, 0)
      <4>1. ASSUME NEW o \in delta PROVE UpTo(o, next + 1, 0)
        <5>1. o[1] \in Nat /\ UpTo(o, next, idx)
          BY <1>1, <2>6, OpsFact, Zenon DEF TypeOK, Rows, Streamed
        <5> QED
          BY <1>1, <5>1 DEF UpTo
      <4> QED
        BY <4>1, Zenon
    <3>2. Flushed' = Part(next', idx')
      BY <1>0, <1>4, <2>3, <2>6, Zenon
    <3> QED
      BY <1>0, <1>1, <1>6, <2>3, <2>6, <3>1, <3>2 DEF Streamed
  <2> QED
    BY <1>0, <1>1, <1>3, <2>1, <2>2, <2>3, <2>4, <2>5, <2>6, Assemble DEF InStream
<1>7. CASE ~txOpen /\ commitOngoingTxn(next) /\ txOpen' = FALSE
  BY <1>6, <1>7, Zenon DEF commitOngoingTxn
<1>8. CASE UNCHANGED <<saved, disk, lastWrittenLSN, delta, txOpen, truncated>>
  BY <1>6, <1>8, Zenon
<1> QED
  BY <1>0, <1>5, <1>7, <1>8, Zenon

\* A streamed transaction, or a message that is lost.
LEMMA LostIInv ==
    ASSUME IInv, Stream \/ DropMessage
    PROVE  IInv' /\ Reached' >= Reached
<1> USE DEF diskVars, bufVars, txVars, flagVars, lsnVars, createVars, memoryVars
<1>0. /\ pc = "running" /\ UNCHANGED <<pc, createVars, confirmed>> /\ Deviates(TRUE)
      /\ UNCHANGED <<lastCommitLSN, lastWrittenLSN, saved, disk, delta, txOpen, truncated>>
  BY Zenon DEF Stream, DropMessage, Handled, Receiving
<1>1. TypeOK /\ lastWrittenLSN = saved /\ Position # None /\ idx \in Nat
  BY <1>0, Fields, Zenon DEF IInv, Control
<1>2. \/ BeginNext /\ SendBegin
      \/ (SendRelation \/ SendChange) /\ phase = "body"
      \/ CommitNext /\ SendCommit
  BY Zenon DEF Stream, DropMessage, RelationNext, ChangeNext
<1>3. /\ next' \in 1 .. Len(Log) + 1 /\ phase' \in {"between", "body"} /\ idx' \in Nat
      /\ phase' = "between" => idx' = 0
      /\ phase' = "body" => next' \in Txns
  <2>1. phase = "body" => next \in Txns
    BY Zenon DEF IInv, Control
  <2>2. CASE (BeginNext /\ SendBegin) \/ ((SendRelation \/ SendChange) /\ phase = "body")
    BY <1>1, <2>1, <2>2 DEF BeginNext, SendBegin, SendRelation, SendChange, TypeOK
  <2>3. CASE CommitNext /\ SendCommit
    <3>1. next + 1 \in 1 .. Len(Log) + 1
      BY <2>1, <2>3, Numbers DEF CommitNext, Txns
    <3> QED
      BY <2>3, <3>1, Zenon DEF SendCommit
  <2> QED
    BY <1>2, <2>2, <2>3, Zenon
<1>4. odd' = odd \/ (odd = None /\ odd' = Position)
  BY <1>0, Zenon DEF Deviates
<1>5. odd' \in {None} \union LSNs /\ odd' # None
  BY <1>0, <1>1, <1>4, PositionType, Zenon DEF TypeOK, Deviates
<1>6. TypeOK'
  BY <1>0, <1>1, <1>3, <1>5, Zenon DEF TypeOK
<1>7. Control'
  BY <1>0, <1>1, <1>3, HandledControl, Zenon DEF IInv, Control
<1> QED
  BY <1>4, <1>5, <1>6, <1>7, Assemble, Zenon
\* A command of the session that the replication runs in commits its transaction.
LEMMA SessionIInv ==
    ASSUME IInv, CommitAndCloseTxn \/ CommitFlushedRows
    PROVE  IInv' /\ Reached' >= Reached
<1> USE DEF diskVars, bufVars, txVars, flagVars, lsnVars, createVars, streamVars, memoryVars,
            rollback
<1>0. /\ pc \in {"running", "exiting"} /\ pc' \in {"running", "exiting", "stopped"}
      /\ UNCHANGED <<createVars, streamVars, lastCommitLSN, lastWrittenLSN, saved, delta, confirmed>>
      /\ txOpen' = FALSE /\ truncated' = {} /\ Deviates(TRUE)
      /\ pc' = "stopped" => connected' = FALSE
      /\ \/ disk' = Flushed
         \/ disk' = [o \in Rows |-> IF Table(o) \in truncated THEN 0 ELSE disk[o]]
  BY Zenon DEF CommitAndCloseTxn, CommitFlushedRows, ForcesCommit, Receiving, handleErrWithRetry
<1>1. TypeOK /\ lastWrittenLSN = saved /\ Position # None
  BY <1>0, Fields, Zenon DEF IInv, Control
<1>2. odd' = odd \/ (odd = None /\ odd' = Position)
  BY <1>0, Zenon DEF Deviates
<1>3. odd' \in {None} \union LSNs /\ odd' # None
  BY <1>0, <1>1, <1>2, PositionType, Zenon DEF TypeOK, Deviates
<1>4. disk' \in [Rows -> Nat]
  <2>1. disk \in [Rows -> Nat] /\ Flushed \in [Rows -> Nat]
    BY <1>1, FlushedType, Zenon DEF TypeOK
  <2> QED
    BY <1>0, <2>1
<1>5. TypeOK'
  BY <1>0, <1>1, <1>3, <1>4, Zenon DEF TypeOK
<1>6. Control'
  BY <1>0, <1>1, Zenon DEF IInv, Control, Created
<1> QED
  BY <1>2, <1>3, <1>5, <1>6, Assemble, Zenon
-----------------------------------------------------------------------------
(* The loop *)

LEMMA StartIInv ==
    ASSUME IInv, StartReplication \/ Crash
    PROVE  IInv' /\ Reached' >= Reached
<1> USE DEF diskVars, txVars, createVars, quietVars, streamVars, reset, rollback
<1>0. /\ pc \in {"stopped", "running", "exiting"} /\ pc' \in {"stopped", "running"}
      /\ UNCHANGED <<createVars, odd, streamVars, saved, disk, confirmed>>
      /\ lastWrittenLSN' = saved /\ lastCommitLSN' = saved /\ delta' = {}
      /\ ~txOpen' /\ ~connected' /\ truncated' = {}
  BY DEF IInv, Control, StartReplication, Crash
<1>1. TypeOK /\ saved \in LSNs /\ Position \in Nat
  BY Fields, Zenon DEF IInv
<1>2. TypeOK'
  BY <1>0, <1>1, Zenon DEF TypeOK
<1>3. Control'
  BY <1>0, Zenon DEF IInv, Control, Created
<1>4. Position' = Position
  BY <1>0, Zenon DEF Position
<1>5. Sound'
  BY <1>0, <1>4, Zenon DEF IInv, Sound, Created
<1>6. InStream'
  BY <1>0, Zenon DEF InStream, Receiving
<1> QED
  BY <1>0, <1>1, <1>2, <1>3, <1>4, <1>5, <1>6, Assemble

LEMMA ConnectIInv ==
    ASSUME IInv, beginReplication
    PROVE  IInv' /\ Reached' >= Reached
<1> USE DEF diskVars, txVars, createVars, quietVars, reset, rollback
<1>0. /\ pc = "running" /\ UNCHANGED <<pc, createVars, odd, saved, disk, confirmed>>
      /\ lastWrittenLSN' = lastWrittenLSN /\ lastCommitLSN' = lastWrittenLSN /\ delta' = {}
      /\ txOpen' = FALSE /\ truncated' = {} /\ processMessages' = FALSE
      /\ phase' = "between" /\ idx' = 0
      /\ \/ next' = Larger(Larger(slot, confirmed), lastWrittenLSN) + 1
         \/ next' \in (Larger(slot, confirmed) + 1) .. lastWrittenLSN
  BY Zenon DEF beginReplication
<1>1. TypeOK /\ saved \in LSNs /\ Position \in Nat /\ confirmed \in LSNs /\ saved \in Nat
      /\ slot \in LSNs /\ slot \in Nat /\ lastWrittenLSN = saved /\ confirmed \in Nat
      /\ Position \in LSNs /\ saved <= Position
  BY <1>0, Fields, Numbers, PositionType, Zenon DEF IInv, TypeOK, Control, Created
<1>2. next' \in 1 .. Len(Log) + 1
  BY <1>0, <1>1, Numbers DEF Larger, LSNs
<1>3. TypeOK'
  BY <1>0, <1>1, <1>2, Zenon DEF TypeOK
<1>4. Control'
  BY <1>0, <1>1, HandledControl, Zenon
<1>5. Position' = Position
  BY <1>0, Zenon DEF Position
<1>6. Sound'
  BY <1>0, <1>5, Zenon DEF IInv, Sound, Created
<1>7. ASSUME odd = None PROVE Replay' \/ Streamed'
  <2>0. confirmed <= saved /\ Larger(slot, saved) = Position /\ disk = Expected(Position)
    BY <1>0, <1>7, Zenon DEF IInv, Sound, Created
  <2>1. CASE next' \in (Larger(slot, confirmed) + 1) .. lastWrittenLSN
    <3>1. next' <= saved
      BY <1>1, <2>1 DEF Larger
    <3> QED
      BY <1>0, <3>1, Zenon DEF Replay
  <2>2. CASE next' = Larger(Larger(slot, confirmed), lastWrittenLSN) + 1
    <3>1. next' = Position + 1 /\ next' - 1 = Position /\ next' > saved
      BY <1>1, <2>0, <2>2 DEF Larger
    <3>2. Flushed' = disk'
      BY <1>0, <1>3, FlushedType DEF Flushed, TypeOK
    <3>3. Flushed' = Part(next', idx')
      BY <1>0, <1>2, <2>0, <3>1, <3>2, PartNone, Zenon
    <3> QED
      BY <1>0, <1>1, <1>5, <3>1, <3>3 DEF Streamed
  <2> QED
    BY <1>0, <2>1, <2>2, Zenon
<1> QED
  BY <1>0, <1>1, <1>3, <1>4, <1>5, <1>6, <1>7, Assemble DEF InStream

LEMMA TickIInv ==
    ASSUME IInv, Tick
    PROVE  IInv' /\ Reached' >= Reached
<1> USE DEF createVars, quietVars, streamVars
<1>0. /\ pc = "running" /\ connected /\ UNCHANGED <<pc, createVars, odd, confirmed, connected>>
      /\ UNCHANGED <<next, phase, idx, processMessages, lastCommitLSN>>
      /\ commitOngoingTxn(lastCommitLSN) /\ txOpen' = FALSE
      /\ dirtyStream' = Settled(dirtyStream) /\ ~dirtyStream
  BY Zenon DEF Tick, Receiving, Clean, commitAndClose
<1>1. TypeOK /\ lastCommitLSN \in LSNs /\ lastWrittenLSN = saved
  BY <1>0, Fields, Zenon DEF IInv, Control
<1>2. /\ saved' \in LSNs /\ lastWrittenLSN' \in LSNs
      /\ delta' \subseteq Rows /\ disk' \in [Rows -> Nat] /\ lastWrittenLSN' = saved'
  BY <1>0, <1>1, CommitType, Zenon
<1>3. TypeOK'
  BY <1>0, <1>1, <1>2, Zenon DEF TypeOK
<1>4. truncated' = {}
  BY <1>0, Zenon DEF commitOngoingTxn, IInv, Control
<1>5. Control'
  BY <1>0, <1>2, <1>4, HandledControl, Zenon DEF IInv, Control
<1>6. ASSUME odd = None PROVE Sound' /\ Position' >= Position /\ (Replay' \/ Streamed')
  <2>1. Replay \/ Streamed
    BY <1>0, <1>6, Zenon DEF IInv, InStream, Receiving
  <2> QED
    BY <1>0, <1>6, <2>1, CommitStream, Zenon
<1> QED
  BY <1>0, <1>3, <1>5, <1>6, Assemble, Zenon DEF InStream

LEMMA ShutdownIInv ==
    ASSUME IInv, shutdown
    PROVE  IInv' /\ Reached' >= Reached
<1> USE DEF createVars, quietVars, streamVars, memoryVars, diskVars, lsnVars, bufVars
<1>0. /\ pc = "exiting" /\ pc' = "stopped" /\ connected' = FALSE /\ txOpen' = FALSE
      /\ UNCHANGED <<createVars, odd, confirmed, next, phase, idx, lastCommitLSN>>
  BY Zenon DEF shutdown, rollback, commitAndClose
<1>1. TypeOK /\ lastCommitLSN \in LSNs /\ Position \in Nat
  BY Fields, Zenon DEF IInv
<1>2. InStream'
  BY <1>0, Zenon DEF InStream, Receiving
<1>3. CASE UNCHANGED <<saved, disk, lastWrittenLSN, delta>> /\ truncated' = {}
  <2>1. TypeOK'
    BY <1>0, <1>1, <1>3, Zenon DEF TypeOK
  <2>2. Control'
    BY <1>0, <1>3, Zenon DEF IInv, Control, Created
  <2>3. Position' = Position
    BY <1>0, <1>3, Zenon DEF Position
  <2>4. Sound'
    BY <1>0, <1>3, <2>3, Zenon DEF IInv, Sound, Created
  <2> QED
    BY <1>0, <1>1, <1>2, <2>1, <2>2, <2>3, <2>4, Assemble
<1>4. CASE commitOngoingTxn(lastCommitLSN) /\ txOpen /\ ~dirtyStream
  <2>0. truncated' = {}
    BY <1>4, Zenon DEF commitOngoingTxn
  <2>1. /\ saved' \in LSNs /\ lastWrittenLSN' \in LSNs
        /\ delta' \subseteq Rows /\ disk' \in [Rows -> Nat]
    BY <1>1, <1>4, CommitType, Zenon
  <2>2. TypeOK'
    BY <1>0, <1>1, <2>1, Zenon DEF TypeOK
  <2>3. Control'
    BY <1>0, <2>0, Zenon DEF IInv, Control, Created
  <2>4. ASSUME odd = None PROVE Sound' /\ Position' >= Position
    <3>1. idx = 0
      BY <1>4, <2>4, Zenon DEF IInv, InStream, Replay, Streamed
    <3> QED
      BY <1>0, <1>4, <2>4, <3>1, CommitLive, Zenon
  <2> QED
    BY <1>0, <1>2, <2>2, <2>3, <2>4, Assemble, Zenon
<1>5. \/ UNCHANGED <<saved, disk, lastWrittenLSN, delta>> /\ truncated' = {}
      \/ commitOngoingTxn(lastCommitLSN) /\ txOpen /\ ~dirtyStream
  <2>1. CASE Clean /\ commitAndClose(lastCommitLSN) /\ txOpen
    BY <2>1, Zenon DEF Clean, commitAndClose
  <2>2. CASE Clean /\ commitAndClose(lastCommitLSN) /\ ~txOpen
    BY <2>2, Zenon DEF commitAndClose, commitOngoingTxn, IInv, Control
  <2>3. CASE rollback /\ UNCHANGED <<memoryVars, diskVars>>
    BY <2>3, Zenon DEF rollback
  <2> QED
    BY <2>1, <2>2, <2>3, Zenon DEF shutdown
<1> QED
  BY <1>3, <1>4, <1>5, Zenon
-----------------------------------------------------------------------------
(* The theorems *)

LEMMA NextIInv ==
    ASSUME IInv, [Next]_vars
    PROVE  IInv' /\ Reached' >= Reached /\ Reached \in Nat
<1>0. Reached \in Nat
  BY Fields, Numbers, Zenon DEF IInv, TypeOK, Reached
<1>1. CASE UNCHANGED vars
  <2> USE DEF vars, quietVars, createVars, streamVars, lsnVars, flagVars, bufVars, txVars,
              diskVars
  <2>1. TypeOK'
    BY <1>1, Zenon DEF IInv, TypeOK
  <2>2. Control'
    BY <1>1, Zenon DEF IInv, Control, Created, Creating
  <2>3. Position' = Position /\ Flushed' = Flushed /\ (Receiving' <=> Receiving)
    BY <1>1, Zenon DEF Position, Flushed, Receiving
  <2>4. Sound'
    BY <1>1, <2>3, Zenon DEF IInv, Sound, Created
  <2>5. InStream'
    BY <1>1, <2>3, Zenon DEF IInv, InStream, Replay, Streamed
  <2>6. Reached' = Reached
    BY <1>1, <2>3, Zenon DEF Reached
  <2> QED
    BY <1>0, <2>1, <2>2, <2>4, <2>5, <2>6 DEF IInv
<1>2. CASE SourceCommits \/ CreateSubscription
  BY <1>0, <1>2, CreateIInv, Zenon
<1>3. CASE processMessage
  <2>1. CASE ChangeFails
    BY <1>0, <2>1, ErrorsIInv
  <2>2. CASE Relation
    BY <1>0, <2>2, RelationIInv, Zenon
  <2>3. CASE BeginStale \/ Begin
    BY <1>0, <2>3, BeginIInv
  <2>4. CASE Row \/ Truncate
    BY <1>0, <2>4, ChangeIInv
  <2>5. CASE Commit
    BY <1>0, <2>5, CommitIInv, Zenon
  <2>6. CASE Stream
    BY <1>0, <2>6, LostIInv, Zenon
  <2> QED
    BY <1>3, <2>1, <2>2, <2>3, <2>4, <2>5, <2>6, Zenon DEF processMessage
<1>4. CASE sendStandbyStatusUpdate \/ Elapse \/ CommitFails \/ TickFails \/ ConnectionFails
           \/ Leave
  BY <1>0, <1>4, ErrorsIInv
<1>5. CASE StartReplication \/ Crash
  BY <1>0, <1>5, StartIInv
<1>6. CASE beginReplication
  BY <1>0, <1>6, ConnectIInv
<1>7. CASE Tick
  BY <1>0, <1>7, TickIInv
<1>8. CASE shutdown
  BY <1>0, <1>8, ShutdownIInv
<1>9. CASE DropMessage
  BY <1>0, <1>9, LostIInv, Zenon
<1>10. CASE CommitAndCloseTxn \/ CommitFlushedRows
  BY <1>0, <1>10, SessionIInv, Zenon
<1> QED
  BY <1>1, <1>2, <1>3, <1>4, <1>5, <1>6, <1>7, <1>8, <1>9, <1>10, Zenon DEF Next

LEMMA Invariance == Spec => []IInv
<1>1. Init => IInv
  BY InitIInv, Zenon
<1>2. IInv /\ [Next]_vars => IInv'
  BY NextIInv, Zenon
<1> QED
  BY <1>1, <1>2, PTL DEF Spec

\* For every log, what is stored is the source as of the stored LSN or of the copy:
\* no batching of commitOngoingTxn, error, reconnection or crash leaves a part of
\* a transaction, or an LSN without its rows.
THEOREM StoredIsConsistent == Spec => []Consistent
<1>1. IInv => Consistent
  BY Zenon DEF IInv, Sound, Consistent
<1> QED
  BY <1>1, Invariance, PTL

\* For every log, sendStandbyStatusUpdate confirms no LSN that is not stored.
THEOREM ConfirmedOnlyStored == Spec => []ConfirmedIsStored
<1>1. IInv => ConfirmedIsStored
  BY Zenon DEF IInv, Sound, ConfirmedIsStored
<1> QED
  BY <1>1, Invariance, PTL

\* What the refinement mapping makes of the tables.
appliedTo(n) == [o \in Rows |-> IF TxnOf(o) <= n THEN 1 ELSE 0]
mapped == [o \in Rows |-> IF odd # None THEN (IF TxnOf(o) <= odd THEN 1 ELSE 0)
                          ELSE disk[o] + (IF Removed(o, Position) THEN 1 ELSE 0)]

\* A row that is gone was there.
LEMMA MappedTables == IInv => mapped = appliedTo(Reached) /\ Reached \in LSNs
<1> SUFFICES ASSUME IInv PROVE mapped = appliedTo(Reached) /\ Reached \in LSNs
  OBVIOUS
<1>0. Reached \in LSNs
  BY PositionType, Zenon DEF IInv, TypeOK, Reached
<1>1. CASE odd # None
  BY <1>0, <1>1, Zenon DEF mapped, appliedTo, Reached
<1>2. CASE odd = None
  <2>0. Position \in Nat /\ disk = Expected(Position) /\ Reached = Position
    BY <1>2, Fields, Zenon DEF IInv, Sound, Reached
  <2>1. ASSUME NEW o \in Rows, Removed(o, Position) PROVE TxnOf(o) <= Position
    <3>1. PICK p \in Ops : TxnOf(p) <= Position /\ Before(o, p)
      BY <2>1, Zenon DEF Removed
    <3>2. o[1] \in Nat /\ p[1] \in Nat
      BY OpsFact, Zenon DEF Rows
    <3> QED
      BY <2>0, <3>1, <3>2 DEF TxnOf, Before
  <2>2. ASSUME NEW o \in Rows
        PROVE  disk[o] + (IF Removed(o, Position) THEN 1 ELSE 0)
               = IF TxnOf(o) <= Position THEN 1 ELSE 0
    BY <2>0, <2>1 DEF Expected
  <2> QED
    BY <1>0, <1>2, <2>0, <2>2, Zenon DEF mapped, appliedTo
<1> QED
  BY <1>1, <1>2, Zenon

\* For every log, the subscriber implements the abstract replica: the copy of CREATE
\* SUBSCRIPTION and every commit make whole transactions visible, each once and
\* in the source's order, until something happens that it does not cope with.
THEOREM SubscriberKeepsPromise == Spec => KeepsPromise
<1>1. Init => Promise!Init
  <2> SUFFICES ASSUME Init PROVE Promise!Init
    OBVIOUS
  <2>1. IInv /\ Reached = 0
    BY InitIInv, Zenon
  <2>2. mapped = appliedTo(0)
    BY <2>1, MappedTables, Zenon
  <2>3. \A o \in Rows : ~(TxnOf(o) <= 0)
    BY OpsFact, Numbers DEF Rows, TxnOf, Txns
  <2>4. mapped = [o \in Rows |-> 0]
    BY <2>2, <2>3, Zenon DEF appliedTo
  <2>5. 1 .. Reached = {}
    BY <2>1
  <2> QED
    BY <2>4, <2>5, Zenon DEF Promise!Init, mapped
<1>2. IInv /\ [Next]_vars => [Promise!Next]_(Promise!vars)
  <2> SUFFICES ASSUME IInv, [Next]_vars PROVE [Promise!Next]_(Promise!vars)
    OBVIOUS
  <2>1. IInv' /\ Reached' >= Reached /\ Reached \in Nat
    BY NextIInv, Zenon
  <2>2. /\ mapped = appliedTo(Reached) /\ Reached \in LSNs
        /\ mapped' = appliedTo(Reached') /\ Reached' \in LSNs
    <3>1. IInv' => (mapped = appliedTo(Reached) /\ Reached \in LSNs)'
      BY MappedTables, PTL
    <3>2. appliedTo(Reached)' = appliedTo(Reached')
      BY Zenon DEF appliedTo
    <3> QED
      BY <2>1, <3>1, <3>2, MappedTables, Zenon DEF LSNs
  <2> DEFINE G == (Reached + 1) .. Reached'
  <2>3. /\ G \in SUBSET (Txns \ 1 .. Reached)
        /\ \A g \in G, h \in Txns : h < g => h \in (1 .. Reached) \union G
        /\ 1 .. Reached' = (1 .. Reached) \union G
    BY <2>1, <2>2, Numbers DEF Txns, LSNs
  <2>4. ASSUME NEW o \in Rows
        PROVE  appliedTo(Reached')[o] = appliedTo(Reached)[o] + (IF TxnOf(o) \in G THEN 1 ELSE 0)
    <3>1. TxnOf(o) \in Nat
      BY OpsFact, Zenon DEF Rows, TxnOf
    <3> QED
      BY <2>1, <2>2, <3>1, Numbers DEF appliedTo
  <2>5. mapped' = [o \in Rows |-> mapped[o] + (IF TxnOf(o) \in G THEN 1 ELSE 0)]
    BY <2>2, <2>4, Zenon DEF appliedTo
  <2>6. PICK H \in SUBSET (Txns \ 1 .. Reached) : H = G
    BY <2>3, Zenon
  <2>7. Promise!Next
    <3>1. Promise!Commit(H)
      BY <2>3, <2>5, <2>6, Zenon DEF Promise!Commit, mapped
    <3> QED
      BY <3>1, Zenon DEF Promise!Next
  <2> QED
    BY <2>7, Zenon
<1> QED
  BY <1>1, <1>2, Invariance, PTL DEF Spec, KeepsPromise, Promise!Spec

-----------------------------------------------------------------------------
(* The commands on a subscription, for any number of sessions, structs,    *)
(* goroutines and faults (PgSubscriptions): as long as every command comes *)
(* when the last one has taken effect and nothing fails, the replicators   *)
(* follow the catalog, one loop runs at a time, and nothing panics.        *)

Steps == {"idle", "read", "apply", "load", "flip", "create", "slot", "stop_check",
          "stop_eval", "stop_send", "stop_wait", "delete"}
Calls == [step : Steps, seen : RowStates, on : Ids \union {Nil}, ch : Threads \union {Nil}]
States == {"unused", "spawned", "running", "exiting", "done"}

SubscriptionsType ==
    /\ row \in RowStates
    /\ entry \in Ids \union {Nil}
    /\ sub \in [Ids -> [Enabled : BOOLEAN, Replicator : Ids \union {Nil}]]
    /\ made \in SUBSET Ids
    /\ call \in [Procs -> Calls]
    /\ thread \in [Threads -> [state : States, of : Ids \union {Nil}]]
    /\ running \in [Ids -> BOOLEAN]
    /\ stop \in [Ids -> Threads \union {Nil}]
    /\ closed \in SUBSET (Threads \union {Nil})

State(t) == thread[t].state
Active == In({"spawned", "running", "exiting"})

\* The struct in the map has its replicator, and one loop exactly if it is enabled.
Stable == entry # Nil => /\ sub[entry].Replicator = entry
                         /\ In({"spawned", "running"}) # {} <=> sub[entry].Enabled

\* The loop, its flag, its channel and its struct belong together.
OneLoop ==
    /\ \A t, u \in Active : t = u
    /\ \A t \in Active : entry # Nil /\ thread[t].of = entry
    /\ \A t \in Live : stop[entry] = t
    /\ \A i \in Ids : running[i] <=> i = entry /\ Live # {}
    /\ \A t \in closed : t \in Threads /\ State(t) = "done"

\* What a call may rely on at a step, with no lock to keep others from moving.
Reliable(c) ==
    /\ c.step # "idle" => In({"spawned"}) = {}
    /\ c.step \notin {"idle", "read"} => c.seen = row
    /\ c.step \in {"read", "apply", "load", "flip"} => Stable
    /\ c.step \in {"load", "flip", "create", "slot"} => entry # Nil /\ row # "none"
    /\ c.step \in {"flip", "create", "slot", "stop_check", "stop_eval", "stop_send",
                   "stop_wait"} => entry # Nil /\ c.on = entry
    /\ c.step = "flip" => sub[entry].Enabled # (row = "enabled")
    /\ c.step \in {"create", "slot"} => Active = {} /\ sub[entry].Enabled = (row = "enabled")
    /\ c.step \in {"slot", "stop_check", "stop_eval", "stop_send", "stop_wait"} =>
          sub[entry].Replicator = entry
    /\ c.step \in {"stop_check", "stop_eval", "stop_send", "stop_wait"} =>
          row # "enabled" /\ (row = "disabled" => ~sub[entry].Enabled)
    /\ c.step \in {"stop_eval", "stop_send"} => In({"running"}) # {}
    /\ c.step \in {"stop_send", "stop_wait"} => c.ch = stop[entry] /\ c.ch \in Threads
    /\ c.step = "stop_wait" => c.ch \in closed \/ State(c.ch) = "exiting"
    /\ c.step = "stop_wait" => In({"running"}) = {}
    /\ c.step = "delete" => Active = {} /\ row = "none"

\* The catalog and the map agree when no call is under way.
Agree == /\ Stable
         /\ row = "none" <=> entry = Nil
         /\ entry # Nil => sub[entry].Enabled = (row = "enabled")

Calm ==
    /\ ~panicked
    /\ OneLoop
    /\ \A p, q \in Procs : call[p].step # "idle" /\ call[q].step # "idle" => p = q
    /\ \A p \in Procs : Reliable(call[p])
    /\ In({"exiting"}) # {} => \E p \in Procs : call[p].step = "stop_wait"
    /\ Idle => Agree

\* Nothing is claimed of a history in which commands overlap or something fails, until
\* the server comes up again.
SubscriptionInv == /\ row \in RowStates /\ calm \in BOOLEAN
                   /\ calm => SubscriptionsType /\ Calm

LEMMA Facts == /\ Nil \notin Ids /\ Nil \notin Threads
               /\ NoCall \in Calls /\ NoCall.step = "idle"
  BY SubscriptionAssumption DEF Nil, Ids, Threads, NoCall, Calls, Steps, RowStates

LEMMA AtFields ==
    ASSUME SubscriptionsType, NEW p \in Procs, NEW step \in Steps
    PROVE  /\ At(p, step) \in Calls
           /\ At(p, step).step = step
           /\ step # "idle" => /\ At(p, step).seen = call[p].seen
                               /\ At(p, step).on = call[p].on
                               /\ At(p, step).ch = call[p].ch
  BY Facts, Zenon DEF SubscriptionsType, At, Calls

LEMMA OnFields ==
    ASSUME SubscriptionsType, NEW p \in Procs, NEW step \in Steps, step # "idle", NEW i \in Ids \union {Nil}
    PROVE  /\ [At(p, step) EXCEPT !.on = i] \in Calls
           /\ [At(p, step) EXCEPT !.on = i].step = step
           /\ [At(p, step) EXCEPT !.on = i].seen = call[p].seen
           /\ [At(p, step) EXCEPT !.on = i].on = i
<1>1. PICK d \in Calls : d = At(p, step)
  BY AtFields, Zenon
<1>2. [d EXCEPT !.on = i] \in Calls
  BY Zenon DEF Calls
<1>3. d.step = step /\ d.seen = call[p].seen
  BY <1>1, AtFields, Zenon
<1> QED
  BY <1>1, <1>2, <1>3, Zenon DEF Calls

\* A call moves from one step to the next; the others are idle.
LEMMA CallMoves ==
    ASSUME SubscriptionsType, Calm, NEW p \in Procs, call[p].step # "idle", NEW c \in Calls,
           call' = [call EXCEPT ![p] = c],
           ~panicked', OneLoop', Reliable(c)',
           c.step = "stop_wait" \/ In({"exiting"})' = {},
           c.step = "idle" => Agree'
    PROVE  Calm' /\ call' \in [Procs -> Calls]
<1>1. call' \in [Procs -> Calls]
  BY Zenon DEF SubscriptionsType
<1>2. call'[p] = c /\ \A q \in Procs : q # p => call'[q].step = "idle"
  BY Zenon DEF SubscriptionsType, Calm
<1>3. \A q \in Procs : Reliable(call[q])'
  <2> SUFFICES ASSUME NEW q \in Procs PROVE Reliable(call[q])'
    OBVIOUS
  <2>1. CASE q = p
    BY <2>1, <1>2, Zenon
  <2>2. CASE q # p
    BY <2>2, <1>2, Zenon DEF Reliable
  <2> QED
    BY <2>1, <2>2, Zenon
<1>4. Idle' => c.step = "idle"
  BY <1>2, Zenon DEF Idle
<1> QED
  BY <1>1, <1>2, <1>3, <1>4, Zenon DEF Calm

LEMMA SameShared ==
    ASSUME UNCHANGED <<row, entry, sub, replicator>>
    PROVE  /\ OneLoop => OneLoop'
           /\ Stable' <=> Stable
           /\ Agree => Agree'
           /\ \A S : In(S)' = In(S)
           /\ \A c : Reliable(c) => Reliable(c)'
<1> USE DEF replicator
<1>1. \A S : In(S)' = In(S)
  BY Zenon DEF In
<1>2. Live' = Live /\ Active' = Active
  BY <1>1, Zenon DEF Live, Active
<1>3. Stable' <=> Stable
  BY <1>1, Zenon DEF Stable
<1>4. OneLoop => OneLoop'
  BY <1>2, Zenon DEF OneLoop, State
<1>5. \A c : Reliable(c) => Reliable(c)'
  BY <1>1, <1>2, <1>3 DEF Reliable, State
<1>6. Agree => Agree'
  BY <1>3, Zenon DEF Agree
<1> QED
  BY <1>1, <1>3, <1>4, <1>5, <1>6, Zenon

\* A step of a call that changes nothing but the call.
LEMMA CallOnly ==
    ASSUME SubscriptionsType, Calm, NEW p \in Procs, call[p].step # "idle", NEW c \in Calls,
           call' = [call EXCEPT ![p] = c],
           UNCHANGED <<row, entry, sub, made, replicator, history>>,
           Reliable(c), call[p].step # "stop_wait" \/ c.step = "stop_wait" \/ Active = {},
           c.step = "idle" => Agree
    PROVE  SubscriptionsType' /\ Calm'
<1>1. c.step = "stop_wait" \/ In({"exiting"}) = {}
  BY DEF Calm, Active, In
<1>2. Calm' /\ call' \in [Procs -> Calls]
  BY <1>1, SameShared, CallMoves, Zenon DEF Calm, history
<1> QED
  BY <1>2, Zenon DEF SubscriptionsType, replicator

LEMMA ReadRowsCalm ==
    ASSUME SubscriptionsType, Calm, NEW p \in Procs, ReadRows(p) PROVE SubscriptionsType' /\ Calm'
<1>1. PICK c : c = [call[p] EXCEPT !.seen = row, !.step = "apply"]
  OBVIOUS
<1>2. c \in Calls /\ c.step = "apply" /\ c.seen = row
  BY <1>1, Zenon DEF SubscriptionsType, Calls, Steps
<1>3. call' = [call EXCEPT ![p] = c]
  BY <1>1, Zenon DEF ReadRows, SubscriptionsType, Calls
<1>4. Reliable(c)
  BY <1>2, Zenon DEF ReadRows, Calm, Reliable
<1> QED
  BY <1>2, <1>3, <1>4, CallOnly, Zenon DEF ReadRows

LEMMA FoundCalm ==
    ASSUME SubscriptionsType, Calm, NEW p \in Procs, Found(p) PROVE SubscriptionsType' /\ Calm'
<1>1. PICK c : c = At(p, "load")
  OBVIOUS
<1>2. c \in Calls /\ c.step = "load" /\ c.seen = call[p].seen
  BY <1>1, AtFields, Zenon DEF Steps
<1>3. Reliable(c)
  BY <1>2, Zenon DEF Found, Calm, Reliable
<1> QED
  BY <1>1, <1>2, <1>3, CallOnly, Zenon DEF Found, Goto

LEMMA CompareCalm ==
    ASSUME SubscriptionsType, Calm, NEW p \in Procs, Compare(p) PROVE SubscriptionsType' /\ Calm'
<1>0. call[p].step = "load" /\ Reliable(call[p])
  BY Zenon DEF Compare, Calm
<1>1. CASE sub[entry].Enabled # (call[p].seen = "enabled")
  <2>1. PICK c : c = [At(p, "flip") EXCEPT !.on = entry]
    BY Zenon
  <2>2. c \in Calls /\ c.step = "flip" /\ c.seen = call[p].seen /\ c.on = entry
    BY <2>1, OnFields DEF Steps, SubscriptionsType
  <2>3. Reliable(c)
    BY <1>0, <1>1, <2>2, Zenon DEF Reliable
  <2>4. call' = [call EXCEPT ![p] = c]
    BY <1>0, <1>1, <2>1, Zenon DEF Compare, GotoOn, Reliable
  <2> QED
    BY <1>0, <2>2, <2>3, <2>4, CallOnly, Zenon DEF Compare
<1>2. CASE sub[entry].Enabled = (call[p].seen = "enabled")
  <2>1. PICK c : c = At(p, "idle")
    OBVIOUS
  <2>2. c \in Calls /\ c.step = "idle"
    BY <2>1, AtFields, Zenon DEF Steps
  <2>3. Reliable(c) /\ Agree
    BY <1>0, <1>2, <2>2, Zenon DEF Reliable, Agree
  <2>4. call' = [call EXCEPT ![p] = c]
    BY <1>2, <2>1, Zenon DEF Compare, Goto
  <2> QED
    BY <1>0, <2>2, <2>3, <2>4, CallOnly, Zenon DEF Compare
<1> QED
  BY <1>1, <1>2, Zenon

LEMMA RemoveCalm ==
    ASSUME SubscriptionsType, Calm, NEW p \in Procs, Remove(p) PROVE SubscriptionsType' /\ Calm'
<1>0. call[p].step = "apply" /\ Reliable(call[p]) /\ call[p].seen = "none" /\ row = "none"
  BY Zenon DEF Remove, Calm, Reliable
<1>1. CASE entry = Nil
  <2>1. PICK c : c = At(p, "idle")
    OBVIOUS
  <2>2. c \in Calls /\ c.step = "idle"
    BY <2>1, AtFields, Zenon DEF Steps
  <2>3. Reliable(c) /\ Agree
    BY <1>0, <1>1, <2>2, Zenon DEF Reliable, Agree, Stable
  <2>4. call' = [call EXCEPT ![p] = c] /\ UNCHANGED history
    BY <1>1, <2>1, Zenon DEF Remove, Goto
  <2> QED
    BY <1>0, <2>2, <2>3, <2>4, CallOnly, Zenon DEF Remove
<1>2. CASE entry # Nil
  <2>1. PICK c : c = [At(p, "stop_check") EXCEPT !.on = entry]
    BY Zenon
  <2>2. c \in Calls /\ c.step = "stop_check" /\ c.seen = "none" /\ c.on = entry
    BY <1>0, <2>1, OnFields DEF Steps, SubscriptionsType
  <2>3. sub[entry].Replicator = entry
    BY <1>0, <1>2, Zenon DEF Reliable, Stable
  <2>4. Reliable(c)
    BY <1>0, <1>2, <2>2, <2>3, Zenon DEF Reliable
  <2>5. call' = [call EXCEPT ![p] = c] /\ UNCHANGED history
    BY <1>0, <1>2, <2>1, <2>3, Zenon DEF Remove, GotoOn
  <2> QED
    BY <1>0, <2>2, <2>4, <2>5, CallOnly, Zenon DEF Remove
<1> QED
  BY <1>1, <1>2, Zenon

\* Only a loop that a Stop has told to end is exiting.
LEMMA NoneExits ==
    ASSUME Calm, NEW p \in Procs, call[p].step \notin {"idle", "stop_wait"}
    PROVE  In({"exiting"}) = {} /\ Live = In({"running"})
<1>1. \A q \in Procs : call[q].step # "stop_wait"
  BY Zenon DEF Calm
<1>2. In({"exiting"}) = {}
  BY <1>1, Zenon DEF Calm
<1> QED
  BY <1>2, Zenon DEF Live, In

LEMMA Returned ==
    ASSUME SubscriptionsType, Calm, NEW p \in Procs, call[p].step \in {"stop_check", "stop_wait"},
           Active = {}, Goto(p, Return(p)),
           UNCHANGED <<row, entry, sub, made, replicator, history>>
    PROVE  SubscriptionsType' /\ Calm'
<1>0. Reliable(call[p])
  BY Zenon DEF Calm
<1>1. In({"spawned", "running"}) = {} /\ In({"spawned"}) = {}
  BY Zenon DEF Active, In
<1>2. PICK c : c = At(p, Return(p))
  OBVIOUS
<1>3. /\ c \in Calls /\ c.step = Return(p) /\ Return(p) \in {"delete", "idle"}
      /\ c.step = "delete" => c.seen = call[p].seen
  BY <1>2, AtFields, Zenon DEF Return, Steps
<1>4. row # "enabled" /\ row = call[p].seen
  BY <1>0, Zenon DEF Reliable
<1>5. Reliable(c)
  BY <1>0, <1>1, <1>3, <1>4, Zenon DEF Reliable, Return
<1>6. c.step = "idle" => Agree
  BY <1>0, <1>1, <1>3, <1>4, Zenon DEF Reliable, Return, Agree, Stable, SubscriptionsType,
     RowStates
<1> QED
  BY <1>2, <1>3, <1>5, <1>6, CallOnly, Zenon DEF Goto

LEMMA StopCheckCalm ==
    ASSUME SubscriptionsType, Calm, NEW p \in Procs, StopCheck(p) PROVE SubscriptionsType' /\ Calm'
<1>0. /\ call[p].step = "stop_check" /\ Reliable(call[p]) /\ call[p].on = entry
      /\ entry \in Ids /\ In({"spawned"}) = {}
  BY Zenon DEF StopCheck, Calm, Reliable, SubscriptionsType
<1>1. running[entry] <=> Live # {}
  BY <1>0, Zenon DEF Calm, OneLoop
<1>2. In({"exiting"}) = {} /\ Live = In({"running"})
  BY <1>0, NoneExits, Zenon
<1>3. CASE running[entry]
  <2>1. PICK c : c = At(p, "stop_eval")
    OBVIOUS
  <2>2. c \in Calls /\ c.step = "stop_eval" /\ c.seen = call[p].seen /\ c.on = entry
    BY <1>0, <2>1, AtFields, Zenon DEF Steps
  <2>3. Reliable(c)
    BY <1>0, <1>1, <1>2, <1>3, <2>2, Zenon DEF Reliable
  <2>4. call' = [call EXCEPT ![p] = c]
    BY <1>0, <1>3, <2>1, Zenon DEF StopCheck, Goto
  <2> QED
    BY <1>0, <2>2, <2>3, <2>4, CallOnly, Zenon DEF StopCheck
<1>4. CASE ~running[entry]
  <2>1. Active = {}
    BY <1>0, <1>1, <1>4, Zenon DEF Active, Live, In
  <2>2. Goto(p, Return(p))
    BY <1>0, <1>4, Zenon DEF StopCheck
  <2> QED
    BY <1>0, <2>1, <2>2, Returned, Zenon DEF StopCheck
<1> QED
  BY <1>3, <1>4, Zenon

LEMMA StopEvalCalm ==
    ASSUME SubscriptionsType, Calm, NEW p \in Procs, StopEval(p) PROVE SubscriptionsType' /\ Calm'
<1>0. /\ call[p].step = "stop_eval" /\ Reliable(call[p]) /\ call[p].on = entry
      /\ entry \in Ids /\ In({"running"}) # {}
  BY Zenon DEF StopEval, Calm, Reliable, SubscriptionsType
<1>1. PICK t \in Threads : State(t) = "running"
  BY <1>0, Zenon DEF In, State
<1>2. stop[entry] = t
  BY <1>1, Zenon DEF Calm, OneLoop, Live, In, State
<1>3. PICK c : c = [call[p] EXCEPT !.step = "stop_send", !.ch = stop[call[p].on]]
  OBVIOUS
<1>4. /\ c \in Calls /\ c.step = "stop_send" /\ c.seen = call[p].seen /\ c.on = entry
      /\ c.ch = stop[entry]
  BY <1>0, <1>2, <1>3, Zenon DEF SubscriptionsType, Calls, Steps
<1>5. call' = [call EXCEPT ![p] = c]
  BY <1>3, Zenon DEF StopEval, SubscriptionsType, Calls
<1>6. Reliable(c)
  BY <1>0, <1>2, <1>4, Zenon DEF Reliable
<1> QED
  BY <1>0, <1>4, <1>5, <1>6, CallOnly, Zenon DEF StopEval

LEMMA StopWaitCalm ==
    ASSUME SubscriptionsType, Calm, NEW p \in Procs, StopWait(p) PROVE SubscriptionsType' /\ Calm'
<1>0. /\ call[p].step = "stop_wait" /\ Reliable(call[p]) /\ call[p].ch \in closed
      /\ call[p].ch = stop[entry] /\ In({"spawned"}) = {}
  BY Zenon DEF StopWait, Calm, Reliable
<1>1. State(stop[entry]) = "done"
  BY <1>0, Zenon DEF Calm, OneLoop
<1>2. Live = {}
  BY <1>1, Zenon DEF Calm, OneLoop, Live, In, State
<1>3. Active = {}
  BY <1>0, <1>2, Zenon DEF Active, Live, In
<1> QED
  BY <1>0, <1>3, Returned, Zenon DEF StopWait

LEMMA StopSendCalm ==
    ASSUME SubscriptionsType, Calm, NEW p \in Procs, StopSend(p) PROVE SubscriptionsType' /\ Calm'
<1>0. /\ call[p].step = "stop_send" /\ Reliable(call[p]) /\ call[p].on = entry
      /\ entry \in Ids /\ In({"running"}) # {} /\ In({"spawned"}) = {}
      /\ call[p].ch = stop[entry]
  BY Zenon DEF StopSend, Calm, Reliable, SubscriptionsType
<1>1. PICK t \in Threads : State(t) = "running"
  BY <1>0, Zenon DEF In, State
<1>2. stop[entry] = t /\ t \notin closed /\ \A u \in Active : u = t
  <2>1. t \in Active /\ t \in Live
    BY <1>1, Zenon DEF Live, Active, In, State
  <2>2. t \notin closed
    BY <1>1, Zenon DEF Calm, OneLoop
  <2> QED
    BY <2>1, <2>2, Zenon DEF Calm, OneLoop
<1>3. Waiters(call[p].ch) = {}
  BY <1>0, Zenon DEF Waiters, Calm
<1>4. Loops(call[p].ch) \subseteq {t}
  BY <1>2, Zenon DEF Loops, In, Active
<1>5. /\ thread' = [thread EXCEPT ![t].state = "exiting"]
      /\ call' = [call EXCEPT ![p] = Wait(p)]
      /\ UNCHANGED <<row, entry, sub, made, running, stop, closed, history>>
  BY <1>0, <1>2, <1>3, <1>4, Zenon DEF StopSend
<1>6. PICK c : c = Wait(p)
  OBVIOUS
<1>7. /\ c \in Calls /\ c.step = "stop_wait" /\ c.seen = call[p].seen /\ c.on = entry
      /\ c.ch = t
  BY <1>0, <1>2, <1>6, Zenon DEF Wait, SubscriptionsType, Calls, Steps
<1>8. /\ thread' \in [Threads -> [state : States, of : Ids \union {Nil}]]
      /\ State(t)' = "exiting" /\ \A u \in Threads : u # t => thread'[u] = thread[u]
      /\ thread'[t].of = thread[t].of
  BY <1>5, Zenon DEF SubscriptionsType, State, States
<1>9. Active' = {t} /\ Live' = {t} /\ In({"running"})' = {} /\ In({"spawned"})' = {}
  BY <1>2, <1>8 DEF Active, Live, In, State
<1>10. t \in Active /\ t \in Live
  BY <1>1 DEF Active, Live, In, State
<1>11. OneLoop'
  BY <1>1, <1>2, <1>5, <1>8, <1>9, <1>10, Zenon DEF Calm, OneLoop, State
<1>12. Reliable(c)'
  BY <1>0, <1>2, <1>5, <1>7, <1>8, <1>9, Zenon DEF Reliable
<1>13. Calm' /\ call' \in [Procs -> Calls]
  BY <1>0, <1>5, <1>6, <1>7, <1>11, <1>12, CallMoves, Zenon DEF Calm, history
<1> QED
  BY <1>5, <1>8, <1>13, Zenon DEF SubscriptionsType

LEMMA DeleteCalm ==
    ASSUME SubscriptionsType, Calm, NEW p \in Procs, Delete(p) PROVE SubscriptionsType' /\ Calm'
<1>0. call[p].step = "delete" /\ Reliable(call[p]) /\ Active = {} /\ row = "none"
  BY Zenon DEF Delete, Calm, Reliable
<1>1. PICK c : c = At(p, "idle")
  OBVIOUS
<1>2. c \in Calls /\ c.step = "idle"
  BY <1>1, AtFields, Zenon DEF Steps
<1>3. call' = [call EXCEPT ![p] = c] /\ entry' = Nil /\ UNCHANGED <<row, sub, made, replicator, history>>
  BY <1>1, Zenon DEF Delete, Goto
<1>4. Active' = {} /\ Live' = {} /\ Live = {} /\ In({"exiting"})' = {}
  BY <1>0, <1>3, Zenon DEF Active, Live, In, replicator
<1>5. OneLoop'
  BY <1>3, <1>4, Facts, Zenon DEF Calm, OneLoop, replicator, State
<1>6. Reliable(c)' /\ Agree'
  BY <1>0, <1>2, <1>3, Zenon DEF Reliable, Agree, Stable
<1>7. Calm' /\ call' \in [Procs -> Calls]
  BY <1>0, <1>2, <1>3, <1>4, <1>5, <1>6, CallMoves, Zenon DEF Calm, history
<1> QED
  BY <1>3, <1>7, Zenon DEF SubscriptionsType, replicator

LEMMA StoreCalm ==
    ASSUME SubscriptionsType, Calm, NEW p \in Procs, Store(p) PROVE SubscriptionsType' /\ Calm'
<1>0. /\ call[p].step = "apply" /\ Reliable(call[p]) /\ call[p].seen = row /\ row # "none"
      /\ entry = Nil
  BY Zenon DEF Store, Calm, Reliable
<1>1. PICK i \in Ids :
         /\ entry' = i /\ made' = made \union {i}
         /\ sub' = [sub EXCEPT ![i] = [Enabled |-> call[p].seen = "enabled", Replicator |-> Nil]]
         /\ GotoOn(p, "create", i)
  BY Zenon DEF Store
<1>2. UNCHANGED <<row, replicator, history>>
  BY Zenon DEF Store
<1>3. PICK c : c = [At(p, "create") EXCEPT !.on = i]
  BY Zenon
<1>4. c \in Calls /\ c.step = "create" /\ c.seen = row /\ c.on = i
  BY <1>0, <1>3, OnFields DEF Steps
<1>5. /\ sub' \in [Ids -> [Enabled : BOOLEAN, Replicator : Ids \union {Nil}]]
      /\ sub'[i].Enabled = (row = "enabled")
  BY <1>0, <1>1, Zenon DEF SubscriptionsType
<1>6. Active = {} /\ Live = {}
  BY <1>0, Zenon DEF Calm, OneLoop, Active, Live, In
<1>7. Active' = {} /\ Live' = {} /\ In({"exiting"})' = {} /\ In({"spawned"})' = {}
  BY <1>2, <1>6, Zenon DEF Active, Live, In, replicator
<1>8. OneLoop'
  BY <1>2, <1>6, <1>7, Zenon DEF Calm, OneLoop, replicator, State
<1>9. Reliable(c)'
  BY <1>0, <1>1, <1>2, <1>4, <1>5, <1>7, Facts, Zenon DEF Reliable
<1>10. call' = [call EXCEPT ![p] = c]
  BY <1>1, <1>3, Zenon DEF GotoOn
<1>11. Calm' /\ call' \in [Procs -> Calls]
  BY <1>0, <1>2, <1>4, <1>7, <1>8, <1>9, <1>10, CallMoves, Zenon DEF Calm, history
<1> QED
  BY <1>1, <1>2, <1>5, <1>11, Zenon DEF SubscriptionsType, replicator

LEMMA CreateCalm ==
    ASSUME SubscriptionsType, Calm, NEW p \in Procs, Create(p) PROVE SubscriptionsType' /\ Calm'
<1>0. /\ call[p].step = "create" /\ Reliable(call[p]) /\ call[p].on = entry
      /\ entry \in Ids /\ entry # Nil /\ Active = {}
  BY Zenon DEF Create, Calm, Reliable, SubscriptionsType
<1>1. /\ sub' = [sub EXCEPT ![entry].Replicator = entry]
      /\ UNCHANGED <<row, entry, made, replicator, history>>
  BY <1>0, Zenon DEF Create
<1>2. /\ sub' \in [Ids -> [Enabled : BOOLEAN, Replicator : Ids \union {Nil}]]
      /\ sub'[entry].Enabled = sub[entry].Enabled /\ sub'[entry].Replicator = entry
  BY <1>0, <1>1 DEF SubscriptionsType
<1>3. PICK c : c = At(p, "slot")
  OBVIOUS
<1>4. c \in Calls /\ c.step = "slot" /\ c.seen = call[p].seen /\ c.on = entry
  BY <1>0, <1>3, AtFields, Zenon DEF Steps
<1>5. Active' = {} /\ In({"exiting"})' = {} /\ In({"spawned"})' = {} /\ Live' = Live
  BY <1>0, <1>1, Zenon DEF Active, Live, In, replicator
<1>6. OneLoop'
  BY <1>1, <1>5, Zenon DEF Calm, OneLoop, replicator, State
<1>7. Reliable(c)'
  BY <1>0, <1>1, <1>2, <1>4, <1>5, Zenon DEF Reliable
<1>8. call' = [call EXCEPT ![p] = c]
  BY <1>3, Zenon DEF Create, Goto
<1>9. Calm' /\ call' \in [Procs -> Calls]
  BY <1>0, <1>1, <1>4, <1>5, <1>6, <1>7, <1>8, CallMoves, Zenon DEF Calm, history
<1> QED
  BY <1>1, <1>2, <1>9, Zenon DEF SubscriptionsType, replicator

\* The goroutine that is spawned is the only one.
LEMMA Spawned ==
    ASSUME SubscriptionsType, Calm, Active = {}, entry \in Ids, Spawn(entry),
           UNCHANGED <<entry, running, stop, closed>>
    PROVE  /\ OneLoop'
           /\ In({"spawned", "running"})' # {} /\ In({"exiting"})' = {}
           /\ thread' \in [Threads -> [state : States, of : Ids \union {Nil}]]
<1>1. PICK t \in Threads :
         /\ State(t) = "unused"
         /\ thread' = [thread EXCEPT ![t] = [state |-> "spawned", of |-> entry]]
  BY Zenon DEF Spawn, In, State
<1>2. /\ thread' \in [Threads -> [state : States, of : Ids \union {Nil}]]
      /\ State(t)' = "spawned" /\ thread'[t].of = entry
      /\ \A u \in Threads : u # t => thread'[u] = thread[u]
  BY <1>1, Zenon DEF SubscriptionsType, State, States
<1>3. Active' = {t} /\ t \in In({"spawned", "running"})' /\ Live' = {} /\ In({"exiting"})' = {}
  BY <1>2, Zenon DEF Active, Live, In, State
<1>4. Live = {} /\ t \notin closed
  BY <1>1, Zenon DEF Active, Live, In, Calm, OneLoop
<1>5. OneLoop'
  BY <1>2, <1>3, <1>4, Facts, Zenon DEF Calm, OneLoop, State
<1> QED
  BY <1>2, <1>3, <1>5, Zenon

LEMMA SlotCalm ==
    ASSUME SubscriptionsType, Calm, NEW p \in Procs, Slot(p), calm' PROVE SubscriptionsType' /\ Calm'
<1>0. /\ call[p].step = "slot" /\ Reliable(call[p]) /\ call[p].on = entry
      /\ entry \in Ids /\ entry # Nil /\ Active = {} /\ call[p].seen = row /\ row # "none"
      /\ sub[entry].Enabled = (row = "enabled") /\ sub[entry].Replicator = entry
  BY Zenon DEF Slot, Calm, Reliable, SubscriptionsType
<1>1. PICK c : c = At(p, "idle")
  OBVIOUS
<1>2. c \in Calls /\ c.step = "idle"
  BY <1>1, AtFields, Zenon DEF Steps
<1>3. /\ call' = [call EXCEPT ![p] = c]
      /\ UNCHANGED <<row, entry, sub, made, running, stop, closed, history>>
  BY <1>1, Zenon DEF Slot, Goto, history
<1>4. CASE row = "enabled"
  <2>1. Spawn(entry)
    BY <1>0, <1>4, Zenon DEF Slot
  <2>2. /\ OneLoop'
        /\ In({"spawned", "running"})' # {} /\ In({"exiting"})' = {}
        /\ thread' \in [Threads -> [state : States, of : Ids \union {Nil}]]
    BY <1>0, <1>3, <2>1, Spawned, Zenon
  <2>3. Reliable(c)' /\ Agree'
    BY <1>0, <1>2, <1>3, <1>4, <2>2, Zenon DEF Reliable, Agree, Stable
  <2>4. Calm' /\ call' \in [Procs -> Calls]
    BY <1>0, <1>2, <1>3, <2>2, <2>3, CallMoves, Zenon DEF Calm, history
  <2> QED
    BY <1>3, <2>2, <2>4, Zenon DEF SubscriptionsType
<1>5. CASE row # "enabled"
  <2>1. UNCHANGED thread
    BY <1>0, <1>5, Zenon DEF Slot
  <2>2. In({"spawned", "running"}) = {}
    BY <1>0, Zenon DEF Active, In
  <2>3. Reliable(c) /\ Agree
    BY <1>0, <1>2, <1>5, <2>2, Zenon DEF Reliable, Agree, Stable
  <2> QED
    BY <1>0, <1>2, <1>3, <2>1, <2>3, CallOnly, Zenon DEF replicator
<1> QED
  BY <1>4, <1>5, Zenon

LEMMA FlipCalm ==
    ASSUME SubscriptionsType, Calm, NEW p \in Procs, Flip(p) PROVE SubscriptionsType' /\ Calm'
<1>0. /\ call[p].step = "flip" /\ Reliable(call[p]) /\ call[p].on = entry
      /\ entry \in Ids /\ entry # Nil /\ call[p].seen = row /\ row # "none"
      /\ Stable /\ sub[entry].Enabled # (row = "enabled") /\ sub[entry].Replicator = entry
      /\ In({"spawned"}) = {}
  BY Zenon DEF Flip, Calm, Reliable, SubscriptionsType, Stable
<1>1. In({"exiting"}) = {}
  BY <1>0, NoneExits, Zenon
<1>2. /\ sub' = [sub EXCEPT ![entry].Enabled = (row = "enabled")]
      /\ UNCHANGED <<row, entry, made, running, stop, closed>>
  BY <1>0, Zenon DEF Flip
<1>3. /\ sub' \in [Ids -> [Enabled : BOOLEAN, Replicator : Ids \union {Nil}]]
      /\ sub'[entry].Enabled = (row = "enabled") /\ sub'[entry].Replicator = entry
  BY <1>0, <1>2, Zenon DEF SubscriptionsType
<1>4. CASE row = "enabled"
  <2>1. Spawn(entry) /\ Goto(p, "idle") /\ UNCHANGED history
    BY <1>0, <1>4, Zenon DEF Flip
  <2>2. Active = {}
    BY <1>0, <1>1, <1>4, Zenon DEF Stable, Active, In, SubscriptionsType
  <2>3. /\ OneLoop'
        /\ In({"spawned", "running"})' # {} /\ In({"exiting"})' = {}
        /\ thread' \in [Threads -> [state : States, of : Ids \union {Nil}]]
    BY <1>0, <1>2, <2>1, <2>2, Spawned, Zenon
  <2>4. PICK c : c = At(p, "idle")
    OBVIOUS
  <2>5. c \in Calls /\ c.step = "idle" /\ call' = [call EXCEPT ![p] = c]
    BY <2>1, <2>4, AtFields, Zenon DEF Steps, Goto
  <2>6. Reliable(c)' /\ Agree'
    BY <1>0, <1>2, <1>3, <1>4, <2>3, <2>5, Zenon DEF Reliable, Agree, Stable
  <2>7. Calm' /\ call' \in [Procs -> Calls]
    BY <1>0, <2>1, <2>3, <2>5, <2>6, CallMoves, Zenon DEF Calm, history
  <2> QED
    BY <1>2, <1>3, <2>3, <2>7, Zenon DEF SubscriptionsType
<1>5. CASE row = "disabled"
  <2>1. GotoOn(p, "stop_check", entry) /\ UNCHANGED <<thread, history>>
    BY <1>0, <1>5, Zenon DEF Flip
  <2>2. PICK c : c = [At(p, "stop_check") EXCEPT !.on = entry]
    BY Zenon
  <2>3. /\ c \in Calls /\ c.step = "stop_check" /\ c.seen = row /\ c.on = entry
        /\ call' = [call EXCEPT ![p] = c]
    BY <1>0, <2>1, <2>2, OnFields DEF Steps, GotoOn
  <2>4. \A S : In(S)' = In(S)
    BY <2>1, Zenon DEF In
  <2>5. OneLoop'
    BY <1>2, <2>1, <2>4, Zenon DEF Calm, OneLoop, Active, Live, State
  <2>6. Reliable(c)'
    BY <1>0, <1>2, <1>3, <1>5, <2>3, <2>4, Zenon DEF Reliable
  <2>7. Calm' /\ call' \in [Procs -> Calls]
    BY <1>0, <1>1, <2>1, <2>3, <2>4, <2>5, <2>6, CallMoves, Zenon DEF Calm, history
  <2> QED
    BY <1>2, <1>3, <2>1, <2>7, Zenon DEF SubscriptionsType
<1> QED
  BY <1>0, <1>4, <1>5, Zenon DEF SubscriptionsType, RowStates

LEMMA StartReplicationCalm ==
    ASSUME SubscriptionsType, Calm, NEW t \in Threads, StartReplicator(t) PROVE SubscriptionsType' /\ Calm'
<1>1. State(t) = "spawned" /\ t \in Active /\ In({"spawned"}) # {}
  BY Zenon DEF StartReplicator, State, Active, In
<1>2. entry \in Ids /\ entry # Nil /\ thread[t].of = entry /\ \A u \in Active : u = t
  BY <1>1, Zenon DEF Calm, OneLoop, SubscriptionsType
<1>3. /\ thread' = [thread EXCEPT ![t].state = "running"]
      /\ running' = [running EXCEPT ![entry] = TRUE]
      /\ stop' = [stop EXCEPT ![entry] = t]
      /\ UNCHANGED <<row, entry, sub, made, call, closed, history>>
  BY <1>2, Zenon DEF StartReplicator
<1>4. \A p \in Procs : call[p].step = "idle"
  BY <1>1, Zenon DEF Calm, Reliable
<1>5. /\ thread' \in [Threads -> [state : States, of : Ids \union {Nil}]]
      /\ State(t)' = "running" /\ thread'[t].of = entry
      /\ \A u \in Threads : u # t => thread'[u] = thread[u]
  BY <1>2, <1>3, Zenon DEF SubscriptionsType, State, States
<1>6. Active' = {t} /\ Live' = {t} /\ t \in In({"spawned", "running"})' /\ In({"exiting"})' = {}
  BY <1>2, <1>5, Zenon DEF Active, Live, In, State
<1>7. Live = {} /\ t \notin closed
  BY <1>1, <1>2, Zenon DEF Active, Live, In, Calm, OneLoop, State
<1>8. OneLoop'
  BY <1>2, <1>3, <1>5, <1>6, <1>7 DEF Calm, OneLoop, State, SubscriptionsType
<1>9. Agree /\ In({"spawned", "running"}) # {}
  BY <1>1, <1>4, Zenon DEF Calm, Idle, In
<1>10. Agree'
  BY <1>3, <1>6, <1>9, Zenon DEF Agree, Stable
<1>11. \A p \in Procs : Reliable(call[p])'
  BY <1>3, <1>4, Zenon DEF Reliable
<1>12. Calm'
  BY <1>3, <1>4, <1>6, <1>8, <1>10, <1>11, Zenon DEF Calm, history
<1> QED
  BY <1>2, <1>3, <1>5, <1>12, Zenon DEF SubscriptionsType

LEMMA ShutdownCalm ==
    ASSUME SubscriptionsType, Calm, NEW t \in Threads, shutdownReplicator(t) PROVE SubscriptionsType' /\ Calm'
<1>1. State(t) = "exiting" /\ t \in Active /\ t \in Live /\ In({"exiting"}) # {}
  BY Zenon DEF shutdownReplicator, State, Active, Live, In
<1>2. /\ entry \in Ids /\ entry # Nil /\ thread[t].of = entry /\ \A u \in Active : u = t
      /\ stop[entry] = t /\ t \notin closed
  BY <1>1, Zenon DEF Calm, OneLoop, SubscriptionsType
<1>3. /\ thread' = [thread EXCEPT ![t].state = "done"]
      /\ running' = [running EXCEPT ![entry] = FALSE]
      /\ closed' = closed \union {t}
      /\ UNCHANGED <<row, entry, sub, made, call, stop, history>>
  BY <1>2, Zenon DEF shutdownReplicator
<1>4. PICK p \in Procs : call[p].step = "stop_wait"
  BY <1>1, Zenon DEF Calm
<1>5. \A q \in Procs : q # p => call[q].step = "idle"
  BY <1>4, Zenon DEF Calm
<1>6. /\ thread' \in [Threads -> [state : States, of : Ids \union {Nil}]]
      /\ State(t)' = "done" /\ \A u \in Threads : u # t => thread'[u] = thread[u]
  BY <1>3, Zenon DEF SubscriptionsType, State, States
<1>7. /\ Active' = {} /\ Live' = {} /\ In({"running"})' = {} /\ In({"exiting"})' = {}
      /\ In({"spawned"})' = {}
  BY <1>2, <1>6, Zenon DEF Active, Live, In, State
<1>8. OneLoop'
  BY <1>1, <1>2, <1>3, <1>6, <1>7 DEF Calm, OneLoop, State, SubscriptionsType
<1>9. Reliable(call[p])'
  <2>1. Reliable(call[p])
    BY Zenon DEF Calm
  <2> QED
    BY <1>2, <1>3, <1>4, <1>7, <2>1, Zenon DEF Reliable
<1>10. \A q \in Procs : Reliable(call[q])'
  <2> SUFFICES ASSUME NEW q \in Procs, q # p PROVE Reliable(call[q])'
    BY <1>9, Zenon
  <2>1. call'[q].step = "idle"
    BY <1>3, <1>5, Zenon
  <2> QED
    BY <2>1, Zenon DEF Reliable
<1>11. ~Idle'
  BY <1>3, <1>4, Zenon DEF Idle
<1>12. Calm'
  BY <1>3, <1>5, <1>7, <1>8, <1>10, <1>11, Zenon DEF Calm, history
<1> QED
  BY <1>2, <1>3, <1>6, <1>12, Zenon DEF SubscriptionsType

\* As long as nothing fails, a loop is left only for a Stop.
LEMMA ReplicateCalm ==
    ASSUME SubscriptionsType, Calm, NEW t \in Threads, Replicate(t), calm' PROVE SubscriptionsType' /\ Calm'
<1>1. ~StartFails(t)
  BY Zenon DEF StartFails
<1>2. ~LeaveLoop(t)
  <2> SUFFICES ASSUME LeaveLoop(t) PROVE FALSE
    OBVIOUS
  <2>1. State(t) = "running" /\ stop[thread[t].of] \in closed
    BY Zenon DEF LeaveLoop, State
  <2>2. t \in Active /\ t \in Live
    BY <2>1, Zenon DEF Active, Live, In, State
  <2>3. stop[thread[t].of] = t
    BY <2>2, Zenon DEF Calm, OneLoop
  <2> QED
    BY <2>1, <2>3, Zenon DEF Calm, OneLoop
<1> QED
  BY <1>1, <1>2, StartReplicationCalm, ShutdownCalm, Zenon DEF Replicate

LEMMA CommandCalm ==
    ASSUME SubscriptionsType, Calm, NEW s \in Sessions, Command(s), calm' PROVE SubscriptionsType' /\ Calm'
<1>0. s \in Procs
  BY Zenon DEF Procs
<1>1. /\ ThreadsSettled /\ \A p \in Procs : call[p].step = "idle"
      /\ call' = [call EXCEPT ![s] = At(s, "read")] /\ row' \in RowStates
      /\ UNCHANGED <<entry, sub, made, replicator, panicked>>
  BY Zenon DEF Command, Idle, Goto, RowStates
<1>2. PICK c : c = At(s, "read")
  OBVIOUS
<1>3. c \in Calls /\ c.step = "read"
  BY <1>0, <1>2, AtFields, Zenon DEF Steps
<1>4. /\ call' \in [Procs -> Calls] /\ call'[s] = c
      /\ \A q \in Procs : q # s => call'[q].step = "idle"
  BY <1>0, <1>1, <1>2, <1>3, Zenon DEF SubscriptionsType
<1>5. Stable /\ In({"spawned"}) = {} /\ In({"exiting"}) = {}
  BY <1>1, Zenon DEF Calm, Agree, Idle, ThreadsSettled, In
<1>6. \A S : In(S)' = In(S)
  BY <1>1, Zenon DEF In, replicator
<1>7. OneLoop'
  BY <1>1, <1>6, Zenon DEF Calm, OneLoop, replicator, State, Active, Live
<1>8. Stable'
  BY <1>1, <1>5, <1>6, Zenon DEF Stable
<1>9. \A q \in Procs : Reliable(call[q])'
  <2> SUFFICES ASSUME NEW q \in Procs PROVE Reliable(call[q])'
    OBVIOUS
  <2>1. call'[q].step = "idle" \/ call'[q].step = "read"
    BY <1>3, <1>4, Zenon
  <2> QED
    BY <1>5, <1>6, <1>8, <2>1, Zenon DEF Reliable
<1>10. ~Idle'
  BY <1>0, <1>3, <1>4, Zenon DEF Idle
<1>11. Calm'
  BY <1>1, <1>4, <1>5, <1>6, <1>7, <1>9, <1>10, Zenon DEF Calm
<1> QED
  BY <1>1, <1>4, <1>11, Zenon DEF SubscriptionsType, replicator

\* A server that comes up runs UpdateSubscriptions and nothing else.
ComesUp ==
    /\ row \in RowStates /\ ~panicked
    /\ entry = Nil /\ sub = [i \in Ids |-> NoSub] /\ made = {}
    /\ call = BootOnly
    /\ thread = [t \in Threads |-> NoThread] /\ closed = {}
    /\ running = [i \in Ids |-> FALSE] /\ stop = [i \in Ids |-> Nil]

LEMMA Fresh == ComesUp => SubscriptionsType /\ Calm
<1> SUFFICES ASSUME ComesUp PROVE SubscriptionsType /\ Calm
  OBVIOUS
<1> USE DEF ComesUp
<1>1. call \in [Procs -> Calls] /\ \A p \in Procs : p # Boot => call[p].step = "idle"
  BY Facts, Zenon DEF BootOnly, NoCall, Calls, Steps
<1>2. Boot \in Procs /\ call[Boot].step = "read"
  BY Zenon DEF BootOnly, NoCall, Procs
<1>3. \A t \in Threads : thread[t].state = "unused"
  BY Zenon DEF NoThread
<1>4. Active = {} /\ Live = {} /\ In({"spawned"}) = {} /\ In({"exiting"}) = {}
  BY <1>3, Zenon DEF Active, Live, In
<1>5. SubscriptionsType
  BY <1>1, Zenon DEF SubscriptionsType, NoSub, NoThread, States
<1>6. OneLoop
  BY <1>4, Facts, Zenon DEF OneLoop
<1>7. \A q \in Procs : Reliable(call[q])
  BY <1>1, <1>2, <1>4, Zenon DEF Reliable, Stable
<1> QED
  BY <1>1, <1>2, <1>4, <1>5, <1>6, <1>7, Zenon DEF Calm, Idle

LEMMA RestartCalm ==
    ASSUME row \in RowStates, Restart PROVE SubscriptionsType' /\ Calm'
<1>1. ComesUp'
  BY Zenon DEF Restart, Blank, ComesUp, BootOnly
<1> QED
  BY <1>1, Fresh, PTL

LEMMA NextInv == SubscriptionInv /\ [SubscriptionsNext]_subscriptionVars => SubscriptionInv'
<1> SUFFICES ASSUME SubscriptionInv, [SubscriptionsNext]_subscriptionVars PROVE SubscriptionInv'
  OBVIOUS
<1> USE DEF SubscriptionInv
<1>1. CASE Restart
  BY <1>1, RestartCalm, Zenon DEF Restart
<1>2. CASE UNCHANGED subscriptionVars
  <2>1. UNCHANGED <<row, entry, sub, made, call, replicator, history, calm, panicked>>
    BY <1>2, Zenon DEF subscriptionVars, history
  <2>2. calm => SubscriptionsType'
    BY <2>1, Zenon DEF SubscriptionsType, replicator
  <2>3. calm => Calm'
    <3>1. \A p \in Procs : Reliable(call[p]) => Reliable(call[p])'
      BY <2>1, SameShared, Zenon
    <3>2. Idle' = Idle
      BY <2>1, Zenon DEF Idle
    <3> QED
      BY <2>1, <3>1, <3>2, SameShared, Zenon DEF Calm
  <2> QED
    BY <2>1, <2>2, <2>3, Zenon
<1>3. ASSUME NEW s \in Sessions, Command(s) PROVE SubscriptionInv'
  <2>1. row' \in RowStates /\ calm' \in BOOLEAN /\ (calm' => calm)
    BY <1>3, Zenon DEF Command, RowStates
  <2> QED
    BY <1>3, <2>1, CommandCalm, Zenon
<1>4. ASSUME NEW p \in Procs, UpdateSubscriptions(p) \/ Stop(p) PROVE SubscriptionInv'
  <2>1. row' = row /\ (calm' = calm \/ calm' = FALSE)
    <3>1. CASE ReadRows(p) \/ Store(p) \/ Found(p) \/ Compare(p) \/ Create(p) \/ Delete(p)
      BY <3>1, Zenon DEF ReadRows, Store, Found, Compare, Create, Delete, history
    <3>2. CASE Remove(p) \/ Slot(p) \/ Flip(p)
      BY <3>2, Zenon DEF Remove, Slot, Flip, Panic, history
    <3>3. CASE Stop(p)
      BY <3>3, Zenon DEF Stop, StopCheck, StopEval, StopSend, StopWait, Panic, history
    <3> QED
      BY <1>4, <3>1, <3>2, <3>3, Zenon DEF UpdateSubscriptions
  <2>2. row' \in RowStates /\ calm' \in BOOLEAN /\ (calm' => calm)
    <3>1. CASE calm' = calm
      BY <2>1, <3>1, Zenon
    <3>2. CASE calm' = FALSE
      BY <2>1, <3>2, Zenon
    <3> QED
      BY <2>1, <3>1, <3>2, Zenon
  <2>3. ASSUME calm' PROVE SubscriptionsType' /\ Calm'
    BY <1>4, <2>2, <2>3, ReadRowsCalm, StoreCalm, FoundCalm, CompareCalm, RemoveCalm,
       CreateCalm, SlotCalm, FlipCalm, DeleteCalm, StopCheckCalm, StopEvalCalm, StopSendCalm,
       StopWaitCalm, Zenon DEF UpdateSubscriptions, Stop
  <2> QED
    BY <2>2, <2>3, Zenon
<1>5. ASSUME NEW t \in Threads, Replicate(t) PROVE SubscriptionInv'
  <2>1. row' = row /\ (calm' = calm \/ calm' = FALSE)
    BY <1>5, Zenon DEF Replicate, StartReplicator, StartFails, LeaveLoop, shutdownReplicator,
       Die, history
  <2>2. row' \in RowStates /\ calm' \in BOOLEAN /\ (calm' => calm)
    <3>1. CASE calm' = calm
      BY <2>1, <3>1
    <3>2. CASE calm' = FALSE
      BY <2>1, <3>2, Zenon
    <3> QED
      BY <2>1, <3>1, <3>2, Zenon
  <2> QED
    BY <1>5, <2>2, ReplicateCalm, Zenon
<1> QED
  BY <1>1, <1>2, <1>3, <1>4, <1>5, Zenon DEF SubscriptionsNext

LEMMA InitInv == SubscriptionsInit => SubscriptionInv
  BY Fresh, Zenon DEF SubscriptionsInit, ComesUp, SubscriptionInv

\* As long as users let each command take effect and nothing fails, a subscription is
\* replicated exactly when its row is enabled, over any number of commands of any
\* number of sessions and over restarts: UpdateSubscriptions never loses track.
THEOREM ReplicatorsFollowCatalog == SubscriptionsSpec => []Agreement
<1>1. SubscriptionInv => Agreement
  <2> SUFFICES ASSUME SubscriptionInv, calm, Idle, ThreadsSettled
               PROVE  Live # {} <=> row = "enabled"
    BY Zenon DEF Agreement
  <2>1. Agree /\ Calm /\ SubscriptionsType
    BY Zenon DEF SubscriptionInv, Calm
  <2>2. Live = In({"spawned", "running"})
    BY Zenon DEF ThreadsSettled, Live, In
  <2>3. CASE entry = Nil
    <3>1. Live = {}
      BY <2>1, <2>3, Zenon DEF Calm, OneLoop, Active, Live, In
    <3> QED
      BY <2>1, <2>3, <3>1, Zenon DEF Agree
  <2>4. CASE entry # Nil
    BY <2>1, <2>2, <2>4, Zenon DEF Agree, Stable
  <2> QED
    BY <2>3, <2>4, Zenon
<1> QED
  BY <1>1, InitInv, NextInv, PTL DEF SubscriptionsSpec

\* As long as users let each command take effect and nothing fails, no two goroutines
\* run StartReplication's loop at the same time, although UpdateSubscriptions holds no
\* lock and Stop reads the channel outside its mutex.
THEOREM AtMostOneLoop == SubscriptionsSpec => []OneReplication
<1>1. SubscriptionInv => OneReplication
  <2>1. Live \subseteq Active
    BY Zenon DEF Live, Active, In
  <2> QED
    BY <2>1, Zenon DEF SubscriptionInv, Calm, OneLoop, OneReplication
<1> QED
  BY <1>1, InitInv, NextInv, PTL DEF SubscriptionsSpec

\* As long as users let each command take effect and nothing fails, nothing panics: no
\* stop channel is used after its close, and no replicator before it is in its struct.
THEOREM NothingPanics == SubscriptionsSpec => []NoPanic
<1>1. SubscriptionInv => NoPanic
  BY Zenon DEF SubscriptionInv, Calm, NoPanic
<1> QED
  BY <1>1, InitInv, NextInv, PTL DEF SubscriptionsSpec

====
