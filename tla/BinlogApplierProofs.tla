------------------------- MODULE BinlogApplierProofs -------------------------
(***************************************************************************)
(* With MariaDB's GTIDs, for every log without schema changes and however  *)
(* often the replica is interrupted, the applier keeps its promise: the    *)
(* tables and the stored position move together, by whole transactions, in *)
(* order, and every change is applied once.  The conditions of Covered are *)
(* the ones outside of which TLC finds counterexamples.                    *)
(*                                                                         *)
(* The heart of the invariant is Accounted: what lies in the delta buffer  *)
(* and in the open DuckDB transaction is exactly what the pending position *)
(* has and the stored one lacks, plus the part of the current transaction  *)
(* that has been received.                                                 *)
(***************************************************************************)
EXTENDS BinlogApplier, TLAPS

-----------------------------------------------------------------------------
(* Lemmas about the operators of the model. *)

LEMMA OpFacts ==
    /\ \A o \in AllOps : /\ TxnOf(o) \in Txns
                         /\ o[2] \in 1..Len(Log[TxnOf(o)])
    /\ \A g \in Txns : \A o \in Ops(g) : o \in AllOps /\ TxnOf(o) = g
<1>1. \A g \in Txns : \A o \in Ops(g) : /\ o \in AllOps
                                        /\ TxnOf(o) = g
                                        /\ o[2] \in 1..Len(Log[g])
  BY DEF Ops, AllOps, TxnOf
<1>2. \A o \in AllOps : \E g \in Txns : o \in Ops(g)
  BY Zenon DEF AllOps
<1> QED
  BY <1>1, <1>2, Zenon

\* The event being received is one of the operations, unless it is skipped.
LEMMA OpIsOp ==
    ASSUME currentGtid \in Txns, idx \in Nat, idx < Len(Log[currentGtid]),
           Log[currentGtid][idx + 1].kind # "skip"
    PROVE  Op \in AllOps
<1>1. Log[currentGtid] \in Seq([kind : Kinds, table : STRING])
  BY LogAssumption DEF Txns
<1>2. idx + 1 \in 1..Len(Log[currentGtid])
  BY <1>1
<1>3. Op \in Ops(currentGtid)
  BY <1>2, Zenon DEF Op, Ops
<1> QED
  BY <1>3, Zenon DEF AllOps

LEMMA PlusOnce ==
    ASSUME NEW f \in [AllOps -> Nat], NEW S
    PROVE  /\ Plus(f, Once(S)) \in [AllOps -> Nat]
           /\ \A o \in AllOps : Plus(f, Once(S))[o] = f[o] + (IF o \in S THEN 1 ELSE 0)
  BY DEF Plus, Once

LEMMA PlusType ==
    ASSUME NEW f \in [AllOps -> Nat], NEW h \in [AllOps -> Nat]
    PROVE  /\ Plus(f, h) \in [AllOps -> Nat]
           /\ \A o \in AllOps : Plus(f, h)[o] = f[o] + h[o]
  BY DEF Plus

LEMMA ZeroType == Zero \in [AllOps -> Nat] /\ \A o \in AllOps : Zero[o] = 0
  BY Zenon DEF Zero

LEMMA AppendType ==
    ASSUME NEW pos \in SUBSET Txns, NEW g \in Txns \union {0}
    PROVE  AppendGTID(pos, g) \in SUBSET Txns
<1>1. Len(Log) \in Nat
  BY LogAssumption
<1> QED
  BY <1>1 DEF AppendGTID, Txns

-----------------------------------------------------------------------------
(* Type correctness, for all logs, flavors and faults. *)

TypeInv ==
    /\ TypeOK
    /\ phase # "between" => currentGtid # 0
    /\ state \in {"execute", "commit"} => phase = "gtid"

LEMMA InitTypeInv == Init => TypeInv
<1> SUFFICES ASSUME Init PROVE TypeInv
  OBVIOUS
<1>1. /\ ongoingBatchTxn \in BOOLEAN /\ dirtyTxn \in BOOLEAN
      /\ dirtyStream \in BOOLEAN /\ elapsed \in BOOLEAN /\ txOpen \in BOOLEAN
  BY Zenon DEF Init
<1>2. txRows \in [AllOps -> Nat] /\ durable \in [AllOps -> Nat]
  BY ZeroType, Zenon DEF Init
<1>3. faults \in [Faults -> Nat]
  BY BoundAssumption, Zenon DEF Init
<1>4. /\ state \in {"stopped", "connecting", "streaming", "execute", "commit"}
      /\ phase \in {"between", "gtid", "body"} /\ idx \in Nat
      /\ state \notin {"execute", "commit"}
  BY SMT DEF Init
<1>5. /\ stream \in SUBSET Txns /\ delta \in SUBSET AllOps
      /\ pendingPosition \in SUBSET Txns /\ currentPosition \in SUBSET Txns
      /\ saved \in SUBSET Txns
      /\ currentGtid \in Txns \union {0} /\ previousGtid \in Txns \union {0}
      /\ phase = "between" /\ dropped \in SUBSET AllOps
  BY Zenon DEF Init
<1> QED
  BY <1>1, <1>2, <1>3, <1>4, <1>5, Zenon DEF TypeInv, TypeOK

LEMMA FaultType ==
    ASSUME TypeOK, NEW f \in Faults, Fault(f)
    PROVE  faults' \in [Faults -> Nat]
  BY DEF Fault, TypeOK

\* What the commit writes has the right types.
LEMMA CommitType ==
    ASSUME TypeOK, NEW pos \in SUBSET Txns, commitOngoingTxn(pos)
    PROVE  /\ saved' \in SUBSET Txns
           /\ durable' \in [AllOps -> Nat]
           /\ pendingPosition' \in SUBSET Txns
           /\ currentPosition' \in SUBSET Txns
           /\ delta' \in SUBSET AllOps
           /\ txOpen' \in BOOLEAN
           /\ txRows' \in [AllOps -> Nat]
           /\ elapsed' \in BOOLEAN
<1>1. Plus(txRows, Once(delta)) \in [AllOps -> Nat]
  BY PlusOnce, Zenon DEF TypeOK
<1>2. Plus(durable, Plus(txRows, Once(delta))) \in [AllOps -> Nat]
  BY <1>1, PlusType, Zenon DEF TypeOK
<1> QED
  BY <1>2, ZeroType, Zenon DEF commitOngoingTxn

\* The variables that flushing, committing and BEGIN may change.
DataType ==
    /\ pendingPosition \in SUBSET Txns
    /\ currentPosition \in SUBSET Txns
    /\ ongoingBatchTxn \in BOOLEAN
    /\ dirtyTxn \in BOOLEAN
    /\ dirtyStream \in BOOLEAN
    /\ elapsed \in BOOLEAN
    /\ delta \in SUBSET AllOps
    /\ txOpen \in BOOLEAN
    /\ txRows \in [AllOps -> Nat]
    /\ saved \in SUBSET Txns
    /\ durable \in [AllOps -> Nat]

LEMMA NormalCommitType == ASSUME TypeOK, NormalCommit PROVE DataType'
<1>1. AppendGTID(pendingPosition, currentGtid) \in SUBSET Txns
  BY AppendType, Zenon DEF TypeOK
<1> QED
  BY <1>1, CommitType, Zenon DEF NormalCommit, SetFlags, DataType

LEMMA RollbackType == ASSUME TypeOK, RollbackFailedFlush PROVE DataType'
  BY ZeroType, Zenon DEF TypeOK, RollbackFailedFlush, DataType, flagVars, diskVars

LEMMA ExtendOrCommitType ==
    ASSUME TypeOK, extendOrCommitBatchTxn
    PROVE  DataType' /\ faults' \in [Faults -> Nat]
<1>1. CASE mayExtendBatchTxn
  <2>1. AppendGTID(pendingPosition, currentGtid) \in SUBSET Txns
    BY AppendType DEF TypeOK
  <2> QED
    BY <1>1, <2>1, Zenon DEF extendOrCommitBatchTxn, TypeOK, DataType, txVars, diskVars
<1>2. CASE NormalCommit /\ UNCHANGED faults
  BY <1>2, NormalCommitType, Zenon DEF TypeOK
<1>3. CASE FlushFails
  BY <1>3, RollbackType, FaultType, Zenon DEF FlushFails, Faults
<1> QED
  BY <1>1, <1>2, <1>3, Zenon DEF extendOrCommitBatchTxn

LEMMA FlushType ==
    ASSUME TypeOK, flushDeltaBuffer
    PROVE  /\ txOpen' \in BOOLEAN
           /\ txRows' \in [AllOps -> Nat]
           /\ delta' \in SUBSET AllOps
  BY PlusOnce, Zenon DEF TypeOK, flushDeltaBuffer

LEMMA BeginType ==
    ASSUME TypeOK, NEW prev \in Txns \union {0}, Begin(prev)
    PROVE  DataType' /\ faults' \in [Faults -> Nat]
<1>1. CASE mayExtendBatchTxn
  <2>1. AppendGTID(pendingPosition, prev) \in SUBSET Txns
    BY AppendType, Zenon DEF TypeOK
  <2> QED
    BY <1>1, <2>1, Zenon DEF Begin, TypeOK, DataType, txVars, diskVars
<1>2. CASE commitOngoingTxn(pendingPosition) /\ SetFlags(TRUE, TRUE, TRUE)
           /\ UNCHANGED faults
  BY <1>2, CommitType, Zenon DEF TypeOK, SetFlags, DataType
<1>3. CASE /\ flushDeltaBuffer /\ SetFlags(TRUE, TRUE, TRUE)
           /\ UNCHANGED <<pendingPosition, currentPosition, elapsed, diskVars, faults>>
  BY <1>3, FlushType, Zenon DEF TypeOK, SetFlags, DataType, diskVars
<1>4. CASE FlushFails
  BY <1>4, RollbackType, FaultType, Zenon DEF FlushFails, Faults
<1> QED
  BY <1>1, <1>2, <1>3, <1>4, Zenon DEF Begin

\* The variables of the stream.
StreamType ==
    /\ state \in {"stopped", "connecting", "streaming", "execute", "commit"}
    /\ stream \in SUBSET Txns
    /\ phase \in {"between", "gtid", "body"}
    /\ idx \in Nat
    /\ currentGtid \in Txns \union {0}
    /\ previousGtid \in Txns \union {0}
    /\ phase # "between" => currentGtid # 0
    /\ state \in {"execute", "commit"} => phase = "gtid"

LEMMA TypeInvParts ==
    ASSUME dropped' \in SUBSET AllOps
    PROVE  StreamType' /\ DataType' /\ faults' \in [Faults -> Nat] => TypeInv'
  BY Zenon DEF TypeInv, TypeOK, StreamType, DataType

LEMMA ZeroIsNoTxn == 0 \notin Txns /\ Txns \subseteq Nat
<1>1. Len(Log) \in Nat
  BY LogAssumption
<1> QED
  BY <1>1 DEF Txns

LEMMA EventType ==
    ASSUME TypeInv, NEW kind, Event(kind)
    PROVE  /\ StreamType'
           /\ currentGtid \in Txns
           /\ kind # "skip" => Op \in AllOps
           /\ pendingPosition' \in SUBSET Txns /\ currentPosition' \in SUBSET Txns
           /\ elapsed' \in BOOLEAN
           /\ saved' \in SUBSET Txns /\ durable' \in [AllOps -> Nat]
<1>1. currentGtid \in Txns
  BY Zenon DEF TypeInv, TypeOK, Event
<1>2. kind # "skip" => Op \in AllOps
  BY <1>1, OpIsOp, Zenon DEF TypeInv, TypeOK, Event
<1>3. StreamType'
  BY <1>1 DEF TypeInv, TypeOK, Event, Streaming, StreamType, gtidVars
<1> QED
  BY <1>1, <1>2, <1>3, Zenon DEF TypeInv, TypeOK, Event, diskVars

\* Only events of the log are given up.
LEMMA DroppedType ==
    ASSUME TypeInv, [Next]_vars PROVE dropped' \in SUBSET AllOps
<1>1. dropped \in SUBSET AllOps /\ delta \in SUBSET AllOps
  BY Zenon DEF TypeInv, TypeOK
<1>2. \A g \in Txns : Ops(g) \in SUBSET AllOps
  BY Zenon DEF AllOps
<1>3. phase # "between" => currentGtid \in Txns
  BY Zenon DEF TypeInv, TypeOK
<1>4. ASSUME NEW S \in SUBSET AllOps, DropBatch(S) PROVE dropped' \in SUBSET AllOps
  BY <1>1, <1>4, Zenon DEF DropBatch
<1>5. ASSUME DropUnread PROVE dropped' \in SUBSET AllOps
  BY <1>1, <1>2, <1>3, <1>5, Zenon DEF DropUnread
<1>6. ASSUME NEW kind, Event(kind), kind # "skip" PROVE {Op} \in SUBSET AllOps
  BY <1>6, EventType, Zenon
<1>7. {} \in SUBSET AllOps
  OBVIOUS
<1>8. CASE UNCHANGED dropped
  BY <1>1, <1>8, Zenon
<1>9. ASSUME NEW prev, Begin(prev) PROVE dropped' \in SUBSET AllOps
  BY <1>4, <1>7, <1>8, <1>9, Zenon DEF Begin
<1>10. ASSUME extendOrCommitBatchTxn PROVE dropped' \in SUBSET AllOps
  BY <1>4, <1>5, <1>7, <1>10, Zenon DEF extendOrCommitBatchTxn
<1>11. ASSUME NEW g \in Txns, GTID(g) PROVE dropped' \in SUBSET AllOps
  BY <1>8, <1>9, <1>11, Zenon DEF GTID
<1>12. CASE BEGIN \/ XID \/ Rotate \/ Tick
  BY <1>9, <1>10, <1>12, Zenon DEF BEGIN, XID, Rotate, Tick
<1>13. CASE StatementFlushFails
  <2>1. {Op} \in SUBSET AllOps
    BY <1>6, <1>13 DEF StatementFlushFails
  <2> QED
    BY <1>4, <1>13, <2>1, Zenon DEF StatementFlushFails
<1>14. CASE EventFails
  <2>1. {Op} \in SUBSET AllOps
    BY <1>6, <1>14 DEF EventFails
  <2> QED
    BY <1>1, <1>14, <2>1, Zenon DEF EventFails
<1>15. CASE DDL
  <2>1. Ops(currentGtid) \in SUBSET AllOps
    BY <1>2, <1>3, <1>15 DEF DDL
  <2> QED
    BY <1>4, <1>8, <1>15, <2>1, Zenon DEF DDL
<1>16. CASE ExecuteDDLFails
  <2>1. Ops(currentGtid) \in SUBSET AllOps
    BY <1>2, <1>3, <1>16 DEF ExecuteDDLFails, TypeInv
  <2> QED
    BY <1>1, <1>16, <2>1, Zenon DEF ExecuteDDLFails
<1>17. CASE Stop
  BY <1>4, <1>5, <1>7, <1>8, <1>17, Zenon DEF Stop
<1>18. CASE \/ appendRowFormatChanges \/ SkipRows \/ writeChanges \/ Statement
            \/ ExecuteDDL \/ CommitDDL \/ Elapse \/ Start \/ Disconnect
            \/ startReplicationEventStream \/ Crash \/ UNCHANGED vars
  BY <1>8, <1>18, Zenon DEF appendRowFormatChanges, SkipRows, writeChanges, Statement,
     ExecuteDDL, CommitDDL, Elapse, Start, Disconnect, startReplicationEventStream,
     Crash, vars
<1> QED
  BY <1>11, <1>12, <1>13, <1>14, <1>15, <1>16, <1>17, <1>18, Zenon DEF Next, Events

LEMMA EventsType ==
    ASSUME TypeInv, dropped' \in SUBSET AllOps,
           \/ appendRowFormatChanges \/ SkipRows \/ writeChanges
           \/ Statement \/ StatementFlushFails \/ EventFails
    PROVE  TypeInv'
<1> USE DEF SetFlags
<1>1. CASE appendRowFormatChanges
  <2>1. Op \in AllOps /\ StreamType'
    BY <1>1, EventType DEF appendRowFormatChanges
  <2>2. DataType' /\ faults' \in [Faults -> Nat]
    BY <1>1, <2>1, EventType, Zenon DEF appendRowFormatChanges, DataType, TypeInv, TypeOK,
       txVars
  <2> QED
    BY <2>1, <2>2, TypeInvParts, Zenon
<1>2. CASE SkipRows
  <2>1. StreamType'
    BY <1>2, EventType, Zenon DEF SkipRows
  <2>2. DataType' /\ faults' \in [Faults -> Nat]
    BY <1>2, <2>1, EventType, Zenon DEF SkipRows, DataType, TypeInv, TypeOK, txVars
  <2> QED
    BY <2>1, <2>2, TypeInvParts, Zenon
<1>3. CASE writeChanges
  <2>1. StreamType' /\ Plus(txRows, Once({Op})) \in [AllOps -> Nat]
    BY <1>3, EventType, PlusOnce DEF writeChanges, TypeInv, TypeOK
  <2>2. DataType' /\ faults' \in [Faults -> Nat]
    BY <1>3, <2>1, EventType, Zenon DEF writeChanges, DataType, TypeInv, TypeOK
  <2> QED
    BY <2>1, <2>2, TypeInvParts, Zenon
<1>4. CASE Statement
  <2>1. Plus(txRows, Once(delta)) \in [AllOps -> Nat]
    BY PlusOnce, Zenon DEF TypeInv, TypeOK
  <2>2. StreamType' /\ Plus(Plus(txRows, Once(delta)), Once({Op})) \in [AllOps -> Nat]
    BY <1>4, <2>1, EventType, PlusOnce, Zenon DEF Statement
  <2>3. DataType' /\ faults' \in [Faults -> Nat]
    BY <1>4, <2>2, EventType, Zenon DEF Statement, DataType, TypeInv, TypeOK
  <2> QED
    BY <2>2, <2>3, TypeInvParts, Zenon
<1>5. CASE StatementFlushFails
  <2>1. StreamType'
    BY <1>5, EventType, Zenon DEF StatementFlushFails
  <2>2. DataType' /\ faults' \in [Faults -> Nat]
    BY <1>5, RollbackType, FaultType, Zenon DEF StatementFlushFails, FlushFails, TypeInv, Faults
  <2> QED
    BY <2>1, <2>2, TypeInvParts
<1>6. CASE EventFails
  <2>1. faults' \in [Faults -> Nat]
    BY <1>6, FaultType, Zenon DEF EventFails, TypeInv, Faults
  <2>2. PICK kind \in {"row", "direct", "stmt"} : Event(kind)
    BY <1>6, Zenon DEF EventFails
  <2>3. StreamType'
    BY <2>2, EventType, Zenon
  <2>4. /\ txOpen' \in BOOLEAN /\ txRows' \in [AllOps -> Nat] /\ delta' \in SUBSET AllOps
        /\ ongoingBatchTxn' \in BOOLEAN /\ dirtyTxn' \in BOOLEAN /\ dirtyStream' \in BOOLEAN
    BY <1>6, FlushType, Zenon DEF EventFails, TypeInv, TypeOK, txVars, flagVars
  <2>5. DataType'
    BY <2>2, <2>4, EventType, Zenon DEF DataType
  <2> QED
    BY <2>1, <2>3, <2>5, TypeInvParts, Zenon
<1> QED
  BY <1>1, <1>2, <1>3, <1>4, <1>5, <1>6, Zenon

LEMMA NextTypeInv == TypeInv /\ [Next]_vars => TypeInv'
<1> SUFFICES ASSUME TypeInv, [Next]_vars PROVE TypeInv'
  OBVIOUS
<1>u. TypeOK
  BY Zenon DEF TypeInv
<1> dropped' \in SUBSET AllOps
  BY DroppedType, Zenon
<1>1. ASSUME NEW g \in Txns, GTID(g) PROVE TypeInv'
  <2>1. StreamType'
    BY <1>1, ZeroIsNoTxn, Zenon DEF GTID, Streaming, StreamType, TypeInv, TypeOK
  <2>2. DataType' /\ faults' \in [Faults -> Nat]
    <3>1. CASE MariaDB /\ ~IsDDL(g)
      BY <1>1, <3>1, <1>u, BeginType, Zenon DEF GTID, TypeOK
    <3>2. CASE ~(MariaDB /\ ~IsDDL(g))
      BY <1>1, <3>2, Zenon DEF GTID, TypeInv, TypeOK, DataType, flagVars, txVars, diskVars
    <3> QED
      BY <3>1, <3>2, Zenon
  <2> QED
    BY <2>1, <2>2, TypeInvParts, Zenon
<1>2. CASE BEGIN
  <2>1. StreamType'
    BY <1>2, Zenon DEF BEGIN, Streaming, StreamType, TypeInv, TypeOK, gtidVars
  <2>2. DataType' /\ faults' \in [Faults -> Nat]
    BY <1>2, <1>u, BeginType, Zenon DEF BEGIN, TypeOK
  <2> QED
    BY <2>1, <2>2, TypeInvParts, Zenon
<1>3. CASE appendRowFormatChanges \/ SkipRows \/ writeChanges
           \/ Statement \/ StatementFlushFails \/ EventFails
  BY <1>3, EventsType, Zenon
<1>4. CASE XID \/ Rotate \/ Tick
  <2>1. StreamType'
    BY <1>4, Zenon DEF XID, Rotate, Tick, Streaming, StreamType, TypeInv, TypeOK, gtidVars,
       streamVars
  <2>2. extendOrCommitBatchTxn
    BY <1>4, Zenon DEF XID, Rotate, Tick
  <2> QED
    BY <2>1, <2>2, <1>u, ExtendOrCommitType, TypeInvParts, Zenon
<1>5. CASE DDL
  <2>1. StreamType'
    BY <1>5, Zenon DEF DDL, StreamType, TypeInv, TypeOK, gtidVars
  <2>2. DataType' /\ faults' \in [Faults -> Nat]
    <3>1. CASE dirtyTxn /\ commitOngoingTxn(pendingPosition) /\ SetFlags(FALSE, FALSE, FALSE)
               /\ UNCHANGED faults
      BY <3>1, <1>u, CommitType, Zenon DEF TypeOK, SetFlags, DataType
    <3>2. CASE /\ flushDeltaBuffer
               /\ UNCHANGED <<pendingPosition, currentPosition, flagVars,
                              elapsed, diskVars, faults>>
      BY <3>2, <1>u, FlushType, Zenon DEF TypeOK, DataType, flagVars, diskVars
    <3>3. CASE FlushFails
      BY <3>3, <1>u, RollbackType, FaultType, Zenon DEF FlushFails, Faults
    <3> QED
      BY <1>5, <3>1, <3>2, <3>3, Zenon DEF DDL
  <2> QED
    BY <2>1, <2>2, TypeInvParts
<1>6. CASE ExecuteDDL
  <2>1. StreamType'
    BY <1>6, Zenon DEF ExecuteDDL, StreamType, TypeInv, TypeOK, gtidVars, streamVars
  <2>2. /\ Plus(txRows, Once(Ops(currentGtid))) \in [AllOps -> Nat]
        /\ Plus(durable, Once(Ops(currentGtid))) \in [AllOps -> Nat]
    BY <1>u, PlusOnce, Zenon DEF TypeOK
  <2>3. DataType' /\ faults' \in [Faults -> Nat]
    BY <1>6, <1>u, <2>2, Zenon DEF ExecuteDDL, DataType, TypeOK, SetFlags
  <2> QED
    BY <2>1, <2>3, TypeInvParts
<1>7. CASE ExecuteDDLFails
  <2>1. StreamType'
    BY <1>7, Zenon DEF ExecuteDDLFails, StreamType, TypeInv, TypeOK, gtidVars
  <2>2. DataType' /\ faults' \in [Faults -> Nat]
    BY <1>7, <1>u, FaultType, Zenon DEF ExecuteDDLFails, DataType, TypeOK, flagVars, txVars,
       diskVars, Faults
  <2> QED
    BY <2>1, <2>2, TypeInvParts
<1>8. CASE CommitDDL
  <2>1. StreamType'
    BY <1>8, Zenon DEF CommitDDL, StreamType, TypeInv, TypeOK, gtidVars
  <2>2. DataType' /\ faults' \in [Faults -> Nat]
    BY <1>8, <1>u, NormalCommitType, Zenon DEF CommitDDL, TypeOK
  <2> QED
    BY <2>1, <2>2, TypeInvParts
<1>9. CASE Elapse
  BY <1>9, Zenon DEF Elapse, Streaming, TypeInv, TypeOK, streamVars, gtidVars, flagVars,
     txVars, diskVars
<1>10. CASE Stop
  <2>1. StreamType'
    BY <1>10, Zenon DEF Stop, StreamType, TypeInv, TypeOK, gtidVars, streamVars
  <2>2. faults' \in [Faults -> Nat]
    BY <1>10, <1>u, FaultType DEF Stop, TypeOK, Faults
  <2>3. DataType'
    BY <1>10, <1>u, NormalCommitType, RollbackType, Zenon
       DEF Stop, DataType, TypeOK, flagVars, txVars, diskVars
  <2> QED
    BY <2>1, <2>2, <2>3, TypeInvParts, Zenon
<1>11. CASE Start
  BY <1>11, Zenon DEF Start, TypeInv, TypeOK, streamVars, gtidVars, flagVars, txVars, diskVars
<1>12. CASE Disconnect
  <2>1. faults' \in [Faults -> Nat]
    BY <1>12, <1>u, FaultType, Zenon DEF Disconnect, Faults
  <2> QED
    BY <1>12, <2>1, Zenon DEF Disconnect, TypeInv, TypeOK, streamVars, gtidVars, flagVars,
       txVars, diskVars
<1>13. CASE startReplicationEventStream
  BY <1>13, Zenon DEF startReplicationEventStream, SetFlags, TypeInv, TypeOK, txVars, diskVars
<1>14. CASE Crash
  <2>1. faults' \in [Faults -> Nat]
    BY <1>14, <1>u, FaultType, Zenon DEF Crash, Faults
  <2> QED
    BY <1>14, <2>1, ZeroType, Zenon DEF Crash, SetFlags, TypeInv, TypeOK, diskVars
<1>15. CASE UNCHANGED vars
  BY <1>15 DEF vars, TypeInv, TypeOK, streamVars, gtidVars, flagVars, txVars, diskVars
<1> QED
  BY <1>1, <1>2, <1>3, <1>4, <1>5, <1>6, <1>7, <1>8, <1>9, <1>10, <1>11, <1>12,
     <1>13, <1>14, <1>15, Zenon DEF Next, Events

\* The applier's state, the pool's transaction and the disk keep their types,
\* for every log, both GTID flavors, and any number of faults.
THEOREM TypeCorrect == Spec => []TypeOK
<1>1. Spec => []TypeInv
  BY InitTypeInv, NextTypeInv, PTL DEF Spec
<1>2. TypeInv => TypeOK
  BY Zenon DEF TypeInv
<1> QED
  BY <1>1, <1>2, PTL

-----------------------------------------------------------------------------
(* The inductive invariant. *)

RowsOnly == \A g \in Txns : \A i \in 1..Len(Log[g]) : Log[g][i].kind \in {"row", "skip"}

\* Flushes and events do not fail, and a log with statements or direct writes
\* is not interrupted in a way that leaves the open transaction behind.
Covered ==
    /\ MariaDB
    /\ \A g \in Txns : ~IsDDL(g)
    /\ MaxFaults["flush"] = 0 /\ MaxFaults["event"] = 0
    /\ RowsOnly \/ (MaxFaults["disconnect"] = 0 /\ MaxFaults["stop"] = 0)

FaultsBounded == \A f \in Faults : MaxFaults[f] = 0 => faults[f] = 0

NoDDLInProgress ==
    /\ state \in {"stopped", "connecting", "streaming"}
    /\ phase \in {"between", "body"}

SavedIsPrefix == \E m \in 0..Len(Log) : saved = 1..m

DurableIsSaved ==
    \A o \in AllOps : durable[o] = IF TxnOf(o) \in saved THEN 1 ELSE 0

NothingLeftBehind == state # "streaming" \/ RowsOnly => txRows = Zero

Between ==
    /\ \/ currentGtid = 0 /\ pendingPosition = saved
       \/ currentGtid # 0 /\ pendingPosition = 1..currentGtid
    /\ stream = Txns \ pendingPosition
    /\ ~ongoingBatchTxn => pendingPosition = saved
    /\ ongoingBatchTxn => dirtyTxn

Body ==
    /\ currentGtid # 0
    /\ pendingPosition = 1..(currentGtid - 1)
    /\ stream = Txns \ (1..currentGtid)
    /\ dirtyTxn /\ dirtyStream

Received(o) == phase = "body" /\ TxnOf(o) = currentGtid /\ o[2] <= idx

Accounted ==
    \A o \in AllOps :
        txRows[o] + (IF o \in delta THEN 1 ELSE 0)
            = IF TxnOf(o) \in pendingPosition \ saved \/ Received(o) THEN 1 ELSE 0

StreamInv ==
    state = "streaming" =>
        /\ saved \subseteq pendingPosition
        /\ phase = "between" => Between
        /\ phase = "body" => Body
        /\ Accounted

BatchInv ==
    /\ FaultsBounded
    /\ NoDDLInProgress
    /\ SavedIsPrefix
    /\ DurableIsSaved
    /\ NothingLeftBehind
    /\ StreamInv

IInv == TypeInv /\ BatchInv

\* A step that the abstract specification allows.
PromiseStep == Promise!Next \/ UNCHANGED diskVars

-----------------------------------------------------------------------------
(* Prefixes of the log, and the events of one transaction. *)

LEMMA LogFacts ==
    /\ Len(Log) \in Nat
    /\ Txns = 1..Len(Log)
    /\ \A g \in Txns : Len(Log[g]) \in Nat
  BY LogAssumption DEF Txns

LEMMA OpIsPair ==
    \A o \in AllOps : /\ o = <<TxnOf(o), o[2]>>
                      /\ Log[TxnOf(o)][o[2]].kind # "skip"
  BY DEF AllOps, Ops, TxnOf

LEMMA AppendPrefix ==
    ASSUME Covered, NEW g \in Txns, NEW pos
    PROVE  AppendGTID(pos, g) = 1..g
  BY ZeroIsNoTxn, Zenon DEF Covered, AppendGTID

\* Under Covered, flushes and events do not fail.
LEMMA NoFaults ==
    ASSUME Covered, IInv
    PROVE  /\ ~FlushFails /\ ~StatementFlushFails /\ ~EventFails
           /\ faults["flush"] = 0
           /\ ~RowsOnly => ~Disconnect /\ ~Stop
<1>1. faults["flush"] = 0 /\ faults["event"] = 0
  BY Zenon DEF Covered, IInv, BatchInv, FaultsBounded, Faults
<1>2. ~RowsOnly => faults["disconnect"] = 0 /\ faults["stop"] = 0
  BY Zenon DEF Covered, IInv, BatchInv, FaultsBounded, Faults
<1> QED
  BY <1>1, <1>2 DEF FlushFails, StatementFlushFails, EventFails, Fault, Disconnect, Stop

LEMMA FaultKeepsBound ==
    ASSUME IInv, NEW f \in Faults, Fault(f)
    PROVE  FaultsBounded'
  BY DEF IInv, BatchInv, TypeInv, TypeOK, FaultsBounded, Fault

\* A commit of the prefix 1..m, when exactly its changes that are not yet saved
\* lie in the buffer and the open transaction.
LEMMA CommitKeeps ==
    ASSUME IInv, NEW P \in SUBSET Txns, \E m \in 0..Len(Log) : P = 1..m,
           saved \subseteq P, commitOngoingTxn(P),
           \A o \in AllOps : txRows[o] + (IF o \in delta THEN 1 ELSE 0)
                                = IF TxnOf(o) \in P \ saved THEN 1 ELSE 0
    PROVE  /\ SavedIsPrefix' /\ DurableIsSaved'
           /\ Promise!Next
<1>1. SavedIsPrefix'
  BY Zenon DEF SavedIsPrefix, commitOngoingTxn
<1>2. /\ txRows \in [AllOps -> Nat] /\ durable \in [AllOps -> Nat]
      /\ saved \subseteq Txns
  BY Zenon DEF IInv, TypeInv, TypeOK
<1>3. PICK f : f = Plus(txRows, Once(delta))
  OBVIOUS
<1>4. f \in [AllOps -> Nat]
  BY <1>2, <1>3, PlusOnce, Zenon
<1>5. \A o \in AllOps : f[o] = IF TxnOf(o) \in P \ saved THEN 1 ELSE 0
  BY <1>2, <1>3, PlusOnce
<1>6. durable' = Plus(durable, f) /\ saved' = P
  BY <1>3, Zenon DEF commitOngoingTxn
<1>7. \A o \in AllOps : durable'[o] = durable[o] + (IF TxnOf(o) \in P \ saved THEN 1 ELSE 0)
  <2> TAKE o \in AllOps
  <2>1. durable'[o] = durable[o] + f[o]
    BY <1>6, Zenon DEF Plus
  <2> QED
    BY <2>1, <1>5, Zenon
<1>8. DurableIsSaved'
  <2>1. \A o \in AllOps : durable[o] = IF TxnOf(o) \in saved THEN 1 ELSE 0
    BY Zenon DEF IInv, BatchInv, DurableIsSaved
  <2>2. \A o \in AllOps : durable'[o] = IF TxnOf(o) \in P THEN 1 ELSE 0
    <3> TAKE o \in AllOps
    <3>1. durable'[o] = durable[o] + (IF TxnOf(o) \in P \ saved THEN 1 ELSE 0)
      BY <1>7, Zenon
    <3>2. durable[o] = IF TxnOf(o) \in saved THEN 1 ELSE 0
      BY <2>1, Zenon
    <3>3. CASE TxnOf(o) \in saved
      <4>1. TxnOf(o) \in P /\ TxnOf(o) \notin P \ saved
        BY <3>3, Zenon
      <4>2. durable[o] = 1 /\ durable'[o] = durable[o] + 0
        BY <3>1, <3>2, <3>3, <4>1, Zenon
      <4> QED
        BY <4>1, <4>2
    <3>4. CASE TxnOf(o) \notin saved
      BY <3>1, <3>2, <3>4
    <3> QED
      BY <3>3, <3>4, Zenon
  <2> QED
    BY <2>2, <1>6, Zenon DEF DurableIsSaved
<1>9. Promise!Next
  <2>1. PICK G \in SUBSET (Txns \ saved) : G = P \ saved
    BY <1>2, Zenon
  <2>2. \A g \in G, h \in Txns : h < g => h \in saved \union G
    BY <2>1, LogFacts
  <2>3. saved' = saved \union G
    BY <2>1, <1>6, Zenon
  <2>4. durable' = [c \in AllOps |-> durable[c] + (IF TxnOf(c) \in G THEN 1 ELSE 0)]
    BY <1>7, <1>6, <2>1, Zenon DEF Plus
  <2> QED
    BY <2>2, <2>3, <2>4, Zenon DEF Promise!Next, Promise!Commit
<1> QED
  BY <1>1, <1>8, <1>9, Zenon

\* Where extendOrCommitBatchTxn finds a complete batch.
Complete(P) ==
    /\ \E m \in 0..Len(Log) : P = 1..m
    /\ AppendGTID(pendingPosition, currentGtid) = P
    /\ saved \subseteq P
    /\ stream = Txns \ P
    /\ (currentGtid = 0 /\ P = saved) \/ (currentGtid # 0 /\ P = 1..currentGtid)
    /\ ongoingBatchTxn => dirtyTxn
    /\ \A o \in AllOps : txRows[o] + (IF o \in delta THEN 1 ELSE 0)
                            = IF TxnOf(o) \in P \ saved THEN 1 ELSE 0

LEMMA NothingIsAccounted ==
    ASSUME txRows' = Zero, delta' = {}, pendingPosition' = saved', phase' = "between"
    PROVE  Accounted'
<1> SUFFICES ASSUME NEW o \in AllOps
             PROVE  txRows'[o] + (IF o \in delta' THEN 1 ELSE 0)
                      = IF TxnOf(o) \in pendingPosition' \ saved' \/ Received(o)' THEN 1 ELSE 0
  BY Zenon DEF Accounted
<1>1. txRows'[o] = 0 /\ o \notin delta'
  BY ZeroType, Zenon
<1>2. TxnOf(o) \notin pendingPosition' \ saved' /\ ~Received(o)'
  BY Zenon DEF Received
<1> QED
  BY <1>1, <1>2

LEMMA NormalCommitKeeps ==
    ASSUME IInv, NEW P \in SUBSET Txns, Complete(P), NormalCommit
    PROVE  /\ SavedIsPrefix' /\ DurableIsSaved' /\ Promise!Next
           /\ saved' = P /\ pendingPosition' = P
           /\ txRows' = Zero /\ delta' = {} /\ ~ongoingBatchTxn'
  BY CommitKeeps, Zenon DEF Complete, NormalCommit, SetFlags, commitOngoingTxn

LEMMA ExtendOrCommitKeeps ==
    ASSUME Covered, IInv, state = "streaming", state' = "streaming",
           phase' = "between", UNCHANGED <<stream, gtidVars>>,
           NEW P \in SUBSET Txns, Complete(P), extendOrCommitBatchTxn
    PROVE  BatchInv' /\ PromiseStep
<1> USE DEF gtidVars
<1>1. NoDDLInProgress'
  BY Zenon DEF NoDDLInProgress
<1>2. CASE mayExtendBatchTxn /\ UNCHANGED <<currentPosition, ongoingBatchTxn, dirtyTxn, elapsed,
                                            delta, txVars, diskVars, faults>>
           /\ pendingPosition' = P
  <2> USE <1>2 DEF txVars, diskVars
  <2>1. SavedIsPrefix' /\ DurableIsSaved' /\ FaultsBounded' /\ PromiseStep
    BY Zenon DEF IInv, BatchInv, SavedIsPrefix, DurableIsSaved, FaultsBounded, PromiseStep
  <2>2. NothingLeftBehind'
    BY Zenon DEF IInv, BatchInv, NothingLeftBehind
  <2>3. Between'
    BY Zenon DEF Between, Complete, mayExtendBatchTxn
  <2>4. Accounted'
    BY Zenon DEF Accounted, Received, Complete
  <2>5. StreamInv'
    BY <2>3, <2>4, Zenon DEF StreamInv, Complete
  <2> QED
    BY <1>1, <2>1, <2>2, <2>5, Zenon DEF BatchInv
<1>3. CASE NormalCommit /\ UNCHANGED faults
  <2>1. FaultsBounded'
    BY <1>3, Zenon DEF IInv, BatchInv, FaultsBounded
  <2>2. Between'
    BY <1>3, NormalCommitKeeps, Zenon DEF Between, Complete
  <2>3. StreamInv'
    BY <1>3, <2>2, NormalCommitKeeps, NothingIsAccounted, Zenon DEF StreamInv
  <2> QED
    BY <1>1, <1>3, <2>1, <2>3, NormalCommitKeeps, Zenon DEF BatchInv, NothingLeftBehind,
       PromiseStep
<1> QED
  BY <1>2, <1>3, NoFaults, Zenon DEF extendOrCommitBatchTxn, Complete

LEMMA BetweenComplete ==
    ASSUME Covered, IInv, state = "streaming", phase = "between"
    PROVE  /\ Complete(pendingPosition)
           /\ pendingPosition \in SUBSET Txns
<1>1. Between /\ saved \subseteq pendingPosition /\ Accounted
  BY Zenon DEF IInv, BatchInv, StreamInv
<1>2. pendingPosition \in SUBSET Txns /\ currentGtid \in Txns \union {0}
  BY Zenon DEF IInv, TypeInv, TypeOK
<1>3. AppendGTID(pendingPosition, currentGtid) = pendingPosition
  BY <1>1, <1>2, AppendPrefix, Zenon DEF AppendGTID, Between
<1>4. \E m \in 0..Len(Log) : pendingPosition = 1..m
  <2>1. CASE currentGtid = 0
    BY <1>1, <2>1, Zenon DEF Between, IInv, BatchInv, SavedIsPrefix
  <2>2. CASE currentGtid # 0
    BY <1>1, <1>2, <2>2, LogFacts DEF Between
  <2> QED
    BY <2>1, <2>2, Zenon
<1>5. \A o \in AllOps : ~Received(o)
  BY Zenon DEF Received
<1>6. \A o \in AllOps : txRows[o] + (IF o \in delta THEN 1 ELSE 0)
                            = IF TxnOf(o) \in pendingPosition \ saved THEN 1 ELSE 0
  BY <1>1, <1>5, Zenon DEF Accounted
<1> QED
  BY <1>1, <1>2, <1>3, <1>4, <1>6, Zenon DEF Complete, Between

LEMMA BodyFacts ==
    ASSUME IInv, state = "streaming", phase = "body"
    PROVE  /\ currentGtid \in Txns /\ currentGtid \in Nat
           /\ currentGtid \notin pendingPosition
           /\ currentGtid \notin saved
           /\ idx \in Nat /\ Len(Log[currentGtid]) \in Nat
<1>1. Body /\ saved \subseteq pendingPosition
  BY Zenon DEF IInv, BatchInv, StreamInv
<1>2. currentGtid \in Txns /\ idx \in Nat
  BY <1>1, Zenon DEF IInv, TypeInv, TypeOK, Body
<1>3. currentGtid \in Nat /\ Len(Log[currentGtid]) \in Nat
  BY <1>2, LogFacts
<1>4. currentGtid \notin pendingPosition
  BY <1>1, <1>3 DEF Body
<1> QED
  BY <1>1, <1>2, <1>3, <1>4, Zenon

LEMMA BodyComplete ==
    ASSUME Covered, IInv, state = "streaming", phase = "body",
           idx = Len(Log[currentGtid])
    PROVE  /\ Complete(1..currentGtid)
           /\ 1..currentGtid \in SUBSET Txns
<1>1. Body /\ saved \subseteq pendingPosition /\ Accounted
  BY Zenon DEF IInv, BatchInv, StreamInv
<1>2. /\ currentGtid \in Txns /\ currentGtid \in Nat /\ currentGtid \notin saved
      /\ currentGtid # 0
  BY BodyFacts, ZeroIsNoTxn, Zenon
<1>3. AppendGTID(pendingPosition, currentGtid) = 1..currentGtid
  BY <1>2, AppendPrefix, Zenon
<1>4. \E m \in 0..Len(Log) : 1..currentGtid = 1..m
  BY <1>2, LogFacts
<1>5. saved \subseteq 1..currentGtid /\ 1..currentGtid \in SUBSET Txns
  BY <1>1, <1>2, LogFacts DEF Body
<1>6. \A o \in AllOps : Received(o) <=> TxnOf(o) = currentGtid
  BY OpFacts, BodyFacts DEF Received
<1>7. \A o \in AllOps : TxnOf(o) \in (1..currentGtid) \ saved
                          <=> TxnOf(o) \in pendingPosition \ saved \/ Received(o)
  BY <1>1, <1>2, <1>6, OpFacts, LogFacts DEF Body
<1>8. \A o \in AllOps : txRows[o] + (IF o \in delta THEN 1 ELSE 0)
                            = IF TxnOf(o) \in (1..currentGtid) \ saved THEN 1 ELSE 0
  BY <1>1, <1>7, Zenon DEF Accounted
<1> QED
  BY <1>1, <1>2, <1>3, <1>4, <1>5, <1>8, Zenon DEF Complete, Body

\* The part of the current transaction that has been received grows by the
\* event's operation, which has not been counted before.
LEMMA EventReceives ==
    ASSUME IInv, NEW kind, Event(kind)
    PROVE  /\ \A o \in AllOps : Received(o)' <=> Received(o) \/ (kind # "skip" /\ o = Op)
           /\ kind # "skip" => /\ Op \in AllOps
                               /\ TxnOf(Op) \notin pendingPosition
                               /\ ~Received(Op)
<1>1. state = "streaming" /\ phase = "body"
  BY Zenon DEF Event, Streaming
<1>2. kind # "skip" => Op \in AllOps
  BY EventType, Zenon DEF IInv
<1>3. TxnOf(Op) = currentGtid /\ Op[2] = idx + 1
  BY Zenon DEF Op, TxnOf
<1>4. TxnOf(Op) \notin pendingPosition /\ ~Received(Op)
  BY <1>1, <1>3, BodyFacts DEF Received
<1>5. ASSUME NEW o \in AllOps
      PROVE  Received(o)' <=> Received(o) \/ (kind # "skip" /\ o = Op)
  <2>1. o[2] \in Nat
    BY OpFacts, LogFacts
  <2>2. Received(o)' <=> TxnOf(o) = currentGtid /\ o[2] <= idx + 1
    BY <1>1, Zenon DEF Received, Event, gtidVars
  <2>3. ASSUME TxnOf(o) = currentGtid, o[2] = idx + 1
        PROVE  kind # "skip" /\ o = Op
    BY <2>3, OpIsPair, Zenon DEF Event, Op
  <2> QED
    BY <1>1, <1>3, <2>1, <2>2, <2>3, BodyFacts DEF Received
<1> QED
  BY <1>2, <1>4, <1>5, Zenon

\* What an event leaves to show: that its operation moved into the buffer or
\* the open transaction, and that with rows only the latter stays empty.
LEMMA EventKeeps ==
    ASSUME Covered, IInv, NEW kind, Event(kind),
           UNCHANGED faults, dirtyTxn', dirtyStream', NothingLeftBehind',
           \A o \in AllOps :
               txRows'[o] + (IF o \in delta' THEN 1 ELSE 0)
                 = txRows[o] + (IF o \in delta THEN 1 ELSE 0)
                     + (IF kind # "skip" /\ o = Op THEN 1 ELSE 0)
    PROVE  BatchInv' /\ PromiseStep
<1> USE DEF Event, Streaming, gtidVars, diskVars
<1>1. Body /\ saved \subseteq pendingPosition /\ Accounted
  BY Zenon DEF IInv, BatchInv, StreamInv
<1>2. FaultsBounded' /\ NoDDLInProgress' /\ SavedIsPrefix' /\ DurableIsSaved' /\ PromiseStep
  BY Zenon DEF IInv, BatchInv, FaultsBounded, NoDDLInProgress, SavedIsPrefix, DurableIsSaved,
     PromiseStep
<1>3. Body'
  BY <1>1, Zenon DEF Body
<1>4. Accounted'
  <2> SUFFICES ASSUME NEW o \in AllOps
               PROVE  txRows'[o] + (IF o \in delta' THEN 1 ELSE 0)
                        = IF TxnOf(o) \in pendingPosition' \ saved' \/ Received(o)' THEN 1 ELSE 0
    BY Zenon DEF Accounted
  <2>1. txRows[o] + (IF o \in delta THEN 1 ELSE 0)
          = IF TxnOf(o) \in pendingPosition \ saved \/ Received(o) THEN 1 ELSE 0
    BY <1>1, Zenon DEF Accounted
  <2>2. txRows'[o] + (IF o \in delta' THEN 1 ELSE 0)
          = (IF TxnOf(o) \in pendingPosition \ saved \/ Received(o) THEN 1 ELSE 0)
              + (IF kind # "skip" /\ o = Op THEN 1 ELSE 0)
    BY <2>1, Zenon
  <2>3. Received(o)' <=> Received(o) \/ (kind # "skip" /\ o = Op)
    BY EventReceives, Zenon
  <2>4. kind # "skip" /\ o = Op => TxnOf(o) \notin pendingPosition /\ ~Received(o)
    BY EventReceives
  <2>5. pendingPosition' = pendingPosition /\ saved' = saved
    OBVIOUS
  <2> QED
    BY <2>2, <2>3, <2>4, <2>5
<1> QED
  BY <1>1, <1>2, <1>3, <1>4, Zenon DEF BatchInv, StreamInv

LEMMA RowEventsOnly ==
    ASSUME RowsOnly, IInv, NEW kind, Event(kind)
    PROVE  kind \in {"row", "skip"}
<1>1. currentGtid \in Txns
  BY EventType, Zenon DEF IInv
<1>2. idx + 1 \in 1..Len(Log[currentGtid])
  BY <1>1, LogFacts DEF Event, IInv, TypeInv, TypeOK
<1> QED
  BY <1>1, <1>2, Zenon DEF RowsOnly, Event

LEMMA EventsKeep ==
    ASSUME Covered, IInv,
           appendRowFormatChanges \/ SkipRows \/ writeChanges \/ Statement
    PROVE  BatchInv' /\ PromiseStep
<1>t. txRows \in [AllOps -> Nat]
  BY Zenon DEF IInv, TypeInv, TypeOK
<1>n. NothingLeftBehind
  BY Zenon DEF IInv, BatchInv
<1>1. CASE appendRowFormatChanges
  <2> USE <1>1 DEF appendRowFormatChanges, SetFlags, txVars
  <2>1. Op \notin delta /\ Op \in AllOps
    <3>1. state = "streaming"
      BY Zenon DEF Event, Streaming
    <3>2. txRows[Op] + (IF Op \in delta THEN 1 ELSE 0) = 0 /\ Op \in AllOps
      BY <3>1, EventReceives DEF IInv, BatchInv, StreamInv, Accounted
    <3> QED
      BY <3>2, <1>t
  <2>2. \A o \in AllOps : txRows'[o] + (IF o \in delta' THEN 1 ELSE 0)
          = txRows[o] + (IF o \in delta THEN 1 ELSE 0)
              + (IF "row" # "skip" /\ o = Op THEN 1 ELSE 0)
    BY <1>t, <2>1
  <2>3. NothingLeftBehind'
    BY <1>n, Zenon DEF NothingLeftBehind, Event, Streaming
  <2> QED
    BY <2>2, <2>3, EventKeeps, Zenon
<1>2. CASE SkipRows
  <2> USE <1>2 DEF SkipRows, SetFlags, txVars
  <2>1. \A o \in AllOps : txRows'[o] + (IF o \in delta' THEN 1 ELSE 0)
          = txRows[o] + (IF o \in delta THEN 1 ELSE 0)
              + (IF "skip" # "skip" /\ o = Op THEN 1 ELSE 0)
    BY <1>t
  <2>2. NothingLeftBehind'
    BY <1>n, Zenon DEF NothingLeftBehind, Event, Streaming
  <2> QED
    BY <2>1, <2>2, EventKeeps, Zenon
<1>3. CASE writeChanges
  <2> USE <1>3 DEF writeChanges, SetFlags
  <2>1. \A o \in AllOps : txRows'[o] + (IF o \in delta' THEN 1 ELSE 0)
          = txRows[o] + (IF o \in delta THEN 1 ELSE 0)
              + (IF "direct" # "skip" /\ o = Op THEN 1 ELSE 0)
    <3> TAKE o \in AllOps
    <3>1. txRows'[o] = txRows[o] + (IF o = Op THEN 1 ELSE 0)
      BY <1>t, PlusOnce
    <3> QED
      BY <3>1, <1>t
  <2>2. NothingLeftBehind'
    BY RowEventsOnly, Zenon DEF NothingLeftBehind, Event, Streaming
  <2> QED
    BY <2>1, <2>2, EventKeeps, Zenon
<1>4. CASE Statement
  <2> USE <1>4 DEF Statement, SetFlags
  <2>1. \A o \in AllOps : txRows'[o] + (IF o \in delta' THEN 1 ELSE 0)
          = txRows[o] + (IF o \in delta THEN 1 ELSE 0)
              + (IF "stmt" # "skip" /\ o = Op THEN 1 ELSE 0)
    <3> TAKE o \in AllOps
    <3>1. PICK f : f = Plus(txRows, Once(delta))
      OBVIOUS
    <3>2. f \in [AllOps -> Nat] /\ f[o] = txRows[o] + (IF o \in delta THEN 1 ELSE 0)
      BY <3>1, <1>t, PlusOnce
    <3>3. txRows'[o] = f[o] + (IF o = Op THEN 1 ELSE 0)
      BY <3>1, <3>2, PlusOnce
    <3> QED
      BY <3>2, <3>3, <1>t
  <2>2. NothingLeftBehind'
    BY RowEventsOnly, Zenon DEF NothingLeftBehind, Event, Streaming
  <2> QED
    BY <2>1, <2>2, EventKeeps, Zenon
<1> QED
  BY <1>1, <1>2, <1>3, <1>4, Zenon

\* The GTID event of the next transaction, with its BEGIN.
LEMMA GTIDKeeps ==
    ASSUME Covered, IInv, NEW g \in Txns, GTID(g)
    PROVE  BatchInv' /\ PromiseStep
<1> USE DEF GTID, Streaming
<1>1. /\ Complete(pendingPosition) /\ pendingPosition \in SUBSET Txns
      /\ Between /\ NothingLeftBehind
  BY BetweenComplete, Zenon DEF IInv, BatchInv, StreamInv
<1>2. PICK n \in 0..Len(Log) : pendingPosition = 1..n
  BY <1>1, Zenon DEF Complete
<1>3. g = n + 1 /\ g \in Nat
  <2>1. stream = Txns \ (1..n) /\ n \in Nat /\ g \in stream
    BY <1>1, <1>2, LogFacts DEF Complete
  <2>2. n + 1 \in stream
    BY <2>1, LogFacts
  <2> QED
    BY <2>1, <2>2, LogFacts
<1>4. Begin(currentGtid) /\ phase' = "body"
  BY Zenon DEF Covered
<1>5. NoDDLInProgress'
  BY <1>4, Zenon DEF NoDDLInProgress
<1>6. pendingPosition' = 1..n /\ dirtyTxn' /\ dirtyStream' => Body'
  BY <1>1, <1>2, <1>3, LogFacts DEF Body, Complete
<1>t. txRows \in [AllOps -> Nat]
  BY Zenon DEF IInv, TypeInv, TypeOK
<1>7. \A o \in AllOps : ~Received(o)'
  <2>1. \A o \in AllOps : o[2] \in Nat /\ o[2] # 0
    BY OpFacts, LogFacts
  <2> QED
    BY <2>1 DEF Received
<1>8. CASE /\ mayExtendBatchTxn
           /\ pendingPosition' = AppendGTID(pendingPosition, currentGtid)
           /\ dirtyStream' = TRUE
           /\ UNCHANGED <<currentPosition, ongoingBatchTxn, dirtyTxn, elapsed,
                          delta, txVars, diskVars, faults>>
  <2> USE <1>8 DEF txVars, diskVars
  <2>1. pendingPosition' = pendingPosition /\ dirtyTxn'
    BY <1>1, Zenon DEF Complete, mayExtendBatchTxn
  <2>2. FaultsBounded' /\ SavedIsPrefix' /\ DurableIsSaved' /\ NothingLeftBehind' /\ PromiseStep
    BY Zenon DEF IInv, BatchInv, FaultsBounded, SavedIsPrefix, DurableIsSaved,
       NothingLeftBehind,
           PromiseStep
  <2>3. Accounted'
    BY <1>1, <1>7, <2>1, Zenon DEF Accounted, Complete
  <2>4. StreamInv'
    BY <1>1, <1>2, <1>4, <1>6, <2>1, <2>3, Zenon DEF StreamInv, Complete
  <2> QED
    BY <1>5, <2>2, <2>4, Zenon DEF BatchInv
<1>9. CASE commitOngoingTxn(pendingPosition) /\ SetFlags(TRUE, TRUE, TRUE) /\ UNCHANGED faults
  <2>1. SavedIsPrefix' /\ DurableIsSaved' /\ PromiseStep
    BY <1>1, <1>9, CommitKeeps, Zenon DEF Complete, PromiseStep
  <2>2. /\ saved' = pendingPosition /\ pendingPosition' = pendingPosition
        /\ txRows' = Zero /\ delta' = {} /\ dirtyTxn' /\ dirtyStream'
    BY <1>9, Zenon DEF commitOngoingTxn, SetFlags
  <2>3. FaultsBounded' /\ NothingLeftBehind'
    BY <1>9, <2>2, Zenon DEF IInv, BatchInv, FaultsBounded, NothingLeftBehind
  <2>4. Accounted'
    <3> SUFFICES ASSUME NEW o \in AllOps
                 PROVE  txRows'[o] + (IF o \in delta' THEN 1 ELSE 0)
                          = IF TxnOf(o) \in pendingPosition' \ saved' \/ Received(o)' THEN 1 ELSE 0
      BY Zenon DEF Accounted
    <3>1. txRows'[o] = 0 /\ o \notin delta'
      BY <2>2, ZeroType, Zenon
    <3> QED
      BY <3>1, <2>2, <1>7
  <2>5. StreamInv'
    BY <1>2, <1>4, <1>6, <2>2, <2>4, Zenon DEF StreamInv
  <2> QED
    BY <1>5, <2>1, <2>3, <2>5, Zenon DEF BatchInv
<1>10. CASE /\ ~dirtyTxn
            /\ flushDeltaBuffer
            /\ SetFlags(TRUE, TRUE, TRUE)
            /\ UNCHANGED <<pendingPosition, currentPosition, elapsed, diskVars, faults>>
  <2> USE <1>10 DEF SetFlags, diskVars
  <2>1. pendingPosition = saved
    BY <1>1, Zenon DEF Between
  <2>2. \A o \in AllOps : txRows[o] + (IF o \in delta THEN 1 ELSE 0) = 0
    BY <1>1, <2>1, Zenon DEF Complete
  <2>3. txRows' \in [AllOps -> Nat] /\ \A o \in AllOps : txRows'[o] = 0
    BY <1>t, <2>2, PlusOnce DEF flushDeltaBuffer
  <2>4. txRows' = Zero
    BY <2>3, Zenon DEF Zero
  <2>5. FaultsBounded' /\ SavedIsPrefix' /\ DurableIsSaved' /\ NothingLeftBehind' /\ PromiseStep
    BY <2>4, Zenon DEF IInv, BatchInv, FaultsBounded, SavedIsPrefix, DurableIsSaved,
       NothingLeftBehind,
           PromiseStep
  <2>6. Accounted'
    <3> SUFFICES ASSUME NEW o \in AllOps
                 PROVE  txRows'[o] + (IF o \in delta' THEN 1 ELSE 0)
                          = IF TxnOf(o) \in pendingPosition' \ saved' \/ Received(o)' THEN 1 ELSE 0
      BY Zenon DEF Accounted
    <3>1. txRows'[o] = 0 /\ o \notin delta'
      BY <2>3, Zenon DEF flushDeltaBuffer
    <3> QED
      BY <3>1, <2>1, <1>7
  <2>7. StreamInv'
    BY <1>2, <1>4, <1>6, <2>1, <2>6, Zenon DEF StreamInv
  <2> QED
    BY <1>5, <2>5, <2>7, Zenon DEF BatchInv
<1> QED
  BY <1>4, <1>8, <1>9, <1>10, NoFaults, Zenon DEF Begin

LEMMA StopKeeps ==
    ASSUME Covered, IInv, Stop
    PROVE  BatchInv' /\ PromiseStep
<1> USE DEF Stop, streamVars, gtidVars
<1>1. RowsOnly /\ txRows = Zero
  BY NoFaults, Zenon DEF IInv, BatchInv, NothingLeftBehind
<1>2. FaultsBounded'
  BY NoFaults, FaultKeepsBound DEF Faults
<1>3. NoDDLInProgress' /\ StreamInv'
  BY Zenon DEF IInv, BatchInv, NoDDLInProgress, StreamInv
<1>4. CASE NormalCommit /\ ongoingBatchTxn /\ ~dirtyStream
  <2>1. phase = "between"
    BY <1>4, Zenon DEF IInv, BatchInv, NoDDLInProgress, StreamInv, Body
  <2>2. Complete(pendingPosition) /\ pendingPosition \in SUBSET Txns
    BY <2>1, BetweenComplete, Zenon
  <2> QED
    BY <1>2, <1>3, <1>4, <2>2, NormalCommitKeeps, Zenon
       DEF BatchInv, NothingLeftBehind, PromiseStep
<1>5. CASE UNCHANGED <<txVars, diskVars>>
  BY <1>1, <1>2, <1>3, <1>5, Zenon
     DEF IInv, BatchInv, SavedIsPrefix, DurableIsSaved, NothingLeftBehind, PromiseStep,
         txVars, diskVars
<1> QED
  BY <1>4, <1>5, NoFaults

LEMMA StartStreamKeeps ==
    ASSUME Covered, IInv, startReplicationEventStream
    PROVE  BatchInv' /\ PromiseStep
<1> USE DEF startReplicationEventStream, SetFlags, txVars, diskVars
<1>1. txRows = Zero
  BY Zenon DEF IInv, BatchInv, NothingLeftBehind
<1>2. /\ FaultsBounded' /\ SavedIsPrefix' /\ DurableIsSaved' /\ NoDDLInProgress'
      /\ NothingLeftBehind' /\ PromiseStep
  BY <1>1, Zenon DEF IInv, BatchInv, FaultsBounded, SavedIsPrefix, DurableIsSaved,
     NoDDLInProgress,
              NothingLeftBehind, PromiseStep
<1>3. Between'
  BY Zenon DEF Between
<1>4. StreamInv'
  BY <1>1, <1>3, NothingIsAccounted, Zenon DEF StreamInv
<1> QED
  BY <1>2, <1>4, Zenon DEF BatchInv

LEMMA NextKeeps ==
    ASSUME Covered, IInv, [Next]_vars
    PROVE  BatchInv' /\ PromiseStep
<1>1. ASSUME NEW g \in Txns, GTID(g) PROVE BatchInv' /\ PromiseStep
  BY <1>1, GTIDKeeps, Zenon
<1>2. CASE appendRowFormatChanges \/ SkipRows \/ writeChanges \/ Statement
  BY <1>2, EventsKeep, Zenon
<1>3. CASE XID
  <2>1. Complete(1..currentGtid) /\ 1..currentGtid \in SUBSET Txns
    BY <1>3, BodyComplete, Zenon DEF XID, Streaming
  <2> QED
    BY <1>3, <2>1, ExtendOrCommitKeeps, Zenon DEF XID, Streaming
<1>4. CASE Rotate
  <2>1. Complete(pendingPosition) /\ pendingPosition \in SUBSET Txns
    BY <1>4, BetweenComplete, Zenon DEF Rotate, Streaming
  <2> QED
    BY <1>4, <2>1, ExtendOrCommitKeeps, Zenon DEF Rotate, Streaming, streamVars
<1>5. CASE Tick
  <2>1. phase = "between"
    BY <1>5, Zenon DEF Tick, Streaming, IInv, BatchInv, NoDDLInProgress, StreamInv, Body
  <2>2. Complete(pendingPosition) /\ pendingPosition \in SUBSET Txns
    BY <1>5, <2>1, BetweenComplete, Zenon DEF Tick, Streaming
  <2> QED
    BY <1>5, <2>1, <2>2, ExtendOrCommitKeeps, Zenon DEF Tick, Streaming, streamVars
<1>6. CASE BEGIN \/ DDL \/ ExecuteDDL \/ ExecuteDDLFails \/ CommitDDL
  BY <1>6, Zenon DEF BEGIN, DDL, ExecuteDDL, ExecuteDDLFails, CommitDDL, IInv, BatchInv,
     NoDDLInProgress
<1>7. CASE StatementFlushFails \/ EventFails
  BY <1>7, NoFaults, Zenon
<1>8. CASE Elapse \/ Start \/ UNCHANGED vars
  <2> USE DEF vars, streamVars, gtidVars, flagVars, txVars, diskVars
  <2>1. /\ UNCHANGED <<stream, phase, idx, currentGtid, pendingPosition, ongoingBatchTxn,
                       dirtyTxn, dirtyStream, delta, txRows, saved, durable, faults>>
        /\ state' = state \/ (state = "stopped" /\ state' = "connecting")
    BY <1>8, Zenon DEF Elapse, Streaming, Start
  <2>2. /\ FaultsBounded' /\ SavedIsPrefix' /\ DurableIsSaved' /\ NoDDLInProgress'
        /\ NothingLeftBehind' /\ PromiseStep
    BY <2>1, Zenon DEF IInv, BatchInv, FaultsBounded, SavedIsPrefix, DurableIsSaved,
                NoDDLInProgress, NothingLeftBehind, PromiseStep
  <2>3. StreamInv'
    BY <2>1, Zenon DEF IInv, BatchInv, StreamInv, Between, Body, Accounted, Received
  <2> QED
    BY <2>2, <2>3, Zenon DEF BatchInv
<1>9. CASE Stop
  BY <1>9, StopKeeps, Zenon
<1>10. CASE Disconnect
  <2>1. RowsOnly /\ FaultsBounded'
    BY <1>10, NoFaults, FaultKeepsBound, Zenon DEF Disconnect, Faults
  <2> QED
    BY <1>10, <2>1, Zenon
       DEF Disconnect, IInv, BatchInv, SavedIsPrefix, DurableIsSaved, NoDDLInProgress,
           NothingLeftBehind, StreamInv, PromiseStep, streamVars, txVars, diskVars
<1>11. CASE startReplicationEventStream
  BY <1>11, StartStreamKeeps
<1>12. CASE Crash
  <2>1. FaultsBounded'
    BY <1>12, FaultKeepsBound, Zenon DEF Crash, Faults
  <2> QED
    BY <1>12, <2>1, Zenon
       DEF Crash, IInv, BatchInv, SavedIsPrefix, DurableIsSaved, NoDDLInProgress,
           NothingLeftBehind, StreamInv, PromiseStep, diskVars
<1> QED
  BY <1>1, <1>2, <1>3, <1>4, <1>5, <1>6, <1>7, <1>8, <1>9, <1>10, <1>11, <1>12, Zenon
     DEF Next, Events

LEMMA InitIInv == Init => IInv
<1> SUFFICES ASSUME Init PROVE IInv
  OBVIOUS
<1>1. TypeInv
  BY InitTypeInv, Zenon
<1>2. SavedIsPrefix
  <2>1. saved = 1..0 /\ 0 \in 0..Len(Log)
    BY LogFacts DEF Init
  <2> QED
    BY <2>1, Zenon DEF SavedIsPrefix
<1>3. DurableIsSaved
  BY ZeroType, Zenon DEF Init, DurableIsSaved
<1>4. FaultsBounded /\ NoDDLInProgress /\ NothingLeftBehind /\ StreamInv
  BY Zenon DEF Init, FaultsBounded, NoDDLInProgress, NothingLeftBehind, StreamInv
<1> QED
  BY <1>1, <1>2, <1>3, <1>4, Zenon DEF IInv, BatchInv

-----------------------------------------------------------------------------
(* The results. *)

\* Under Covered, the bookkeeping of batches is exact in every reachable state.
THEOREM Invariance == ASSUME Covered PROVE Spec => []IInv
<1>1. IInv /\ [Next]_vars => IInv'
  BY NextTypeInv, NextKeeps, Zenon DEF IInv
<1> QED
  BY <1>1, InitIInv, PTL DEF Spec

\* Under Covered, a transaction in the stored position has all of its changes
\* in the tables: commitOngoingTxn never records more than it has flushed.
THEOREM NothingSkipped == ASSUME Covered PROVE Spec => []SavedIsApplied
<1>1. IInv => SavedIsApplied
  <2> SUFFICES ASSUME IInv, NEW g \in saved, NEW o \in Ops(g) PROVE durable[o] >= 1
    BY Zenon DEF SavedIsApplied
  <2>1. o \in AllOps /\ TxnOf(o) = g
    BY OpFacts, Zenon DEF IInv, TypeInv, TypeOK
  <2>2. durable[o] = 1
    BY <2>1, Zenon DEF IInv, BatchInv, DurableIsSaved
  <2> QED
    BY <2>2
<1> QED
  BY <1>1, Invariance, PTL

\* Under Covered, no change is committed before its transaction is recorded:
\* what a restart sends again has left no trace in the tables.
THEOREM NothingRepeated == ASSUME Covered PROVE Spec => []AppliedIsSaved
<1>1. IInv => AppliedIsSaved
  BY OpFacts, Zenon DEF AppliedIsSaved, IInv, BatchInv, DurableIsSaved
<1> QED
  BY <1>1, Invariance, PTL

\* Under Covered, no change is committed twice, however often the batch it
\* belongs to was cut short and sent again.
THEOREM AppliedOnce == ASSUME Covered PROVE Spec => []AtMostOnce
<1>1. IInv => AtMostOnce
  <2> SUFFICES ASSUME IInv, NEW g \in Txns, NEW o \in Ops(g) PROVE durable[o] <= 1
    BY Zenon DEF AtMostOnce
  <2>1. o \in AllOps
    BY OpFacts, Zenon
  <2> QED
    BY <2>1 DEF IInv, BatchInv, DurableIsSaved
<1> QED
  BY <1>1, Invariance, PTL

\* Under Covered, the applier implements ReplicaPromise: what is on disk moves
\* by whole batches of transactions, in the source's order, position included.
THEOREM Refinement == ASSUME Covered PROVE Spec => KeepsPromise
<1>1. Init => Promise!Init
  BY Zenon DEF Init, Promise!Init, Zero
<1>2. IInv /\ [Next]_vars => [Promise!Next]_(Promise!vars)
  BY NextKeeps, Zenon DEF PromiseStep, diskVars, Promise!vars
<1> QED
  BY <1>1, <1>2, Invariance, PTL DEF Spec, KeepsPromise, Promise!Spec

\* Under Covered, the stored position never loses a transaction: no reset of
\* pendingPosition on a reconnection leads to a smaller position being saved.
THEOREM PositionMonotone == ASSUME Covered PROVE Spec => PositionGrows
<1>1. IInv /\ [Next]_vars => [saved \subseteq saved']_saved
  <2> SUFFICES ASSUME IInv, [Next]_vars, saved' # saved PROVE saved \subseteq saved'
    OBVIOUS
  <2>1. Promise!Next
    BY NextKeeps, Zenon DEF PromiseStep, diskVars
  <2> QED
    BY <2>1, Zenon DEF Promise!Next, Promise!Commit
<1> QED
  BY <1>1, Invariance, PTL DEF Spec, PositionGrows

-----------------------------------------------------------------------------
(* Whole transactions, for every log, both flavors and all kinds of events,  *)
(* as long as there is no fault but crashes.                                 *)

OnlyCrashes == \A f \in Faults \ {"crash"} : faults[f] = MaxFaults[f]

FaultsFall == \A f \in Faults : faults[f] <= MaxFaults[f]

\* What a commit would add to the tables now.
Work == Plus(txRows, Once(delta))

InBody(g) == phase = "body" /\ g = currentGtid

\* No event of g has been received: it is still to be sent, or only its GTID event
\* has been.
Unread(g) ==
    \/ g \in stream
    \/ phase = "gtid" /\ g = currentGtid /\ ~IsDDL(g)

\* Only the transaction that is being received is there in part, and in its body no
\* commit is possible: the ticker sees dirtyStream.
Untorn ==
    /\ state # "stopped"
    /\ state = "connecting" => Work = Zero
    /\ state \in {"execute", "commit"} => IsDDL(currentGtid)
    /\ phase = "body" => dirtyStream
    /\ phase # "between" => currentGtid \notin stream
    /\ phase = "gtid" => idx = 0
    /\ \A g \in Txns : \A o, p \in Ops(g) : durable[o] = durable[p]
    /\ \A g \in Txns : Unread(g) => \A o \in Ops(g) : Work[o] = 0
    /\ \A g \in Txns :
          IF InBody(g) THEN \A o \in Ops(g) : Work[o] = IF o[2] <= idx THEN 1 ELSE 0
                       ELSE \A o, p \in Ops(g) : Work[o] = Work[p]

UntornInv == TypeInv /\ FaultsFall /\ (OnlyCrashes => Untorn)

LEMMA FaultsOnlyFall ==
    ASSUME TypeInv, [Next]_vars
    PROVE  \A f \in Faults : faults'[f] <= faults[f]
<1>1. faults \in [Faults -> Nat]
  BY Zenon DEF TypeInv, TypeOK
<1>2. ASSUME NEW h \in Faults, Fault(h) PROVE \A f \in Faults : faults'[f] <= faults[f]
  BY <1>1, <1>2 DEF Fault
<1>3. CASE FlushFails
  BY <1>2, <1>3, Zenon DEF FlushFails, Faults
<1>4. CASE Stop
  <2>1. CASE faults' = [faults EXCEPT !["stop"] = @ - 1, !["flush"] = @ - 1]
    BY <1>1, <2>1 DEF Faults
  <2> QED
    BY <1>2, <1>4, <2>1, Zenon DEF Stop, Faults
<1>5. CASE UNCHANGED faults
  BY <1>1, <1>5
<1>6. CASE EventFails \/ ExecuteDDLFails \/ Disconnect \/ Crash
  BY <1>2, <1>6, Zenon DEF EventFails, ExecuteDDLFails, Disconnect, Crash, Faults
<1>7. CASE StatementFlushFails
  BY <1>3, <1>7, Zenon DEF StatementFlushFails
<1>8. CASE XID \/ Rotate \/ Tick \/ BEGIN \/ DDL \/ \E g \in Txns : GTID(g)
  <2>1. FlushFails \/ UNCHANGED faults
    BY <1>8, Zenon DEF XID, Rotate, Tick, BEGIN, DDL, GTID, extendOrCommitBatchTxn, Begin
  <2> QED
    BY <1>3, <1>5, <2>1, Zenon
<1>9. CASE \/ appendRowFormatChanges \/ SkipRows \/ writeChanges \/ Statement
           \/ ExecuteDDL \/ CommitDDL \/ Elapse \/ Start
           \/ startReplicationEventStream \/ UNCHANGED vars
  BY <1>5, <1>9, Zenon DEF appendRowFormatChanges, SkipRows, writeChanges, Statement,
     ExecuteDDL,
     CommitDDL, Elapse, Start, startReplicationEventStream, vars
<1> QED
  BY <1>4, <1>6, <1>7, <1>8, <1>9, Zenon DEF Next, Events

\* A fault other than a crash leaves its trace for good.
LEMMA OnlyCrashesBefore ==
    ASSUME TypeInv, FaultsFall, [Next]_vars, OnlyCrashes'
    PROVE  /\ OnlyCrashes
           /\ \A f \in Faults \ {"crash"} : faults'[f] = faults[f]
<1>1. faults \in [Faults -> Nat] /\ MaxFaults \in [Faults -> Nat]
  BY BoundAssumption, Zenon DEF TypeInv, TypeOK
<1>2. ASSUME NEW f \in Faults \ {"crash"}
      PROVE  faults[f] = MaxFaults[f] /\ faults'[f] = faults[f]
  <2>1. faults'[f] = MaxFaults[f] /\ faults'[f] <= faults[f] /\ faults[f] <= MaxFaults[f]
    BY FaultsOnlyFall, Zenon DEF OnlyCrashes, FaultsFall
  <2> QED
    BY <1>1, <2>1
<1> QED
  BY <1>2, Zenon DEF OnlyCrashes

LEMMA NoOtherFault ==
    ASSUME TypeInv, FaultsFall, [Next]_vars, OnlyCrashes'
    PROVE  /\ \A f \in Faults \ {"crash"} : ~Fault(f)
           /\ ~FlushFails /\ ~StatementFlushFails /\ ~EventFails
           /\ ~ExecuteDDLFails /\ ~Stop /\ ~Disconnect
<1>1. \A f \in Faults \ {"crash"} : faults'[f] = faults[f] /\ faults[f] \in Nat
  BY OnlyCrashesBefore, Zenon DEF TypeInv, TypeOK
<1>2. \A f \in Faults \ {"crash"} : ~Fault(f)
  BY <1>1 DEF Fault, TypeInv, TypeOK
<1>3. /\ ~Fault("flush") /\ ~Fault("event") /\ ~Fault("stop") /\ ~Fault("disconnect")
  BY <1>2, Zenon DEF Faults
<1>4. ~(faults' = [faults EXCEPT !["stop"] = @ - 1, !["flush"] = @ - 1])
  BY <1>1 DEF Faults, TypeInv, TypeOK
<1> QED
  BY <1>2, <1>3, <1>4, Zenon DEF FlushFails, StatementFlushFails, EventFails, ExecuteDDLFails,
     Stop, Disconnect

-----------------------------------------------------------------------------
(* What steps do with the rows: nothing, or a commit of all of them. *)

Held == Work' = Work /\ durable' = durable
Committed == Work' = Zero /\ durable' = Plus(durable, Work)

EvenWork == \A g \in Txns : \A o, p \in Ops(g) : Work[o] = Work[p]

LEMMA WorkType == ASSUME TypeOK
                  PROVE  /\ Work \in [AllOps -> Nat]
                         /\ \A o \in AllOps : Work[o] = txRows[o] + (IF o \in delta THEN 1 ELSE 0)
  BY PlusOnce DEF TypeOK, Work

LEMMA CommitMoves == ASSUME NEW pos, commitOngoingTxn(pos) PROVE Committed
<1>1. Plus(Zero, Once({})) = Zero
  BY DEF Plus, Zero, Once
<1>2. Work' = Plus(txRows', Once(delta'))
  BY Zenon DEF Work
<1> QED
  BY <1>1, <1>2, Zenon DEF Committed, commitOngoingTxn, Work

LEMMA FlushMoves == ASSUME TypeOK, flushDeltaBuffer PROVE Work' = Work
<1>1. Work \in [AllOps -> Nat]
  BY WorkType, Zenon
<1>2. Plus(Work, Once({})) = Work
  BY <1>1 DEF Plus, Once
<1>3. Work' = Plus(txRows', Once(delta'))
  BY Zenon DEF Work
<1> QED
  BY <1>2, <1>3, Zenon DEF flushDeltaBuffer, Work

LEMMA SameMoves == ASSUME UNCHANGED <<delta, txRows>> PROVE Work' = Work
  BY Zenon DEF Work

LEMMA ExtendMoves ==
    ASSUME extendOrCommitBatchTxn, ~FlushFails
    PROVE  Held \/ Committed
<1>1. CASE mayExtendBatchTxn
  BY <1>1, SameMoves, Zenon DEF extendOrCommitBatchTxn, txVars, diskVars, Held
<1>2. CASE NormalCommit
  BY <1>2, CommitMoves, Zenon DEF NormalCommit
<1> QED
  BY <1>1, <1>2, Zenon DEF extendOrCommitBatchTxn

LEMMA BeginMoves ==
    ASSUME TypeOK, NEW prev, Begin(prev), ~FlushFails
    PROVE  (Held \/ Committed) /\ dirtyStream'
<1>1. CASE mayExtendBatchTxn
  BY <1>1, SameMoves, Zenon DEF Begin, txVars, diskVars, Held
<1>2. CASE commitOngoingTxn(pendingPosition) /\ SetFlags(TRUE, TRUE, TRUE)
  BY <1>2, CommitMoves, Zenon DEF SetFlags
<1>3. CASE flushDeltaBuffer /\ SetFlags(TRUE, TRUE, TRUE) /\ UNCHANGED diskVars
  BY <1>3, FlushMoves, Zenon DEF SetFlags, diskVars, Held
<1> QED
  BY <1>1, <1>2, <1>3, Zenon DEF Begin

\* Rows that are even before such a step are even after it.
LEMMA MovesEven ==
    ASSUME TypeOK, Untorn, EvenWork, Held \/ Committed
    PROVE  /\ \A g \in Txns : \A o, p \in Ops(g) : durable'[o] = durable'[p]
           /\ EvenWork'
           /\ \A g \in Txns : Unread(g) => \A o \in Ops(g) : Work'[o] = 0
<1>1. CASE Held
  <2>1. EvenWork'
    BY <1>1, Zenon DEF Held, EvenWork
  <2> QED
    BY <1>1, <2>1, Zenon DEF Held, Untorn
<1>2. CASE Committed
  <2>1. \A g \in Txns : \A o \in Ops(g) : Work'[o] = 0
    BY <1>2, OpFacts, ZeroType, Zenon DEF Committed
  <2>2. EvenWork'
    BY <2>1, Zenon DEF EvenWork
  <2>3. ASSUME NEW g \in Txns, NEW o \in Ops(g), NEW p \in Ops(g)
        PROVE  durable'[o] = durable'[p]
    <3>1. o \in AllOps /\ p \in AllOps
      BY OpFacts, Zenon
    <3>2. durable'[o] = durable[o] + Work[o] /\ durable'[p] = durable[p] + Work[p]
      BY <1>2, <3>1, Zenon DEF Committed, Plus
    <3> QED
      BY <3>2, Zenon DEF Untorn, EvenWork
  <2> QED
    BY <2>1, <2>2, <2>3, Zenon
<1> QED
  BY <1>1, <1>2, Zenon

-----------------------------------------------------------------------------
(* The steps of the handler. *)

LEMMA DDLIsAlone ==
    ASSUME NEW g \in Txns, IsDDL(g) PROVE \A o, p \in Ops(g) : o = p
<1>1. Log[g] # <<>> /\ Log[g] \in Seq([kind : Kinds, table : STRING])
  BY LogAssumption DEF Txns
<1>2. 1 \in 1..Len(Log[g])
  BY <1>1
<1>3. Len(Log[g]) = 1
  BY <1>2, LogAssumption, Zenon DEF IsDDL
<1> QED
  BY <1>3 DEF Ops

\* Outside a body nothing is there in part; at its end neither.
LEMMA EvenOutside ==
    ASSUME TypeInv, Untorn, phase = "body" => idx = Len(Log[currentGtid])
    PROVE  EvenWork
<1> SUFFICES ASSUME NEW g \in Txns, NEW o \in Ops(g), NEW p \in Ops(g)
             PROVE  Work[o] = Work[p]
  BY Zenon DEF EvenWork
<1>1. CASE InBody(g)
  <2>1. o[2] <= idx /\ p[2] <= idx
    BY <1>1, LogFacts, OpFacts DEF InBody
  <2> QED
    BY <1>1, <2>1, Zenon DEF Untorn
<1> QED
  BY <1>1, Zenon DEF Untorn

\* An event of the body: its rows are added to the rest, or it is filtered out.
LEMMA EventUntorn ==
    ASSUME TypeInv, Untorn, NEW kind, Event(kind), dirtyStream',
           IF kind = "skip" THEN Work' = Work ELSE Work' = Plus(Work, Once({Op}))
    PROVE  Untorn'
<1>1. /\ currentGtid \in Txns /\ currentGtid \notin stream /\ idx \in Nat
      /\ InBody(currentGtid)
      /\ Work \in [AllOps -> Nat]
  BY EventType, WorkType, Zenon DEF TypeInv, TypeOK, Untorn, Event, InBody
<1>2. /\ state' = "streaming" /\ state = "streaming" /\ phase' = "body" /\ phase = "body"
      /\ stream' = stream /\ currentGtid' = currentGtid /\ idx' = idx + 1
      /\ durable' = durable
  BY Zenon DEF Event, Streaming, gtidVars, diskVars
<1>3. ASSUME NEW g \in Txns, g # currentGtid, NEW o \in Ops(g) PROVE Work'[o] = Work[o]
  <2>1. o \in AllOps /\ o # Op
    BY <1>3, OpFacts DEF Op, TxnOf
  <2> QED
    BY <1>1, <2>1 DEF Plus, Once
<1>4. ASSUME NEW o \in Ops(currentGtid)
      PROVE  Work'[o] = IF o[2] <= idx' THEN 1 ELSE 0
  <2>1. /\ o \in AllOps /\ o = <<currentGtid, o[2]>> /\ o[2] \in Nat
        /\ Log[currentGtid][o[2]].kind # "skip"
    BY <1>1, OpFacts, OpIsPair, LogFacts
  <2>2. Work[o] = IF o[2] <= idx THEN 1 ELSE 0
    BY <1>1, Zenon DEF Untorn
  <2>3. CASE o[2] = idx + 1
    <3>1. kind # "skip" /\ o = Op
      BY <2>1, <2>3, Zenon DEF Event, Op
    <3>2. Work'[o] = Work[o] + 1
      BY <1>1, <2>1, <3>1, Zenon DEF Plus, Once
    <3> QED
      BY <1>1, <1>2, <2>2, <2>3, <3>2
  <2>4. CASE o[2] # idx + 1
    <3>1. o # Op
      BY <2>4 DEF Op
    <3>2. Work'[o] = Work[o]
      BY <1>1, <2>1, <3>1 DEF Plus, Once
    <3> QED
      BY <1>1, <1>2, <2>1, <2>2, <2>4, <3>2
  <2> QED
    BY <2>3, <2>4, Zenon
<1>5. \A g \in Txns : Unread(g)' => Unread(g) /\ g # currentGtid
  BY <1>1, <1>2, Zenon DEF Unread
<1>6. \A g \in Txns : InBody(g)' <=> g = currentGtid
  BY <1>2, Zenon DEF InBody
<1>7. \A g \in Txns : Unread(g)' => \A o \in Ops(g) : Work'[o] = 0
  BY <1>3, <1>5, Zenon DEF Untorn
<1>8. \A g \in Txns :
         IF InBody(g)' THEN \A o \in Ops(g) : Work'[o] = IF o[2] <= idx' THEN 1 ELSE 0
                       ELSE \A o, p \in Ops(g) : Work'[o] = Work'[p]
  BY <1>3, <1>4, <1>6, ZenonT(30) DEF Untorn, InBody
<1>9. \A g \in Txns : \A o, p \in Ops(g) : durable'[o] = durable'[p]
  BY <1>2, Zenon DEF Untorn
<1> QED
  BY <1>1, <1>2, <1>7, <1>8, <1>9, Zenon DEF Untorn

LEMMA EventsUntorn ==
    ASSUME TypeInv, Untorn, appendRowFormatChanges \/ SkipRows \/ writeChanges \/ Statement
    PROVE  Untorn'
<1> USE DEF SetFlags
<1>1. /\ txRows \in [AllOps -> Nat] /\ delta \in SUBSET AllOps /\ Work \in [AllOps -> Nat]
  BY WorkType, Zenon DEF TypeInv, TypeOK
<1>2. Work' = Plus(txRows', Once(delta'))
  BY Zenon DEF Work
<1>3. CASE appendRowFormatChanges
  <2>1. Event("row") /\ dirtyStream'
    BY <1>3, Zenon DEF appendRowFormatChanges
  <2>2. currentGtid \in Txns /\ Op \in AllOps
    BY <2>1, EventType
  <2>3. Op \in Ops(currentGtid) /\ InBody(currentGtid) /\ ~(Op[2] <= idx)
    <3>1. TxnOf(Op) = currentGtid /\ Op[2] = idx + 1 /\ idx \in Nat
      BY Zenon DEF Op, TxnOf, TypeInv, TypeOK
    <3>2. Op \in Ops(currentGtid)
      BY <2>2, <3>1, OpFacts, Zenon DEF AllOps
    <3> QED
      BY <2>1, <3>1, <3>2 DEF Event, InBody
  <2>4. Work[Op] = 0
    BY <2>2, <2>3, Zenon DEF Untorn
  <2>5. Op \notin delta
    BY <1>1, <2>2, <2>4, WorkType DEF TypeInv
  <2>6. Plus(txRows, Once(delta \union {Op})) = Plus(Work, Once({Op}))
    BY <1>1, <2>2, <2>5 DEF Work, Plus, Once
  <2> QED
    BY <1>2, <1>3, <2>1, <2>6, EventUntorn, Zenon DEF appendRowFormatChanges, txVars
<1>4. CASE SkipRows
  BY <1>4, SameMoves, EventUntorn, Zenon DEF SkipRows, txVars
<1>5. CASE writeChanges
  <2>1. Plus(Plus(txRows, Once({Op})), Once(delta)) = Plus(Work, Once({Op}))
    BY <1>1 DEF Work, Plus, Once
  <2> QED
    BY <1>2, <1>5, <2>1, EventUntorn, Zenon DEF writeChanges
<1>6. CASE Statement
  <2>1. Plus(Plus(Work, Once({Op})), Once({})) = Plus(Work, Once({Op}))
    BY <1>1 DEF Plus, Once
  <2> QED
    BY <1>2, <1>6, <2>1, EventUntorn, Zenon DEF Statement, Work
<1> QED
  BY <1>3, <1>4, <1>5, <1>6, Zenon

\* A step outside the body, or out of it, that moves all rows or none.
LEMMA MoveUntorn ==
    ASSUME TypeInv, Untorn, EvenWork, Held \/ Committed,
           phase' # "body",
           phase' # "between" => currentGtid' \notin stream' /\ idx' = 0,
           \A g \in Txns : Unread(g)' => Unread(g),
           state' \notin {"stopped", "connecting"},
           state' \in {"execute", "commit"} => IsDDL(currentGtid')
    PROVE  Untorn'
<1>1. /\ \A g \in Txns : \A o, p \in Ops(g) : durable'[o] = durable'[p]
      /\ EvenWork'
      /\ \A g \in Txns : Unread(g) => \A o \in Ops(g) : Work'[o] = 0
  BY MovesEven, Zenon DEF TypeInv
<1>2. \A g \in Txns : \A o, p \in Ops(g) : Work'[o] = Work'[p]
  BY <1>1, Zenon DEF EvenWork
<1>3. \A g \in Txns : ~InBody(g)'
  BY Zenon DEF InBody
<1>4. \A g \in Txns : Unread(g)' => \A o \in Ops(g) : Work'[o] = 0
  BY <1>1, Zenon
<1> QED
  BY <1>1, <1>2, <1>3, <1>4, Zenon DEF Untorn

\* The body begins: nothing of the transaction has been received.
LEMMA BodyUntorn ==
    ASSUME TypeInv, Untorn, EvenWork, NEW g \in Txns, Unread(g),
           Held \/ Committed, dirtyStream',
           state' = "streaming", phase' = "body", idx' = 0, currentGtid' = g,
           stream' = stream \ {g}
    PROVE  Untorn'
<1>1. /\ \A h \in Txns : \A o, p \in Ops(h) : durable'[o] = durable'[p]
      /\ EvenWork'
      /\ \A h \in Txns : Unread(h) => \A o \in Ops(h) : Work'[o] = 0
  BY MovesEven, Zenon DEF TypeInv
<1>2. \A h \in Txns : Unread(h)' => Unread(h)
  BY Zenon DEF Unread
<1>3. \A h \in Txns : InBody(h)' <=> h = g
  BY Zenon DEF InBody
<1>4. \A o \in Ops(g) : Work'[o] = IF o[2] <= idx' THEN 1 ELSE 0
  <2> SUFFICES ASSUME NEW o \in Ops(g) PROVE Work'[o] = IF o[2] <= idx' THEN 1 ELSE 0
    OBVIOUS
  <2>1. o[2] \in 1..Len(Log[g]) /\ Len(Log[g]) \in Nat
    BY OpFacts, LogFacts, Zenon
  <2>2. ~(o[2] <= idx')
    BY <2>1
  <2> QED
    BY <1>1, <2>2, Zenon
<1>5. \A h \in Txns :
         IF InBody(h)' THEN \A o \in Ops(h) : Work'[o] = IF o[2] <= idx' THEN 1 ELSE 0
                       ELSE \A o, p \in Ops(h) : Work'[o] = Work'[p]
  BY <1>1, <1>3, <1>4, Zenon DEF EvenWork
<1>6. \A h \in Txns : Unread(h)' => \A o \in Ops(h) : Work'[o] = 0
  BY <1>1, <1>2, Zenon
<1> QED
  BY <1>1, <1>5, <1>6, Zenon DEF Untorn

LEMMA NextUntorn == UntornInv /\ [Next]_vars => UntornInv'
<1> SUFFICES ASSUME TypeInv, FaultsFall, OnlyCrashes => Untorn, [Next]_vars, OnlyCrashes'
             PROVE  Untorn'
  <2>1. UntornInv /\ [Next]_vars => TypeInv' /\ FaultsFall'
    <3> SUFFICES ASSUME UntornInv, [Next]_vars PROVE TypeInv' /\ FaultsFall'
      OBVIOUS
    <3>1. /\ faults \in [Faults -> Nat] /\ faults' \in [Faults -> Nat]
          /\ MaxFaults \in [Faults -> Nat]
      BY NextTypeInv, BoundAssumption, Zenon DEF UntornInv, TypeInv, TypeOK
    <3> QED
      BY <3>1, NextTypeInv, FaultsOnlyFall DEF UntornInv, FaultsFall
  <2> QED
    BY <2>1, Zenon DEF UntornInv
<1>u. TypeOK /\ Untorn
  BY OnlyCrashesBefore, Zenon DEF TypeInv
<1>n. /\ ~FlushFails /\ ~StatementFlushFails /\ ~EventFails /\ ~ExecuteDDLFails
      /\ ~Stop /\ ~Disconnect
  BY NoOtherFault, Zenon
<1>e. phase # "body" => EvenWork
  BY <1>u, EvenOutside, Zenon
<1>1. ASSUME NEW g \in Txns, GTID(g) PROVE Untorn'
  <2>1. EvenWork /\ Unread(g)
    BY <1>1, <1>e, Zenon DEF GTID, Unread
  <2>2. CASE MariaDB /\ ~IsDDL(g)
    <3>1. (Held \/ Committed) /\ dirtyStream'
      BY <1>1, <1>n, <1>u, <2>2, BeginMoves, Zenon DEF GTID
    <3> QED
      BY <1>1, <1>u, <2>1, <2>2, <3>1, BodyUntorn, Zenon DEF GTID, Streaming
  <2>3. CASE ~(MariaDB /\ ~IsDDL(g))
    <3>1. Held /\ phase' = "gtid"
      BY <1>1, <2>3, SameMoves, Zenon DEF GTID, Held, txVars, diskVars
    <3>2. \A h \in Txns : Unread(h)' => Unread(h)
      BY <1>1, <3>1, Zenon DEF GTID, Unread
    <3> QED
      BY <1>1, <1>u, <2>1, <3>1, <3>2, MoveUntorn, Zenon DEF GTID, Streaming
  <2> QED
    BY <2>2, <2>3, Zenon
<1>2. CASE BEGIN
  <2>1. /\ currentGtid \in Txns /\ Unread(currentGtid) /\ EvenWork
        /\ currentGtid \notin stream
    BY <1>2, <1>e, <1>u, Zenon DEF BEGIN, Unread, TypeInv, TypeOK, Untorn
  <2>2. (Held \/ Committed) /\ dirtyStream'
    BY <1>2, <1>n, <1>u, BeginMoves, Zenon DEF BEGIN
  <2>3. idx' = 0 /\ stream' = stream \ {currentGtid}
    BY <1>2, <1>u, <2>1, Zenon DEF BEGIN, Untorn
  <2> QED
    BY <1>2, <1>u, <2>1, <2>2, <2>3, BodyUntorn, Zenon DEF BEGIN, Streaming, gtidVars
<1>3. CASE appendRowFormatChanges \/ SkipRows \/ writeChanges \/ Statement
  BY <1>3, <1>u, EventsUntorn, Zenon
<1>4. CASE XID \/ Rotate \/ Tick
  <2>1. EvenWork
    BY <1>4, <1>u, EvenOutside, Zenon DEF XID, Rotate, Tick, Untorn
  <2>2. Held \/ Committed
    BY <1>4, <1>n, ExtendMoves, Zenon DEF XID, Rotate, Tick
  <2>3. /\ phase' # "body" /\ phase' \in {"between", phase} /\ state' = "streaming"
        /\ currentGtid' = currentGtid /\ stream' = stream /\ idx' = idx
    BY <1>4, <1>u, Zenon DEF XID, Rotate, Tick, Streaming, streamVars, gtidVars, Untorn
  <2>4. \A h \in Txns : Unread(h)' => Unread(h)
    BY <2>3, Zenon DEF Unread
  <2>5. phase' # "between" => currentGtid' \notin stream' /\ idx' = 0
    BY <1>u, <2>3, Zenon DEF Untorn, TypeOK
  <2> QED
    BY <1>u, <2>1, <2>2, <2>3, <2>4, <2>5, MoveUntorn, Zenon
<1>5. CASE DDL
  <2>1. /\ state' = "execute" /\ phase' = phase /\ phase = "gtid" /\ IsDDL(currentGtid)
        /\ currentGtid' = currentGtid /\ stream' = stream /\ idx' = idx
    BY <1>5, <1>n, Zenon DEF DDL, gtidVars
  <2>2. Held \/ Committed
    <3>1. CASE commitOngoingTxn(pendingPosition)
      BY <3>1, CommitMoves, Zenon
    <3>2. CASE flushDeltaBuffer /\ UNCHANGED diskVars
      BY <3>2, <1>u, FlushMoves, Zenon DEF Held, diskVars
    <3> QED
      BY <1>5, <1>n, <3>1, <3>2, Zenon DEF DDL
  <2>3. \A h \in Txns : Unread(h)' => Unread(h)
    BY <2>1, Zenon DEF Unread
  <2> QED
    BY <1>e, <1>u, <2>1, <2>2, <2>3, MoveUntorn, Zenon DEF Untorn
<1>6. CASE ExecuteDDL
  <2>1. /\ state' = "commit" /\ state = "execute" /\ phase' = phase /\ phase = "gtid"
        /\ IsDDL(currentGtid) /\ currentGtid \in Txns
        /\ currentGtid' = currentGtid /\ stream' = stream /\ currentGtid \notin stream
        /\ idx' = 0
    BY <1>6, <1>u, Zenon DEF ExecuteDDL, gtidVars, streamVars, Untorn, TypeInv, TypeOK
  <2>2. \A o, p \in Ops(currentGtid) : o = p
    BY <2>1, DDLIsAlone, Zenon
  <2>3. /\ txRows \in [AllOps -> Nat] /\ durable \in [AllOps -> Nat]
        /\ Work \in [AllOps -> Nat] /\ delta \in SUBSET AllOps
    BY <1>u, WorkType, Zenon DEF TypeOK
  <2>4. ASSUME NEW g \in Txns, g # currentGtid, NEW o \in Ops(g)
        PROVE  durable'[o] = durable[o] /\ Work'[o] = Work[o]
    <3>1. o \in AllOps /\ o \notin Ops(currentGtid)
      BY <2>1, <2>4, OpFacts, Zenon
    <3>2. Plus(txRows, Once(Ops(currentGtid)))[o] = txRows[o]
      BY <2>3, <3>1, PlusOnce
    <3>3. durable'[o] = durable[o] /\ txRows'[o] = txRows[o]
      BY <1>6, <2>3, <3>1, <3>2, PlusOnce DEF ExecuteDDL
    <3>4. Work'[o] = txRows'[o] + Once(delta')[o]
      BY <3>1, Zenon DEF Work, Plus
    <3>5. Work[o] = txRows[o] + Once(delta)[o] /\ delta' = delta
      BY <1>6, <3>1, Zenon DEF Work, Plus, ExecuteDDL
    <3> QED
      BY <3>3, <3>4, <3>5, Zenon
  <2>5. \A g \in Txns : Unread(g)' => Unread(g) /\ g # currentGtid
    BY <2>1, Zenon DEF Unread
  <2>6. \A g \in Txns : ~InBody(g) /\ ~InBody(g)'
    BY <2>1, Zenon DEF InBody
  <2>7. ASSUME NEW g \in Txns, NEW o \in Ops(g), NEW p \in Ops(g)
        PROVE  durable'[o] = durable'[p] /\ Work'[o] = Work'[p]
    <3>1. CASE g = currentGtid
      BY <2>2, <3>1, Zenon
    <3>2. CASE g # currentGtid
      <4>1. durable[o] = durable[p] /\ Work[o] = Work[p]
        BY <1>u, <2>6, Zenon DEF Untorn
      <4> QED
        BY <2>4, <3>2, <4>1, Zenon
    <3> QED
      BY <3>1, <3>2, Zenon
  <2>8. \A g \in Txns : Unread(g)' => \A o \in Ops(g) : Work'[o] = 0
    BY <1>u, <2>4, <2>5, Zenon DEF Untorn
  <2> QED
    BY <2>1, <2>6, <2>7, <2>8, Zenon DEF Untorn
<1>7. CASE CommitDDL
  <2>1. /\ state' = "streaming" /\ phase' = "between" /\ phase = "gtid" /\ stream' = stream
        /\ currentGtid' = currentGtid
    BY <1>7, Zenon DEF CommitDDL, TypeInv, gtidVars
  <2>2. Committed
    BY <1>7, CommitMoves, Zenon DEF CommitDDL, NormalCommit
  <2>3. \A h \in Txns : Unread(h)' => Unread(h)
    BY <2>1, Zenon DEF Unread
  <2> QED
    BY <1>e, <1>u, <2>1, <2>2, <2>3, MoveUntorn, Zenon
<1>8. CASE Elapse \/ UNCHANGED vars
  <2>1. UNCHANGED <<state, streamVars, gtidVars, flagVars, delta, txVars, diskVars>>
    BY <1>8, Zenon DEF Elapse, Streaming, vars
  <2>2. Work' = Work
    BY <2>1, SameMoves, Zenon DEF txVars
  <2> QED
    BY <1>u, <2>1, <2>2, Zenon DEF Untorn, Unread, InBody, streamVars, gtidVars, flagVars,
       diskVars
<1>9. CASE Start
  BY <1>9, <1>u, Zenon DEF Start, Untorn
<1>10. CASE startReplicationEventStream
  <2>1. /\ state' = "streaming" /\ phase' = "between" /\ durable' = durable
        /\ txRows' = txRows /\ delta' = {}
    BY <1>10, Zenon DEF startReplicationEventStream, txVars, diskVars
  <2>2. Work = Zero
    BY <1>10, <1>u, Zenon DEF startReplicationEventStream, Untorn
  <2>3. \A o \in AllOps : Work'[o] = 0
    <3> SUFFICES ASSUME NEW o \in AllOps PROVE Work'[o] = 0
      OBVIOUS
    <3>1. txRows[o] + (IF o \in delta THEN 1 ELSE 0) = 0 /\ txRows[o] \in Nat
      BY <1>u, <2>2, WorkType, ZeroType, Zenon DEF TypeOK
    <3>2. Work'[o] = txRows'[o] + Once(delta')[o]
      BY Zenon DEF Work, Plus
    <3>3. Once(delta')[o] = 0
      BY <2>1, Zenon DEF Once
    <3> QED
      BY <2>1, <3>1, <3>2, <3>3
  <2>4. \A g \in Txns : \A o \in Ops(g) : Work'[o] = 0
    BY <2>3, OpFacts, Zenon
  <2>5. \A g \in Txns : ~InBody(g)'
    BY <2>1, Zenon DEF InBody
  <2> QED
    BY <1>u, <2>1, <2>4, <2>5, Zenon DEF Untorn
<1>11. CASE Crash
  <2>1. /\ phase' = "between" /\ durable' = durable /\ state' = "connecting"
    BY <1>11, <1>u, Zenon DEF Crash, diskVars, Untorn
  <2>2. Plus(Zero, Once({})) = Zero
    BY DEF Plus, Zero, Once
  <2>3. Work' = Zero
    BY <1>11, <2>2, Zenon DEF Crash, Work
  <2>4. \A g \in Txns : \A o \in Ops(g) : Work'[o] = 0
    BY <2>3, OpFacts, ZeroType, Zenon
  <2>5. \A g \in Txns : ~InBody(g)'
    BY <2>1, Zenon DEF InBody
  <2> QED
    BY <1>u, <2>1, <2>3, <2>4, <2>5, Zenon DEF Untorn
<1> QED
  BY <1>n, <1>1, <1>2, <1>3, <1>4, <1>5, <1>6, <1>7, <1>8, <1>9, <1>10, <1>11, Zenon DEF Next,
     Events

LEMMA InitUntorn == Init => UntornInv
<1> SUFFICES ASSUME Init PROVE UntornInv
  OBVIOUS
<1>1. TypeInv
  BY InitTypeInv
<1>2. FaultsFall
  BY BoundAssumption DEF Init, FaultsFall
<1>3. Plus(Zero, Once({})) = Zero
  BY DEF Plus, Zero, Once
<1>4. Work = Zero
  BY <1>3, Zenon DEF Init, Work
<1>5. \A g \in Txns : \A o \in Ops(g) : Work[o] = 0 /\ durable[o] = 0
  BY <1>4, OpFacts, ZeroType, Zenon DEF Init
<1>6. Untorn
  BY <1>4, <1>5, Zenon DEF Init, Untorn, InBody
<1> QED
  BY <1>1, <1>2, <1>6, Zenon DEF UntornInv

\* For every log, both GTID flavors and all kinds of events, as long as there are
\* no faults but crashes, a reader never sees a part of a transaction: whatever a
\* batch mixes, commitOngoingTxn is not reached between a BEGIN and its XID.
THEOREM NeverTorn == Spec => []NoTornTransaction
<1>1. UntornInv => NoTornTransaction
  BY Zenon DEF UntornInv, OnlyCrashes, Untorn, NoTornTransaction
<1> QED
  BY <1>1, InitUntorn, NextUntorn, PTL DEF Spec

\* For every log, both flavors and all faults, a transaction that is reported as
\* executed is in the stored position: no failed commit and no reconnection lets
\* currentPosition run ahead of the disk.
THEOREM ReportsAreStored == Spec => []ReportedIsStored
<1>1. Init => ReportedIsStored
  BY Zenon DEF Init, ReportedIsStored
<1>2. ReportedIsStored /\ [Next]_vars => ReportedIsStored'
  <2> SUFFICES ASSUME ReportedIsStored, [Next]_vars PROVE ReportedIsStored'
    OBVIOUS
  <2> USE DEF ReportedIsStored
  <2>1. CASE UNCHANGED <<currentPosition, saved>>
    BY <2>1, Zenon
  <2>2. ASSUME NEW pos, commitOngoingTxn(pos) PROVE ReportedIsStored'
    BY <2>2, Zenon DEF commitOngoingTxn
  <2>3. CASE FlushFails \/ RollbackFailedFlush
    BY <2>1, <2>3, Zenon DEF FlushFails, RollbackFailedFlush, diskVars
  <2>4. CASE extendOrCommitBatchTxn
    BY <2>1, <2>2, <2>3, <2>4, Zenon DEF extendOrCommitBatchTxn, NormalCommit, diskVars
  <2>5. ASSUME NEW prev, Begin(prev) PROVE ReportedIsStored'
    BY <2>1, <2>2, <2>3, <2>5, Zenon DEF Begin, diskVars
  <2>6. CASE Events
    <3>1. CASE \E g \in Txns : GTID(g)
      BY <2>1, <2>5, <3>1, Zenon DEF GTID, diskVars
    <3>2. CASE BEGIN \/ XID
      BY <2>4, <2>5, <3>2, Zenon DEF BEGIN, XID
    <3>3. CASE \/ appendRowFormatChanges \/ SkipRows \/ writeChanges \/ Statement
               \/ StatementFlushFails \/ EventFails
      BY <2>1, <3>3, Zenon DEF appendRowFormatChanges, SkipRows, writeChanges, Statement,
         StatementFlushFails, EventFails, Event, diskVars
    <3>4. CASE DDL
      BY <2>1, <2>2, <2>3, <3>4, Zenon DEF DDL, diskVars
    <3>5. CASE ExecuteDDL \/ ExecuteDDLFails
      BY <2>1, <3>5, Zenon DEF ExecuteDDL, ExecuteDDLFails, diskVars
    <3>6. CASE CommitDDL
      BY <2>2, <3>6, Zenon DEF CommitDDL, NormalCommit
    <3> QED
      BY <2>6, <3>1, <3>2, <3>3, <3>4, <3>5, <3>6, Zenon DEF Events
  <2>7. CASE Rotate \/ Tick
    BY <2>4, <2>7, Zenon DEF Rotate, Tick
  <2>8. CASE Stop
    BY <2>1, <2>2, <2>3, <2>8, Zenon DEF Stop, NormalCommit, diskVars
  <2>9. CASE Elapse \/ Start \/ Disconnect \/ UNCHANGED vars
    BY <2>1, <2>9, Zenon DEF Elapse, Start, Disconnect, vars, diskVars
  <2>10. CASE startReplicationEventStream \/ Crash
    BY <2>10, Zenon DEF startReplicationEventStream, Crash, diskVars
  <2> QED
    BY <2>6, <2>7, <2>8, <2>9, <2>10, Zenon DEF Next
<1> QED
  BY <1>1, <1>2, PTL DEF Spec

=============================================================================
