---------------------------- MODULE ServerProofs -----------------------------
(***************************************************************************)
(* Four parts of the server, each for any number of everything: the delta  *)
(* buffer (Delta), the commands that start and stop the applier            *)
(* (ReplicaController), the goroutines that read events (EventProducer)    *)
(* and those that deliver a result (QueryResult).                          *)
(*                                                                         *)
(* The delta buffer comes first: a flush leaves the base table equal to    *)
(* the source's table, for every set of keys and values, every mixture of  *)
(* events and every configuration, as long as one source server numbers    *)
(* the transactions.  Its invariant needs five strengthenings.  Tagged     *)
(* orders the buffered rows before any row appended later.  LastIsSource   *)
(* says that the last row of every buffered key is what the source holds.  *)
(* UntouchedAgrees covers the keys without buffered rows.  Classified is   *)
(* what the event counters are trusted for when updateTable takes one of   *)
(* its shortcuts.  Replayable makes up for a failed flush: until the next  *)
(* one the base table is what the stored position says.                    *)
(***************************************************************************)
EXTENDS Delta, ReplicaController, EventProducer, QueryResult, TLAPS

OneServer == \E s : Servers = {s}

\* Rows appended later sort after every buffered row.
Tagged ==
    \A e \in buf : \/ e.txn_seq < seq[server]
                   \/ e.txn_seq = seq[server] /\ e.txn_stmt < stmt

\* e sorts after all other buffered rows of its key.
IsLast(e, k) ==
    /\ e \in EntriesOf(k)
    /\ \A f \in EntriesOf(k) : f # e => Precedes(f, e)

LastIsSource ==
    \A k \in Keys : EntriesOf(k) # {} =>
        \E e \in buf :
            /\ IsLast(e, k)
            /\ e.action = InsertRowEvent => src[k] = e.val
            /\ e.action = DeleteRowEvent => src[k] = None

UntouchedAgrees ==
    lost = "none" => \A k \in Keys : EntriesOf(k) = {} => tbl[k] = src[k]

InsertsOnly ==
    \A e \in buf : /\ e.action = InsertRowEvent
                   /\ lost = "none" => tbl[e.key] = None
                   /\ \A f \in buf : f.key = e.key => f = e

Classified ==
    /\ ~seen.delete /\ ~seen.update => InsertsOnly
    /\ ~seen.insert /\ ~seen.update =>
           \A e \in buf : e.action = DeleteRowEvent
    /\ ~seen.deletions => \A e \in buf : e.action = InsertRowEvent

\* INSERT rows carry values.
Values == \A e \in buf : e.action = InsertRowEvent => e.val \in Vals

Replayable == lost # "table" => tbl = stored.rows

IInv ==
    /\ TypeOK
    /\ Values
    /\ Tagged
    /\ LastIsSource
    /\ UntouchedAgrees
    /\ Classified
    /\ Replayable

-----------------------------------------------------------------------------

\* The row LAST selects for a key is the one that sorts after all others.
LEMMA CondensedIsLast ==
    ASSUME buf \in SUBSET Entry, NEW k \in Keys, NEW e \in buf, IsLast(e, k)
    PROVE  Condensed(k) = e
<1>1. e \in EntriesOf(k)
  BY Zenon DEF IsLast
<1>2. \A f \in EntriesOf(k) : f \in Entry
  BY Zenon DEF EntriesOf
<1>3. \A f \in EntriesOf(k) : ~Precedes(e, f)
  <2> TAKE f \in EntriesOf(k)
  <2>1. f \in Entry /\ e \in Entry
    BY <1>1, <1>2, Zenon
  <2>2. CASE f = e
    BY <2>1, <2>2 DEF Precedes, Entry, DeleteRowEvent, InsertRowEvent
  <2>3. CASE f # e
    <3>1. Precedes(f, e)
      BY <2>3, Zenon DEF IsLast
    <3> QED
      BY <2>1, <3>1 DEF Precedes, Entry, DeleteRowEvent, InsertRowEvent
  <2> QED
    BY <2>2, <2>3, Zenon
<1>4. \A x \in EntriesOf(k) : (\A f \in EntriesOf(k) : ~Precedes(x, f)) => x = e
  BY <1>1, Zenon DEF IsLast
<1> QED
  BY <1>1, <1>3, <1>4, Zenon DEF Condensed

\* The condensed row of a key says what the source holds.
LEMMA CondensedIsSource ==
    ASSUME IInv, NEW k \in Keys, EntriesOf(k) # {}
    PROVE  /\ Condensed(k) \in EntriesOf(k)
           /\ Condensed(k) \in Entry
           /\ Condensed(k).action = InsertRowEvent => src[k] = Condensed(k).val
           /\ Condensed(k).action = DeleteRowEvent => src[k] = None
<1>1. PICK e \in buf : /\ IsLast(e, k)
                       /\ e.action = InsertRowEvent => src[k] = e.val
                       /\ e.action = DeleteRowEvent => src[k] = None
  BY Zenon DEF IInv, LastIsSource
<1>2. Condensed(k) = e
  BY <1>1, CondensedIsLast, Zenon DEF IInv, TypeOK
<1>3. e \in EntriesOf(k) /\ e \in Entry
  BY <1>1, Zenon DEF IsLast, IInv, TypeOK
<1> QED
  BY <1>1, <1>2, <1>3, Zenon

\* A flush that succeeds leaves a table, after rows were lost as well.
LEMMA FlushIsTyped ==
    ASSUME IInv PROVE Flushed \in [Keys -> Vals \union {None, Dup}]
<1>1. ASSUME NEW k \in Keys, EntriesOf(k) # {}
      PROVE  Condensed(k).val \in Vals \union {None, Dup}
  BY <1>1, CondensedIsSource, Zenon DEF Entry
<1>2. ASSUME NEW k \in Keys PROVE tbl[k] \in Vals \union {None, Dup}
  BY Zenon DEF IInv, TypeOK
<1>3. handleInsertOnly(tbl) \in [Keys -> Vals \union {None, Dup}]
  BY <1>1, <1>2, Zenon DEF handleInsertOnly
<1>4. handleDeleteOnly(tbl) \in [Keys -> Vals \union {None, Dup}]
  BY <1>2, Zenon DEF handleDeleteOnly
<1>5. handleZeroDelete(tbl) \in [Keys -> Vals \union {None, Dup}]
  BY <1>1, <1>2, Zenon DEF handleZeroDelete, Upsert
<1>6. handleWithoutIndex(tbl) \in [Keys -> Vals \union {None, Dup}]
  BY <1>1, <1>2, Zenon DEF handleWithoutIndex, DeleteKeys
<1>7. handleGeneralCase(tbl) \in [Keys -> Vals \union {None, Dup}]
  BY <1>1, <1>2, Zenon DEF handleGeneralCase, DeleteKeys, Upsert
<1> QED
  BY <1>3, <1>4, <1>5, <1>6, <1>7, Zenon DEF Flushed, updateTable, IInv, TypeOK

\* Under the invariant, and with no rows lost, a flush produces the source's
\* table.
LEMMA FlushIsSource == ASSUME IInv, lost = "none" PROVE Flushed = src
<1> USE DeltaAssumption
<1>1. \A k \in Keys : EntriesOf(k) # {} =>
          /\ Condensed(k) \in EntriesOf(k)
          /\ Condensed(k) \in Entry
          /\ Condensed(k).action = InsertRowEvent =>
                 src[k] = Condensed(k).val
          /\ Condensed(k).action = DeleteRowEvent => src[k] = None
  BY CondensedIsSource, Zenon
<1>2. \A k \in Keys : EntriesOf(k) # {} =>
          Condensed(k).action \in {DeleteRowEvent, InsertRowEvent}
  BY <1>1, Zenon DEF Entry
<1>3. /\ src = [k \in Keys |-> src[k]]
      /\ tbl = [k \in Keys |-> tbl[k]]
  BY Zenon DEF IInv, TypeOK
<1>4. \A k \in Keys : EntriesOf(k) = {} => tbl[k] = src[k]
  BY Zenon DEF IInv, UntouchedAgrees
<1>5. DeleteRowEvent # InsertRowEvent
  BY DEF DeleteRowEvent, InsertRowEvent
<1>6. CASE buf = {}
  <2>1. \A k \in Keys : tbl[k] = src[k]
    BY <1>4, <1>6, Zenon DEF EntriesOf
  <2> QED
    BY <1>3, <1>6, <2>1, Zenon DEF Flushed
<1>7. CASE buf # {}
  <2>1. ASSUME seen.insert, ~seen.delete, ~seen.update
        PROVE  handleInsertOnly(tbl) = src
    <3>1. InsertsOnly
      BY <2>1, Zenon DEF IInv, Classified
    <3>2. ASSUME NEW k \in Keys
          PROVE  handleInsertOnly(tbl)[k] = src[k]
      <4>1. CASE EntriesOf(k) = {}
        BY <4>1, <1>4, Zenon DEF handleInsertOnly
      <4>2. CASE EntriesOf(k) # {}
        <5>1. /\ Condensed(k) \in buf
              /\ Condensed(k).key = k
          BY <4>2, <1>1, Zenon DEF EntriesOf
        <5>2. /\ tbl[k] = None
              /\ Condensed(k).action = InsertRowEvent
              /\ \A f \in buf : f.key = k => f = Condensed(k)
          BY <5>1, <3>1, Zenon DEF InsertsOnly
        <5>3. EntriesOf(k) = {Condensed(k)}
          BY <5>1, <5>2, Zenon DEF EntriesOf
        <5>4. src[k] = Condensed(k).val
          BY <4>2, <5>2, <1>1, Zenon
        <5> QED
          BY <4>2, <5>1, <5>2, <5>3, <5>4, Zenon DEF handleInsertOnly
      <4> QED
        BY <4>1, <4>2, Zenon
    <3> QED
      BY <3>2, <1>3, Zenon DEF handleInsertOnly
  <2>2. ASSUME seen.delete, ~seen.insert, ~seen.update
        PROVE  handleDeleteOnly(tbl) = src
    <3>1. \A k \in Keys : EntriesOf(k) # {} =>
              Condensed(k).action = DeleteRowEvent
      BY <2>2, <1>1, Zenon DEF IInv, Classified, EntriesOf
    <3>2. \A k \in Keys : handleDeleteOnly(tbl)[k] = src[k]
      BY <3>1, <1>1, <1>4, Zenon DEF handleDeleteOnly
    <3> QED
      BY <3>2, <1>3, Zenon DEF handleDeleteOnly
  <2>3. ASSUME ~seen.deletions
        PROVE  handleZeroDelete(tbl) = src
    <3>1. \A k \in Keys : EntriesOf(k) # {} =>
              Condensed(k).action = InsertRowEvent
      BY <2>3, <1>1, Zenon DEF IInv, Classified, EntriesOf
    <3>2. \A k \in Keys : handleZeroDelete(tbl)[k] = src[k]
      BY <3>1, <1>1, <1>4, Zenon DEF handleZeroDelete, Upsert
    <3> QED
      BY <3>2, <1>3, Zenon DEF handleZeroDelete, Upsert
  <2>4. handleWithoutIndex(tbl) = src
    <3>1. \A k \in Keys : handleWithoutIndex(tbl)[k] = src[k]
      BY <1>1, <1>2, <1>4, Zenon DEF handleWithoutIndex, DeleteKeys
    <3> QED
      BY <3>1, <1>3, Zenon DEF handleWithoutIndex
  <2>5. handleGeneralCase(tbl) = src
    <3>1. \A k \in Keys : handleGeneralCase(tbl)[k] = src[k]
      BY <1>1, <1>2, <1>4, <1>5, Zenon DEF handleGeneralCase, DeleteKeys, Upsert
    <3> QED
      BY <3>1, <1>3, Zenon DEF handleGeneralCase, DeleteKeys
  <2> QED
    BY <1>7, <2>1, <2>2, <2>3, <2>4, <2>5, Zenon DEF Flushed, updateTable
<1> QED
  BY <1>6, <1>7, Zenon

-----------------------------------------------------------------------------
(* The invariant is inductive. *)

LEMMA InitIInv == Init => IInv
<1> USE DeltaAssumption
<1> SUFFICES ASSUME Init PROVE IInv
  OBVIOUS
<1>1. TypeOK
  BY DEF Init, TypeOK, Entry, Counters, ResetCounters
<1>2. Values /\ Tagged
  BY Zenon DEF Init, Values, Tagged
<1>3. LastIsSource /\ UntouchedAgrees
  BY Zenon DEF Init, LastIsSource, UntouchedAgrees, EntriesOf
<1>4. Classified
  BY Zenon DEF Init, Classified, InsertsOnly
<1>5. Replayable
  BY DEF Init, Replayable
<1> QED
  BY <1>1, <1>2, <1>3, <1>4, <1>5, Zenon DEF IInv

\* What an appended event does to the rows of one key: they stay as they were,
\* or the event's own row of the key becomes the last one.
LEMMA AppendKeepsLast ==
    ASSUME IInv, NEW event \in {"insert", "delete", "update"},
           NEW dels \in SUBSET Keys, NEW T \in SUBSET Keys,
           NEW ins \in [T -> Vals],
           AppendChanges(event, dels, ins)
    PROVE  /\ TypeOK'
           /\ Values'
           /\ Tagged'
           /\ LastIsSource'
           /\ UntouchedAgrees'
           /\ Replayable'
<1> USE DeltaAssumption
<1> DEFINE D == {Row(DeleteRowEvent, k, src[k]) : k \in dels}
           I == {Row(InsertRowEvent, k, ins[k]) : k \in T}
<1>1. /\ DOMAIN ins = T
      /\ buf' = buf \union D \union I
      /\ stmt' = stmt + 1 /\ stmt < MaxStmt
      /\ seq' = seq /\ server' = server /\ tbl' = tbl /\ conf' = conf
      /\ stored' = stored /\ lost' = lost
      /\ src' = [k \in Keys |-> IF k \in T THEN ins[k]
                                ELSE IF k \in dels THEN None ELSE src[k]]
  BY Zenon DEF AppendChanges
<1>2. TypeOK /\ stmt \in Nat /\ seq[server] \in Nat
  BY DEF IInv, TypeOK
<1>3. \A k \in dels : /\ Row(DeleteRowEvent, k, src[k]) \in Entry
                      /\ Row(DeleteRowEvent, k, src[k]).key = k
                      /\ Row(DeleteRowEvent, k, src[k]).action = DeleteRowEvent
                      /\ Row(DeleteRowEvent, k, src[k]).txn_seq = seq[server]
                      /\ Row(DeleteRowEvent, k, src[k]).txn_stmt = stmt
  BY <1>2, Zenon DEF Row, Entry, TypeOK
<1>4. \A k \in T : /\ Row(InsertRowEvent, k, ins[k]) \in Entry
                   /\ Row(InsertRowEvent, k, ins[k]).key = k
                   /\ Row(InsertRowEvent, k, ins[k]).action = InsertRowEvent
                   /\ Row(InsertRowEvent, k, ins[k]).txn_seq = seq[server]
                   /\ Row(InsertRowEvent, k, ins[k]).txn_stmt = stmt
                   /\ Row(InsertRowEvent, k, ins[k]).val = ins[k]
  BY <1>2, Zenon DEF Row, Entry, TypeOK
<1>5. \A e \in D \union I : e \in Entry /\ e.txn_seq = seq[server]
                                        /\ e.txn_stmt = stmt
  BY <1>3, <1>4
<1>6. \A e \in D : e.action = DeleteRowEvent /\ e.key \in dels
  BY <1>3
<1>7. \A e \in I : e.action = InsertRowEvent /\ e.key \in T
                   /\ e = Row(InsertRowEvent, e.key, ins[e.key])
                   /\ e.val = ins[e.key]
  BY <1>4
<1>8. \A e \in D : e = Row(DeleteRowEvent, e.key, src[e.key])
  BY <1>3, Zenon
<1>9. DeleteRowEvent = 0 /\ InsertRowEvent = 2
  BY Zenon DEF DeleteRowEvent, InsertRowEvent
<1> HIDE DEF D, I
<1>10. TypeOK'
  <2>1. seen' \in Counters
    BY <1>2, Zenon DEF AppendChanges, Observe, TypeOK, Counters
  <2>2. src' \in [Keys -> Vals \union {None}]
    BY <1>1, <1>2, Zenon DEF TypeOK
  <2>3. buf' \in SUBSET Entry
    BY <1>1, <1>2, <1>5, Zenon DEF TypeOK
  <2> QED
    BY <1>1, <1>2, <2>1, <2>2, <2>3 DEF TypeOK
<1>11. Values'
  BY <1>1, <1>6, <1>7, <1>9 DEF IInv, Values
<1>12. \A e \in buf, f \in D \union I : Precedes(e, f)
  <2> TAKE e \in buf, f \in D \union I
  <2>1. e.txn_seq < seq[server] \/ (e.txn_seq = seq[server] /\ e.txn_stmt < stmt)
    BY Zenon DEF IInv, Tagged
  <2>2. f.txn_seq = seq[server] /\ f.txn_stmt = stmt
    BY <1>5, Zenon
  <2> QED
    BY <2>1, <2>2, Zenon DEF Precedes
<1>13. Tagged'
  <2> SUFFICES ASSUME NEW e \in buf'
               PROVE  \/ e.txn_seq < seq[server]
                      \/ e.txn_seq = seq[server] /\ e.txn_stmt < stmt + 1
    BY <1>1, Zenon DEF Tagged
  <2>1. CASE e \in buf
    <3>1. e \in Entry
      BY <2>1, <1>2, Zenon DEF TypeOK
    <3> QED
      BY <2>1, <3>1, <1>2 DEF IInv, Tagged, Entry
  <2>2. CASE e \in D \union I
    BY <2>2, <1>2, <1>5
  <2> QED
    BY <1>1, <2>1, <2>2, Zenon
<1>14. \A k \in Keys : k \notin T \union dels => EntriesOf(k)' = EntriesOf(k)
  BY <1>1, <1>6, <1>7, Zenon DEF EntriesOf
<1>15. LastIsSource'
  <2> SUFFICES ASSUME NEW k \in Keys, EntriesOf(k)' # {}
               PROVE  \E e \in buf' :
                          /\ IsLast(e, k)'
                          /\ e.action = InsertRowEvent => src'[k] = e.val
                          /\ e.action = DeleteRowEvent => src'[k] = None
    BY Zenon DEF LastIsSource
  <2>1. CASE k \in T
    <3>e. PICK e : e = Row(InsertRowEvent, k, ins[k])
      OBVIOUS
    <3>1. e \in I
      BY <3>e, <2>1, Zenon DEF I
    <3>2. ASSUME NEW f \in EntriesOf(k)', f # e PROVE Precedes(f, e)
      <4>1. CASE f \in buf
        BY <4>1, <3>1, <1>12, Zenon
      <4>2. CASE f \in D
        <5>1. f.action = 0 /\ e.action = 2
          BY <4>2, <3>1, <1>6, <1>7, <1>9, Zenon
        <5> QED
          BY <4>2, <3>1, <1>5, <5>1 DEF Precedes
      <4>3. CASE f \in I
        BY <4>3, <3>2, <3>e, <1>7, Zenon DEF EntriesOf
      <4> QED
        BY <4>1, <4>2, <4>3, <1>1, Zenon DEF EntriesOf
    <3>3. e \in EntriesOf(k)'
      BY <3>e, <3>1, <2>1, <1>1, <1>4, Zenon DEF EntriesOf
    <3>4. IsLast(e, k)'
      BY <3>2, <3>3, Zenon DEF IsLast, Precedes
    <3>5. src'[k] = e.val /\ e.action = InsertRowEvent
      BY <3>e, <2>1, <1>1, <1>4, Zenon
    <3> QED
      BY <3>1, <3>4, <3>5, <1>1, <1>9
  <2>2. CASE k \in dels \ T
    <3>e. PICK e : e = Row(DeleteRowEvent, k, src[k])
      OBVIOUS
    <3>1. e \in D
      BY <3>e, <2>2, Zenon DEF D
    <3>2. ASSUME NEW f \in EntriesOf(k)', f # e PROVE Precedes(f, e)
      <4>1. CASE f \in buf
        BY <4>1, <3>1, <1>12, Zenon
      <4>2. CASE f \in D
        BY <4>2, <3>2, <3>e, <1>8, Zenon DEF EntriesOf
      <4>3. CASE f \in I
        BY <4>3, <2>2, <1>7, Zenon DEF EntriesOf
      <4> QED
        BY <4>1, <4>2, <4>3, <1>1 DEF EntriesOf
    <3>3. e \in EntriesOf(k)'
      BY <3>e, <3>1, <2>2, <1>1, <1>3, Zenon DEF EntriesOf
    <3>4. IsLast(e, k)'
      BY <3>2, <3>3 DEF IsLast, Precedes
    <3>5. src'[k] = None /\ e.action = DeleteRowEvent
      BY <3>e, <2>2, <1>1, <1>3, Zenon
    <3> QED
      BY <3>1, <3>4, <3>5, <1>1, <1>9
  <2>3. CASE k \notin T \union dels
    <3>1. EntriesOf(k)' = EntriesOf(k) /\ src'[k] = src[k]
      BY <2>3, <1>1, <1>14, Zenon
    <3>2. PICK e \in buf : /\ IsLast(e, k)
                           /\ e.action = InsertRowEvent => src[k] = e.val
                           /\ e.action = DeleteRowEvent => src[k] = None
      BY <3>1, Zenon DEF IInv, LastIsSource
    <3>3. IsLast(e, k)'
      BY <3>1, <3>2, Zenon DEF IsLast, Precedes
    <3> QED
      BY <3>1, <3>2, <3>3, <1>1, Zenon
  <2> QED
    BY <2>1, <2>2, <2>3, Zenon
<1>16. UntouchedAgrees'
  <2> SUFFICES ASSUME lost' = "none", NEW k \in Keys, EntriesOf(k)' = {}
               PROVE  tbl'[k] = src'[k]
    BY Zenon DEF UntouchedAgrees
  <2>1. k \notin T
    BY <1>1, <1>4, Zenon DEF EntriesOf, I
  <2>2. k \notin dels
    BY <1>1, <1>3, Zenon DEF EntriesOf, D
  <2>3. EntriesOf(k) = {} /\ src'[k] = src[k]
    BY <2>1, <2>2, <1>1, <1>14, Zenon
  <2> QED
    BY <2>3, <1>1, Zenon DEF IInv, UntouchedAgrees
<1>17. Replayable'
  BY <1>1, Zenon DEF IInv, Replayable
<1> QED
  BY <1>10, <1>11, <1>13, <1>15, <1>16, <1>17, Zenon

\* The counters still justify updateTable's shortcuts after an event, because
\* the source inserts only keys it does not hold.
LEMMA WriteRowsClassified ==
    ASSUME IInv, NEW T \in SUBSET (Keys \ Present), NEW ins \in [T -> Vals],
           AppendChanges("insert", {}, ins)
    PROVE  Classified'
<1> USE DeltaAssumption
<1>1. /\ buf' = buf \union {Row(InsertRowEvent, k, ins[k]) : k \in T}
      /\ seen' = [insert |-> TRUE, delete |-> seen.delete,
                  update |-> seen.update, deletions |-> seen.deletions]
      /\ tbl' = tbl /\ lost' = lost
  BY Zenon DEF AppendChanges, Observe, IInv, TypeOK, Counters
<1>2. \A k \in T : /\ Row(InsertRowEvent, k, ins[k]).key = k
                   /\ Row(InsertRowEvent, k, ins[k]).action = InsertRowEvent
  BY Zenon DEF Row
<1>3. ASSUME InsertsOnly PROVE InsertsOnly'
  <2>1. ASSUME NEW k \in T
        PROVE  EntriesOf(k) = {} /\ (lost = "none" => tbl[k] = None)
    <3>1. src[k] = None
      BY Zenon DEF Present
    <3>2. EntriesOf(k) = {}
      <4> SUFFICES ASSUME EntriesOf(k) # {} PROVE FALSE
        OBVIOUS
      <4>1. PICK e \in buf : e.action = InsertRowEvent => src[k] = e.val
        BY Zenon DEF IInv, LastIsSource
      <4>2. e.action = InsertRowEvent /\ e.val \in Vals
        BY <1>3, Zenon DEF InsertsOnly, IInv, Values
      <4> QED
        BY <3>1, <4>1, <4>2, Zenon
    <3> QED
      BY <3>1, <3>2, Zenon DEF IInv, UntouchedAgrees
  <2>2. ASSUME NEW e \in buf'
        PROVE  /\ e.action = InsertRowEvent
               /\ lost = "none" => tbl[e.key] = None
               /\ \A f \in buf' : f.key = e.key => f = e
    <3>1. CASE e \in buf
      <4>1. e.key \notin T
        BY <2>1, <3>1, Zenon DEF EntriesOf
      <4> QED
        BY <1>1, <1>2, <1>3, <3>1, <4>1 DEF InsertsOnly
    <3>2. CASE e \notin buf
      <4>1. PICK k \in T : e = Row(InsertRowEvent, k, ins[k])
        BY <1>1, <3>2, Zenon
      <4>2. e.key = k /\ e.action = InsertRowEvent
        BY <1>2, <4>1, Zenon
      <4>3. \A f \in buf : f.key # k
        BY <2>1, Zenon DEF EntriesOf
      <4> QED
        BY <1>1, <1>2, <2>1, <4>1, <4>2, <4>3
    <3> QED
      BY <3>1, <3>2, Zenon
  <2> QED
    BY <1>1, <2>2, Zenon DEF InsertsOnly
<1>4. ~seen.deletions => \A e \in buf' : e.action = InsertRowEvent
  BY <1>1, <1>2 DEF IInv, Classified
<1> QED
  BY <1>1, <1>3, <1>4, Zenon DEF IInv, Classified

LEMMA DeleteRowsClassified ==
    ASSUME IInv, NEW S \in SUBSET Keys, S # {},
           AppendChanges("delete", S, [k \in {} |-> None])
    PROVE  Classified'
<1>1. /\ buf' = buf \union {Row(DeleteRowEvent, k, src[k]) : k \in S}
      /\ seen' = [insert |-> seen.insert, delete |-> TRUE,
                  update |-> seen.update, deletions |-> TRUE]
  BY Zenon DEF AppendChanges, Observe, IInv, TypeOK, Counters
<1>2. \A k \in S : Row(DeleteRowEvent, k, src[k]).action = DeleteRowEvent
  BY Zenon DEF Row
<1> QED
  BY <1>1, <1>2, Zenon DEF IInv, Classified

LEMMA UpdateRowsClassified ==
    ASSUME IInv, NEW S \in SUBSET Keys, NEW T \in SUBSET Keys,
           NEW ins \in [T -> Vals], AppendChanges("update", S, ins)
    PROVE  Classified'
<1>1. /\ buf' = buf \union {Row(DeleteRowEvent, k, src[k]) : k \in S}
                    \union {Row(InsertRowEvent, k, ins[k]) : k \in T}
      /\ seen'.update = TRUE
      /\ seen'.deletions = (seen.deletions \/ S # {})
  BY Zenon DEF AppendChanges, Observe, IInv, TypeOK, Counters
<1>2. \A k \in T : Row(InsertRowEvent, k, ins[k]).action = InsertRowEvent
  BY Zenon DEF Row
<1> QED
  BY <1>1, <1>2, Zenon DEF IInv, Classified

\* Every step of a single-server stream preserves the invariant.
LEMMA NextIInv == ASSUME OneServer, IInv, [Next]_vars PROVE IInv'
<1> USE DeltaAssumption
<1>1. ASSUME NEW s \in Servers, Begin(s) PROVE IInv'
  <2>1. s = server
    BY Zenon DEF OneServer, IInv, TypeOK
  <2>2. /\ seq[server] \in Nat /\ seq'[server'] = seq[server] + 1
        /\ seq' \in [Servers -> 0..MaxSeq] /\ server' \in Servers
        /\ stmt' \in 0..MaxStmt
    BY <1>1, <2>1 DEF Begin, IInv, TypeOK
  <2>3. UNCHANGED <<conf, src, tbl, buf, seen, stored, lost>>
    BY <1>1, Zenon DEF Begin
  <2>4. TypeOK'
    BY <2>2, <2>3, Zenon DEF IInv, TypeOK
  <2>5. Tagged'
    <3> SUFFICES ASSUME NEW e \in buf PROVE e.txn_seq < seq[server] + 1
      BY <2>2, <2>3, Zenon DEF Tagged
    <3>1. e \in Entry /\ e.txn_seq <= seq[server]
      BY <2>2 DEF IInv, Tagged, TypeOK, Entry
    <3> QED
      BY <2>2, <3>1 DEF Entry
  <2> QED
    BY <2>3, <2>4, <2>5 DEF IInv, Values, LastIsSource, UntouchedAgrees,
       Classified, Replayable, InsertsOnly, EntriesOf, IsLast, Precedes
<1>2. CASE WriteRows
  <2>1. PICK S \in SUBSET (Keys \ Present) : \E ins \in [S -> Vals] :
            AppendChanges("insert", {}, ins)
    BY <1>2, Zenon DEF WriteRows
  <2>2. PICK ins \in [S -> Vals] : AppendChanges("insert", {}, ins)
    BY <2>1, Zenon
  <2> QED
    BY <2>2, AppendKeepsLast, WriteRowsClassified, Zenon DEF IInv
<1>3. CASE DeleteRows
  <2>1. PICK S \in SUBSET Keys : S # {} /\ AppendChanges("delete", S, [k \in {} |-> None])
    BY <1>3, Zenon DEF DeleteRows, Present
  <2>2. [k \in {} |-> None] \in [{} -> Vals]
    OBVIOUS
  <2> QED
    BY <2>1, <2>2, AppendKeepsLast, DeleteRowsClassified, Zenon DEF IInv
<1>4. CASE UpdateRows
  <2>1. PICK S \in SUBSET Keys, T \in SUBSET Keys : \E ins \in [T -> Vals] :
            AppendChanges("update", S, ins)
    BY <1>4, Zenon DEF UpdateRows, Present
  <2>2. PICK ins \in [T -> Vals] : AppendChanges("update", S, ins)
    BY <2>1, Zenon
  <2> QED
    BY <2>2, AppendKeepsLast, UpdateRowsClassified, Zenon DEF IInv
<1>5. CASE UpdateInPlace
  <2>1. PICK k \in Keys : \E ins \in [{k} -> Vals] : AppendChanges("update", {}, ins)
    BY <1>5, Zenon DEF UpdateInPlace, Present
  <2>2. PICK ins \in [{k} -> Vals] : AppendChanges("update", {}, ins)
    BY <2>1, Zenon
  <2> QED
    BY <2>2, AppendKeepsLast, UpdateRowsClassified, Zenon DEF IInv
<1>6. CASE Flush
  <2>1. /\ tbl' = Flushed /\ buf' = {} /\ seen' = ResetCounters
        /\ stmt' \in {0, stmt}
        /\ stored' = [rows |-> src, seq |-> seq]
        /\ lost' = IF lost = "buffer" THEN "table" ELSE lost
        /\ UNCHANGED <<conf, src, seq, server>>
    BY <1>6, Zenon DEF Flush
  <2>2. TypeOK'
    <3>1. stmt' \in 0..MaxStmt
      BY <2>1 DEF IInv, TypeOK
    <3>2. seen' \in Counters
      BY <2>1, Zenon DEF Counters, ResetCounters
    <3>3. stored' \in [rows : [Keys -> Vals \union {None}],
                       seq : [Servers -> 0..MaxSeq]]
      BY <2>1, Zenon DEF IInv, TypeOK
    <3> QED
      BY <2>1, <3>1, <3>2, <3>3, FlushIsTyped, Zenon DEF IInv, TypeOK
  <2>3. Values' /\ Tagged' /\ Classified'
    BY <2>1, Zenon DEF Values, Tagged, Classified, InsertsOnly
  <2>4. lost' # "table" => tbl' = src
    BY <2>1, FlushIsSource, Zenon DEF IInv, TypeOK
  <2>5. LastIsSource' /\ UntouchedAgrees'
    BY <2>1, <2>4, Zenon DEF LastIsSource, UntouchedAgrees, EntriesOf
  <2>6. Replayable'
    BY <2>1, <2>4, Zenon DEF Replayable
  <2> QED
    BY <2>2, <2>3, <2>5, <2>6, Zenon DEF IInv
<1>7. CASE FlushFails
  <2>1. /\ buf' = {} /\ seen' = ResetCounters
        /\ lost' = IF lost = "table" THEN lost ELSE "buffer"
        /\ UNCHANGED <<conf, src, tbl, seq, server, stmt, stored>>
    BY <1>7, Zenon DEF FlushFails
  <2>2. seen' \in Counters
    BY <2>1, Zenon DEF Counters, ResetCounters
  <2>3. TypeOK'
    BY <2>1, <2>2, Zenon DEF IInv, TypeOK
  <2>4. Values' /\ Tagged' /\ Classified'
    BY <2>1, Zenon DEF Values, Tagged, Classified, InsertsOnly
  <2>5. LastIsSource' /\ UntouchedAgrees'
    BY <2>1, Zenon DEF LastIsSource, UntouchedAgrees, EntriesOf
  <2>6. Replayable'
    BY <2>1, Zenon DEF IInv, Replayable
  <2> QED
    BY <2>3, <2>4, <2>5, <2>6, Zenon DEF IInv
<1>8. CASE Reconnect
  <2>1. /\ buf' = {} /\ seen' = ResetCounters /\ stmt' = 0
        /\ src' = stored.rows /\ seq' = stored.seq
        /\ lost' = IF lost = "table" THEN lost ELSE "none"
        /\ UNCHANGED <<conf, tbl, server, stored>>
    BY <1>8, Zenon DEF Reconnect
  <2>2. seen' \in Counters
    BY <2>1, Zenon DEF Counters, ResetCounters
  <2>3. 0 \in 0..MaxStmt
    OBVIOUS
  <2>4. TypeOK'
    BY <2>1, <2>2, <2>3, Zenon DEF IInv, TypeOK
  <2>5. Values' /\ Tagged' /\ Classified'
    BY <2>1, Zenon DEF Values, Tagged, Classified, InsertsOnly
  <2>6. Replayable'
    BY <2>1, Zenon DEF IInv, Replayable
  <2>7. LastIsSource' /\ UntouchedAgrees'
    BY <2>1, <2>6, Zenon DEF LastIsSource, UntouchedAgrees, EntriesOf, Replayable
  <2> QED
    BY <2>4, <2>5, <2>6, <2>7, Zenon DEF IInv
<1>9. CASE UNCHANGED vars
  BY <1>9 DEF vars, IInv, TypeOK, Values, Tagged, LastIsSource, Replayable,
     UntouchedAgrees, Classified, InsertsOnly, EntriesOf, IsLast, Precedes
<1> QED
  BY <1>1, <1>2, <1>3, <1>4, <1>5, <1>6, <1>7, <1>8, <1>9, Zenon DEF Next

-----------------------------------------------------------------------------

\* The inductive invariant holds throughout a single-server stream.
THEOREM Invariance == ASSUME OneServer PROVE Spec => []IInv
<1>1. Init => IInv
  BY InitIInv, Zenon
<1>2. IInv /\ [Next]_vars => IInv'
  BY NextIInv, Zenon
<1> QED
  BY <1>1, <1>2, PTL DEF Spec

\* The rows, counters and tables of the delta buffer keep their types.
THEOREM TypeCorrect == ASSUME OneServer PROVE Spec => []TypeOK
<1>1. IInv => TypeOK
  BY Zenon DEF IInv
<1> QED
  BY <1>1, Invariance, PTL

\* With one source server, updateTable makes the base table equal to the
\* source's, whichever case it takes, as long as no applier has gone on past a
\* failed flush.
THEOREM FlushCorrect == ASSUME OneServer PROVE Spec => []FlushMatchesSource
<1>1. IInv => FlushMatchesSource
  BY FlushIsSource, Zenon DEF FlushMatchesSource
<1> QED
  BY <1>1, Invariance, PTL

-----------------------------------------------------------------------------
(* START, STOP and RESET REPLICA (ReplicaController), for any number of    *)
(* sessions and appliers.                                                  *)

BootLabels == {"idle", "start_lock", "start_check", "start_go", "start_persist"}
Labels == BootLabels \union {"stop_check", "stop_send", "stop_status", "stop_persist",
                             "reset_lock", "reset_check"}

ControllerType ==
    /\ op \in [Procs -> Labels]
    /\ op[Boot] \in BootLabels
    /\ applier \in [Appliers -> {"unused", "spawned", "connecting", "retrying",
                                 "streaming", "stopping", "failed"}]
    /\ running \in BOOLEAN
    /\ sql \in {"Yes", "No"}
    /\ replicaRunning \in BOOLEAN
    /\ saved \in BOOLEAN
    /\ configured \in BOOLEAN
    /\ calm \in BOOLEAN

Alive == In({"spawned", "connecting", "retrying", "streaming"})

\* What a session at a label may rely on, although it holds no lock that would keep
\* the applier from moving.
Reliable(l) ==
    /\ l \in {"start_lock", "start_check", "stop_check", "reset_lock", "reset_check"} =>
          Settling = {}
    /\ l = "start_go" => configured /\ \A a \in Appliers : applier[a] = "unused"
    /\ l = "start_persist" => Alive # {}
    /\ l = "stop_send" => Live # {}
    /\ l \in {"stop_status", "stop_persist"} => Alive = {}

\* There is one command and one goroutine at a time, and the flag, the status and the
\* file follow the goroutine, but for the steps of the command that come after it.
Calm ==
    /\ \A p, q \in Procs : op[p] # "idle" /\ op[q] # "idle" => p = q
    /\ \A a, b \in Appliers : applier[a] # "unused" /\ applier[b] # "unused" => a = b
    /\ \A a \in Appliers : applier[a] # "failed"
    /\ running <=> In({"connecting", "retrying", "streaming", "stopping"}) # {}
    /\ Alive # {} => configured
    /\ \A p \in Procs : Reliable(op[p])
    /\ sql = "Yes" <=> Live # {} \/ \E p \in Procs : op[p] = "stop_status"
    /\ Alive # {} /\ saved => replicaRunning \/ \E p \in Procs : op[p] = "start_persist"

ControllerInv ==
    /\ ControllerType
    /\ op[Boot] # "idle" => \A s \in Sessions : op[s] = "idle"
    /\ calm => Calm

LEMMA ControllerNextType ==
    ControllerType /\ [ControllerNext]_controllerVars => ControllerType'
<1> SUFFICES ASSUME ControllerType, [ControllerNext]_controllerVars PROVE ControllerType'
  OBVIOUS
<1> USE ControllerAssumption DEF ControllerType, Procs, Labels, BootLabels
<1>1. ASSUME NEW s \in Sessions, Command(s) PROVE ControllerType'
  BY <1>1, Zenon DEF Command, Goto
<1>2. ASSUME NEW s \in Sessions, SetReplicationSourceOptions(s) PROVE ControllerType'
  BY <1>2, Zenon DEF SetReplicationSourceOptions
<1>3. ASSUME NEW p \in Procs, Lock(p) PROVE ControllerType'
  BY <1>3, Zenon DEF Lock, Goto
<1>4. ASSUME NEW p \in Procs, StartCheck(p) \/ StartGo(p) \/ StartPersist(p)
      PROVE  ControllerType'
  BY <1>4, Zenon DEF StartCheck, StartGo, StartPersist, Persist, Goto, Become
<1>5. ASSUME NEW p \in Procs,
             StopCheck(p) \/ StopSend(p) \/ StopStatus(p) \/ StopPersist(p)
      PROVE  ControllerType'
  BY <1>5, Zenon DEF StopCheck, StopSend, StopStatus, StopPersist, Persist, Goto, Become
<1>6. ASSUME NEW p \in Procs, ResetReplica(p) PROVE ControllerType'
  BY <1>6, Zenon DEF ResetReplica, Goto
<1>7. ASSUME NEW a \in Appliers, Run(a) \/ LoseConnection(a) PROVE ControllerType'
  BY <1>7, Zenon DEF Run, Launch, Connect, Retry, Exit, LoseConnection, Become
<1>8. CASE Restart
  BY <1>8, Zenon DEF Restart
<1>9. CASE UNCHANGED controllerVars
  BY <1>9, Zenon DEF controllerVars
<1> QED
  BY <1>1, <1>2, <1>3, <1>4, <1>5, <1>6, <1>7, <1>8, <1>9, Zenon DEF ControllerNext, Proceed

\* Startup is over before sessions are served.
LEMMA NextBoot ==
    ASSUME ControllerInv, [ControllerNext]_controllerVars
    PROVE  op'[Boot] # "idle" => \A s \in Sessions : op'[s] = "idle"
<1> USE ControllerAssumption DEF ControllerInv, ControllerType, Procs, Labels, BootLabels
<1> DEFINE Goal == op'[Boot] # "idle" => \A s \in Sessions : op'[s] = "idle"
<1>1. ASSUME NEW s \in Sessions, Command(s) \/ SetReplicationSourceOptions(s) PROVE Goal
  BY <1>1, Zenon DEF Command, SetReplicationSourceOptions, Goto
<1>2. ASSUME NEW p \in Procs, NEW l, op[p] # "idle", Goto(p, l) PROVE Goal
  BY <1>2, Zenon DEF Goto
<1>3. ASSUME NEW p \in Procs, Lock(p) \/ Proceed(p) PROVE Goal
  BY <1>2, <1>3, Zenon DEF Lock, Proceed, StartCheck, StartGo, StartPersist, StopCheck,
     StopSend,
     StopStatus, StopPersist, ResetReplica
<1>4. ASSUME NEW a \in Appliers, Run(a) \/ LoseConnection(a) PROVE Goal
  BY <1>4, Zenon DEF Run, Launch, Connect, Retry, Exit, LoseConnection
<1>5. CASE Restart
  BY <1>5, Zenon DEF Restart
<1>6. CASE UNCHANGED controllerVars
  BY <1>6, Zenon DEF controllerVars
<1> QED
  BY <1>1, <1>3, <1>4, <1>5, <1>6, Zenon DEF ControllerNext

LEMMA SessionCalm ==
    ASSUME ControllerInv, calm', NEW p \in Procs,
           Lock(p) \/ Proceed(p)
    PROVE  Calm'
<1> USE ControllerAssumption DEF ControllerInv, ControllerType, Labels, BootLabels,
        In, Live, Settling, Alive, Goto, Become
<1>0. calm' = calm
  BY Zenon DEF Lock, Proceed, StartCheck, StartGo, StartPersist, StopCheck, StopSend,
     StopStatus, StopPersist, ResetReplica
<1>1. CASE Lock(p)
  BY <1>0, <1>1 DEF Lock, Calm, Reliable
<1>2. CASE StartCheck(p)
  BY <1>0, <1>2 DEF StartCheck, Calm, Reliable
<1>3. CASE StartGo(p)
  BY <1>0, <1>3 DEF StartGo, Calm, Reliable
<1>4. CASE StartPersist(p)
  BY <1>0, <1>4 DEF StartPersist, Persist, Calm, Reliable
<1>5. CASE StopCheck(p)
  BY <1>0, <1>5 DEF StopCheck, Calm, Reliable
<1>6. CASE StopSend(p)
  BY <1>0, <1>6 DEF StopSend, Calm, Reliable
<1>7. CASE StopStatus(p)
  BY <1>0, <1>7 DEF StopStatus, Calm, Reliable
<1>8. CASE StopPersist(p)
  BY <1>0, <1>8 DEF StopPersist, Persist, Calm, Reliable
<1>9. CASE ResetReplica(p)
  <2>1. Calm /\ op[p] = "reset_check" /\ Settling = {}
    BY <1>0, <1>9 DEF ResetReplica, Calm, Reliable
  <2>6. configured' = configured \/ ~running
    BY <1>9, Zenon DEF ResetReplica
  <2>7. ~running => Alive = {}
    BY <2>1 DEF Calm
  <2>2. configured' = configured \/ Alive = {}
    BY <2>6, <2>7, Zenon
  <2>3. op' = [op EXCEPT ![p] = "idle"] /\ UNCHANGED <<applier, running, sql, replicaRunning, saved>>
    BY <1>9, Zenon DEF ResetReplica
  <2>4. \A q \in Procs : q # p => op[q] = "idle"
    BY <2>1, Zenon DEF Calm
  <2>5. \A q \in Procs : op'[q] = "idle"
    BY <2>3, <2>4, Zenon
  <2> QED
    BY <2>1, <2>2, <2>3, <2>4, <2>5 DEF Calm, Reliable
<1> QED
  BY <1>1, <1>2, <1>3, <1>4, <1>5, <1>6, <1>7, <1>8, <1>9, Zenon DEF Proceed

LEMMA ApplierCalm ==
    ASSUME ControllerInv, calm', NEW a \in Appliers,
           Run(a) \/ LoseConnection(a)
    PROVE  Calm'
<1> USE ControllerAssumption DEF ControllerInv, ControllerType, Labels, BootLabels,
        In, Live, Settling, Alive, Goto, Become
<1>1. CASE Launch(a)
  BY <1>1 DEF Launch, Calm, Reliable
<1>2. CASE Connect(a)
  <2>1. calm /\ calm' = calm /\ configured /\ applier[a] = "connecting" /\ a \in Alive
    BY <1>2, Zenon DEF Connect, Calm
  <2>2. \E l \in {"retrying", "streaming"} : applier' = [applier EXCEPT ![a] = l]
    BY <1>2, <2>1, Zenon DEF Connect
  <2>3. UNCHANGED <<op, running, sql, replicaRunning, saved, configured>>
    BY <1>2, Zenon DEF Connect
  <2> QED
    BY <2>1, <2>2, <2>3 DEF Calm, Reliable
<1>3. CASE Retry(a)
  BY <1>3 DEF Retry, Calm, Reliable
<1>4. CASE Exit(a)
  BY <1>4 DEF Exit, Calm, Reliable
<1>5. CASE LoseConnection(a)
  <2>1. /\ calm /\ Calm /\ applier[a] = "streaming" /\ sql' = "Yes"
        /\ applier' = [applier EXCEPT ![a] = "connecting"]
        /\ UNCHANGED <<op, running, replicaRunning, saved, configured>>
    BY <1>5, Zenon DEF LoseConnection
  <2>2. In({"connecting", "retrying", "streaming", "stopping"})'
            = In({"connecting", "retrying", "streaming", "stopping"})
        /\ Live' = Live /\ Alive' = Alive /\ Settling' = Settling /\ Live # {}
    BY <2>1, Zenon
  <2>3. \A b \in Appliers : /\ applier[b] = "unused" <=> applier'[b] = "unused"
                           /\ applier'[b] # "failed"
    BY <2>1 DEF Calm
  <2> HIDE DEF In, Live, Alive, Settling
  <2> QED
    BY <2>1, <2>2, <2>3, Zenon DEF Calm, Reliable
<1> QED
  BY <1>1, <1>2, <1>3, <1>4, <1>5, Zenon DEF Run

LEMMA CommandCalm ==
    ASSUME ControllerInv, calm', NEW s \in Sessions,
           Command(s) \/ SetReplicationSourceOptions(s)
    PROVE  Calm'
<1> USE ControllerAssumption DEF ControllerInv, ControllerType, Labels, BootLabels, Procs,
        In, Live, Settling, Alive, Goto, Become
<1>1. CASE Command(s)
  <2>1. calm /\ Settling = {} /\ Quiet /\ op[s] = "idle"
    BY <1>1, Zenon DEF Command
  <2>2. \E l \in {"start_lock", "stop_check", "reset_lock"} : op' = [op EXCEPT ![s] = l]
    BY <1>1, Zenon DEF Command
  <2>3. UNCHANGED <<applier, running, sql, replicaRunning, saved, configured>>
    BY <1>1, Zenon DEF Command
  <2>4. Calm /\ \A p \in Procs : op[p] = "idle"
    BY <2>1, Zenon DEF Quiet
  <2>5. /\ op'[s] \in {"start_lock", "stop_check", "reset_lock"}
        /\ \A p \in Procs : p # s => op'[p] = "idle"
    BY <2>2, <2>4
  <2>6. /\ Settling' = Settling /\ Live' = Live /\ Alive' = Alive
        /\ In({"connecting", "retrying", "streaming", "stopping"})'
              = In({"connecting", "retrying", "streaming", "stopping"})
    BY <2>3, Zenon
  <2> HIDE DEF In, Live, Alive, Settling
  <2> QED
    BY <2>1, <2>3, <2>4, <2>5, <2>6, Zenon DEF Calm, Reliable
<1>2. CASE SetReplicationSourceOptions(s)
  BY <1>2, Zenon DEF SetReplicationSourceOptions, Calm, Reliable
<1> QED
  BY <1>1, <1>2, Zenon

LEMMA RestartCalm ==
    ASSUME ControllerInv, Restart
    PROVE  Calm'
  BY ControllerAssumption, Zenon DEF Restart, Calm, Reliable, In, Live, Settling, Alive, Procs

LEMMA ControllerSteps ==
    ControllerInv /\ [ControllerNext]_controllerVars => ControllerInv'
<1> SUFFICES ASSUME ControllerInv, [ControllerNext]_controllerVars, calm' PROVE Calm'
  <2>1. ControllerInv /\ [ControllerNext]_controllerVars =>
           ControllerType' /\ (op'[Boot] # "idle" => \A s \in Sessions : op'[s] = "idle")
    BY ControllerNextType, NextBoot, Zenon DEF ControllerInv
  <2> QED
    BY <2>1, Zenon DEF ControllerInv
<1>1. CASE UNCHANGED controllerVars
  BY <1>1 DEF ControllerInv, controllerVars, Calm, Reliable, In, Live, Settling, Alive
<1> QED
  BY <1>1, SessionCalm, ApplierCalm, CommandCalm, RestartCalm, Zenon DEF ControllerNext

LEMMA ControllerStarts ==
    ControllerInit => ControllerInv
  BY ControllerAssumption, Zenon DEF ControllerInit, ControllerInv, ControllerType, Labels,
     BootLabels, Procs,
     Calm, Reliable, In, Live, Settling, Alive

\* As long as users let each command take effect, no two goroutines work on the state
\* of binlogReplicaApplier, which has no mutex, for any number of sessions, over any
\* number of lost connections, retries and restarts.
THEOREM AtMostOneApplier == ControllerSpec => []OneApplier
<1>1. ControllerInv => OneApplier
  BY Zenon DEF ControllerInv, OneApplier, Calm, Live, In
<1> QED
  BY <1>1, ControllerStarts, ControllerSteps, PTL DEF ControllerSpec

\* As long as users let each command take effect, a server that has an applier and no
\* command under way has the file that makes AutoStart start it again, unless the last
\* command could not persist it: neither a STOP nor a restart that interrupts one, nor a
\* file that cannot be examined, leaves an applier without it.
THEOREM ApplierIsPersisted == ControllerSpec => []RunningIsPersisted
<1>1. ControllerInv => RunningIsPersisted
  BY Zenon DEF ControllerInv, RunningIsPersisted, Calm, Quiet, Live, Alive, In
<1> QED
  BY <1>1, ControllerStarts, ControllerSteps, PTL DEF ControllerSpec

\* As long as users let each command take effect and no applier gives up, the status
\* says that replication runs exactly when it does, whoever wrote the status last: the
\* goroutine or the STOP that ended it.
THEOREM StatusFollows == ControllerSpec => []StatusTruthful
<1>1. ControllerInv => StatusTruthful
  BY Zenon DEF ControllerInv, StatusTruthful, Calm, Quiet
<1> QED
  BY <1>1, ControllerStarts, ControllerSteps, PTL DEF ControllerSpec

-----------------------------------------------------------------------------
(* The goroutines that read events, for any number of connections of one   *)
(* applier (EventProducer).                                                *)

\* The producer that the loop listens to is running, so none of its checks ends it.
ProducerInv ==
    /\ state \in [Producers -> {"new", "checking", "reading", "read", "sending", "exited"}]
    /\ alive \in [Producers -> BOOLEAN]
    /\ loop \in {"selecting", "lost"} =>
          /\ current \in Producers
          /\ alive[current]
          /\ state[current] \in {"checking", "reading", "read", "sending"}

\* For any number of connections and read errors the applier's loop never receives
\* from the channels of a producer that has exited and closed them.
THEOREM NeverReceivesFromClosed == ProducerSpec => []NeverClosed
<1>1. ProducerInit => ProducerInv
  BY Zenon DEF ProducerInit, ProducerInv
<1>2. ProducerInv /\ [ProducerNext]_producerVars => ProducerInv'
  <2> SUFFICES ASSUME ProducerInv, [ProducerNext]_producerVars PROVE ProducerInv'
    OBVIOUS
  <2> USE DEF ProducerInv, Advance
  <2>1. ASSUME NEW p \in Producers, CheckRunning(p) PROVE ProducerInv'
    BY <2>1, Zenon DEF CheckRunning
  <2>2. ASSUME NEW p \in Producers, ReadBinlogEvent(p) PROVE ProducerInv'
    BY <2>2, Zenon DEF ReadBinlogEvent
  <2>3. ASSUME NEW p \in Producers, CheckStopped(p) PROVE ProducerInv'
    BY <2>3, Zenon DEF CheckStopped
  <2>4. CASE ConnectAndStart
    BY <2>4 DEF ConnectAndStart
  <2>5. CASE Receive
    BY <2>5, Zenon DEF Receive
  <2>6. CASE BadConnection \/ CloseConnection \/ StopReplica
    BY <2>6, Zenon DEF BadConnection, CloseConnection, StopReplica, Stop
  <2>7. CASE UNCHANGED producerVars
    BY <2>7, Zenon DEF producerVars
  <2> QED
    BY <2>1, <2>2, <2>3, <2>4, <2>5, <2>6, <2>7, Zenon DEF ProducerNext, Produce
<1>3. ProducerInv => NeverClosed
  BY Zenon DEF ProducerInv, NeverClosed
<1> QED
  BY <1>1, <1>2, <1>3, PTL DEF ProducerSpec

-----------------------------------------------------------------------------
(* ResultWhole and RowsClosedOnce of QueryResult for results, batches and  *)
(* channels of any size and for any number of failures.                    *)
(*                                                                         *)
(* What the client has, the batch under construction, the channel and the  *)
(* row in the reader's hand are one line of consecutive rows, until a      *)
(* goroutine fails; and then nothing is delivered any more.                *)

Rows == Seq(Nat)

ResultType ==
    /\ phase \in {"idle", "exec", "opened", "spool"}
    /\ statement \in [mode : Modes, kind : Kinds, n : Nat]
    /\ next \in Nat /\ held \in Nat /\ count \in Nat /\ failures \in Nat
    /\ rowChan \in Rows /\ r \in Rows /\ sent \in Rows
    /\ rowReader \in {"off", "next", "send", "failed", "done"}
    /\ spooler \in {"off", "top", "select", "drain", "failed", "done"}
    /\ closer \in {"off", "wait", "done"}
    /\ answer \in {"none", "ok", "err"}

\* The rows of s are those that follow the first k.
Follow(s, k) == \A i \in 1 .. Len(s) : s[i] = k + i

\* The spooler is at work, or has ended without an error in the group.
Good == /\ phase = "spool" /\ spooler # "failed"
        /\ spooler = "done" => ~egErr /\ ~returnErr

Reading == rowReader \in {"next", "send"}
InHand == IF rowReader = "send" THEN 1 ELSE 0

\* Where the goroutines are while doQuery is elsewhere, and who has ended
\* before whom.
Control ==
    /\ phase \in {"exec", "opened"} =>
          /\ rowReader = "off" /\ spooler = "off" /\ closer = "off"
          /\ sent = << >> /\ r = << >> /\ rowChan = << >>
          /\ next = 1 /\ count = 0
          /\ ~chanClosed /\ ~cancelled /\ ~egErr /\ ~returnErr
    /\ phase = "opened" => open
    /\ phase = "idle" =>
          /\ rowReader \in {"off", "done"} /\ spooler \in {"off", "done"}
          /\ closer \in {"off", "done"}
    /\ phase = "spool" => rowReader # "off" /\ spooler # "off" /\ closer # "off"
    /\ phase \in {"opened", "spool"} => statement.kind = "rows"
    /\ phase # "idle" => answer = "none"
    /\ closer = "done" => ~Running(rowReader) /\ ~Running(spooler) /\ ~open
    /\ Reading => open
    /\ phase = "exec" => ~open
    /\ phase = "idle" => ~open \/ "format" \in stuck
    /\ cancelled => egErr
    /\ phase = "spool" /\ chanClosed => ~Reading

\* The line of rows.
Line ==
    /\ Follow(sent, 0)
    /\ Good => /\ Follow(r, Len(sent))
               /\ Follow(rowChan, Len(sent) + Len(r))
               /\ count = Len(sent)
               /\ spooler = "done" => rowChan = << >> /\ ~Reading
               /\ Reading => /\ next = Len(sent) + Len(r) + Len(rowChan) + InHand + 1
                             /\ next <= statement.n + 1
                             /\ rowReader = "send" => held + 1 = next
               /\ rowReader = "done" /\ ~egErr /\ ~returnErr
                     => Len(sent) + Len(r) + Len(rowChan) = statement.n
    /\ answer = "ok" => /\ count = statement.n
                        /\ statement.kind = "rows" => Len(sent) = statement.n

ResultInv == ResultType /\ Control /\ Line

-----------------------------------------------------------------------------
(* Lines of rows. *)

\* A line goes on with the next row.
LEMMA FollowAppend ==
    ASSUME NEW s \in Rows, NEW k \in Nat, Follow(s, k)
    PROVE  LET t == Append(s, k + Len(s) + 1)
           IN  t \in Rows /\ Len(t) = Len(s) + 1 /\ Follow(t, k)
BY DEF Follow, Rows

\* Without its first row, a line starts one later.
LEMMA FollowTail ==
    ASSUME NEW s \in Rows, NEW k \in Nat, Follow(s, k), s # << >>
    PROVE  /\ Head(s) = k + 1 /\ Len(s) > 0
           /\ Tail(s) \in Rows /\ Len(Tail(s)) = Len(s) - 1 /\ Follow(Tail(s), k + 1)
BY DEF Follow, Rows

\* Two lines, the second of which starts where the first ends, are one.
LEMMA FollowConcat ==
    ASSUME NEW s \in Rows, NEW t \in Rows, Follow(s, 0), Follow(t, Len(s))
    PROVE  s \o t \in Rows /\ Len(s \o t) = Len(s) + Len(t) /\ Follow(s \o t, 0)
<1>1. s \o t \in Rows /\ Len(s \o t) = Len(s) + Len(t)
  BY DEF Rows
<1>2. ASSUME NEW i \in 1 .. Len(s \o t) PROVE (s \o t)[i] = 0 + i
  <2>1. (s \o t)[i] = IF i <= Len(s) THEN s[i] ELSE t[i - Len(s)]
    BY <1>1 DEF Rows
  <2>2. Len(s) \in Nat /\ Len(t) \in Nat
    BY DEF Rows
  <2> QED
    BY <1>1, <2>1, <2>2 DEF Follow
<1> QED
  BY <1>1, <1>2, Zenon DEF Follow

\* The first part of a line is one.
LEMMA FollowPart ==
    ASSUME NEW s \in Rows, NEW k \in Nat, Follow(s, k), NEW j \in 0 .. Len(s)
    PROVE  SubSeq(s, 1, j) \in Rows /\ Follow(SubSeq(s, 1, j), k)
<1>1. Len(s) \in Nat /\ \A i \in 1 .. Len(s) : s[i] \in Nat
  BY DEF Rows
<1>2. /\ SubSeq(s, 1, j) \in Rows
      /\ Len(SubSeq(s, 1, j)) = j
      /\ \A i \in 1 .. j : SubSeq(s, 1, j)[i] = s[i]
  BY <1>1 DEF Rows
<1> QED
  BY <1>1, <1>2 DEF Follow

-----------------------------------------------------------------------------
(* Every step keeps the invariant. *)

LEMMA InitResultInv == ResultInit => ResultInv
<1> SUFFICES ASSUME ResultInit PROVE ResultInv
  OBVIOUS
<1>1. ResultType
  <2>1. << >> \in Rows
    BY DEF Rows
  <2>2. statement \in [mode : Modes, kind : Kinds, n : Nat]
    BY DEF ResultInit
  <2> QED
    BY <2>1, <2>2, BoundsAssumption, Zenon DEF ResultInit, ResultType
<1>2. Control
  BY Zenon DEF ResultInit, Control, Reading, Running
<1>3. Line
  BY DEF ResultInit, Line, Good, Follow
<1> QED
  BY <1>1, <1>2, <1>3, Zenon DEF ResultInv

\* A new statement starts with empty lines.
LEMMA BeginIInv ==
    ASSUME ResultInv, NEW mode \in Modes, NEW kind \in Kinds, NEW n \in Nat,
           doQuery(mode, kind, n)
    PROVE  ResultInv'
<1>1. ResultType'
  <2>1. << >> \in Rows
    BY DEF Rows
  <2>2. statement' \in [mode : Modes, kind : Kinds, n : Nat]
    BY Zenon DEF doQuery
  <2> QED
    BY <2>1, <2>2, BoundsAssumption, Zenon DEF ResultInv, ResultType, doQuery
<1>2. Control'
  BY Zenon DEF ResultInv, Control, doQuery, Reading, Running
<1>3. Line'
  BY DEF Line, Good, doQuery, Follow
<1> QED
  BY <1>1, <1>2, <1>3, Zenon DEF ResultInv

\* Up to the rows nothing is sent.
LEMMA ExecuteIInv == ASSUME ResultInv, ExecuteStatement PROVE ResultInv'
<1> USE DEF front, rowsV, group, spool
<1>1. CASE phase = "exec" /\ ExecuteFails
  <2>1. ResultType'
    BY <1>1 DEF ResultInv, ResultType, ExecuteFails, Failure, Return
  <2>2. Control'
    BY <1>1, Zenon DEF ResultInv, Control, ExecuteFails, Return, Reading, Running
  <2>3. Line'
    BY <1>1, Zenon DEF ResultInv, Line, Good, ExecuteFails, Return, Follow
  <2> QED
    BY <2>1, <2>2, <2>3, Zenon DEF ResultInv
<1>2. CASE phase = "exec" /\ resultForOkIter
  <2>1. ResultType'
    BY <1>2 DEF ResultInv, ResultType, resultForOkIter, Failure, Return
  <2>2. Control'
    BY <1>2, Zenon DEF ResultInv, Control, resultForOkIter, Return, Reading, Running
  <2>3. Line'
    BY <1>2, Zenon DEF ResultInv, Line, Good, resultForOkIter, Return, Follow
  <2> QED
    BY <2>1, <2>2, <2>3 DEF ResultInv
<1>3. CASE phase = "exec" /\ Opens
  <2>1. ResultType'
    BY <1>3, Zenon DEF ResultInv, ResultType, Opens
  <2>2. Control'
    BY <1>3, Zenon DEF ResultInv, Control, Opens, Reading, Running
  <2>3. Line'
    BY <1>3, Zenon DEF ResultInv, Line, Control, Good, Opens, Follow
  <2> QED
    BY <2>1, <2>2, <2>3 DEF ResultInv
<1>4. CASE NewIter
  <2>1. CASE /\ InferSchemaFails \/ schemaToFieldDescriptionsPanics
             /\ UNCHANGED <<rowReader, spooler, closer>>
    <3>a. failures \in Nat /\ failures > 0 /\ failures' = failures - 1
      BY <2>1, Zenon DEF InferSchemaFails, schemaToFieldDescriptionsPanics, Failure, ResultInv,
                         ResultType
    <3>0. failures' \in Nat
      BY <3>a
    <3>1. ResultType'
      BY <1>4, <2>1, <3>0, Zenon DEF ResultInv, ResultType, NewIter, InferSchemaFails,
         schemaToFieldDescriptionsPanics, Return
    <3>2. Control'
      BY <1>4, <2>1, Zenon DEF ResultInv, Control, NewIter, InferSchemaFails,
         schemaToFieldDescriptionsPanics, Return, Reading,
         Running
    <3>3. Line'
      BY <1>4, <2>1, Zenon DEF ResultInv, Line, Control, Good, NewIter, InferSchemaFails,
         schemaToFieldDescriptionsPanics,
         Return, Follow
    <3> QED
      BY <3>1, <3>2, <3>3 DEF ResultInv
  <2>2. CASE phase' = "spool"
    <3>1. /\ rowReader' = "next" /\ spooler' = "top" /\ closer' = "wait"
          /\ UNCHANGED <<answer, listed, open, failures, stuck>>
      BY <1>4, <2>2, Zenon DEF NewIter, InferSchemaFails, schemaToFieldDescriptionsPanics,
         Return
    <3>2. ResultType'
      BY <1>4, <2>2, <3>1, Zenon DEF ResultInv, ResultType, NewIter
    <3>3. open
      BY <1>4, Zenon DEF NewIter, ResultInv, Control
    <3>4. Control'
      BY <1>4, <2>2, <3>1, <3>3, Zenon DEF ResultInv, Control, NewIter, Reading, Running
    <3>5. Line'
      BY <1>4, <2>2, <3>1 DEF ResultInv, ResultType, Line, Control, Good, NewIter, Follow,
         Reading, InHand
    <3> QED
      BY <3>2, <3>4, <3>5 DEF ResultInv
  <2> QED
    BY <1>4, <2>1, <2>2, Zenon DEF NewIter
<1> QED
  BY <1>1, <1>2, <1>3, <1>4, Zenon
     DEF ExecuteStatement, executeQuery, executeBoundPlan, NewSQLRowIter, NewSqlRowIter

\* An error of a goroutine ends the line.
LEMMA RecordsIInv == ASSUME ResultInv, ReaderRecords \/ SpoolerRecords PROVE ResultInv'
<1> USE DEF front, rowsV, spool
<1>1. CASE ReaderRecords
  <2>1. ResultType'
    BY <1>1, Zenon DEF ResultInv, ResultType, ReaderRecords, EgFail
  <2>2. Control'
    BY <1>1, Zenon DEF ResultInv, Control, ReaderRecords, EgFail, Reading, Running
  <2>3. Line'
    BY <1>1, Zenon DEF ResultInv, Line, Good, ReaderRecords, EgFail, Follow, Reading, InHand
  <2> QED
    BY <2>1, <2>2, <2>3, Zenon DEF ResultInv
<1>2. CASE SpoolerRecords
  <2>1. ResultType'
    BY <1>2, Zenon DEF ResultInv, ResultType, SpoolerRecords, EgFail
  <2>2. Control'
    BY <1>2, Zenon DEF ResultInv, Control, SpoolerRecords, EgFail, Reading, Running
  <2>3. Line'
    BY <1>2, Zenon DEF ResultInv, Line, Good, SpoolerRecords, EgFail, Follow, Reading, InHand
  <2> QED
    BY <2>1, <2>2, <2>3 DEF ResultInv
<1> QED
  BY <1>1, <1>2, Zenon

\* A goroutine at work means that the statement's rows are being spooled.
LEMMA AtWork ==
    ASSUME ResultInv
    PROVE  /\ Running(rowReader) \/ Running(spooler) \/ closer = "wait" => phase = "spool"
           /\ Running(rowReader) => Reading
           /\ Len(sent) \in Nat /\ Len(r) \in Nat /\ Len(rowChan) \in Nat /\ statement.n \in Nat
BY DEF ResultInv, ResultType, Control, Running, Reading, Rows

\* The reader takes the next row, or leaves.
LEMMA ReaderIInv ==
    ASSUME ResultInv, ReaderNext \/ ReaderSend \/ ReaderCancelled PROVE ResultInv'
<1> USE DEF front, rowsV, spool
<1>0. phase = "spool" /\ Reading
  BY AtWork, Zenon DEF ReaderNext, ReaderSend, ReaderCancelled, Reading, Running
<1>1. CASE ReaderNext
  <2>0. /\ rowReader = "next"
        /\ UNCHANGED <<phase, statement, count, answer, rowChan, spooler, closer, cancelled, egErr, r, sent>>
    BY <1>1, Zenon DEF ReaderNext
  <2>1. CASE RowOrEnd /\ UNCHANGED <<failures, returnErr>>
    <3>1. ResultType'
      BY <2>0, <2>1 DEF ResultInv, ResultType, RowOrEnd, ReaderReturns
    <3>2. CASE rowReader' = "send"
      <4>1. /\ next <= statement.n /\ held' = next /\ next' = next + 1
            /\ UNCHANGED <<open, chanClosed>>
        BY <2>1, <3>2, Zenon DEF RowOrEnd, ReaderReturns
      <4>2. Control'
        BY <1>0, <2>0, <2>1, <3>2, <4>1, Zenon DEF ResultInv, Control, Reading, Running
      <4>3. Line'
        <5>1. Good' <=> Good
          BY <2>0, <2>1, Zenon DEF Good
        <5>2. Good => next = Len(sent) + Len(r) + Len(rowChan) + 1 /\ next <= statement.n + 1
          BY <1>0, <2>0, AtWork DEF ResultInv, ResultType, Line, InHand
        <5> QED
          BY <2>0, <2>1, <3>2, <4>1, <5>1, <5>2, AtWork DEF ResultInv, ResultType, Line,
             Reading, InHand
      <4> QED
        BY <3>1, <4>2, <4>3, Zenon DEF ResultInv
    <3>3. CASE rowReader' = "done"
      <4>1. /\ next > statement.n /\ ~open' /\ chanClosed' /\ UNCHANGED next
        BY <2>1, <3>3, Zenon DEF RowOrEnd, ReaderReturns
      <4>2. Control'
        BY <1>0, <2>0, <2>1, <3>3, <4>1, Zenon DEF ResultInv, Control, Reading, Running
      <4>3. Line'
        <5>1. Good' <=> Good
          BY <2>0, <2>1 DEF Good
        <5>2. Good => next = Len(sent) + Len(r) + Len(rowChan) + 1 /\ next <= statement.n + 1
          BY <1>0, <2>0, AtWork DEF ResultInv, ResultType, Line, InHand
        <5> QED
          BY <2>0, <2>1, <3>3, <4>1, <5>1, <5>2, AtWork DEF ResultInv, ResultType, Line,
             Reading, InHand
      <4> QED
        BY <3>1, <4>2, <4>3 DEF ResultInv
    <3> QED
      BY <2>1, <3>2, <3>3, Zenon DEF RowOrEnd, ReaderReturns
  <2>2. CASE DriverFails /\ Failure /\ UNCHANGED returnErr
    <3>1. ResultType'
      BY <2>0, <2>2 DEF ResultInv, ResultType, DriverFails, ReaderReturns, Failure
    <3>2. Control'
      BY <1>0, <2>0, <2>2, Zenon DEF ResultInv, Control, DriverFails, ReaderReturns, Reading,
         Running
    <3>3. Line'
      BY <1>0, <2>0, <2>2, Zenon
         DEF ResultInv, Line, Good, DriverFails, ReaderReturns, Follow, Reading, InHand
    <3> QED
      BY <3>1, <3>2, <3>3 DEF ResultInv
  <2>3. CASE ConversionFails /\ Failure /\ UNCHANGED returnErr
    <3>1. ResultType'
      BY <2>0, <2>3 DEF ResultInv, ResultType, ConversionFails, ReaderReturns, Failure
    <3>2. Control'
      BY <1>0, <2>0, <2>3, Zenon DEF ResultInv, Control, ConversionFails, ReaderReturns,
         Reading, Running
    <3>3. Line'
      BY <1>0, <2>0, <2>3, Zenon
         DEF ResultInv, Line, Good, ConversionFails, ReaderReturns, Follow, Reading, InHand
    <3> QED
      BY <3>1, <3>2, <3>3 DEF ResultInv
  <2>4. CASE ReaderPanics
    <3>1. ResultType'
      BY <2>0, <2>4 DEF ResultInv, ResultType, ReaderPanics, ReaderReturns, Failure
    <3>2. Control'
      BY <1>0, <2>0, <2>4, Zenon DEF ResultInv, Control, ReaderPanics, ReaderReturns, Reading,
         Running
    <3>3. Line'
      BY <1>0, <2>0, <2>4, Zenon
         DEF ResultInv, Line, Good, ReaderPanics, ReaderReturns, Follow, Reading, InHand
    <3> QED
      BY <3>1, <3>2, <3>3 DEF ResultInv
  <2> QED
    BY <1>1, <2>1, <2>2, <2>3, <2>4, Zenon DEF ReaderNext, SQLRowIter_Next, SqlRowIter_Next
<1>2. CASE ReaderSend
  <2>1. ResultType'
    BY <1>2 DEF ResultInv, ResultType, ReaderSend, Rows
  <2>2. Control'
    BY <1>0, <1>2, Zenon DEF ResultInv, Control, ReaderSend, Reading, Running
  <2>3. Line'
    <3>1. CASE Good
      <4>0. /\ Follow(rowChan, Len(sent) + Len(r))
            /\ next = Len(sent) + Len(r) + Len(rowChan) + InHand + 1 /\ held + 1 = next
        BY <1>0, <1>2, <3>1, Zenon DEF ResultInv, Line, ReaderSend
      <4>n. InHand = 1 /\ held \in Nat /\ next \in Nat
        BY <1>2, Zenon DEF ResultInv, ResultType, ReaderSend, InHand
      <4>1. Follow(rowChan, Len(sent) + Len(r)) /\ held = Len(sent) + Len(r) + Len(rowChan) + 1
        BY <4>0, <4>n, AtWork
      <4>2. Len(rowChan') = Len(rowChan) + 1 /\ Follow(rowChan', Len(sent) + Len(r))
        BY <1>2, <4>1, FollowAppend, AtWork DEF ReaderSend, ResultInv, ResultType
      <4> QED
        BY <1>2, <3>1, <4>1, <4>2, AtWork
           DEF ResultInv, ResultType, Line, Good, ReaderSend, Reading, InHand
    <3>2. CASE ~Good
      BY <1>2, <3>2, Zenon DEF ResultInv, Line, Good, ReaderSend
    <3> QED
      BY <3>1, <3>2, Zenon
  <2> QED
    BY <2>1, <2>2, <2>3 DEF ResultInv
<1>3. CASE ReaderCancelled
  <2>1. ResultType'
    BY <1>3, Zenon DEF ResultInv, ResultType, ReaderCancelled, ReaderReturns
  <2>2. Control'
    BY <1>0, <1>3, Zenon DEF ResultInv, Control, ReaderCancelled, ReaderReturns, Reading,
       Running
  <2>3. Line'
    BY <1>0, <1>3, Zenon DEF ResultInv, Line, Control, Good, ReaderCancelled, ReaderReturns,
       Follow, Reading
  <2> QED
    BY <2>1, <2>2, <2>3 DEF ResultInv
<1> QED
  BY <1>1, <1>2, <1>3, Zenon

\* What a callback sends, all of it or a part, goes on with the client's line.
LEMMA DeliversIInv ==
    ASSUME ResultInv, Good, Delivers(r) \/ DeliversPart(r)
    PROVE  /\ sent' \in Rows /\ Follow(sent', 0)
           /\ count' \in Nat
           /\ Delivers(r) => /\ Len(sent') = Len(sent) + Len(r)
                            /\ count' = Len(sent')
<1>1. Follow(sent, 0) /\ Follow(r, Len(sent)) /\ count = Len(sent)
  BY Zenon DEF ResultInv, Line
<1>2. CASE Delivers(r)
  BY <1>1, <1>2, FollowConcat, AtWork DEF ResultInv, ResultType, Delivers
<1>3. CASE DeliversPart(r)
  <2>1. PICK k \in 0 .. Len(r) : sent' = sent \o SubSeq(r, 1, k)
    BY <1>3, Zenon DEF DeliversPart
  <2>2. SubSeq(r, 1, k) \in Rows /\ Follow(SubSeq(r, 1, k), Len(sent))
    BY <1>1, <2>1, FollowPart, AtWork, Zenon DEF ResultInv, ResultType
  <2>3. sent' \in Rows /\ Follow(sent', 0) /\ count' \in Nat
    BY <1>1, <1>3, <2>1, <2>2, FollowConcat, Zenon DEF ResultInv, ResultType, DeliversPart
  <2>4. Delivers(r) => Len(sent') = Len(sent) + Len(r) /\ count' = Len(sent')
    BY <1>1, FollowConcat, AtWork, Zenon DEF ResultInv, ResultType, Delivers
  <2> QED
    BY <2>3, <2>4, Zenon
<1> QED
  BY <1>2, <1>3, Zenon

\* A batch moves from the spooler to the client, or breaks off.
LEMMA SpoolBatchIInv == ASSUME ResultInv, SpoolBatch PROVE ResultInv'
<1> USE DEF rowsV
<1>0. /\ phase = "spool" /\ Good
      /\ UNCHANGED <<phase, statement, answer, next, open, rowChan, chanClosed, rowReader, held, closer,
                     cancelled, egErr, returnErr>>
  BY AtWork, Zenon DEF SpoolBatch, Good, Running
<1>1. CASE Delivers(r) /\ r' = << >> /\ UNCHANGED <<spooler, failures>>
  <2>1. ResultType'
    <3>1. << >> \in Rows
      BY DEF Rows
    <3> QED
      BY <1>0, <1>1, <3>1, DeliversIInv DEF ResultInv, ResultType
  <2>2. Control'
    BY <1>0, <1>1, Zenon DEF ResultInv, Control, Reading, Running
  <2>3. Line'
    <3>1. Good' /\ Len(r') = 0 /\ Len(sent') = Len(sent) + Len(r) /\ count' = Len(sent')
      BY <1>0, <1>1, DeliversIInv, Zenon DEF Good
    <3>2. Follow(sent', 0) /\ Follow(r', Len(sent'))
      BY <1>1, DeliversIInv, <1>0 DEF Follow
    <3>3. Len(sent') + Len(r') = Len(sent) + Len(r)
      BY <3>1, AtWork
    <3>4. Len(sent') + Len(r') + Len(rowChan) = Len(sent) + Len(r) + Len(rowChan)
      BY <3>3, Zenon
    <3> QED
      BY <1>0, <1>1, <3>1, <3>2, <3>3, <3>4 DEF ResultInv, Line, Control, Reading, InHand
  <2> QED
    BY <2>1, <2>2, <2>3 DEF ResultInv
<1>2. CASE DeliversPart(r) /\ spooler' = "failed" /\ UNCHANGED <<r, processed>>
  <2>0. failures' \in Nat
    BY <1>2 DEF DeliversPart, Failure, ResultInv, ResultType
  <2>1. ResultType'
    BY <1>0, <1>2, <2>0, DeliversIInv, Zenon DEF ResultInv, ResultType
  <2>2. Control'
    BY <1>0, <1>2, AtWork DEF ResultInv, Control, SpoolBatch, Reading, Running
  <2>3. Line'
    BY <1>0, <1>2, DeliversIInv, Zenon DEF ResultInv, Line, Control, Good
  <2> QED
    BY <2>1, <2>2, <2>3 DEF ResultInv
<1> QED
  BY <1>1, <1>2, Zenon DEF SpoolBatch

\* A row moves from the channel to the batch, or is lost with the spooler.
LEMMA SpoolRowIInv == ASSUME ResultInv, SpoolRow PROVE ResultInv'
<1> USE DEF front
<1>0. /\ phase = "spool" /\ Good /\ spooler = "select" /\ rowChan # << >> /\ rowChan' = Tail(rowChan)
      /\ UNCHANGED <<phase, statement, answer, count, next, open, chanClosed, rowReader, held, closer,
                     cancelled, egErr, sent>>
  BY AtWork, Zenon DEF SpoolRow, Good, Running
<1>a. /\ Head(rowChan) = Len(sent) + Len(r) + 1 /\ Len(rowChan) > 0
      /\ Tail(rowChan) \in Rows /\ Len(Tail(rowChan)) = Len(rowChan) - 1
      /\ Follow(Tail(rowChan), Len(sent) + Len(r) + 1)
  BY <1>0, FollowTail, AtWork DEF ResultInv, ResultType, Line
<1>1. CASE r' = Append(r, Head(rowChan)) /\ spooler' = "top" /\ UNCHANGED <<failures, returnErr>>
  <2>0. r' \in Rows /\ Len(r') = Len(r) + 1 /\ Follow(r', Len(sent))
    BY <1>0, <1>a, <1>1, FollowAppend, AtWork, Zenon DEF ResultInv, ResultType, Line
  <2>1. ResultType'
    BY <1>0, <1>a, <1>1, <2>0, Zenon DEF ResultInv, ResultType
  <2>2. Control'
    BY <1>0, <1>1, AtWork, Zenon DEF ResultInv, Control, Reading, Running
  <2>3. Line'
    <3>1. Good'
      BY <1>0, <1>1, Zenon DEF Good
    <3>2. Len(sent') + Len(r') = Len(sent) + Len(r) + 1
      BY <1>0, <2>0, AtWork
    <3>3. Len(sent') + Len(r') + Len(rowChan') = Len(sent) + Len(r) + Len(rowChan)
      BY <1>0, <1>a, <2>0, AtWork
    <3> QED
      BY <1>0, <1>a, <1>1, <2>0, <3>1, <3>2, <3>3, Zenon DEF ResultInv, Line, Control, Reading,
         InHand
  <2> QED
    BY <2>1, <2>2, <2>3 DEF ResultInv
<1>2. CASE rowToBytesFails /\ UNCHANGED <<r, timer>>
  <2>0. failures' \in Nat
    BY <1>2 DEF rowToBytesFails, Failure, ResultInv, ResultType
  <2>1. ResultType'
    BY <1>0, <1>a, <1>2, <2>0, Zenon DEF ResultInv, ResultType, rowToBytesFails
  <2>2. Control'
    BY <1>0, <1>2, Zenon DEF ResultInv, Control, rowToBytesFails, Reading, Running
  <2>3. ~Good'
    BY <1>2, Zenon DEF rowToBytesFails, Good
  <2>4. Line'
    BY <1>0, <1>2, <2>3, Zenon DEF ResultInv, Line, Control
  <2> QED
    BY <2>1, <2>2, <2>4 DEF ResultInv
<1> QED
  BY <1>1, <1>2, Zenon DEF SpoolRow

\* The spooler's other steps move no row; it ends when the channel is closed
\* and empty, and with it the line, or after an error of another goroutine.
LEMMA SpoolOtherIInv ==
    ASSUME ResultInv, SpoolSelect \/ SpoolEnd \/ SpoolTick \/ Tick PROVE ResultInv'
<1> USE DEF front, rowsV, spool, group
<1>1. CASE SpoolSelect
  <2>1. ResultType'
    BY <1>1, Zenon DEF ResultInv, ResultType, SpoolSelect
  <2>2. Control'
    BY <1>1, AtWork, Zenon DEF ResultInv, Control, SpoolSelect, Reading, Running
  <2>3. Line'
    BY <1>1, AtWork, Zenon DEF ResultInv, Line, Control, Good, SpoolSelect, Reading, InHand
  <2> QED
    BY <2>1, <2>2, <2>3, Zenon DEF ResultInv
<1>2. CASE SpoolEnd
  <2>1. ResultType'
    BY <1>2, Zenon DEF ResultInv, ResultType, SpoolEnd
  <2>2. Control'
    BY <1>2, AtWork, Zenon DEF ResultInv, Control, SpoolEnd, Reading, Running
  <2>3. Line'
    BY <1>2, AtWork, Zenon DEF ResultInv, Line, Control, Good, SpoolEnd, Reading, InHand,
       Running
  <2> QED
    BY <2>1, <2>2, <2>3 DEF ResultInv
<1>3. CASE SpoolTick
  <2>1. ResultType'
    BY <1>3, Zenon DEF ResultInv, ResultType, SpoolTick
  <2>2. Control'
    BY <1>3, AtWork, Zenon DEF ResultInv, Control, SpoolTick, Reading, Running
  <2>3. Line'
    BY <1>3, AtWork, Zenon DEF ResultInv, Line, Control, Good, SpoolTick, Reading, InHand
  <2> QED
    BY <2>1, <2>2, <2>3 DEF ResultInv
<1>4. CASE Tick
  <2>1. ResultType'
    BY <1>4 DEF ResultInv, ResultType, Tick
  <2>2. Control'
    BY <1>4, AtWork, Zenon DEF ResultInv, Control, Tick, Reading, Running
  <2>3. Line'
    BY <1>4, AtWork, Zenon DEF ResultInv, Line, Control, Good, Tick, Reading, InHand
  <2> QED
    BY <2>1, <2>2, <2>3 DEF ResultInv
<1> QED
  BY <1>1, <1>2, <1>3, <1>4, Zenon

\* The closer moves no row, and comes after both others.
LEMMA CloserIInv == ASSUME ResultInv, Closer PROVE ResultInv'
<1> USE DEF front, spool
<1>0. /\ phase = "spool" /\ closer' = "done" /\ ~open'
      /\ ~Running(rowReader) /\ ~Running(spooler) /\ ~Reading
      /\ UNCHANGED <<phase, statement, answer, count, next, rowChan, chanClosed, rowReader, held, spooler, r, sent,
                     returnErr>>
  BY AtWork, Zenon DEF Closer, CloseIter, Running, Reading
<1>1. failures' \in Nat
  BY DEF Closer, CloseIter, Failure, ResultInv, ResultType
<1>2. (egErr => egErr') /\ (cancelled' => egErr')
  BY DEF Closer, CloseIter, EgFail, ResultInv, Control
<1>3. ResultType'
  BY <1>0, <1>1, Zenon DEF ResultInv, ResultType
<1>4. Control'
  BY <1>0, <1>2, Zenon DEF ResultInv, Control, Reading, Running
<1>5. Line'
  BY <1>0, <1>2, Zenon DEF ResultInv, Line, Control, Good, Reading
<1> QED
  BY <1>3, <1>4, <1>5 DEF ResultInv

\* At the end what is left in the batch is the rest of the result.
LEMMA FinishIInv == ASSUME ResultInv, FinishResult PROVE ResultInv'
<1> USE DEF rowsV, group
<1>0. /\ phase = "spool" /\ phase' = "idle" /\ answer' \in {"ok", "err"} /\ ~open
      /\ rowReader = "done" /\ spooler = "done" /\ closer = "done" /\ statement.kind = "rows"
      /\ UNCHANGED <<statement, next, open, rowChan, chanClosed, rowReader, held, spooler, closer, cancelled,
                     egErr, r, returnErr>>
  BY Zenon DEF FinishResult, Return, ResultInv, Control
<1>1. Control'
  BY <1>0, Zenon DEF ResultInv, Control, Reading, Running
<1>2. CASE UNCHANGED <<sent, count, failures>> /\ answer' = "err"
  <2>1. ResultType'
    BY <1>0, <1>2, Zenon DEF ResultInv, ResultType
  <2>2. Line'
    BY <1>0, <1>2, Zenon DEF ResultInv, Line, Good
  <2> QED
    BY <1>1, <2>1, <2>2, Zenon DEF ResultInv
<1>3. CASE ~egErr /\ ~returnErr
  <2>1. Good
    BY <1>0, <1>3, Zenon DEF Good
  <2>2. rowChan = << >> /\ count = Len(sent) /\ Len(sent) + Len(r) + Len(rowChan) = statement.n
    BY <1>0, <1>3, <2>1, Zenon DEF ResultInv, Line
  <2>3. Len(sent) + Len(r) = statement.n
    BY <2>2, AtWork
  <2>4. CASE NothingLeft /\ UNCHANGED <<sent, count, failures>>
    <3>1. ResultType'
      BY <1>0, <2>4, Zenon DEF ResultInv, ResultType
    <3>2. Len(sent) = statement.n
      BY <2>3, <2>4, AtWork DEF NothingLeft
    <3>3. Line'
      BY <1>0, <2>2, <2>4, <3>2, Zenon DEF ResultInv, Line, Good
    <3> QED
      BY <1>1, <3>1, <3>3 DEF ResultInv
  <2>5. CASE Delivers(r) /\ UNCHANGED failures
    <3>1. ResultType'
      BY <1>0, <2>1, <2>5, DeliversIInv, Zenon DEF ResultInv, ResultType
    <3>2. Line'
      BY <1>0, <2>1, <2>3, <2>5, DeliversIInv, Zenon DEF ResultInv, Line, Good
    <3> QED
      BY <1>1, <3>1, <3>2 DEF ResultInv
  <2>6. CASE DeliversPart(r) /\ answer' = "err"
    <3>0. failures' \in Nat
      BY <2>6 DEF DeliversPart, Failure, ResultInv, ResultType
    <3>1. ResultType'
      BY <1>0, <2>1, <2>6, <3>0, DeliversIInv, Zenon DEF ResultInv, ResultType
    <3>2. Line'
      BY <1>0, <2>1, <2>6, DeliversIInv, Zenon DEF ResultInv, Line, Good
    <3> QED
      BY <1>1, <3>1, <3>2 DEF ResultInv
  <2> QED
    BY <1>3, <2>4, <2>5, <2>6, Zenon DEF FinishResult, Return
<1> QED
  BY <1>2, <1>3, Zenon DEF FinishResult, Return

LEMMA NextResultInv == ASSUME ResultInv, [ResultNext]_resultVars PROVE ResultInv'
<1>1. CASE ComQuery \/ ComExecuteBound
  <2>1. PICK mode \in Modes, kind \in Kinds, n \in 0 .. MaxResult : doQuery(mode, kind, n)
    BY <1>1, Zenon DEF ComQuery, ComExecuteBound, Modes
  <2> QED
    BY <2>1, BeginIInv, BoundsAssumption
<1>2. CASE ExecuteStatement
  BY <1>2, ExecuteIInv, Zenon
<1>3. CASE Reader
  BY <1>3, ReaderIInv, RecordsIInv, Zenon DEF Reader
<1>4. CASE Spooler \/ Tick
  BY <1>4, SpoolBatchIInv, SpoolRowIInv, SpoolOtherIInv, RecordsIInv, Zenon DEF Spooler
<1>5. CASE Closer
  BY <1>5, CloserIInv
<1>6. CASE FinishResult
  BY <1>6, FinishIInv
<1>7. CASE UNCHANGED resultVars
  <2> USE <1>7 DEF resultVars, front, rowsV, group, spool
  <2>1. ResultType'
    BY DEF ResultInv, ResultType
  <2>2. Control'
    BY Zenon DEF ResultInv, Control, Reading, Running
  <2>3. Line'
    BY Zenon DEF ResultInv, Line, Good, Reading, InHand
  <2> QED
    BY <2>1, <2>2, <2>3, Zenon DEF ResultInv
<1> QED
  BY <1>1, <1>2, <1>3, <1>4, <1>5, <1>6, <1>7, Zenon DEF ResultNext

LEMMA ResultInvariance == ResultSpec => []ResultInv
<1>1. ResultInv /\ [ResultNext]_resultVars => ResultInv'
  BY NextResultInv, Zenon
<1> QED
  BY InitResultInv, <1>1, PTL DEF ResultSpec

-----------------------------------------------------------------------------
\* resultForDefaultIter neither loses nor repeats a row between the iterator
\* and the client, and a result reported as complete is complete, for every
\* batch size, every capacity of rowChan and every interleaving of the three
\* goroutines with failures.
THEOREM Whole == ResultSpec => []ResultWhole
<1>1. ResultInv => ResultWhole
  BY AtWork DEF ResultInv, ResultType, Line, Follow, ResultWhole, Rows
<1> QED
  BY ResultInvariance, <1>1, PTL

\* The rows are open while the reader uses them, and closed when the client
\* has its answer, whatever has failed but the format codes of its portal.
THEOREM ClosedOnce == ResultSpec => []RowsClosedOnce
<1>1. ResultInv => RowsClosedOnce
  BY Zenon DEF ResultInv, Control, Reading, RowsClosedOnce
<1> QED
  BY ResultInvariance, <1>1, PTL

====
