---------------------------- MODULE StorageProofs ----------------------------
(***************************************************************************)
(* What holds of the provider, the pool and BACKUP for any number of       *)
(* sessions, commands, restarts and faults (Storage).  StorageSteps states *)
(* the invariants and shows that every step keeps Core; here every step is *)
(* shown to keep the others.                                               *)
(***************************************************************************)
EXTENDS StorageSteps

-----------------------------------------------------------------------------
(* The pool serves the instance that is open *)

LEMMA ServesOrdinary ==
    ASSUME TypeOK, Serves, NEW s \in Sessions, NEW n, NEW k, Ordinary(s, n, k),
           pool.orphan => pool'.orphan,
           s \in pool'.txns /\ n.tx = "done" => s \in pool.txns /\ sess[s].tx = "done"
    PROVE  Serves'
<1>1. /\ sess'[s] = n
      /\ \A t \in Sessions : t # s => sess'[t] = sess[t]
      /\ \A t \in Sessions : sess'[t].pc = "swap" <=> sess[t].pc = "swap"
      /\ \A t \in Sessions : sess'[t].pc = "reset" <=> sess[t].pc = "reset"
      /\ Restarting' <=> Restarting
  BY OrdinaryOthers DEF RestartPCs
<1>2. /\ duck'.gen = duck.gen /\ duck'.closed = duck.closed /\ pool'.db = pool.db
      /\ \A t \in Sessions \ {s} : t \in pool'.txns <=> t \in pool.txns
      /\ left'.faults <= left.faults /\ left'.faults \in Nat /\ left.faults \in Nat
  BY Zenon DEF Ordinary, TypeOK, Shared
<1>3. left.faults <= MaxFaults /\ MaxFaults \in Nat
  BY StorageAssumption, Zenon DEF Serves
<1>4. left'.faults <= MaxFaults /\ (left'.faults = MaxFaults => left.faults = MaxFaults)
  BY <1>2, <1>3
<1> QED
  <2>1. ASSUME ~pool'.orphan
        PROVE  /\ (\A t \in Sessions : PC(t)' \notin {"reset", "swap"}) => pool'.db = duck'.gen
               /\ left'.faults = MaxFaults => Restarting' \/ duck'.gen \notin duck'.closed
    BY <1>1, <1>2, <1>4, <2>1, Zenon DEF Serves, PC
  <2>2. ASSUME ~pool'.orphan, NEW t \in Sessions, t \in pool'.txns, sess'[t].tx = "done"
        PROVE  \E p \in Sessions : PC(p)' = "swap"
    <3>1. t \in pool.txns /\ sess[t].tx = "done"
      BY <1>1, <1>2, <2>2, Zenon
    <3> QED
      BY <1>1, <2>2, <3>1, Zenon DEF Serves, PC
  <2> QED
    BY <1>4, <2>1, <2>2, Zenon DEF Serves

LEMMA ServesNext == ASSUME Core, Serves, [Next]_vars PROVE Serves'
<1>0. TypeOK /\ Restarts /\ Connections
  BY Zenon DEF Core
<1>a. left.faults <= MaxFaults /\ MaxFaults \in Nat /\ left.faults \in Nat
  BY <1>0, StorageAssumption, Zenon DEF Serves, TypeOK, Shared
<1>1. CASE UNCHANGED vars
  BY <1>1, Zenon DEF vars, Serves, Restarting, PC
<1>2. CASE NewDBProvider
  <2>1. /\ duck'.gen = duck.gen + 1 /\ duck'.closed = 1..duck.gen
        /\ pool'.db = duck.gen + 1 /\ pool'.txns = {}
        /\ left'.faults \in Nat /\ left'.faults < left.faults
    BY <1>0, <1>2, NewFields, Zenon DEF TypeOK, Shared
  <2>2. duck.gen \in Nat
    BY <1>0, Zenon DEF TypeOK, Shared, Instances
  <2>3. left'.faults <= MaxFaults /\ duck'.gen \notin duck'.closed /\ pool'.db = duck'.gen
    BY <1>a, <2>1, <2>2
  <2> QED
    BY <2>1, <2>3, Zenon DEF Serves
<1>3. ASSUME NEW s \in Sessions, Minors(s) \/ CatStep(s) \/ BackStep(s)
      PROVE  Serves'
  <2>1. PICK n \in Session, k \in Connection : Light(s, n, k)
    BY <1>0, <1>3, LightSteps, Zenon
  <2>2. /\ Ordinary(s, n, k) /\ pool'.orphan = pool.orphan /\ n.tx = sess[s].tx
        /\ s \in pool'.txns => s \in pool.txns \/ n.tx = "none"
    BY <2>1, Zenon DEF Light, Carries, SamePool
  <2> QED
    BY <1>0, <2>2, ServesOrdinary, Zenon
<1>4. ASSUME NEW s \in Sessions, ConnStep(s)
      PROVE  Serves'
  <2>1. PICK n \in Session, k \in Connection :
           /\ Ordinary(s, n, k) /\ (pool.orphan => pool'.orphan)
           /\ s \in pool'.txns /\ n.tx = "done" => s \in pool.txns /\ sess[s].tx = "done"
    <3>0. CASE Take(s) /\ pool.db \notin duck.closed
      BY <1>0, <3>0, TakeFields DEF Carries
    <3>1. CASE Store(s)
      BY <1>0, <3>1, StoreFields, Zenon DEF Carries
    <3>2. CASE CloseConn(s) \/ GetTxn(s)
      BY <1>0, <3>2, CloseConnFields, GetTxnFields, Zenon
    <3>3. CASE CommitTransaction(s) \/ Rollback(s)
      BY <1>0, <3>3, CommitFields, RollbackFields
    <3>4. CASE executeDML(s)
      BY <1>0, <3>4, DMLFields
    <3>5. CASE doCheckpoint(s) /\ (conn[s].open /\ CanCheckpoint(s))
      BY <1>0, <3>5, CheckpointFields DEF Carries
    <3> QED
      BY <1>4, <3>0, <3>1, <3>2, <3>3, <3>4, <3>5, Zenon DEF ConnStep
  <2> QED
    BY <1>0, <2>1, ServesOrdinary, Zenon
<1>5. ASSUME NEW s \in Sessions, RestartStep(s)
      PROVE  Serves'
  <2>0. {"open", "reset", "swap"} \subseteq RestartPCs
    BY Zenon DEF RestartPCs
  <2>1. CASE ProviderClose(s)
    <3>1. /\ \A t \in Sessions : sess'[t].tx = sess[t].tx /\ sess[t].pc \notin {"reset", "swap"}
          /\ sess'[s].pc = "open" /\ pool' = pool /\ left' = left /\ duck'.gen = duck.gen
      BY <1>0, <2>0, <2>1, ProviderCloseFields, OneRestart DEF Carries, PC
    <3>2. Restarting'
      BY <3>1, Zenon DEF Restarting
    <3> QED
      BY <3>1, <3>2, Zenon DEF Serves, PC
  <2>2. CASE ProviderOpen(s) /\ left' = left
    <3>1. /\ \A t \in Sessions : sess'[t].tx = sess[t].tx
          /\ sess[s].pc = "open" /\ sess'[s].pc = "reset" /\ pool' = pool
      BY <1>0, <2>2, OpenFields, Zenon DEF Carries
    <3>2. \A t \in Sessions : sess[t].pc # "swap"
      BY <1>0, <2>0, <3>1, OneRestart, Zenon DEF PC
    <3>3. Restarting' /\ PC(s)' \in {"reset", "swap"}
      BY <3>1, Zenon DEF Restarting, PC
    <3> QED
      BY <2>2, <3>1, <3>2, <3>3, Zenon DEF Serves, PC
  <2>3. CASE ProviderOpen(s) /\ left' # left
    <3>1. /\ sess[s].pc = "open" /\ UNCHANGED <<duck, pool>> /\ left'.faults < left.faults
          /\ \A t \in Sessions : sess'[t].tx = sess[t].tx
          /\ TypeOK'
      BY <1>0, <2>3, OpenFailsFields, Zenon DEF Carries
    <3>2. \A t \in Sessions : sess[t].pc \notin {"reset", "swap"}
      BY <1>0, <2>0, <3>1, OneRestart, Zenon DEF PC
    <3>3. left'.faults \in Nat
      BY <3>1, Zenon DEF TypeOK, Shared
    <3>4. left'.faults <= MaxFaults /\ left'.faults # MaxFaults
      BY <1>a, <3>1, <3>3
    <3> QED
      BY <3>1, <3>2, <3>4, Zenon DEF Serves, PC
  <2>4. CASE PoolClose(s)
    <3>1. /\ sess[s].pc = "reset" /\ pool' = pool /\ left' = left
          /\ ~RollbackErrs => sess'[s].pc = "swap"
      BY <1>0, <2>4, PoolCloseFields, Zenon
    <3>2. \A t \in Sessions : sess[t].pc # "swap"
      BY <1>0, <2>0, <3>1, OneRestart, Zenon DEF PC
    <3>3. ~pool.orphan => ~RollbackErrs
      BY <1>0, <3>2, Zenon DEF Serves, RollbackErrs, PC, TypeOK, Shared
    <3>4. ~RollbackErrs => Restarting' /\ \E p \in Sessions : PC(p)' = "swap"
      BY <3>1, Zenon DEF Restarting, PC
    <3> QED
      BY <1>a, <3>1, <3>3, <3>4, Zenon DEF Serves
  <2>5. CASE ResetSwap(s)
    <3>1. /\ sess[s].pc = "swap" /\ duck' = duck /\ pool'.db = duck.gen /\ pool'.txns = {} /\ left' = left
      BY <1>0, <2>5, ResetSwapFields, Zenon
    <3>2. duck.gen \notin duck.closed
      BY <1>0, <3>1, Zenon DEF Restarts, PC
    <3> QED
      BY <1>a, <3>1, <3>2, Zenon DEF Serves
  <2> QED
    BY <1>5, <2>1, <2>2, <2>3, <2>4, <2>5, Zenon DEF RestartStep
<1> QED
  BY <1>0, <1>1, <1>2, <1>3, <1>4, <1>5, NextCases

\* Outside a restart the pool hands out connections of the provider's instance, for any
\* number of sessions, restarts and faults (Restart, Reset, Close), and without faults
\* that instance is open; unless a client left with a transaction in the pool.
THEOREM PoolFollowsProvider == Spec => []PoolServes
<1>1. Init => Core /\ Serves
  <2>1. ASSUME Init PROVE Serves
    <3>1. left.faults = MaxFaults /\ MaxFaults \in Nat /\ pool.db = 1 /\ duck.gen = 1
          /\ duck.closed = {} /\ pool.txns = {}
      BY <2>1, StorageAssumption, Zenon DEF Init
    <3> QED
      BY <3>1 DEF Serves
  <2> QED
    BY <2>1, CoreInit, Zenon
<1>2. Core /\ Serves /\ [Next]_vars => Core' /\ Serves'
  BY CoreNext, ServesNext, Zenon
<1>3. Core /\ Serves => PoolServes
  <2>1. ASSUME Core, Serves PROVE PoolServes
    <3>1. left.faults <= MaxFaults /\ left.faults \in Nat /\ MaxFaults \in Nat
      BY <2>1, StorageAssumption, Zenon DEF Serves, Core, TypeOK, Shared
    <3>2. left.faults < MaxFaults \/ left.faults = MaxFaults
      BY <3>1
    <3>3. ~Restarting => \A s \in Sessions : PC(s) \notin {"reset", "swap"}
      BY Zenon DEF Restarting, PC
    <3> QED
      BY <2>1, <3>2, <3>3, Zenon DEF Serves, PoolServes, StorageOpen
  <2> QED
    BY <2>1, Zenon
<1> QED
  BY <1>1, <1>2, <1>3, PTL DEF Spec

-----------------------------------------------------------------------------
(* Rows: what was acknowledged and what was given up *)

InOpen == duck.inst[duck.gen]
InFiles == duck.file \union duck.wal

LEMMA RowsNext == Core /\ Rows /\ [Next]_vars => Rows'
\* A step in which the rows W of s, from its transaction or new, are written, and the
\* rows D of its transaction given up.
<1>RowsStep.
    ASSUME TypeOK, Restarts, TypeOK', Rows, NEW s \in Sessions, NEW W, NEW D \in SUBSET sess[s].buf,
           left'.writes <= left.writes,
           \A t \in Sessions : t # s => sess'[t].buf \subseteq sess[t].buf,
           \A x \in W \union sess'[s].buf :
              x \in sess[s].buf \/ (x = left.writes /\ left'.writes < left.writes),
           D \intersect (W \union sess'[s].buf) = {}, W \intersect sess'[s].buf = {},
           InOpen' \subseteq InOpen \union InFiles \union W,
           InFiles' \subseteq InFiles \union W,
           hist'.gone = hist.gone \union D,
           hist'.kept \subseteq InFiles' \intersect InOpen'
    PROVE  Rows'
  <2> USE <1>RowsStep
  <2>0. left.writes \in Nat /\ left'.writes \in Nat
    BY Zenon DEF TypeOK, Shared
  <2>1. \A t \in Sessions : sess[t].buf \subseteq Nat /\ sess'[t].buf \subseteq Nat
    BY Zenon DEF TypeOK, Session
  <2>2. hist.gone \subseteq Nat /\ InFiles \subseteq Nat /\ InOpen \subseteq Nat
    <3>1. duck.gen \in 1..Len(duck.inst)
      BY DEF Restarts
    <3>2. duck.inst \in Seq(SUBSET Nat)
      BY Zenon DEF TypeOK, Shared, Instances
    <3>3. InOpen \in SUBSET Nat
      BY <3>1, <3>2 DEF InOpen
    <3> QED
      BY <3>3, Zenon DEF TypeOK, Shared, Instances, InFiles
  <2>3. ASSUME NEW x \in W \union D \union sess'[s].buf
        PROVE  /\ x \in Nat /\ x > left'.writes /\ x \notin hist.gone \union InFiles \union InOpen
               /\ \A t \in Sessions : t # s => x \notin sess[t].buf
    <3>1. CASE x \in sess[s].buf
      <4>1. x \in Nat /\ x > left.writes
        BY <2>1, <3>1, Zenon DEF Rows
      <4>2. x > left'.writes
        BY <2>0, <4>1
      <4> QED
        BY <3>1, <4>1, <4>2, Zenon DEF Rows, InFiles, InOpen
    <3>2. CASE x = left.writes /\ left'.writes < left.writes
      <4>1. x \in Nat /\ x > left'.writes /\ ~(x > left.writes)
        BY <2>0, <3>2
      <4> QED
        BY <4>1, Zenon DEF Rows, InFiles, InOpen
    <3> QED
      BY <2>3, <3>1, <3>2, Zenon
  <2>4. ASSUME NEW x \in InFiles \union InOpen \union hist.gone PROVE x > left'.writes
    <3>1. x > left.writes
      BY <2>4, Zenon DEF Rows, InFiles, InOpen
    <3>2. x \in Nat
      BY <2>2, Zenon
    <3> QED
      BY <2>0, <3>1, <3>2
  <2>5. ASSUME NEW t \in Sessions, NEW x \in sess'[t].buf
        PROVE  /\ x > left'.writes /\ x \notin hist'.gone \union InFiles' \union InOpen'
               /\ \A r \in Sessions : r # t => x \notin sess'[r].buf
    <3>1. CASE t = s
      BY <2>3, <2>5, <3>1, Zenon
    <3>2. CASE t # s
      <4>1. /\ x \in sess[t].buf /\ x \in Nat /\ x > left.writes
            /\ x \notin hist.gone \union InFiles \union InOpen
            /\ \A r \in Sessions : r # t => x \notin sess[r].buf
        BY <2>1, <2>5, <3>2, Zenon DEF Rows, InFiles, InOpen
      <4>2. x > left'.writes
        BY <2>0, <4>1
      <4>3. x \notin W \union D \union sess'[s].buf
        BY <2>3, <3>2, <4>1, Zenon
      <4> QED
        BY <3>2, <4>1, <4>2, <4>3, Zenon
    <3> QED
      BY <3>1, <3>2, Zenon
  <2>6. \A x \in hist'.kept \union hist'.gone \union InFiles' \union InOpen' : x > left'.writes
    BY <2>3, <2>4, Zenon
  <2>7. ASSUME NEW x \in hist'.gone PROVE x \notin InFiles' \union InOpen'
    <3>1. CASE x \in D
      BY <2>3, <3>1, Zenon
    <3>2. CASE x \in hist.gone
      BY <2>3, <3>2, Zenon DEF Rows, InFiles, InOpen
    <3> QED
      BY <2>7, <3>1, <3>2, Zenon
  <2>8. /\ \A x \in hist'.kept \union hist'.gone \union duck'.file \union duck'.wal : x > left'.writes
        /\ \A x \in duck'.inst[duck'.gen] : x > left'.writes
        /\ hist'.kept \subseteq duck'.file \union duck'.wal
        /\ hist'.kept \subseteq duck'.inst[duck'.gen]
        /\ hist'.gone \intersect (duck'.file \union duck'.wal \union duck'.inst[duck'.gen]) = {}
    BY <2>6, <2>7, Zenon DEF InFiles, InOpen
  <2>9. /\ \A t \in Sessions : \A x \in sess'[t].buf : x > left'.writes
        /\ \A r, t \in Sessions : r # t => sess'[r].buf \intersect sess'[t].buf = {}
        /\ \A t \in Sessions :
              sess'[t].buf \intersect (hist'.gone \union duck'.file \union duck'.wal \union duck'.inst[duck'.gen]) = {}
    BY <2>5, Zenon DEF InFiles, InOpen
  <2> QED
    BY <2>8, <2>9, Zenon DEF Rows

\* A step that only forgets rows of transactions, or opens the files anew.
<1>RowsKept.
    ASSUME TypeOK, Restarts, TypeOK', Rows,
           left'.writes = left.writes, hist'.kept = hist.kept, hist'.gone = hist.gone,
           \A t \in Sessions : sess'[t].buf \subseteq sess[t].buf,
           InFiles' = InFiles, InOpen' \in {InOpen, InFiles}
    PROVE  Rows'
  <2> USE <1>RowsKept
  <2>1. hist'.kept \subseteq InFiles' \intersect InOpen'
    BY Zenon DEF Rows, InFiles, InOpen
  <2>2. left.writes \in Nat
    BY Zenon DEF TypeOK, Shared
  <2>3. CASE Sessions = {}
    BY <2>1, <2>3, Zenon DEF Rows, InFiles, InOpen
  <2>4. ASSUME NEW s \in Sessions PROVE Rows'
    <3>1. PICK E : E = {}
      BY Zenon
    <3>2. /\ E \in SUBSET sess[s].buf /\ left'.writes <= left.writes
          /\ \A t \in Sessions : t # s => sess'[t].buf \subseteq sess[t].buf
          /\ \A x \in E \union sess'[s].buf : x \in sess[s].buf
          /\ E \intersect (E \union sess'[s].buf) = {} /\ E \intersect sess'[s].buf = {}
          /\ InOpen' \subseteq InOpen \union InFiles \union E /\ InFiles' \subseteq InFiles \union E
          /\ hist'.gone = hist.gone \union E
      BY <2>2, <3>1
    <3> QED
      BY <2>1, <3>2, <1>RowsStep, Zenon
  <2> QED
    BY <2>3, <2>4, Zenon

\* A session whose transaction or statement no restart overlapped holds a connection of
\* the instance that is open.
<1>CleanWriter.
    ASSUME TypeOK, Restarts, Connections, NEW s \in Sessions, Clean(s), conn[s].open,
           sess[s].tx = "open" \/ sess[s].pc = "run"
    PROVE  conn[s].gen = duck.gen
  <2> USE <1>CleanWriter
  <2>1. sess[s].clean /\ ~sess[s].raced
    BY Zenon DEF Clean
  <2>2. ~Restarting
    BY <2>1, Zenon DEF Connections, PC
  <2>3. \A p \in Sessions : PC(p) # "reset"
    BY <2>2, Zenon DEF Restarting, PC
  <2>4. Held(s)
    <3>1. CASE sess[s].tx = "open"
      BY <2>1, <3>1, Zenon DEF Connections
    <3>2. CASE sess[s].pc = "run"
      <4>1. conn[s].st # "none" /\ conn[s].st # "taken"
        BY <3>2, Zenon DEF Connections, PC
      <4>2. conn[s].st \in {"none", "taken", "stored"}
        BY Zenon DEF TypeOK, Connection
      <4> QED
        BY <4>1, <4>2, Zenon DEF Held
    <3> QED
      BY <3>1, <3>2, Zenon
  <2> QED
    BY <2>1, <2>3, <2>4, Zenon DEF Connections

\* A commit of W by s on its connection.
<1>RowsCommit.
    ASSUME TypeOK, Restarts, TypeOK', Rows, NEW s \in Sessions, NEW n, NEW k, Ordinary(s, n, k),
           NEW W \in SUBSET Nat, NEW P \in SUBSET W, NEW g \in Nat, duck' \in Commits(g, W),
           P # {} => g = duck.gen,
           left'.writes <= left.writes,
           \A x \in W \union n.buf :
              x \in sess[s].buf \/ (x = left.writes /\ left'.writes < left.writes),
           W \intersect n.buf = {},
           hist'.gone = hist.gone, hist'.kept = hist.kept \union P
    PROVE  Rows'
  <2> USE <1>RowsCommit
  <2>1. sess'[s] = n /\ \A t \in Sessions : t # s => sess'[t] = sess[t]
    BY OrdinaryOthers
  <2>2. /\ duck'.gen = duck.gen
        /\ \A i \in 1..Len(duck.inst) : duck'.inst[i] = duck.inst[i] \union (IF i = g THEN W ELSE {})
        /\ duck.file \union duck.wal \subseteq duck'.file \union duck'.wal
        /\ duck'.file \union duck'.wal \subseteq duck.file \union duck.wal \union W
        /\ g = duck.gen => W \subseteq duck'.file \union duck'.wal
    <3>1. Committed(duck', g, W)
      BY CommitsFields, Zenon
    <3> QED
      BY <3>1, Zenon DEF Committed
  <2>3. duck.gen \in 1..Len(duck.inst)
    BY DEF Restarts
  <2>4. InOpen' = InOpen \union (IF duck.gen = g THEN W ELSE {})
    BY <2>2, <2>3, Zenon DEF InOpen
  <2>5. InFiles \subseteq InFiles' /\ InFiles' \subseteq InFiles \union W /\ (g = duck.gen => W \subseteq InFiles')
    BY <2>2, Zenon DEF InFiles
  <2>6. hist.kept \subseteq InFiles \intersect InOpen
    BY Zenon DEF Rows, InFiles, InOpen
  <2>7. hist'.kept \subseteq InFiles' \intersect InOpen'
    BY <2>4, <2>5, <2>6, Zenon
  <2>8. PICK E : E = {}
    BY Zenon
  <2>9. /\ E \in SUBSET sess[s].buf
        /\ \A t \in Sessions : t # s => sess'[t].buf \subseteq sess[t].buf
        /\ \A x \in W \union sess'[s].buf :
                x \in sess[s].buf \/ (x = left.writes /\ left'.writes < left.writes)
        /\ E \intersect (W \union sess'[s].buf) = {} /\ W \intersect sess'[s].buf = {}
        /\ InOpen' \subseteq InOpen \union InFiles \union W /\ InFiles' \subseteq InFiles \union W
        /\ hist'.gone = hist.gone \union E
    BY <2>1, <2>4, <2>5, <2>8, Zenon
  <2> QED
    BY <2>7, <2>9, <1>RowsStep, Zenon

<1>RowsDiscard.
    ASSUME TypeOK, Restarts, Rows, NEW s \in Sessions, NEW n, NEW k, Ordinary(s, n, k), Rowless,
           n.buf = {}, hist'.gone = hist.gone \union Discarded(s)
    PROVE  Rows'
  <2> USE <1>RowsDiscard
  <2>1. sess'[s] = n /\ (\A t \in Sessions : t # s => sess'[t] = sess[t]) /\ TypeOK'
    BY OrdinaryOthers, OrdinaryType
  <2>2. InFiles' = InFiles /\ InOpen' = InOpen /\ left'.writes = left.writes /\ hist'.kept = hist.kept
    BY Zenon DEF Rowless, Ordinary, InFiles, InOpen
  <2>3. PICK D : D = Discarded(s)
    OBVIOUS
  <2>4. D \in SUBSET sess[s].buf
    BY <2>3, Zenon DEF Discarded
  <2>5. left.writes \in Nat
    BY Zenon DEF TypeOK, Shared
  <2>6. PICK W : W = {}
    OBVIOUS
  <2>7. hist'.kept \subseteq InFiles' \intersect InOpen'
    BY <2>2, Zenon DEF Rows, InFiles, InOpen
  <2>8. /\ left'.writes <= left.writes
        /\ \A t \in Sessions : t # s => sess'[t].buf \subseteq sess[t].buf
        /\ \A x \in W \union sess'[s].buf :
                x \in sess[s].buf \/ (x = left.writes /\ left'.writes < left.writes)
        /\ D \intersect (W \union sess'[s].buf) = {} /\ W \intersect sess'[s].buf = {}
        /\ InOpen' \subseteq InOpen \union InFiles \union W /\ InFiles' \subseteq InFiles \union W
        /\ hist'.gone = hist.gone \union D
    BY <2>1, <2>2, <2>3, <2>5, <2>6
  <2> QED
    BY <2>1, <2>4, <2>7, <2>8, <1>RowsStep

<1>RowsCommitTransaction.
    ASSUME Core, Rows, NEW s \in Sessions, CommitTransaction(s) PROVE Rows'
  <2> USE <1>RowsCommitTransaction
  <2>0. TypeOK /\ Restarts /\ Connections
    BY Zenon DEF Core
  <2>1. PICK n \in Session, k \in Connection :
           /\ Ordinary(s, n, k) /\ n.buf = {}
           /\ duck' \in Commits(TxGen(s), Written(s))
           /\ hist'.kept = hist.kept \union Promised(s)
           /\ hist'.gone = hist.gone /\ left' = left
    BY <2>0, CommitFields, Zenon
  <2>2. PICK W : W = Written(s)
    OBVIOUS
  <2>3. PICK P : P = Promised(s)
    OBVIOUS
  <2>4. sess[s].buf \in SUBSET Nat /\ TxGen(s) \in Nat /\ left.writes \in Nat
    BY <2>0, Zenon DEF TypeOK, Session, Connection, Shared, TxGen
  <2>5. W \in SUBSET Nat /\ W \subseteq sess[s].buf /\ P \in SUBSET W
    BY <2>2, <2>3, <2>4, Zenon DEF Written, Promised
  <2>6. P # {} => TxGen(s) = duck.gen
    <3>1. ASSUME P # {} PROVE TxGen(s) = duck.gen
      <4>1. sess[s].tx = "open" /\ Clean(s)
        BY <2>3, <3>1, Zenon DEF Promised
      <4>2. conn[s].open /\ s \in pool.txns
        BY <2>0, <4>1, Zenon DEF Connections, Clean, Held
      <4>3. conn[s].gen = duck.gen
        BY <2>0, <4>1, <4>2, <1>CleanWriter, Zenon
      <4> QED
        BY <4>2, <4>3, Zenon DEF TxGen
    <3> QED
      BY <3>1, Zenon
  <2>7. TypeOK'
    <3>1. Ordinary(s, n, k)
      BY <2>1, Zenon
    <3> QED
      BY <2>0, <3>1, OrdinaryType, Zenon
  <2>8. /\ duck' \in Commits(TxGen(s), W) /\ left'.writes <= left.writes
        /\ \A x \in W \union n.buf :
              x \in sess[s].buf \/ (x = left.writes /\ left'.writes < left.writes)
        /\ W \intersect n.buf = {} /\ hist'.kept = hist.kept \union P
    BY <2>1, <2>2, <2>3, <2>4, <2>5
  <2> QED
    BY <2>0, <2>1, <2>4, <2>5, <2>6, <2>7, <2>8, <1>RowsCommit, Zenon

<1>RowsDML. ASSUME Core, Rows, NEW s \in Sessions, executeDML(s) PROVE Rows'
  <2> USE <1>RowsDML
  <2>0. TypeOK /\ Restarts /\ Connections
    BY DEF Core
  <2>1. PICK n \in Session, k \in Connection :
           /\ Ordinary(s, n, k) /\ sess[s].pc = "run" /\ conn[s].open
           /\ n.buf = sess[s].buf \union (IF InTxn(s) THEN {left.writes} ELSE {})
           /\ left.writes > 0 /\ left'.writes = left.writes - 1
           /\ duck' \in Commits(conn[s].gen, IF InTxn(s) THEN {} ELSE {left.writes})
           /\ hist'.kept = hist.kept \union (IF Clean(s) /\ sess[s].tx = "none" THEN {left.writes} ELSE {})
           /\ hist'.gone = hist.gone
    BY <2>0, DMLFields, Zenon
  <2>2. PICK W : W = IF InTxn(s) THEN {} ELSE {left.writes}
    BY Zenon
  <2>3. PICK P : P = IF Clean(s) /\ sess[s].tx = "none" THEN {left.writes} ELSE {}
    BY Zenon
  <2>4. sess[s].buf \in SUBSET Nat /\ conn[s].gen \in Nat /\ left.writes \in Nat
    BY <2>0 DEF TypeOK, Session, Connection, Shared
  <2>5. W \in SUBSET Nat /\ P \in SUBSET W
    BY <2>2, <2>3, <2>4, Zenon DEF InTxn
  <2>6. P # {} => conn[s].gen = duck.gen
    BY <2>0, <2>1, <2>3, <1>CleanWriter, Zenon
  <2>7. TypeOK'
    <3>1. Ordinary(s, n, k)
      BY <2>1, Zenon
    <3> QED
      BY <2>0, <3>1, OrdinaryType
  <2>8. left'.writes <= left.writes /\ left'.writes < left.writes
    <3>1. left'.writes = left.writes - 1
      BY <2>1, Zenon
    <3> QED
      BY <2>4, <3>1
  <2>9. left.writes \notin sess[s].buf
    <3>1. ~(left.writes > left.writes)
      BY <2>4
    <3> QED
      BY <3>1, Zenon DEF Rows
  <2>10. /\ duck' \in Commits(conn[s].gen, W) /\ hist'.kept = hist.kept \union P
         /\ \A x \in W \union n.buf :
              x \in sess[s].buf \/ (x = left.writes /\ left'.writes < left.writes)
         /\ W \intersect n.buf = {}
    BY <2>1, <2>2, <2>3, <2>8, <2>9, Zenon
  <2> QED
    BY <2>0, <2>1, <2>4, <2>5, <2>6, <2>7, <2>8, <2>10, <1>RowsCommit, Zenon

\* After a light step, and after one that writes no row, the rows are where they were.
<1>RowsSame.
    ASSUME TypeOK, Restarts, Rows, NEW s \in Sessions, NEW n, NEW k, Ordinary(s, n, k),
           duck'.inst = duck.inst, duck'.file \union duck'.wal = duck.file \union duck.wal,
           n.buf = sess[s].buf, left'.writes = left.writes,
           hist'.kept = hist.kept, hist'.gone = hist.gone
    PROVE  Rows'
  <2> USE <1>RowsSame
  <2>1. sess'[s] = n /\ (\A t \in Sessions : t # s => sess'[t] = sess[t]) /\ TypeOK'
    BY OrdinaryOthers, OrdinaryType, Zenon
  <2>2. InFiles' = InFiles /\ InOpen' = InOpen
    BY Zenon DEF Ordinary, InFiles, InOpen
  <2>3. \A t \in Sessions : sess'[t].buf \subseteq sess[t].buf
    BY <2>1, Zenon
  <2> QED
    BY <2>1, <2>2, <2>3, <1>RowsKept, Zenon
<1> SUFFICES ASSUME Core, Rows, [Next]_vars PROVE Rows'
  OBVIOUS
<1>0. TypeOK /\ Restarts /\ Connections
  BY DEF Core
<1>a. Len(duck.inst) = duck.gen
  BY <1>0, Zenon DEF Restarts
<1>1. CASE UNCHANGED vars
  BY <1>1, Zenon DEF vars, Rows
<1>2. CASE NewDBProvider
  <2>1. /\ TypeOK' /\ \A t \in Sessions : sess'[t] = Idle
        /\ left'.writes = left.writes /\ hist'.kept = hist.kept /\ hist'.gone = hist.gone
        /\ duck'.gen = duck.gen + 1 /\ duck'.inst[Len(duck.inst) + 1] = duck.file \union duck.wal
        /\ duck'.file = duck.file /\ duck'.wal = duck.wal
    BY <1>0, <1>2, NewFields, Zenon
  <2>2. \A t \in Sessions : sess'[t].buf \subseteq sess[t].buf
    BY <2>1, IdleFields, Zenon
  <2>3. InFiles' = InFiles /\ InOpen' = InFiles
    BY <1>a, <2>1, Zenon DEF InFiles, InOpen
  <2> QED
    BY <1>0, <2>1, <2>2, <2>3, <1>RowsKept, Zenon
<1>3. ASSUME NEW s \in Sessions, Minors(s) \/ CatStep(s) \/ BackStep(s)
      PROVE  Rows'
  <2>1. PICK n \in Session, k \in Connection : Light(s, n, k)
    BY <1>0, <1>3, LightSteps
  <2> QED
    BY <1>0, <2>1, <1>RowsSame DEF Light, Carries
<1>4. ASSUME NEW s \in Sessions, ConnStep(s)
      PROVE  Rows'
  <2>1. CASE (Take(s) /\ pool.db \notin duck.closed) \/ Store(s) \/ GetTxn(s)
    <3>1. PICK n \in Session, k \in Connection :
             /\ Ordinary(s, n, k) /\ Rowless /\ hist'.gone = hist.gone /\ n.buf = sess[s].buf
      <4>1. CASE Take(s) /\ pool.db \notin duck.closed
        BY <1>0, <4>1, TakeFields, Zenon DEF Carries
      <4>2. CASE Store(s)
        BY <1>0, <4>2, StoreFields, Zenon DEF Carries
      <4>3. CASE GetTxn(s)
        BY <1>0, <4>3, GetTxnFields, Zenon
      <4> QED
        BY <2>1, <4>1, <4>2, <4>3, Zenon
    <3> QED
      BY <1>0, <3>1, <1>RowsSame, Zenon DEF Rowless
  <2>2. CASE CloseConn(s) \/ Rollback(s)
    <3>1. PICK n \in Session, k \in Connection :
             /\ Ordinary(s, n, k) /\ Rowless /\ n.buf = {} /\ hist'.gone = hist.gone \union Discarded(s)
      BY <1>0, <2>2, CloseConnFields, RollbackFields, Zenon
    <3> QED
      BY <1>0, <3>1, <1>RowsDiscard, Zenon
  <2>3. CASE CommitTransaction(s)
    BY <2>3, <1>RowsCommitTransaction, Zenon
  <2>4. CASE executeDML(s)
    BY <2>4, <1>RowsDML, Zenon
  <2>5. CASE doCheckpoint(s) /\ (conn[s].open /\ CanCheckpoint(s))
    <3>1. PICK n \in Session, k \in Connection :
             /\ Ordinary(s, n, k) /\ n.buf = sess[s].buf
             /\ duck'.inst = duck.inst /\ duck'.file = duck.file \union duck.wal /\ duck'.wal = {}
             /\ hist' = hist /\ left' = left
      BY <1>0, <2>5, CheckpointFields, Zenon DEF Carries
    <3>2. duck'.file \union duck'.wal = duck.file \union duck.wal
      BY <3>1, Zenon
    <3> QED
      BY <1>0, <3>1, <3>2, <1>RowsSame, Zenon
  <2> QED
    BY <1>4, <2>1, <2>2, <2>3, <2>4, <2>5, Zenon DEF ConnStep
<1>5. ASSUME NEW s \in Sessions, RestartStep(s)
      PROVE  Rows'
  <2>1. CASE ProviderClose(s) \/ PoolClose(s)
    <3>1. /\ TypeOK' /\ \A t \in Sessions : sess'[t].buf \subseteq sess[t].buf
          /\ duck'.gen = duck.gen /\ duck'.inst = duck.inst
          /\ duck'.file \union duck'.wal = duck.file \union duck.wal
          /\ left' = left /\ hist'.kept = hist.kept /\ hist'.gone = hist.gone
      BY <1>0, <2>1, ProviderCloseFields, PoolCloseFields DEF Carries
    <3>2. InFiles' = InFiles /\ InOpen' = InOpen
      BY <3>1, Zenon DEF InFiles, InOpen
    <3> QED
      BY <1>0, <3>1, <3>2, <1>RowsKept, Zenon
  <2>2. CASE ProviderOpen(s) /\ left' = left
    <3>1. /\ TypeOK' /\ \A t \in Sessions : sess'[t].buf = sess[t].buf
          /\ duck'.gen = duck.gen + 1 /\ duck'.inst[Len(duck.inst) + 1] = duck.file \union duck.wal
          /\ duck'.file = duck.file /\ duck'.wal = duck.wal /\ hist' = hist
      BY <1>0, <2>2, OpenFields, Zenon DEF Carries
    <3>2. InFiles' = InFiles /\ InOpen' = InFiles
      BY <1>a, <3>1, Zenon DEF InFiles, InOpen
    <3> QED
      BY <1>0, <2>2, <3>1, <3>2, <1>RowsKept, Zenon
  <2>3. CASE (ProviderOpen(s) /\ left' # left) \/ ResetSwap(s)
    <3>1. /\ TypeOK' /\ \A t \in Sessions : sess'[t].buf = sess[t].buf
          /\ duck' = duck /\ hist' = hist /\ left'.writes = left.writes
      BY <1>0, <2>3, OpenFailsFields, ResetSwapFields, Zenon DEF Carries
    <3>2. InFiles' = InFiles /\ InOpen' = InOpen
      BY <3>1, Zenon DEF InFiles, InOpen
    <3> QED
      BY <1>0, <3>1, <3>2, <1>RowsKept, Zenon
  <2> QED
    BY <1>5, <2>1, <2>2, <2>3, Zenon DEF RestartStep
<1> QED
  BY <1>0, <1>1, <1>2, <1>3, <1>4, <1>5, NextCases

LEMMA RowsInit == ASSUME Init PROVE Rows
<1>1. /\ duck.file = {} /\ duck.wal = {} /\ duck.gen = 1 /\ duck.inst = <<{}>>
      /\ hist.kept = {} /\ hist.gone = {}
  BY Zenon DEF Init
<1>2. duck.inst[duck.gen] = {}
  BY <1>1
<1>3. \A t \in Sessions : sess[t].buf = {}
  BY IdleFields, Zenon DEF Init
<1> QED
  BY <1>1, <1>2, <1>3, Zenon DEF Rows

\* What was acknowledged is in the open instance and what was rolled back or left behind
\* is not, however many restarts, checkpoints, backups and crashes come in between, for
\* every transaction that no restart overlapped (CommitTransaction, Rollback, CloseConn,
\* executeDML, Restart, Reset, NewDBProvider).
THEOREM AcknowledgedStays == Spec => []Durable
<1>1. Init => Core /\ Rows
  BY CoreInit, RowsInit, Zenon
<1>2. Core /\ Rows /\ [Next]_vars => Core' /\ Rows'
  BY CoreNext, RowsNext, Zenon
<1>3. Rows => Durable
  BY Zenon DEF Rows, Durable
<1> QED
  BY <1>1, <1>2, <1>3, PTL DEF Spec

-----------------------------------------------------------------------------
(* The catalogs, and the idle connections that CREATE DATABASE switches *)

Tidy == Switched /\ Whole

LEMMA TidyNext == Core /\ Tidy /\ [Next]_vars => Tidy'
<1>NeatTidy. ASSUME TypeOK, Tidy, Neat PROVE Tidy'
  <2> USE <1>NeatTidy
  <2> SUFFICES ASSUME ~hist'.odd PROVE Tidy'
    BY Zenon DEF Tidy, Switched, Whole
  <2>0. ~hist.odd /\ Switched /\ Whole
    BY Zenon DEF Neat, Tidy
  <2>1. /\ ~hist'.astray
        /\ \A t \in Sessions : conn'[t].cat = Default /\ sess'[t].prev = Default
    BY <2>0, Zenon DEF Neat, Switched
  <2>2. \A t \in Sessions : \A l \in CreatePCs :
           sess'[t].pc = l <=> sess[t].pc = l
    BY Zenon DEF Neat
  <2>3. \A t \in Sessions : sess[t].pc \in CreatePCs => sess'[t].pc = sess[t].pc /\ sess'[t].arg = sess[t].arg
    BY Zenon DEF Neat
  <2>4. duck'.free = duck.free /\ cats' = cats /\ (StorageOpen => StorageOpen') /\ Top' = Top
    BY Zenon DEF Neat, Top
  <2>5. /\ \A r, t \in Sessions : sess'[r].pc \in CreatePCs /\ sess'[t].pc \in CreatePCs => r = t
    BY <2>0, <2>2 DEF Switched, PC
  <2>6. \A i \in 1..Len(duck'.free) :
           \/ duck'.free[i] = Default
           \/ i = Len(duck'.free) /\ \E t \in Sessions : sess'[t].pc \in {"init", "back"}
    BY <2>0, <2>2, <2>4, Zenon DEF Switched, PC, CreatePCs
  <2>7. Switched'
    BY <2>1, <2>5, <2>6, Zenon DEF Switched, PC
  <2>8. ASSUME NEW c \in Catalogs
        PROVE  /\ cats'[c].attached => cats'[c].file = "db"
               /\ cats'[c].file # "db" => cats'[c].inits = <<>>
               /\ cats'[c].file = "db" =>
                     \/ cats'[c].inits = Internals
                     \/ \E t \in Sessions : sess'[t].pc \in {"switch", "init"} /\ sess'[t].arg = c
    BY <2>0, <2>3, <2>4 DEF Whole, PC, CreatePCs
  <2>9. ASSUME NEW t \in Sessions, sess'[t].pc \in CreatePCs
        PROVE  /\ cats'[sess'[t].arg].attached /\ StorageOpen'
               /\ sess'[t].pc = "init" => Top' = sess'[t].arg
    BY <2>0, <2>2, <2>3, <2>4, <2>9 DEF Whole, PC
  <2>10. Whole'
    BY <2>8, <2>9, Zenon DEF Whole, PC, CreatePCs
  <2> QED
    BY <2>7, <2>10, Zenon DEF Tidy

\* A step of s that leaves the idle connections as they are.
<1>SwitchedStep.
    ASSUME TypeOK, Switched, NEW s \in Sessions, NEW n \in Session,
           sess' = [sess EXCEPT ![s] = n], conn' = conn, duck'.free = duck.free,
           hist'.astray = hist.astray, ~hist.odd,
           n.prev \in {sess[s].prev, Default},
           n.pc \in CreatePCs => sess[s].pc \in CreatePCs \/ ~Creating,
           sess[s].pc \in {"init", "back"} => n.pc \in {"init", "back"}
    PROVE  Switched'
  <2> USE <1>SwitchedStep
  <2>1. sess'[s] = n /\ \A t \in Sessions : t # s => sess'[t] = sess[t]
    BY Zenon DEF TypeOK
  <2>2. ~hist'.astray /\ \A t \in Sessions : conn'[t].cat = Default
    BY Zenon DEF Switched
  <2>3. \A t \in Sessions : sess'[t].prev = Default
    BY <2>1, Zenon DEF Switched
  <2>4. ~Creating => \A t \in Sessions : sess[t].pc \notin CreatePCs
    BY Zenon DEF Creating, CreatePCs
  <2>5. \A r, t \in Sessions : sess'[r].pc \in CreatePCs /\ sess'[t].pc \in CreatePCs => r = t
    BY <2>1, <2>4, Zenon DEF Switched, PC
  <2>6. \A i \in 1..Len(duck'.free) :
           \/ duck'.free[i] = Default
           \/ i = Len(duck'.free) /\ \E t \in Sessions : sess'[t].pc \in {"init", "back"}
    BY <2>1, Zenon DEF Switched, PC
  <2> QED
    BY <2>2, <2>3, <2>5, <2>6 DEF Switched, PC

\* While nobody is switching, every idle connection is in the default catalog.
<1>FreeDefault.
    ASSUME TypeOK, Switched, ~hist.odd, \A t \in Sessions : PC(t) \notin {"init", "back"}
    PROVE  Top = Default /\ \A i \in 1..Len(duck.free) : duck.free[i] = Default
  <2> USE <1>FreeDefault
  <2>1. \A i \in 1..Len(duck.free) : duck.free[i] = Default
    BY Zenon DEF Switched
  <2>2. CASE duck.free = <<>>
    BY <2>1, <2>2, Zenon DEF Top
  <2>3. CASE duck.free # <<>>
    <3>1. duck.free \in Seq(CatNames)
      BY Zenon DEF TypeOK, Shared, Instances
    <3>2. Len(duck.free) \in 1..Len(duck.free)
      BY <2>3, <3>1
    <3> QED
      BY <2>1, <2>3, <3>2, Zenon DEF Top
  <2> QED
    BY <2>1, <2>2, <2>3, Zenon

\* The idle connections after one of them was switched.
<1>WithTopFields.
    ASSUME TypeOK, NEW c \in CatNames, NEW q, q = WithTop(c)
    PROVE  /\ q \in Seq(CatNames) /\ q # <<>> /\ q[Len(q)] = c
           /\ \A i \in 1..Len(q) : i # Len(q) => i \in 1..Len(duck.free) /\ i # Len(duck.free) /\ q[i] = duck.free[i]
  <2> USE <1>WithTopFields
  <2>1. duck.free \in Seq(CatNames)
    BY Zenon DEF TypeOK, Shared, Instances
  <2>2. CASE duck.free = <<>>
    <3>1. q = <<c>>
      BY <2>2, Zenon DEF WithTop
    <3>2. Len(q) = 1 /\ q[1] = c /\ q \in Seq(CatNames) /\ q # <<>>
      BY <3>1
    <3> QED
      BY <3>2
  <2>3. CASE duck.free # <<>>
    <3>1. q = [duck.free EXCEPT ![Len(duck.free)] = c]
      BY <2>3, Zenon DEF WithTop
    <3>2. Len(duck.free) \in 1..Len(duck.free)
      BY <2>1, <2>3
    <3>3. q \in Seq(CatNames) /\ Len(q) = Len(duck.free)
      BY <2>1, <3>1, <3>2
    <3>4. q[Len(q)] = c /\ \A i \in 1..Len(q) : i # Len(q) => q[i] = duck.free[i]
      BY <2>1, <3>1, <3>2, <3>3
    <3> QED
      BY <3>2, <3>3, <3>4
  <2> QED
    BY <2>2, <2>3, Zenon

<1>TakeTidy.
    ASSUME TypeOK, Tidy, NEW s \in Sessions, Take(s), pool.db \notin duck.closed
    PROVE  Tidy'
  <2> USE <1>TakeTidy
  <2>1. PICK n \in Session, k \in Connection :
           /\ Ordinary(s, n, k) /\ n.pc = "store" /\ n.prev = sess[s].prev /\ n.arg = sess[s].arg
           /\ k.cat = Top /\ hist'.astray = hist.astray /\ hist'.odd = (hist.odd \/ Creating)
           /\ duck'.free = SubSeq(duck.free, 1, Len(duck.free) - 1)
    BY TakeFields, Zenon
  <2> SUFFICES ASSUME ~hist'.odd PROVE Tidy'
    BY Zenon DEF Tidy, Switched, Whole
  <2>2. ~hist.odd /\ ~Creating /\ Switched /\ Whole
    BY <2>1, Zenon DEF Tidy
  <2>3. /\ sess'[s] = n /\ conn'[s] = k
        /\ \A t \in Sessions : t # s => sess'[t] = sess[t] /\ conn'[t] = conn[t]
    BY <2>1, OrdinaryOthers, ZenonT(30)
  <2>4. \A t \in Sessions : sess[t].pc \notin CreatePCs /\ sess'[t].pc \notin CreatePCs
    BY <2>1, <2>2, <2>3, Zenon DEF Creating, CreatePCs
  <2>5. Top = Default /\ \A i \in 1..Len(duck.free) : duck.free[i] = Default
    BY <2>2, <2>4, <1>FreeDefault, Zenon DEF PC, CreatePCs
  <2>6. \A i \in 1..Len(duck'.free) : duck'.free[i] = Default
    <3>1. duck.free \in Seq(CatNames)
      BY Zenon DEF TypeOK, Shared, Instances
    <3> QED
      BY <2>1, <2>5, <3>1, WithoutTop
  <2>7. Switched'
    BY <2>1, <2>2, <2>3, <2>4, <2>5, <2>6, Zenon DEF Switched, PC
  <2>8. Whole'
    <3>1. cats' = cats
      BY Zenon DEF Take
    <3>2. "init" \in CreatePCs /\ "switch" \in CreatePCs
      BY Zenon DEF CreatePCs
    <3>3. \A e \in Catalogs : /\ cats[e].attached => cats[e].file = "db"
                              /\ cats[e].file # "db" => cats[e].inits = <<>>
                              /\ cats[e].file = "db" => cats[e].inits = Internals
      BY <2>2, <2>4, <3>2 DEF Whole, PC
    <3> QED
      BY <2>4, <3>1, <3>2, <3>3, Zenon DEF Whole, PC
  <2> QED
    BY <2>7, <2>8, Zenon DEF Tidy

<1>AttachTidy. ASSUME TypeOK, Tidy, NEW s \in Sessions, Attach(s) PROVE Tidy'
  <2> USE <1>AttachTidy
  <2>1. PICK c \in Catalogs : c = sess[s].arg
    BY Zenon DEF Attach, TypeOK
  <2>2. sess[s].pc = "attach" /\ "attach" \notin CreatePCs /\ conn' = conn /\ duck' = duck
    BY Zenon DEF Attach, CreatePCs
  <2>3. CASE sess' = Ended(s) /\ cats' = cats /\ hist' = hist
    <3>1. PICK n \in Session : sess' = [sess EXCEPT ![s] = n] /\ n.pc = "idle" /\ n.prev = Default
      BY <2>3, EndedFields, Zenon
    <3>2. PICK k \in Connection : k = conn[s] /\ conn' = [conn EXCEPT ![s] = k]
      BY <2>2, Zenon DEF TypeOK
    <3>3. n.pc \notin CreatePCs
      BY <3>1, Zenon DEF CreatePCs
    <3>a. /\ hist'.odd = hist.odd /\ (hist'.astray => hist.astray \/ conn[s].cat # Default)
          /\ duck'.free = duck.free /\ duck'.gen = duck.gen /\ duck'.closed = duck.closed
          /\ k.cat \in {conn[s].cat, Default} /\ n.prev \in {sess[s].prev, Default}
          /\ sess[s].pc \notin CreatePCs
      BY <2>2, <2>3, <3>1, <3>2, Zenon
    <3>4. Neat
      BY <2>3, <3>1, <3>2, <3>3, <3>a, NeatStep, Zenon
    <3> QED
      BY <3>4, <1>NeatTidy, Zenon
  <2>4. CASE /\ StorageOpen
             /\ ~(~cats[c].attached /\ cats[c].file = "bad")
             /\ cats' = [cats EXCEPT ![c].attached = TRUE, ![c].file = "db"]
             /\ sess' = IF cats[c].file = "none" THEN Goto(s, "switch") ELSE Ended(s)
             /\ hist' = [hist EXCEPT !.odd = @ \/ (cats[c].file = "none" /\ (Creating \/ cats[c].attached))]
    <3>1. PICK b \in BOOLEAN : b = (cats[c].file = "none" /\ (Creating \/ cats[c].attached))
      BY Zenon
    <3>2. hist'.astray = hist.astray /\ hist'.odd = (hist.odd \/ b)
      BY <2>4, <3>1, OddFields, Zenon
    <3> SUFFICES ASSUME ~hist'.odd PROVE Tidy'
      BY Zenon DEF Tidy, Switched, Whole
    <3>3. ~hist.odd /\ ~b /\ Switched /\ Whole
      BY <3>2, Zenon DEF Tidy
    <3>4. PICK m \in Catalog : m = cats[c]
      BY Zenon DEF TypeOK, Shared
    <3>5. PICK k : k = [m EXCEPT !.attached = TRUE, !.file = "db"]
      OBVIOUS
    <3>6. k.attached = TRUE /\ k.file = "db" /\ k.inits = m.inits
      BY <3>5, Zenon DEF Catalog
    <3>7. cats'[c] = k /\ \A e \in Catalogs : e # c => cats'[e] = cats[e]
      BY <2>4, <3>4, <3>5, Zenon DEF TypeOK, Shared
    <3>8. Top' = Top /\ StorageOpen'
      BY <2>2, <2>4, Zenon DEF Top, StorageOpen
    <3>9. PICK n \in Session :
             /\ sess' = [sess EXCEPT ![s] = n]
             /\ n.prev \in {sess[s].prev, Default}
             /\ IF cats[c].file = "none" THEN n.pc = "switch" /\ n.arg = c ELSE n.pc = "idle"
      <4>1. "switch" \in PCs
        BY Zenon DEF PCs, CreatePCs
      <4>2. CASE cats[c].file = "none"
        BY <2>1, <2>4, <4>1, <4>2, GotoFields
      <4>3. CASE cats[c].file # "none"
        BY <2>4, <4>3, EndedFields, Zenon
      <4> QED
        BY <4>2, <4>3, Zenon
    <3>10. sess'[s] = n /\ \A t \in Sessions : t # s => sess'[t] = sess[t]
      BY <3>9, Zenon DEF TypeOK
    <3>11. Switched'
      <4>1. n.pc \in CreatePCs => ~Creating
        BY <3>1, <3>3, <3>9, Zenon DEF CreatePCs
      <4> QED
        BY <2>2, <3>2, <3>3, <3>9, <4>1, <1>SwitchedStep, Zenon
    <3>12. ASSUME NEW e \in Catalogs
           PROVE  /\ cats'[e].attached => cats'[e].file = "db"
                  /\ cats'[e].file # "db" => cats'[e].inits = <<>>
                  /\ cats'[e].file = "db" =>
                       \/ cats'[e].inits = Internals
                       \/ \E t \in Sessions : sess'[t].pc \in {"switch", "init"} /\ sess'[t].arg = e
      <4>1. CASE e # c
        BY <2>2, <3>3, <3>7, <3>10, <4>1 DEF Whole, PC
      <4>2. CASE e = c /\ cats[c].file = "none"
        BY <3>6, <3>7, <3>9, <3>10, <4>2, Zenon
      <4>3. CASE e = c /\ cats[c].file # "none"
        <5>1. cats[c].file = "db"
          BY <2>4, <3>3, <3>4, <4>3, Zenon DEF Whole, Catalog
        <5> QED
          BY <2>2, <3>3, <3>4, <3>6, <3>7, <3>10, <4>3, <5>1 DEF Whole, PC
      <4> QED
        BY <4>1, <4>2, <4>3, Zenon
    <3>13. ASSUME NEW t \in Sessions, sess'[t].pc \in CreatePCs
           PROVE  /\ cats'[sess'[t].arg].attached /\ StorageOpen'
                  /\ sess'[t].pc = "init" => Top' = sess'[t].arg
      <4>1. CASE t = s
        <5>1. n.pc = "switch" /\ n.arg = c
          BY <3>9, <3>10, <3>13, <4>1 DEF CreatePCs
        <5> QED
          BY <3>6, <3>7, <3>8, <3>10, <4>1, <5>1
      <4>2. CASE t # s
        <5>1. sess[t].arg \in Catalogs /\ sess[t].pc \in CreatePCs /\ sess'[t] = sess[t]
          BY <3>10, <3>13, <4>2, Zenon DEF TypeOK
        <5>2. cats[sess[t].arg].attached /\ (sess[t].pc = "init" => Top = sess[t].arg)
          BY <3>3, <5>1, Zenon DEF Whole, PC
        <5> QED
          BY <3>6, <3>7, <3>8, <5>1, <5>2
      <4> QED
        BY <4>1, <4>2, Zenon
    <3>14. Whole'
      BY <3>12, <3>13, Zenon DEF Whole, PC, CreatePCs
    <3> QED
      BY <3>11, <3>14, Zenon DEF Tidy
  <2> QED
    BY <2>1, <2>3, <2>4, Zenon DEF Attach

<1>SwitchTidy. ASSUME TypeOK, Tidy, NEW s \in Sessions, Switch(s) PROVE Tidy'
  <2> USE <1>SwitchTidy
  <2>0. hist' = hist /\ conn' = conn /\ cats' = cats /\ sess[s].pc = "switch" /\ "switch" \in CreatePCs
    BY Zenon DEF Switch, CreatePCs
  <2> SUFFICES ASSUME ~hist'.odd PROVE Tidy'
    BY Zenon DEF Tidy, Switched, Whole
  <2>1. ~hist.odd /\ Switched /\ Whole
    BY <2>0, Zenon DEF Tidy
  <2>2. PICK c \in Catalogs : c = sess[s].arg
    BY <2>0, Zenon DEF TypeOK
  <2>3. StorageOpen /\ cats[c].attached
    BY <2>0, <2>1, <2>2 DEF Whole, PC
  <2>4. \A t \in Sessions : t # s => sess[t].pc \notin CreatePCs
    BY <2>0, <2>1, Zenon DEF Switched, PC
  <2>5. Top = Default /\ \A i \in 1..Len(duck.free) : duck.free[i] = Default
    <3>1. \A t \in Sessions : PC(t) \notin {"init", "back"}
      BY <2>0, <2>4, Zenon DEF PC, CreatePCs
    <3> QED
      BY <2>1, <3>1, <1>FreeDefault, Zenon
  <2>6. PICK f : f = WithTop(c)
    OBVIOUS
  <2>7. duck' = [duck EXCEPT !.free = f] /\ sess' = [Goto(s, "init") EXCEPT ![s].prev = Default]
    BY <2>2, <2>3, <2>5, <2>6, Zenon DEF Switch
  <2>8. /\ f \in Seq(CatNames) /\ f # <<>> /\ f[Len(f)] = c
        /\ \A i \in 1..Len(f) : i # Len(f) => i \in 1..Len(duck.free) /\ f[i] = duck.free[i]
    BY <2>6, <1>WithTopFields DEF CatNames
  <2>9. duck'.free = f /\ duck'.gen = duck.gen /\ duck'.closed = duck.closed
    BY <2>7, <2>8, FreeFields, Zenon
  <2>10. PICK n \in Session :
           /\ sess' = [sess EXCEPT ![s] = n] /\ n.pc = "init" /\ n.arg = c /\ n.prev = Default
    BY <2>2, <2>7, SwitchFields, ZenonT(30) DEF CatNames
  <2>11. sess'[s] = n /\ \A t \in Sessions : t # s => sess'[t] = sess[t]
    BY <2>10, Zenon DEF TypeOK
  <2>12. Top' = c /\ StorageOpen'
    BY <2>3, <2>8, <2>9, Zenon DEF Top, StorageOpen
  <2>13. Switched'
    <3>1. \A i \in 1..Len(duck'.free) :
            duck'.free[i] = Default \/ (i = Len(duck'.free) /\ \E t \in Sessions : sess'[t].pc \in {"init", "back"})
      BY <2>5, <2>8, <2>9, <2>10, <2>11
    <3>2. \A t \in Sessions : t # s => sess'[t].pc \notin CreatePCs
      BY <2>4, <2>11, Zenon
    <3> QED
      BY <2>0, <2>1, <2>10, <2>11, <3>1, <3>2, Zenon DEF Switched, PC
  <2>14. Whole'
    <3>1. \A t \in Sessions : sess'[t].arg = sess[t].arg /\ (sess'[t].pc = sess[t].pc \/ (t = s /\ sess'[t].pc = "init"))
      BY <2>2, <2>10, <2>11, Zenon
    <3>2. ASSUME NEW e \in Catalogs
          PROVE  /\ cats'[e].attached => cats'[e].file = "db"
                 /\ cats'[e].file # "db" => cats'[e].inits = <<>>
                 /\ cats'[e].file = "db" =>
                       \/ cats'[e].inits = Internals
                       \/ \E t \in Sessions : sess'[t].pc \in {"switch", "init"} /\ sess'[t].arg = e
      BY <2>0, <2>1, <3>1 DEF Whole, PC
    <3>3. ASSUME NEW t \in Sessions, sess'[t].pc \in CreatePCs
          PROVE  /\ cats'[sess'[t].arg].attached /\ StorageOpen'
                 /\ sess'[t].pc = "init" => Top' = sess'[t].arg
      BY <2>0, <2>2, <2>3, <2>4, <2>11, <2>12, <3>1, <3>3, Zenon
    <3> QED
      BY <3>2, <3>3, Zenon DEF Whole, PC, CreatePCs
  <2> QED
    BY <2>13, <2>14, Zenon DEF Tidy

<1>initCatalogTidy. ASSUME TypeOK, Tidy, NEW s \in Sessions, initCatalog(s) PROVE Tidy'
  <2> USE <1>initCatalogTidy
  <2>0. duck' = duck /\ conn' = conn /\ sess[s].pc = "init" /\ {"switch", "init", "back"} = CreatePCs
    BY Zenon DEF initCatalog, CreatePCs
  <2> SUFFICES ASSUME ~hist'.odd PROVE Tidy'
    BY Zenon DEF Tidy, Switched, Whole
  <2>1. hist' = hist
    <3>1. hist' = [hist EXCEPT !.odd = TRUE] => hist'.odd
      BY Zenon DEF TypeOK, Shared
    <3> QED
      BY <3>1, Zenon DEF initCatalog
  <2>2. ~hist.odd /\ Switched /\ Whole
    BY <2>1, Zenon DEF Tidy
  <2>3. PICK c \in Catalogs : c = sess[s].arg
    BY <2>0, Zenon DEF TypeOK
  <2>4. /\ StorageOpen /\ cats[c].attached /\ Top = c /\ c # Default
        /\ \A t \in Sessions : t # s => sess[t].pc \notin CreatePCs
    BY <2>0, <2>2, <2>3, StorageAssumption, Zenon DEF Whole, Switched, PC
  <2>5. PICK i \in {cats[c].inits} : TRUE
    OBVIOUS
  <2>6. \/ i = Internals /\ cats' = cats /\ sess' = Goto(s, "back")
        \/ /\ i # Internals
           /\ cats' = [cats EXCEPT ![c].inits = Append(@, Internals[Len(@) + 1])]
           /\ sess' = IF Len(i) + 1 = Len(Internals) THEN Goto(s, "back") ELSE sess
    <3>1. ~(hist' = [hist EXCEPT !.odd = TRUE])
      BY Zenon DEF TypeOK, Shared
    <3> QED
      BY <2>4, <2>5, <3>1 DEF initCatalog
  <2>7. PICK k \in Catalog :
           /\ cats' = [cats EXCEPT ![c] = k]
           /\ k.file = cats[c].file /\ k.attached = cats[c].attached
           /\ k.inits = Internals <=> sess' = Goto(s, "back")
    <3>0. cats[c] \in Catalog /\ Goto(s, "back") # sess
      <4>1. "back" \in PCs /\ sess[s].pc # "back"
        BY <2>0, Zenon DEF PCs, CreatePCs
      <4>2. Goto(s, "back")[s].pc = "back"
        BY <4>1, GotoFields DEF TypeOK
      <4> QED
        BY <4>1, <4>2, Zenon DEF TypeOK, Shared
    <3>1. CASE i = Internals
      BY <2>5, <2>6, <3>0, <3>1, Zenon DEF TypeOK, Shared
    <3>2. CASE i # Internals
      <4>1. PICK k \in Catalog :
                   /\ [cats EXCEPT ![c].inits = Append(@, Internals[Len(@) + 1])] = [cats EXCEPT ![c] = k]
                   /\ k.file = cats[c].file /\ k.attached = cats[c].attached
                   /\ k.inits = Internals <=> Len(cats[c].inits) + 1 = Len(Internals)
        BY <2>5, <3>2, InitsFields, Zenon
      <4> QED
        BY <2>5, <2>6, <3>0, <3>2, <4>1, Zenon
    <3> QED
      BY <3>1, <3>2, Zenon
  <2>8. PICK n \in Session :
           /\ sess' = [sess EXCEPT ![s] = n] /\ n.prev = sess[s].prev /\ n.arg = c
           /\ IF k.inits = Internals THEN n.pc = "back" ELSE n.pc = "init"
    <3>1. "back" \in PCs /\ sess \in [Sessions -> Session]
      BY Zenon DEF PCs, CreatePCs, TypeOK
    <3>2. CASE sess' = Goto(s, "back")
      BY <2>3, <2>7, <3>1, <3>2, GotoFields
    <3>3. CASE sess' # Goto(s, "back")
      <4>1. sess' = sess
        BY <2>6, <3>3, Zenon
      <4>2. sess' = [sess EXCEPT ![s] = sess[s]] /\ sess[s] \in Session
        BY <3>1, <4>1, Zenon
      <4> QED
        BY <2>0, <2>3, <2>7, <3>3, <4>2, Zenon
    <3> QED
      BY <3>2, <3>3, Zenon
  <2>9. sess'[s] = n /\ \A t \in Sessions : t # s => sess'[t] = sess[t]
    BY <2>8, Zenon DEF TypeOK
  <2>10. cats'[c] = k /\ \A e \in Catalogs : e # c => cats'[e] = cats[e]
    BY <2>7, Zenon DEF TypeOK, Shared
  <2>11. Switched'
    <3>1. n.pc \in {"init", "back"} /\ sess[s].pc \in CreatePCs
      BY <2>0, <2>8, Zenon
    <3> QED
      BY <2>0, <2>1, <2>2, <2>8, <3>1, <1>SwitchedStep, Zenon
  <2>12. ASSUME NEW e \in Catalogs
         PROVE  /\ cats'[e].attached => cats'[e].file = "db"
                /\ cats'[e].file # "db" => cats'[e].inits = <<>>
                /\ cats'[e].file = "db" =>
                      \/ cats'[e].inits = Internals
                      \/ \E t \in Sessions : sess'[t].pc \in {"switch", "init"} /\ sess'[t].arg = e
    <3>1. CASE e = c
      <4>1. k.file = "db"
        BY <2>2, <2>4, <2>7, Zenon DEF Whole
      <4> QED
        BY <2>8, <2>9, <2>10, <3>1, <4>1
    <3>2. CASE e # c
      BY <2>0, <2>2, <2>3, <2>9, <2>10, <3>2 DEF Whole, PC
    <3> QED
      BY <3>1, <3>2, Zenon
  <2>13. ASSUME NEW t \in Sessions, sess'[t].pc \in CreatePCs
         PROVE  /\ cats'[sess'[t].arg].attached /\ StorageOpen'
                /\ sess'[t].pc = "init" => Top' = sess'[t].arg
    <3>1. t = s
      BY <2>4, <2>9, <2>13, Zenon
    <3>2. Top' = Top /\ (StorageOpen' <=> StorageOpen)
      BY <2>0, Zenon DEF Top, StorageOpen
    <3>3. sess'[t].arg = c /\ cats'[c].attached
      BY <2>4, <2>7, <2>8, <2>9, <2>10, <3>1, Zenon
    <3>4. Top' = c /\ StorageOpen'
      BY <2>4, <3>2, Zenon
    <3> QED
      BY <3>3, <3>4, Zenon
  <2>14. Whole'
    BY <2>12, <2>13, Zenon DEF Whole, PC, CreatePCs
  <2> QED
    BY <2>11, <2>14, Zenon DEF Tidy

<1>SwitchBackTidy. ASSUME TypeOK, Tidy, NEW s \in Sessions, SwitchBack(s) PROVE Tidy'
  <2> USE <1>SwitchBackTidy
  <2>0. hist' = hist /\ conn' = conn /\ cats' = cats /\ sess[s].pc = "back" /\ {"switch", "init", "back"} = CreatePCs
    BY Zenon DEF SwitchBack, CreatePCs
  <2> SUFFICES ASSUME ~hist'.odd PROVE Tidy'
    BY Zenon DEF Tidy, Switched, Whole
  <2>1. ~hist.odd /\ Switched /\ Whole
    BY <2>0, Zenon DEF Tidy
  <2>2. /\ StorageOpen /\ sess[s].prev = Default
        /\ \A t \in Sessions : t # s => sess[t].pc \notin CreatePCs
    BY <2>0, <2>1, Zenon DEF Whole, Switched, PC
  <2>3. PICK f : f = WithTop(Default)
    OBVIOUS
  <2>4. duck' = [duck EXCEPT !.free = f] /\ sess' = Ended(s)
    BY <2>2, <2>3, Zenon DEF SwitchBack
  <2>5. /\ f \in Seq(CatNames) /\ f # <<>> /\ f[Len(f)] = Default
        /\ \A i \in 1..Len(f) : i # Len(f) => i \in 1..Len(duck.free) /\ i # Len(duck.free) /\ f[i] = duck.free[i]
    BY <2>3, <1>WithTopFields DEF CatNames
  <2>6. duck'.free = f
    BY <2>4, <2>5, FreeFields, Zenon
  <2>7. PICK n \in Session : sess' = [sess EXCEPT ![s] = n] /\ n.pc = "idle" /\ n.prev = Default
    BY <2>4, EndedFields, Zenon
  <2>8. sess'[s] = n /\ \A t \in Sessions : t # s => sess'[t] = sess[t]
    BY <2>7, Zenon DEF TypeOK
  <2>9. \A t \in Sessions : sess'[t].pc \notin CreatePCs
    BY <2>0, <2>2, <2>7, <2>8
  <2>10. \A i \in 1..Len(duck'.free) : duck'.free[i] = Default
    BY <2>1, <2>5, <2>6, Zenon DEF Switched
  <2>11. Switched'
    BY <2>0, <2>1, <2>7, <2>8, <2>9, <2>10 DEF Switched, PC
  <2>12. Whole'
    <3>1. \A t \in Sessions : sess[t].pc \notin {"switch", "init"}
      BY <2>0, <2>2, Zenon
    <3>2. "init" \in CreatePCs
      BY <2>0, Zenon
    <3> QED
      BY <2>0, <2>1, <2>9, <3>1, <3>2 DEF Whole, PC
  <2> QED
    BY <2>11, <2>12, Zenon DEF Tidy

<1>DetachTidy. ASSUME TypeOK, Tidy, NEW s \in Sessions, Detach(s) PROVE Tidy'
  <2> USE <1>DetachTidy
  <2>0. duck' = duck /\ conn' = conn /\ sess[s].pc = "detach" /\ {"switch", "init", "back"} = CreatePCs
    BY Zenon DEF Detach, CreatePCs
  <2>1. PICK c \in Catalogs : c = sess[s].arg
    BY <2>0, Zenon DEF TypeOK
  <2>2. PICK b \in BOOLEAN : b = Creating
    BY Zenon DEF Creating
  <2>3. hist'.astray = hist.astray /\ hist'.odd = (hist.odd \/ b)
    BY <2>2, OddFields, Zenon DEF Detach
  <2> SUFFICES ASSUME ~hist'.odd PROVE Tidy'
    BY Zenon DEF Tidy, Switched, Whole
  <2>4. ~hist.odd /\ ~Creating /\ Switched /\ Whole
    BY <2>2, <2>3, Zenon DEF Tidy
  <2>5. \A t \in Sessions : sess[t].pc \notin CreatePCs
    BY <2>0, <2>4, Zenon DEF Creating
  <2>6. PICK n \in Session :
           sess' = [sess EXCEPT ![s] = n] /\ n.prev \in {sess[s].prev, Default} /\ n.pc \in {"idle", "remove"}
    <3>1. "remove" \in PCs
      BY Zenon DEF PCs
    <3>2. CASE sess' = Ended(s)
      BY <3>2, EndedFields, Zenon
    <3>3. CASE sess' = Goto(s, "remove")
      BY <3>1, <3>3, GotoFields, Zenon
    <3> QED
      BY <3>2, <3>3, Zenon DEF Detach
  <2>7. sess'[s] = n /\ \A t \in Sessions : t # s => sess'[t] = sess[t]
    BY <2>6, Zenon DEF TypeOK
  <2>8. \A t \in Sessions : sess'[t].pc \notin CreatePCs
    BY <2>0, <2>5, <2>6, <2>7
  <2>9. \A e \in Catalogs : /\ cats'[e].file = cats[e].file /\ cats'[e].inits = cats[e].inits
                            /\ cats'[e].attached => cats[e].attached
    <3>1. CASE cats' = cats
      BY <3>1, Zenon
    <3>2. CASE cats' = [cats EXCEPT ![c].attached = FALSE]
      <4>1. PICK m \in Catalog : m = cats[c]
        BY Zenon DEF TypeOK, Shared
      <4>2. PICK k : k = [m EXCEPT !.attached = FALSE]
        BY Zenon
      <4>3. k.file = m.file /\ k.inits = m.inits /\ k.attached = FALSE
        BY <4>2, Zenon DEF Catalog
      <4>4. cats'[c] = k /\ \A e \in Catalogs : e # c => cats'[e] = cats[e]
        BY <3>2, <4>1, <4>2, Zenon DEF TypeOK, Shared
      <4> QED
        BY <4>1, <4>3, <4>4, Zenon
    <3> QED
      BY <2>1, <3>1, <3>2, Zenon DEF Detach
  <2>10. Switched'
    <3>1. n.pc \notin CreatePCs /\ sess[s].pc \notin {"init", "back"}
      BY <2>0, <2>6, Zenon
    <3> QED
      BY <2>0, <2>3, <2>4, <2>6, <3>1, <1>SwitchedStep, Zenon
  <2>11. Whole'
    <3>1. "init" \in CreatePCs /\ "switch" \in CreatePCs
      BY <2>0, Zenon
    <3>2. \A e \in Catalogs : /\ cats[e].attached => cats[e].file = "db"
                              /\ cats[e].file # "db" => cats[e].inits = <<>>
                              /\ cats[e].file = "db" => cats[e].inits = Internals
      BY <2>4, <2>5, <3>1 DEF Whole, PC
    <3>3. \A e \in Catalogs : /\ cats'[e].attached => cats'[e].file = "db"
                              /\ cats'[e].file # "db" => cats'[e].inits = <<>>
                              /\ cats'[e].file = "db" => cats'[e].inits = Internals
      BY <2>9, <3>2, Zenon
    <3> QED
      BY <2>8, <3>1, <3>3, Zenon DEF Whole, PC
  <2> QED
    BY <2>10, <2>11, Zenon DEF Tidy

\* A catalog that is not attached may become anything that is whole.
<1>ReplaceWhole.
    ASSUME TypeOK, Whole, ~hist.odd, NEW s \in Sessions, NEW n,
           sess' = [sess EXCEPT ![s] = n], duck' = duck,
           sess[s].pc \notin CreatePCs, n.pc \notin CreatePCs,
           NEW c \in Catalogs, NEW k, cats' = [cats EXCEPT ![c] = k], ~cats[c].attached,
           k.attached => k.file = "db", k.file # "db" => k.inits = <<>>,
           k.file = "db" => k.inits = Internals
    PROVE  Whole'
  <2> USE <1>ReplaceWhole
  <2>1. sess'[s] = n /\ \A t \in Sessions : t # s => sess'[t] = sess[t]
    BY Zenon DEF TypeOK
  <2>2. cats'[c] = k /\ \A e \in Catalogs : e # c => cats'[e] = cats[e]
    BY Zenon DEF TypeOK, Shared
  <2>3. Top' = Top /\ (StorageOpen' <=> StorageOpen) /\ {"switch", "init", "back"} = CreatePCs
    BY Zenon DEF Top, StorageOpen, CreatePCs
  <2>4. ASSUME NEW e \in Catalogs
        PROVE  /\ cats'[e].attached => cats'[e].file = "db"
               /\ cats'[e].file # "db" => cats'[e].inits = <<>>
               /\ cats'[e].file = "db" =>
                     \/ cats'[e].inits = Internals
                     \/ \E t \in Sessions : sess'[t].pc \in {"switch", "init"} /\ sess'[t].arg = e
    BY <2>1, <2>2, <2>3 DEF Whole, PC
  <2>5. ASSUME NEW t \in Sessions, sess'[t].pc \in CreatePCs
        PROVE  /\ cats'[sess'[t].arg].attached /\ StorageOpen'
               /\ sess'[t].pc = "init" => Top' = sess'[t].arg
    <3>1. sess'[t] = sess[t]
      BY <2>1, <2>5, Zenon
    <3>2. sess[t].arg \in Catalogs
      BY <2>5, <3>1, Zenon DEF TypeOK
    <3> QED
      BY <2>2, <2>3, <2>5, <3>1, <3>2 DEF Whole, PC
  <2>6. \A t \in Sessions : sess'[t].pc \in CreatePCs => cats'[sess'[t].arg].attached /\ StorageOpen'
    BY <2>5, Zenon
  <2>7. \A t \in Sessions : sess'[t].pc = "init" => Top' = sess'[t].arg
    BY <2>3, <2>5
  <2> QED
    BY <2>4, <2>6, <2>7, Zenon DEF Whole, PC

<1>RemoveTidy. ASSUME TypeOK, Tidy, NEW s \in Sessions, Remove(s) PROVE Tidy'
  <2> USE <1>RemoveTidy
  <2>0. /\ duck' = duck /\ conn' = conn /\ sess[s].pc = "remove" /\ sess' = Ended(s)
        /\ sess[s].pc \notin CreatePCs /\ "idle" \notin CreatePCs
    BY Zenon DEF Remove, CreatePCs
  <2>1. PICK c \in Catalogs : c = sess[s].arg
    BY <2>0, Zenon DEF TypeOK
  <2>2. PICK b \in BOOLEAN : b = cats[c].attached
    BY Zenon DEF TypeOK, Shared, Catalog
  <2>3. hist'.astray = hist.astray /\ hist'.odd = (hist.odd \/ b)
    BY <2>1, <2>2, OddFields, Zenon DEF Remove
  <2> SUFFICES ASSUME ~hist'.odd PROVE Tidy'
    BY Zenon DEF Tidy, Switched, Whole
  <2>4. ~hist.odd /\ ~cats[c].attached /\ Switched /\ Whole
    BY <2>2, <2>3, Zenon DEF Tidy
  <2>5. PICK n \in Session : sess' = [sess EXCEPT ![s] = n] /\ n.pc = "idle" /\ n.prev = Default
    BY <2>0, EndedFields, Zenon
  <2>6. PICK m \in Catalog : m = cats[c]
    BY DEF TypeOK, Shared
  <2>7. PICK k : k = [m EXCEPT !.file = "none", !.inits = <<>>]
    OBVIOUS
  <2>8. k.file = "none" /\ k.inits = <<>> /\ k.attached = m.attached
    BY <2>7, Zenon DEF Catalog
  <2>9. cats' = [cats EXCEPT ![c] = k]
    BY <2>1, <2>6, <2>7, Zenon DEF Remove
  <2>10. Switched'
    BY <2>0, <2>3, <2>4, <2>5, <1>SwitchedStep, Zenon
  <2>11. Whole'
    BY <2>0, <2>4, <2>5, <2>6, <2>8, <2>9, <1>ReplaceWhole, ZenonT(30)
  <2> QED
    BY <2>10, <2>11, Zenon DEF Tidy

<1>executeRestoreTidy. ASSUME TypeOK, Tidy, NEW s \in Sessions, executeRestore(s) PROVE Tidy'
  <2> USE <1>executeRestoreTidy
  <2>0. /\ duck' = duck /\ conn' = conn /\ sess[s].pc = "idle" /\ sess' = sess
        /\ sess[s].pc \notin CreatePCs /\ "idle" \notin {"init", "back"}
    BY Zenon DEF executeRestore, CreatePCs
  <2>1. PICK c \in Catalogs, k \in Catalog :
                /\ cats' = [cats EXCEPT ![c] = k]
                /\ k.file \in {"db", "bad"}
                /\ k.file = "db" => k.inits = Internals
                /\ k.file # "db" => k.inits = <<>>
                /\ k.attached => k.file = "db" \/ cats[c].attached
                /\ hist' = [hist EXCEPT !.odd = @ \/ cats[c].attached]
    BY RestoreFields, Zenon
  <2>2. PICK b \in BOOLEAN : b = cats[c].attached
    BY Zenon DEF TypeOK, Shared, Catalog
  <2>3. hist'.astray = hist.astray /\ hist'.odd = (hist.odd \/ b)
    BY <2>1, <2>2, OddFields, Zenon
  <2> SUFFICES ASSUME ~hist'.odd PROVE Tidy'
    BY Zenon DEF Tidy, Switched, Whole
  <2>4. ~hist.odd /\ ~cats[c].attached /\ Switched /\ Whole
    BY <2>2, <2>3, Zenon DEF Tidy
  <2>5. PICK n \in Session : n = sess[s]
    BY Zenon DEF TypeOK
  <2>6. sess' = [sess EXCEPT ![s] = n] /\ n.pc \notin CreatePCs /\ n.prev = sess[s].prev
    BY <2>0, <2>5, Zenon DEF TypeOK
  <2>7. Switched'
    BY <2>0, <2>3, <2>4, <2>6, <1>SwitchedStep, Zenon
  <2>8. Whole'
    BY <2>0, <2>1, <2>4, <2>6, <1>ReplaceWhole, Zenon
  <2> QED
    BY <2>7, <2>8, Zenon DEF Tidy

\* A step after which nobody creates a catalog and none but default connections are idle.
<1>NobodyCreates.
    ASSUME TypeOK, Tidy, ~hist.odd, hist'.astray = hist.astray,
           \A t \in Sessions : /\ sess[t].pc \notin CreatePCs /\ sess'[t].pc \notin CreatePCs
                               /\ sess'[t].prev \in {sess[t].prev, Default}
                               /\ conn'[t].cat \in {conn[t].cat, Default},
           \A i \in 1..Len(duck'.free) : duck'.free[i] = Default,
           \A c \in Catalogs : /\ cats'[c].file = cats[c].file /\ cats'[c].inits = cats[c].inits
                               /\ cats'[c].attached => cats[c].file = "db"
    PROVE  Tidy'
  <2> USE <1>NobodyCreates
  <2>1. Switched'
    BY Zenon DEF Tidy, Switched, PC
  <2>2. Whole'
    BY DEF Tidy, Whole, PC, CreatePCs
  <2> QED
    BY <2>1, <2>2, Zenon DEF Tidy

<1>RestartTidy. ASSUME TypeOK, Restarts, Tidy, NEW s \in Sessions, RestartStep(s) PROVE Tidy'
  <2> USE <1>RestartTidy
  <2>0. {"switch", "init", "back"} = CreatePCs /\ "idle" \notin CreatePCs
    BY Zenon DEF CreatePCs
  <2>1. CASE ProviderClose(s)
    <3>1. /\ \A t \in Sessions : /\ sess'[t].pc = (IF t = s THEN "open" ELSE sess[t].pc)
                                 /\ sess'[t].prev = sess[t].prev
          /\ duck'.free = <<>> /\ cats' = cats /\ conn' = conn
          /\ hist'.astray = hist.astray /\ hist'.odd = (hist.odd \/ Creating)
      BY <2>1, ProviderCloseFields, Zenon
    <3> SUFFICES ASSUME ~hist'.odd PROVE Tidy'
      BY Zenon DEF Tidy, Switched, Whole
    <3>2. ~hist.odd /\ ~Creating
      BY <3>1, Zenon
    <3>3. \A t \in Sessions : sess[t].pc \notin CreatePCs /\ sess'[t].pc \notin CreatePCs
      BY <2>0, <3>1, <3>2, Zenon DEF Creating
    <3>4. \A c \in Catalogs : cats[c].attached => cats[c].file = "db"
      BY <3>2, Zenon DEF Tidy, Whole
    <3>5. \A i \in 1..Len(duck'.free) : duck'.free[i] = Default
      BY <3>1
    <3> QED
      BY <3>1, <3>2, <3>3, <3>4, <3>5, <1>NobodyCreates, Zenon
  <2>2. CASE ProviderOpen(s) /\ left' = left
    <3>1. /\ sess[s].pc = "open" /\ sess'[s].pc = "reset" /\ sess'[s].prev = sess[s].prev
          /\ \A t \in Sessions : t # s => sess'[t] = sess[t]
          /\ duck'.free = <<>> /\ conn' = conn /\ hist' = hist
          /\ \A c \in Catalogs : /\ cats'[c].file = cats[c].file /\ cats'[c].inits = cats[c].inits
                                 /\ ~cats'[c].attached
      BY <2>2, OpenFields, Zenon
    <3> SUFFICES ASSUME ~hist'.odd PROVE Tidy'
      BY Zenon DEF Tidy, Switched, Whole
    <3>2. ~hist.odd /\ ~StorageOpen
      BY <3>1, Zenon DEF Restarts, PC, StorageOpen
    <3>3. \A t \in Sessions : sess[t].pc \notin CreatePCs
      BY <3>2, Zenon DEF Tidy, Whole, PC
    <3>4. \A t \in Sessions : sess'[t].pc \notin CreatePCs /\ sess'[t].prev = sess[t].prev
      BY <2>0, <3>1, <3>3, Zenon
    <3>5. \A i \in 1..Len(duck'.free) : duck'.free[i] = Default
      BY <3>1
    <3> QED
      BY <3>1, <3>2, <3>3, <3>4, <3>5, <1>NobodyCreates, Zenon
  <2>3. CASE ProviderOpen(s) /\ left' # left
    <3>1. /\ sess[s].pc = "open" /\ sess'[s].pc = "idle" /\ sess'[s].prev = Default
          /\ \A t \in Sessions : t # s => sess'[t] = sess[t]
          /\ UNCHANGED <<duck, cats, conn, hist>>
      BY <2>3, OpenFailsFields, Zenon
    <3>2. Neat
      BY <2>0, <3>1, Zenon DEF Neat, StorageOpen
    <3> QED
      BY <3>2, <1>NeatTidy, Zenon
  <2>4. CASE PoolClose(s)
    <3>1. /\ sess[s].pc = "reset" /\ sess'[s].pc \in {"idle", "swap"} /\ cats' = cats /\ hist' = hist
          /\ \A t \in Sessions : /\ sess'[t].prev = sess[t].prev /\ conn'[t].cat = conn[t].cat
                                 /\ t # s => sess'[t].pc = sess[t].pc /\ sess'[t].arg = sess[t].arg
          /\ duck'.gen = duck.gen /\ duck'.free = duck.free /\ duck'.closed = duck.closed \union {pool.db}
      BY <2>4, PoolCloseFields, Zenon
    <3>2. pool.db # duck.gen
      BY <3>1, Zenon DEF Restarts, PC
    <3>3. StorageOpen => StorageOpen'
      BY <3>1, <3>2, Zenon DEF StorageOpen
    <3>4. Neat
      BY <2>0, <3>1, <3>3 DEF Neat
    <3> QED
      BY <3>4, <1>NeatTidy
  <2>5. CASE ResetSwap(s)
    <3>1. /\ sess[s].pc = "swap" /\ sess'[s].pc = AfterRestart(s) /\ sess'[s].prev = sess[s].prev
          /\ \A t \in Sessions : /\ t # s => sess'[t] = sess[t]
                                 /\ conn'[t] = NoConn \/ conn'[t] = conn[t]
          /\ UNCHANGED <<duck, cats, hist>>
      BY <2>5, ResetSwapFields, Zenon
    <3>2. AfterRestart(s) \notin CreatePCs /\ NoConn.cat = Default
      BY <2>0, NoConnFields, Zenon DEF AfterRestart
    <3>3. Neat
      BY <2>0, <3>1, <3>2, Zenon DEF Neat, StorageOpen
    <3> QED
      BY <3>3, <1>NeatTidy
  <2> QED
    BY <2>1, <2>2, <2>3, <2>4, <2>5, Zenon DEF RestartStep
<1> SUFFICES ASSUME Core, Tidy, [Next]_vars PROVE Tidy'
  OBVIOUS
<1>0. TypeOK /\ Restarts /\ Connections
  BY Zenon DEF Core
<1>1. CASE UNCHANGED vars
  <2>1. Neat
    BY <1>1, Zenon DEF vars, Neat, StorageOpen
  <2> QED
    BY <1>0, <2>1, <1>NeatTidy, Zenon
<1>2. CASE NewDBProvider
  <2>1. /\ \A t \in Sessions : sess'[t] = Idle /\ conn'[t] = NoConn
        /\ duck'.free = <<Default>>
        /\ \A c \in Catalogs : /\ cats'[c].file = cats[c].file /\ cats'[c].inits = cats[c].inits
                               /\ cats'[c].attached => cats[c].file = "db"
        /\ hist'.astray = hist.astray /\ hist'.odd = (hist.odd \/ Creating)
    BY <1>0, <1>2, NewFields, Zenon
  <2> SUFFICES ASSUME ~hist'.odd PROVE Tidy'
    BY Zenon DEF Tidy, Switched, Whole
  <2>2. ~hist.odd /\ ~Creating
    BY <2>1, Zenon
  <2>3. \A t \in Sessions : /\ sess[t].pc \notin CreatePCs /\ sess'[t].pc \notin CreatePCs
                            /\ sess'[t].prev = Default /\ conn'[t].cat = Default
    BY <2>1, <2>2, IdleFields, NoConnFields, Zenon DEF Creating, CreatePCs
  <2>4. \A i \in 1..Len(duck'.free) : duck'.free[i] = Default
    BY <2>1
  <2> QED
    BY <1>0, <2>1, <2>2, <2>3, <2>4, <1>NobodyCreates, Zenon
<1>3. ASSUME NEW s \in Sessions, Minors(s) \/ BackStep(s)
      PROVE  Tidy'
  <2>1. Neat
    BY <1>0, <1>3, BackSteps, Zenon DEF Minors, Keeps
  <2> QED
    BY <1>0, <2>1, <1>NeatTidy, Zenon
<1>4. ASSUME NEW s \in Sessions, CatStep(s)
      PROVE  Tidy'
  BY <1>0, <1>4, <1>AttachTidy, <1>SwitchTidy, <1>initCatalogTidy, <1>SwitchBackTidy,
     <1>DetachTidy, <1>RemoveTidy,
     <1>executeRestoreTidy DEF CatStep
<1>5. ASSUME NEW s \in Sessions, ConnStep(s)
      PROVE  Tidy'
  <2>1. CASE Take(s) /\ pool.db \notin duck.closed
    BY <1>0, <2>1, <1>TakeTidy, Zenon
  <2>2. CASE Store(s) \/ CloseConn(s) \/ GetTxn(s)
    BY <1>0, <2>2, StoreFields, CloseConnFields, GetTxnFields, <1>NeatTidy, Zenon
  <2>3. CASE CommitTransaction(s) \/ Rollback(s)
    BY <1>0, <2>3, CommitFields, RollbackFields, <1>NeatTidy, Zenon
  <2>4. CASE executeDML(s) \/ (doCheckpoint(s) /\ (conn[s].open /\ CanCheckpoint(s)))
    BY <1>0, <2>4, DMLFields, CheckpointFields, <1>NeatTidy, Zenon
  <2> QED
    BY <1>5, <2>1, <2>2, <2>3, <2>4, Zenon DEF ConnStep
<1>6. ASSUME NEW s \in Sessions, RestartStep(s)
      PROVE  Tidy'
  BY <1>0, <1>6, <1>RestartTidy, Zenon
<1> QED
  BY <1>0, <1>1, <1>2, <1>3, <1>4, <1>5, <1>6, NextCases

LEMMA TidyInit == ASSUME Init PROVE Tidy
<1>1. \A t \in Sessions : sess[t].pc = "idle" /\ sess[t].prev = Default /\ conn[t].cat = Default
  BY IdleFields, NoConnFields, Zenon DEF Init
<1>2. duck.free = <<Default>> /\ hist.astray = FALSE
  BY Zenon DEF Init
<1>3. \A i \in 1..Len(duck.free) : duck.free[i] = Default
  BY <1>2
<1>4. \A c \in Catalogs : cats[c].file = "none" /\ cats[c].attached = FALSE /\ cats[c].inits = <<>>
  BY Zenon DEF Init
<1>5. "idle" \notin CreatePCs /\ "none" # "db"
  BY Zenon DEF CreatePCs
<1>6. Switched
  BY <1>1, <1>2, <1>3, <1>5, Zenon DEF Switched, PC
<1>7. Whole
  BY <1>1, <1>4, <1>5, Zenon DEF Whole, PC
<1> QED
  BY <1>6, <1>7, Zenon DEF Tidy

LEMMA TidyAlways == Spec => [](Core /\ Tidy)
<1>1. Init => Core /\ Tidy
  BY CoreInit, TidyInit, Zenon
<1>2. Core /\ Tidy /\ [Next]_vars => Core' /\ Tidy'
  BY CoreNext, TidyNext, Zenon
<1> QED
  BY <1>1, <1>2, PTL DEF Spec

\* Every statement runs in its session's current database, whatever USE, DDL on another
\* database or a new connection left the connection in (GetConnForSchema), for any number
\* of sessions, databases and restarts, as long as no connection was taken while CREATE
\* DATABASE had an idle one switched.
THEOREM NeverAstray == Spec => []RunsWhereMeant
<1>1. Core /\ Tidy => RunsWhereMeant
  BY Zenon DEF Tidy, Switched, RunsWhereMeant
<1> QED
  BY <1>1, TidyAlways, PTL

\* An attached catalog has its file, and all that initCatalog creates once no CREATE
\* DATABASE is at work on it, through drops, restores, restarts and crashes
\* (CreateCatalog, DropCatalog, executeRestore), unless statements shared connections
\* with another session's or one of them failed.
THEOREM AttachedIsWhole == Spec => []CatalogWhole
<1>1. Core /\ Tidy => CatalogWhole
  BY Zenon DEF Tidy, Whole, CatalogWhole, PC
<1> QED
  BY <1>1, TidyAlways, PTL

-----------------------------------------------------------------------------
(* BACKUP *)

LEMMA IdleBackups ==
    ASSUME \A t \in Sessions : sess[t].pc = "idle" /\ sess[t].op = "none" /\ ~sess[t].raced
    PROVE  Backups
<1>1. \A t \in Sessions : BackupOp(t) /\ BackedUp(t) /\ ~Backing(t)
  BY Zenon DEF BackupOp, BackedUp, Backing, PC, BackupPCs, RestartPCs
<1> QED
  BY <1>1, Zenon DEF Backups

LEMMA BackupsNext == Core /\ Rows /\ Backups /\ [Next]_vars => Backups'
\* A step of s outside the steps of BACKUP that leaves the file as it is.
<1>BackupsFrame.
    ASSUME TypeOK, Backups, NEW s \in Sessions, NEW n, NEW k, Ordinary(s, n, k),
           n.pc \notin BackupPCs, n.op = "resume" => sess[s].op = "resume",
           backup' = backup, duck'.file = duck.file, duck'.wal = duck.wal,
           n.raced => sess[s].raced \/ hist'.raced, hist.raced => hist'.raced
    PROVE  Backups'
  <2> USE <1>BackupsFrame
  <2>1. sess'[s] = n /\ \A t \in Sessions : t # s => sess'[t] = sess[t]
    BY OrdinaryOthers, Zenon
  <2>2. duck'.gen = duck.gen /\ duck'.readonly = duck.readonly
    BY Zenon DEF Ordinary
  <2>3. /\ {"checkpoint", "upload", "uploading"} \subseteq BackupPCs
        /\ {"close", "upload"} \union RestartPCs \subseteq BackupPCs
        /\ {"reset", "swap", "upload", "uploading"} \subseteq BackupPCs
    BY Zenon DEF BackupPCs, RestartPCs
  <2>4. ASSUME NEW t \in Sessions PROVE BackupOp(t)'
    BY <2>1, <2>3, Zenon DEF Backups, BackupOp, PC
  <2>5. ASSUME NEW t \in Sessions, Backing(t)' PROVE Backing(t)
    BY <2>1, <2>5, Zenon DEF Backing, PC
  <2>6. ASSUME NEW t \in Sessions, ~hist.raced PROVE BackedUp(t)'
    <3>1. BackedUp(t)
      BY <2>6, Zenon DEF Backups
    <3>2. CASE t # s
      BY <2>1, <2>2, <3>1, <3>2, Zenon DEF BackedUp, PC
    <3>3. CASE t = s
      BY <2>1, <2>3, <3>1, <3>3, Zenon DEF BackedUp, PC
    <3> QED
      BY <3>2, <3>3, Zenon
  <2> QED
    BY <2>4, <2>5, <2>6, Zenon DEF Backups

\* A step of the session that is backing up: no other is.
<1>BackupsOwn.
    ASSUME TypeOK, Backups, NEW s \in Sessions, Backing(s), hist'.raced = hist.raced,
           \A t \in Sessions : t # s =>
              /\ sess'[t].pc = sess[t].pc /\ sess'[t].op = sess[t].op /\ sess'[t].raced = sess[t].raced,
           BackupOp(s)', ~hist.raced => BackedUp(s)'
    PROVE  Backups'
  <2> USE <1>BackupsOwn
  <2>1. /\ {"checkpoint", "upload", "uploading"} \subseteq BackupPCs
        /\ {"close", "upload"} \union RestartPCs \subseteq BackupPCs
        /\ {"reset", "swap", "upload", "uploading"} \subseteq BackupPCs
    BY Zenon DEF BackupPCs, RestartPCs
  <2>2. ASSUME NEW t \in Sessions PROVE BackupOp(t)'
    BY Zenon DEF Backups, BackupOp, PC
  <2>3. ASSUME NEW t \in Sessions, t # s, ~hist.raced
        PROVE  sess'[t].pc \notin BackupPCs /\ sess'[t].op # "resume"
    BY <2>3, Zenon DEF Backups, Backing, PC
  <2>4. ASSUME NEW t \in Sessions, ~hist.raced PROVE BackedUp(t)'
    BY <2>1, <2>3, <2>4, Zenon DEF BackedUp, PC
  <2>5. ASSUME ~hist.raced, NEW r \in Sessions, NEW t \in Sessions, Backing(r)', Backing(t)'
        PROVE  r = t
    BY <2>3, <2>5, Zenon DEF Backing, PC
  <2> QED
    BY <2>2, <2>4, <2>5, Zenon DEF Backups

\* A write: while a backup is being uploaded no session writes to the file.
<1>BackupsWrite.
    ASSUME Core, Backups, NEW s \in Sessions, NEW n, NEW k, Ordinary(s, n, k),
           n.pc = "idle", n.op = "resume" => sess[s].op = "resume", n.raced = sess[s].raced,
           backup' = backup, hist'.raced = hist.raced,
           duck.file \subseteq duck'.file,
           duck.file \union duck.wal \subseteq duck'.file \union duck'.wal,
           duck'.file # duck.file /\ ~sess[s].raced => Held(s) /\ conn[s].gen \notin duck.readonly
    PROVE  Backups'
  <2> USE <1>BackupsWrite
  <2>0. TypeOK /\ Restarts /\ Connections
    BY Zenon DEF Core
  <2>1. sess'[s] = n /\ \A t \in Sessions : t # s => sess'[t] = sess[t]
    BY <2>0, OrdinaryOthers, Zenon
  <2>2. duck'.gen = duck.gen /\ duck'.readonly = duck.readonly
    BY Zenon DEF Ordinary
  <2>3. "idle" \notin BackupPCs /\ RestartPCs \subseteq BackupPCs /\ "reset" \in BackupPCs /\ "uploading" \in BackupPCs
    BY Zenon DEF BackupPCs, RestartPCs
  <2>4. ASSUME NEW t \in Sessions PROVE BackupOp(t)'
    BY <2>1, <2>3, Zenon DEF Backups, BackupOp, PC, BackupPCs
  <2>5. ASSUME NEW t \in Sessions, Backing(t)' PROVE Backing(t)
    BY <2>1, <2>3, <2>5, Zenon DEF Backing, PC
  <2>6. ASSUME NEW t \in Sessions, PC(t) = "uploading", ~hist.raced PROVE duck'.file = duck.file
    <3> SUFFICES ASSUME duck'.file # duck.file PROVE FALSE
      BY Zenon
    <3>1. duck.gen \in duck.readonly
      BY <2>6, Zenon DEF Backups, BackedUp, BackupOp
    <3>2. ~sess[s].raced
      BY <2>6, Zenon DEF Backups, BackupOp
    <3>3. Held(s) /\ conn[s].gen \notin duck.readonly
      BY <3>2, Zenon
    <3>4. PICK p \in Sessions : PC(p) = "reset"
      BY <2>0, <3>1, <3>2, <3>3, Zenon DEF Connections
    <3>5. p = t
      BY <2>3, <2>6, <3>4, Zenon DEF Backups, Backing
    <3> QED
      BY <2>6, <3>4, <3>5, Zenon
  <2>7. ASSUME NEW t \in Sessions, ~hist.raced PROVE BackedUp(t)'
    <3>1. BackedUp(t)
      BY <2>7, Zenon DEF Backups
    <3>2. CASE t # s
      BY <2>1, <2>2, <2>6, <2>7, <3>1, <3>2, Zenon DEF BackedUp, PC
    <3>3. CASE t = s
      BY <2>1, <2>3, <3>1, <3>3, Zenon DEF BackedUp, PC, RestartPCs
    <3> QED
      BY <3>2, <3>3, Zenon
  <2> QED
    BY <2>4, <2>5, <2>7, Zenon DEF Backups

<1>ApartBackups.
    ASSUME TypeOK, Backups, NEW s \in Sessions, NEW n, NEW k, Ordinary(s, n, k), Apart(s, n)
    PROVE  Backups'
  BY <1>ApartBackups, <1>BackupsFrame, Zenon DEF Apart

<1>StoreBackups. ASSUME TypeOK, Backups, NEW s \in Sessions, Store(s) PROVE Backups'
  <2> USE <1>StoreBackups
  <2>1. PICK n \in Session, k \in Connection :
           /\ Ordinary(s, n, k) /\ Rowless /\ n.pc \in {"run", "lookup"} /\ n.op = sess[s].op
           /\ n.raced = (sess[s].raced \/ conn[s].gen \in duck.closed \/ Restarting)
           /\ backup' = backup
           /\ hist'.raced = (hist.raced \/ conn[s].gen \in duck.closed \/ Restarting)
    BY StoreFields, Zenon
  <2>2. n.pc \notin BackupPCs
    BY <2>1, Zenon DEF BackupPCs, RestartPCs
  <2>3. duck'.file = duck.file /\ duck'.wal = duck.wal
    BY <2>1, Zenon DEF Rowless
  <2>4. (n.raced => sess[s].raced \/ hist'.raced) /\ (hist.raced => hist'.raced)
    BY <2>1, Zenon
  <2> QED
    BY <2>1, <2>2, <2>3, <2>4, <1>BackupsFrame

<1>CommitBackups.
    ASSUME Core, Backups, NEW s \in Sessions, CommitTransaction(s) PROVE Backups'
  <2> USE <1>CommitBackups
  <2>0. TypeOK /\ Restarts /\ Connections
    BY DEF Core
  <2>1. PICK n \in Session, k \in Connection :
           /\ Ordinary(s, n, k) /\ n.pc = "idle" /\ n.op = sess[s].op /\ n.raced = sess[s].raced
           /\ duck' \in Commits(TxGen(s), Written(s))
           /\ hist'.raced = hist.raced /\ backup' = backup
    BY <2>0, CommitFields, Zenon
  <2>2. PICK W : W = Written(s)
    OBVIOUS
  <2>3. W \in SUBSET Nat /\ TxGen(s) \in Nat
    BY <2>0, <2>2, Zenon DEF TypeOK, Session, Connection, Written, TxGen
  <2>4. /\ duck.file \subseteq duck'.file /\ duck.file \union duck.wal \subseteq duck'.file \union duck'.wal
        /\ W = {} => duck' = duck
    <3>1. Committed(duck', TxGen(s), W)
      BY <2>0, <2>1, <2>2, <2>3, CommitsFields
    <3> QED
      BY <3>1, Zenon DEF Committed
  <2>5. ASSUME duck'.file # duck.file, ~sess[s].raced
        PROVE  Held(s) /\ conn[s].gen \notin duck.readonly
    <3>1. sess[s].tx = "open" /\ sess[s].buf # {}
      BY <2>2, <2>4, <2>5, Zenon DEF Written
    <3> QED
      BY <2>0, <2>5, <3>1, Zenon DEF Connections
  <2> QED
    BY <2>1, <2>4, <2>5, <1>BackupsWrite, Zenon

<1>DMLBackups. ASSUME Core, Backups, NEW s \in Sessions, executeDML(s) PROVE Backups'
  <2> USE <1>DMLBackups
  <2>0. TypeOK /\ Restarts /\ Connections
    BY DEF Core
  <2>1. PICK n \in Session, k \in Connection :
           /\ Ordinary(s, n, k) /\ sess[s].pc = "run" /\ conn[s].open /\ conn[s].gen \notin duck.readonly
           /\ n.pc = "idle" /\ n.op = "none" /\ n.raced = sess[s].raced
           /\ duck' \in Commits(conn[s].gen, IF InTxn(s) THEN {} ELSE {left.writes})
           /\ hist'.raced = hist.raced /\ backup' = backup
    BY <2>0, DMLFields, Zenon
  <2>2. PICK W : W = IF InTxn(s) THEN {} ELSE {left.writes}
    BY Zenon
  <2>3. W \in SUBSET Nat /\ conn[s].gen \in Nat
    BY <2>0, <2>2 DEF TypeOK, Shared, Connection
  <2>4. duck.file \subseteq duck'.file /\ duck.file \union duck.wal \subseteq duck'.file \union duck'.wal
    <3>1. Committed(duck', conn[s].gen, W)
      BY <2>0, <2>1, <2>2, <2>3, CommitsFields
    <3> QED
      BY <3>1, Zenon DEF Committed
  <2>5. Held(s)
    <3>1. conn[s].st # "none" /\ conn[s].st # "taken"
      BY <2>0, <2>1, Zenon DEF Connections, PC
    <3>2. conn[s].st \in {"none", "taken", "stored"}
      BY <2>0, Zenon DEF TypeOK, Connection
    <3> QED
      BY <2>1, <3>1, <3>2, Zenon DEF Held
  <2> QED
    BY <2>1, <2>4, <2>5, <1>BackupsWrite, Zenon

<1>CheckpointBackups.
    ASSUME TypeOK, Backups, NEW s \in Sessions, doCheckpoint(s), conn[s].open /\ CanCheckpoint(s)
    PROVE  Backups'
  <2> USE <1>CheckpointBackups
  <2>1. PICK n \in Session, k \in Connection :
           /\ Ordinary(s, n, k) /\ sess[s].pc = "checkpoint"
           /\ n.pc = "close" /\ n.op = sess[s].op /\ n.raced = sess[s].raced
           /\ duck'.file = duck.file \union duck.wal /\ backup' = backup /\ hist' = hist
    BY CheckpointFields, Zenon DEF Carries
  <2>2. sess'[s] = n /\ \A t \in Sessions : t # s => sess'[t] = sess[t]
    BY <2>1, OrdinaryOthers, Zenon
  <2>3. Backing(s) /\ BackupOp(s) /\ (~hist.raced => BackedUp(s))
    BY <2>1, Zenon DEF Backing, PC, BackupPCs, Backups
  <2>4. sess[s].op = "backup" /\ (~hist.raced => backup.before \subseteq duck'.file)
    BY <2>1, <2>3, Zenon DEF BackupOp, BackedUp, PC
  <2>5. BackupOp(s)'
    BY <2>1, <2>2, <2>3, <2>4, Zenon DEF BackupOp, PC
  <2>6. ~hist.raced => BackedUp(s)'
    BY <2>1, <2>2, <2>4, Zenon DEF BackedUp, PC
  <2> QED
    BY <2>1, <2>2, <2>3, <2>5, <2>6, <1>BackupsOwn, Zenon

<1>stopAllReplicationBackups.
    ASSUME TypeOK, Rows, Backups, NEW s \in Sessions, stopAllReplication(s)
    PROVE  Backups'
  <2> USE <1>stopAllReplicationBackups
  <2>0. sess[s].op = "backup" /\ duck' = duck /\ sess' = Goto(s, "checkpoint") /\ "checkpoint" \in PCs
    BY Zenon DEF stopAllReplication, Build, PCs, BackupPCs
  <2>1. backup'.before = hist.kept
    BY Zenon DEF stopAllReplication
  <2>2. PICK b \in BOOLEAN : b = \E t \in Sessions \ {s} : sess[t].op \in {"backup", "resume"}
    BY Zenon
  <2>3. hist'.raced = (hist.raced \/ b)
    <3>1. PICK o \in BOOLEAN : o = (hist.raced \/ b)
      BY Zenon
    <3>2. hist' = [hist EXCEPT !.raced = o]
      BY <2>2, <3>1, Zenon DEF stopAllReplication
    <3> QED
      BY <3>1, <3>2, Zenon DEF TypeOK, Shared
  <2>4. PICK n \in Session :
           sess' = [sess EXCEPT ![s] = n] /\ n.pc = "checkpoint" /\ n.op = "backup" /\ n.raced = sess[s].raced
    BY <2>0, GotoFields DEF Carries
  <2>5. sess'[s] = n /\ \A t \in Sessions : t # s => sess'[t] = sess[t]
    BY <2>4, Zenon DEF TypeOK
  <2>6. ASSUME NEW t \in Sessions PROVE BackupOp(t)'
    BY <2>3, <2>4, <2>5, Zenon DEF Backups, BackupOp, PC, RestartPCs
  <2>7. ASSUME ~hist'.raced, NEW t \in Sessions, t # s
        PROVE  sess'[t].pc \notin BackupPCs /\ sess'[t].op # "resume"
    <3>1. sess[t].op \notin {"backup", "resume"}
      BY <2>2, <2>3, <2>7, Zenon
    <3>2. BackupOp(t)
      BY Zenon DEF Backups
    <3> QED
      BY <2>5, <2>7, <3>1, <3>2, Zenon DEF BackupOp, PC, BackupPCs
  <2>8. ASSUME ~hist'.raced, NEW t \in Sessions PROVE BackedUp(t)'
    <3>1. CASE t = s
      <4>1. hist.kept \subseteq duck'.file \union duck'.wal
        BY <2>0, Zenon DEF Rows
      <4> QED
        BY <2>1, <2>4, <2>5, <3>1, <4>1 DEF BackedUp, PC, RestartPCs
    <3>2. CASE t # s
      BY <2>7, <2>8, <3>2, Zenon DEF BackedUp, PC, BackupPCs, RestartPCs
    <3> QED
      BY <3>1, <3>2, Zenon
  <2>9. ASSUME ~hist'.raced, NEW r \in Sessions, NEW t \in Sessions, Backing(r)', Backing(t)'
        PROVE  r = t
    BY <2>7, <2>9, Zenon DEF Backing, PC
  <2> QED
    BY <2>6, <2>8, <2>9 DEF Backups

<1>UploadFileBackups. ASSUME TypeOK, Backups, NEW s \in Sessions, UploadFile(s) PROVE Backups'
  <2> USE <1>UploadFileBackups
  <2>0. /\ sess[s].pc = "upload" /\ duck' = duck /\ hist' = hist /\ sess' = Goto(s, "uploading")
        /\ "uploading" \in PCs /\ "upload" \in BackupPCs
    BY Zenon DEF UploadFile, PCs, BackupPCs
  <2>1. backup'.up = duck.file /\ backup'.before = backup.before
    BY Zenon DEF UploadFile, TypeOK, Shared
  <2>2. PICK n \in Session :
           sess' = [sess EXCEPT ![s] = n] /\ n.pc = "uploading" /\ n.op = sess[s].op /\ n.raced = sess[s].raced
    BY <2>0, GotoFields DEF Carries
  <2>3. sess'[s] = n /\ \A t \in Sessions : t # s => sess'[t] = sess[t]
    BY <2>2, Zenon DEF TypeOK
  <2>4. Backing(s) /\ BackupOp(s) /\ (~hist.raced => BackedUp(s))
    BY <2>0, Zenon DEF Backing, PC, Backups
  <2>5. /\ sess[s].op = "backup"
        /\ ~hist.raced => backup.before \subseteq duck.file /\ duck.gen \in duck.readonly
    BY <2>0, <2>4, Zenon DEF BackupOp, BackedUp, PC
  <2>6. BackupOp(s)'
    BY <2>0, <2>2, <2>3, <2>4, <2>5 DEF BackupOp, PC
  <2>7. ~hist.raced => BackedUp(s)'
    BY <2>0, <2>1, <2>2, <2>3, <2>5 DEF BackedUp, PC, RestartPCs
  <2> QED
    BY <2>0, <2>3, <2>4, <2>6, <2>7, <1>BackupsOwn

\* The end of a backup, by an error of the upload or after the replication was started.
<1>EndedBackups.
    ASSUME TypeOK, Backups, NEW s \in Sessions, Backing(s), sess' = Ended(s), hist' = hist
    PROVE  Backups'
  <2> USE <1>EndedBackups
  <2>1. PICK n \in Session :
           sess' = [sess EXCEPT ![s] = n] /\ n.pc = "idle" /\ n.op = "none" /\ n.raced = sess[s].raced
    BY EndedFields, Zenon DEF Carries
  <2>2. sess'[s] = n /\ \A t \in Sessions : t # s => sess'[t] = sess[t]
    BY <2>1, Zenon DEF TypeOK
  <2>3. BackupOp(s)'
    BY <2>1, <2>2, Zenon DEF Backups, BackupOp, PC, RestartPCs
  <2>4. BackedUp(s)'
    BY <2>1, <2>2, Zenon DEF BackedUp, PC, RestartPCs
  <2> QED
    BY <2>2, <2>3, <2>4, <1>BackupsOwn, Zenon

<1>UploadedBackups. ASSUME TypeOK, Backups, NEW s \in Sessions, Uploaded(s) PROVE Backups'
  <2> USE <1>UploadedBackups
  <2>0. sess[s].pc = "uploading" /\ duck' = duck /\ hist' = hist /\ "uploading" \in BackupPCs
    BY Zenon DEF Uploaded, BackupPCs
  <2>1. Backing(s) /\ BackupOp(s) /\ (~hist.raced => BackedUp(s))
    BY <2>0, Zenon DEF Backing, PC, Backups
  <2>2. CASE sess' = Ended(s)
    BY <2>0, <2>1, <2>2, <1>EndedBackups
  <2>3. CASE /\ sess' = [sess EXCEPT ![s].pc = "close", ![s].op = "resume"]
             /\ backup' = [backup EXCEPT !.ok = duck.file = backup.up]
    <3>1. PICK b \in BOOLEAN : b = (duck.file = backup.up)
      BY Zenon
    <3>2. backup' = [backup EXCEPT !.ok = b]
      BY <2>3, <3>1, Zenon
    <3>3. backup'.ok = b /\ backup'.up = backup.up /\ backup'.before = backup.before
      BY <3>2, Zenon DEF TypeOK, Shared
    <3>4. PICK m \in Session : m = sess[s]
      BY Zenon DEF TypeOK
    <3>5. PICK n : n = [m EXCEPT !.pc = "close", !.op = "resume"]
      OBVIOUS
    <3>6. n.pc = "close" /\ n.op = "resume" /\ n.raced = m.raced
      BY <3>5, Zenon DEF Session
    <3>7. sess'[s] = n /\ \A t \in Sessions : t # s => sess'[t] = sess[t]
      BY <2>3, <3>4, <3>5, Zenon DEF TypeOK
    <3>8. BackupOp(s)'
      BY <2>0, <2>1, <3>4, <3>6, <3>7 DEF BackupOp, PC, RestartPCs
    <3>9. ~hist.raced => backup.up = duck.file /\ backup.before \subseteq backup.up
      BY <2>0, <2>1, Zenon DEF BackedUp, PC
    <3>10. ~hist.raced => BackedUp(s)'
      BY <3>1, <3>3, <3>6, <3>7, <3>9, Zenon DEF BackedUp, PC, RestartPCs
    <3> QED
      BY <2>0, <2>1, <3>7, <3>8, <3>10, <1>BackupsOwn
  <2> QED
    BY <2>2, <2>3, Zenon DEF Uploaded

<1>BackStepBackups. ASSUME TypeOK, Rows, Backups, NEW s \in Sessions, BackStep(s) PROVE Backups'
  <2> USE <1>BackStepBackups
  <2>1. CASE startAllReplication(s)
    <3>1. sess[s].op = "resume" /\ sess' = Ended(s) /\ hist' = hist
      BY <2>1, Zenon DEF startAllReplication, Build
    <3>2. Backing(s)
      BY <3>1, Zenon DEF Backing
    <3> QED
      BY <3>1, <3>2, <1>EndedBackups, Zenon
  <2>2. CASE doCheckpoint(s) /\ ~(conn[s].open /\ CanCheckpoint(s))
    <3>1. sess[s].pc = "checkpoint" /\ sess' = Ended(s) /\ hist' = hist
      BY <2>2, Zenon DEF doCheckpoint
    <3>2. Backing(s)
      BY <3>1, Zenon DEF Backing, PC, BackupPCs
    <3> QED
      BY <3>1, <3>2, <1>EndedBackups, Zenon
  <2> QED
    BY <2>1, <2>2, <1>stopAllReplicationBackups, <1>UploadFileBackups, <1>UploadedBackups
       DEF BackStep

<1>RestartBackups. ASSUME TypeOK, Backups, NEW s \in Sessions, RestartStep(s) PROVE Backups'
  <2> USE <1>RestartBackups
  <2>0. {"close", "open", "reset", "swap"} \subseteq BackupPCs /\ RestartPCs = {"open", "reset", "swap"}
    BY Zenon DEF BackupPCs, RestartPCs
  <2>1. CASE ProviderClose(s)
    <3>1. /\ sess[s].pc = "close" /\ hist'.raced = hist.raced /\ backup' = backup
          /\ \A t \in Sessions : /\ sess'[t].pc = (IF t = s THEN "open" ELSE sess[t].pc)
                                 /\ sess'[t].op = sess[t].op /\ sess'[t].raced = sess[t].raced
          /\ duck.file \subseteq duck'.file
      BY <2>1, ProviderCloseFields, Zenon DEF Carries
    <3>2. Backing(s) /\ BackupOp(s) /\ (~hist.raced => BackedUp(s))
      BY <2>0, <3>1, Zenon DEF Backing, PC, Backups
    <3>3. BackupOp(s)'
      BY <2>0, <3>1, <3>2, Zenon DEF BackupOp, PC
    <3>4. ~hist.raced => BackedUp(s)'
      BY <2>0, <3>1, <3>2, Zenon DEF BackedUp, PC
    <3> QED
      BY <3>1, <3>2, <3>3, <3>4, <1>BackupsOwn, Zenon
  <2>2. CASE ProviderOpen(s) /\ left' = left
    <3>1. /\ sess[s].pc = "open" /\ hist' = hist /\ backup' = backup
          /\ \A t \in Sessions : t # s => sess'[t] = sess[t]
          /\ sess'[s].pc = "reset" /\ sess'[s].op = sess[s].op /\ sess'[s].raced = sess[s].raced
          /\ duck'.file = duck.file /\ duck'.gen = duck.gen + 1
          /\ sess[s].op = "backup" => duck.gen + 1 \in duck'.readonly
      BY <2>2, OpenFields, Zenon DEF Carries
    <3>2. Backing(s) /\ BackupOp(s) /\ (~hist.raced => BackedUp(s))
      BY <2>0, <3>1, Zenon DEF Backing, PC, Backups
    <3>3. BackupOp(s)'
      BY <2>0, <3>1, <3>2, Zenon DEF BackupOp, PC
    <3>4. ~hist.raced => BackedUp(s)'
      BY <2>0, <3>1, <3>2, Zenon DEF BackedUp, PC
    <3> QED
      BY <3>1, <3>2, <3>3, <3>4, <1>BackupsOwn
  <2>3. CASE ProviderOpen(s) /\ left' # left
    <3>1. /\ sess[s].pc = "open" /\ hist' = hist
          /\ \A t \in Sessions : t # s => sess'[t] = sess[t]
          /\ sess'[s].pc = "idle" /\ sess'[s].op = "none" /\ sess'[s].raced = sess[s].raced
      BY <2>3, OpenFailsFields, Zenon DEF Carries
    <3>2. Backing(s) /\ BackupOp(s)
      BY <2>0, <3>1, Zenon DEF Backing, PC, Backups
    <3>3. BackupOp(s)' /\ BackedUp(s)'
      BY <2>0, <3>1, <3>2, Zenon DEF BackupOp, BackedUp, PC
    <3> QED
      BY <3>1, <3>2, <3>3, <1>BackupsOwn, Zenon
  <2>4. CASE PoolClose(s)
    <3>1. /\ sess[s].pc = "reset" /\ hist' = hist /\ backup' = backup
          /\ \A t \in Sessions : /\ sess'[t].raced = sess[t].raced
                                 /\ t # s => sess'[t].pc = sess[t].pc /\ sess'[t].op = sess[t].op
          /\ \/ sess'[s].pc = "idle" /\ sess'[s].op = "none"
             \/ sess'[s].pc = "swap" /\ sess'[s].op = sess[s].op
          /\ duck'.file = duck.file /\ duck'.gen = duck.gen /\ duck'.readonly = duck.readonly
      BY <2>4, PoolCloseFields, Zenon
    <3>2. Backing(s) /\ BackupOp(s) /\ (~hist.raced => BackedUp(s))
      BY <2>0, <3>1, Zenon DEF Backing, PC, Backups
    <3>3. BackupOp(s)'
      BY <2>0, <3>1, <3>2, Zenon DEF BackupOp, PC
    <3>4. ~hist.raced => BackedUp(s)'
      BY <2>0, <3>1, <3>2, Zenon DEF BackedUp, PC
    <3> QED
      BY <3>1, <3>2, <3>3, <3>4, <1>BackupsOwn
  <2>5. CASE ResetSwap(s)
    <3>1. /\ sess[s].pc = "swap" /\ hist' = hist /\ backup' = backup /\ duck' = duck
          /\ \A t \in Sessions : t # s => sess'[t] = sess[t]
          /\ sess'[s].pc = AfterRestart(s) /\ sess'[s].op = sess[s].op /\ sess'[s].raced = sess[s].raced
      BY <2>5, ResetSwapFields, Zenon DEF Carries
    <3>2. Backing(s) /\ BackupOp(s) /\ (~hist.raced => BackedUp(s))
      BY <2>0, <3>1, Zenon DEF Backing, PC, Backups
    <3>3. sess'[s].pc = IF sess[s].op = "backup" THEN "upload" ELSE "load"
      BY <3>1, Zenon DEF AfterRestart
    <3>4. BackupOp(s)'
      BY <2>0, <3>1, <3>2, <3>3, Zenon DEF BackupOp, PC
    <3>5. ~hist.raced => BackedUp(s)'
      BY <2>0, <3>1, <3>2, <3>3, Zenon DEF BackedUp, PC
    <3> QED
      BY <3>1, <3>2, <3>4, <3>5, <1>BackupsOwn, Zenon
  <2> QED
    BY <2>1, <2>2, <2>3, <2>4, <2>5 DEF RestartStep
<1> SUFFICES ASSUME Core, Rows, Backups, [Next]_vars PROVE Backups'
  OBVIOUS
<1>0. TypeOK /\ Restarts /\ Connections
  BY Zenon DEF Core
<1>1. CASE UNCHANGED vars
  BY <1>1, Zenon DEF vars, Backups, BackupOp, BackedUp, Backing, PC
<1>2. CASE NewDBProvider
  <2>1. \A t \in Sessions : sess'[t].pc = "idle" /\ sess'[t].op = "none" /\ ~sess'[t].raced
    BY <1>0, <1>2, NewFields, IdleFields, Zenon
  <2>2. \A t \in Sessions : BackupOp(t)' /\ BackedUp(t)' /\ ~Backing(t)'
    BY <2>1, Zenon DEF BackupOp, BackedUp, Backing, PC, BackupPCs, RestartPCs
  <2> QED
    BY <2>2, Zenon DEF Backups
<1>3. ASSUME NEW s \in Sessions, Minors(s) \/ CatStep(s)
      PROVE  Backups'
  <2>1. PICK n \in Session, k \in Connection : Light(s, n, k) /\ Apart(s, n)
    BY <1>0, <1>3, CatSteps, Zenon DEF Minors, Lights
  <2> QED
    BY <1>0, <2>1, <1>ApartBackups, Zenon DEF Light
<1>4. ASSUME NEW s \in Sessions, BackStep(s) \/ RestartStep(s)
      PROVE  Backups'
  BY <1>0, <1>4, <1>BackStepBackups, <1>RestartBackups
<1>5. ASSUME NEW s \in Sessions, ConnStep(s)
      PROVE  Backups'
  <2>1. CASE (Take(s) /\ pool.db \notin duck.closed) \/ CloseConn(s) \/ GetTxn(s) \/ Rollback(s)
    <3>1. PICK n \in Session, k \in Connection : Ordinary(s, n, k) /\ Apart(s, n)
      BY <1>0, <2>1, TakeFields, CloseConnFields, GetTxnFields, RollbackFields, Zenon
    <3> QED
      BY <1>0, <3>1, <1>ApartBackups, Zenon
  <2> QED
    BY <1>0, <1>5, <2>1, <1>StoreBackups, <1>CommitBackups, <1>DMLBackups,
       <1>CheckpointBackups, Zenon DEF ConnStep
<1> QED
  BY <1>0, <1>1, <1>2, <1>3, <1>4, <1>5, NextCases

\* A backup that was uploaded in full holds every row acknowledged before it began, and
\* the file stood still while it was read (executeBackup), whatever other sessions write,
\* commit and restart meanwhile, unless one got its connection while the pool was being
\* reset or two backups overlapped.
THEOREM BackupHasAll == Spec => []BackupWhole
<1>1. Init => Core /\ Rows /\ Backups
  <2>1. ASSUME Init PROVE Backups
    <3>1. \A t \in Sessions : sess[t].pc = "idle" /\ sess[t].op = "none" /\ ~sess[t].raced
      BY <2>1, IdleFields, Zenon DEF Init
    <3> QED
      BY <3>1, IdleBackups, Zenon
  <2> QED
    BY <2>1, CoreInit, RowsInit, Zenon
<1>2. Core /\ Rows /\ Backups /\ [Next]_vars => Core' /\ Rows' /\ Backups'
  BY CoreNext, RowsNext, BackupsNext, Zenon
<1>3. Core /\ Rows /\ Backups => BackupWhole
  <2>1. Postgres \subseteq Sessions
    BY Zenon DEF Postgres
  <2> QED
    BY <2>1, Zenon DEF Backups, BackedUp, BackupWhole
<1> QED
  BY <1>1, <1>2, <1>3, PTL DEF Spec

=============================================================================
