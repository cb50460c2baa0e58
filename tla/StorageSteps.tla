---------------------------- MODULE StorageSteps ----------------------------
(***************************************************************************)
(* The types and the invariants of Storage, what each of its steps does to *)
(* a session, its connection, the provider and the catalogs, and that      *)
(* every step keeps Core: the types, the order of a restart and what a     *)
(* session's connection may be while the provider is replaced.  All of it  *)
(* for any number of sessions, commands, restarts and faults;              *)
(* StorageProofs builds on it.                                             *)
(***************************************************************************)
EXTENDS Storage, TLAPS

RestartPCs == {"open", "reset", "swap"}
CreatePCs == {"switch", "init", "back"}
BackupPCs == {"checkpoint", "close", "upload", "uploading"} \union RestartPCs
PCs == {"idle", "resolve", "load", "take", "store", "run", "lookup", "lock", "attach",
        "detach", "remove"} \union CreatePCs \union BackupPCs
Ops == {"none", "init", "use", "index", "dml", "begin", "createdb", "dropdb", "create",
        "create_if", "drop", "backup", "resume"}
Args == Schemas \union Catalogs \union {None}
CatNames == Catalogs \union {Default}

Session == [pc : PCs, op : Ops, arg : Args, ph : {"build", "resolve"}, db : Args,
            prev : CatNames, tx : {"none", "open", "done"}, buf : SUBSET Nat,
            clean : BOOLEAN, raced : BOOLEAN]
Connection == [st : {"none", "taken", "stored"}, gen : Nat, cat : CatNames,
               schema : Args \union {"main"}, open : BOOLEAN]
Instances == [gen : Nat, closed : SUBSET Nat, readonly : SUBSET Nat, free : Seq(CatNames),
              inst : Seq(SUBSET Nat), file : SUBSET Nat, wal : SUBSET Nat,
              dbs : SUBSET Args]
Catalog == [file : {"none", "db", "bad"}, attached : BOOLEAN,
            inits : {<<>>, <<"tables">>, <<"tables", "views">>}]

\* The types of what the sessions share, and of everything.
Shared ==
    /\ duck \in Instances
    /\ prov \in [mu : Sessions \union {None}, readers : SUBSET Sessions]
    /\ cats \in [Catalogs -> Catalog]
    /\ pool \in [db : Nat, txns : SUBSET Sessions, orphan : BOOLEAN]
    /\ backup \in [enabled : BOOLEAN, up : SUBSET Nat, before : SUBSET Nat, ok : BOOLEAN]
    /\ hist \in [kept : SUBSET Nat, gone : SUBSET Nat, astray : BOOLEAN, odd : BOOLEAN,
                 raced : BOOLEAN]
    /\ left \in [ops : Nat, writes : Nat, faults : Nat]
TypeOK ==
    /\ Shared
    /\ conn \in [Sessions -> Connection]
    /\ sess \in [Sessions -> Session]
    /\ \A s \in Sessions : sess[s].pc \in {"attach", "detach", "remove"} \union CreatePCs =>
          sess[s].arg \in Catalogs

PC(s) == sess[s].pc
Held(s) == conn[s].st = "stored" /\ conn[s].open

\* One restart at a time; its steps and the instances.
Restarts ==
    /\ \A s \in Sessions : PC(s) \in RestartPCs => prov.mu = s
    /\ duck.gen \in Nat \ {0} /\ Len(duck.inst) = duck.gen
    /\ duck.closed \subseteq 1..duck.gen /\ duck.readonly \subseteq 1..duck.gen
    /\ pool.db \in 1..duck.gen
    /\ \A g \in 1..duck.gen : g # duck.gen => g \in duck.closed
    /\ \A s \in Sessions : PC(s) = "open" => duck.gen \in duck.closed
    /\ \A s \in Sessions : PC(s) \in {"reset", "swap"} =>
          duck.gen \notin duck.closed /\ pool.db # duck.gen

\* Transactions, connections, and what the restarts leave of them.
Connections ==
    /\ \A s \in Sessions : conn[s].st # "none" => conn[s].gen \in 1..duck.gen
    /\ \A s \in Sessions : conn[s].st = "none" => ~conn[s].open
    /\ \A s \in Sessions : conn[s].st = "taken" <=> PC(s) = "store"
    /\ \A s \in Sessions : PC(s) \in {"take", "store"} => conn[s].st # "stored"
    /\ \A s \in Sessions : sess[s].tx = "open" /\ ~sess[s].raced => Held(s) /\ s \in pool.txns
    /\ \A s \in Sessions : Held(s) /\ ~sess[s].raced =>
          \/ conn[s].gen = duck.gen
          \/ \E p \in Sessions : PC(p) = "reset"
    /\ \A p, s \in Sessions : PC(p) = "swap" /\ Held(s) => sess[s].raced
    /\ Restarting => \A s \in Sessions : sess[s].clean => PC(s) = "idle" /\ sess[s].tx = "none"
    /\ \A s \in Sessions : sess[s].buf # {} /\ ~sess[s].raced =>
          sess[s].tx = "open" /\ conn[s].gen \notin duck.readonly

Serves ==
    left.faults <= MaxFaults /\
    (~pool.orphan =>
       /\ (\A s \in Sessions : PC(s) \notin {"reset", "swap"}) => pool.db = duck.gen
       /\ left.faults = MaxFaults => Restarting \/ duck.gen \notin duck.closed
       /\ \A s \in Sessions : s \in pool.txns /\ sess[s].tx = "done" =>
             \E p \in Sessions : PC(p) = "swap")

Switched ==
    ~hist.odd =>
       /\ ~hist.astray
       /\ \A s \in Sessions : conn[s].cat = Default
       /\ \A s, t \in Sessions : PC(s) \in CreatePCs /\ PC(t) \in CreatePCs => s = t
       /\ \A s \in Sessions : sess[s].prev = Default
       /\ \A i \in 1..Len(duck.free) :
             \/ duck.free[i] = Default
             \/ i = Len(duck.free) /\ \E s \in Sessions : PC(s) \in {"init", "back"}

Whole ==
    ~hist.odd =>
       /\ \A c \in Catalogs :
             /\ cats[c].attached => cats[c].file = "db"
             /\ cats[c].file # "db" => cats[c].inits = <<>>
             /\ cats[c].file = "db" =>
                   \/ cats[c].inits = Internals
                   \/ \E s \in Sessions : PC(s) \in {"switch", "init"} /\ sess[s].arg = c
       /\ \A s \in Sessions : PC(s) \in CreatePCs =>
             cats[sess[s].arg].attached /\ StorageOpen
       /\ \A s \in Sessions : PC(s) = "init" => Top = sess[s].arg

Rows ==
    /\ \A x \in hist.kept \union hist.gone \union duck.file \union duck.wal : x > left.writes
    /\ \A x \in duck.inst[duck.gen] : x > left.writes
    /\ \A s \in Sessions : \A x \in sess[s].buf : x > left.writes
    /\ \A s, t \in Sessions : s # t => sess[s].buf \intersect sess[t].buf = {}
    /\ \A s \in Sessions :
          sess[s].buf \intersect (hist.gone \union duck.file \union duck.wal \union duck.inst[duck.gen]) = {}
    /\ hist.gone \intersect (duck.file \union duck.wal \union duck.inst[duck.gen]) = {}
    /\ hist.kept \subseteq duck.file \union duck.wal
    /\ hist.kept \subseteq duck.inst[duck.gen]

\* A session at work on a backup, and what holds of the backup at each of its steps.
Backing(s) == PC(s) \in BackupPCs \/ sess[s].op = "resume"
BackedUp(s) ==
    /\ PC(s) = "checkpoint" => backup.before \subseteq duck.file \union duck.wal
    /\ sess[s].op = "backup" /\ PC(s) \in {"close", "upload"} \union RestartPCs =>
          backup.before \subseteq duck.file
    /\ sess[s].op = "backup" /\ PC(s) \in {"reset", "swap", "upload", "uploading"} =>
          duck.gen \in duck.readonly
    /\ PC(s) = "uploading" => backup.up = duck.file /\ backup.before \subseteq backup.up
    /\ sess[s].op = "resume" => backup.ok /\ backup.before \subseteq backup.up

BackupOp(s) ==
    /\ PC(s) \in {"checkpoint", "upload", "uploading"} => sess[s].op = "backup"
    /\ PC(s) \in {"close"} \union RestartPCs => sess[s].op \in {"backup", "resume"}
    /\ sess[s].raced => hist.raced
Backups ==
    /\ \A s \in Sessions : BackupOp(s)
    /\ ~hist.raced =>
       /\ \A s, t \in Sessions : Backing(s) /\ Backing(t) => s = t
       /\ \A s \in Sessions : BackedUp(s)

-----------------------------------------------------------------------------
(* Sequences *)

LEMMA SameSequence ==
    ASSUME NEW S, NEW a \in Seq(S), NEW b \in Seq(S), Len(a) = Len(b), \A i \in 1..Len(a) : a[i] = b[i]
    PROVE  a = b
<1>1. /\ DOMAIN a = 1..Len(a) /\ DOMAIN b = 1..Len(a)
      /\ a = [i \in DOMAIN a |-> a[i]] /\ b = [i \in DOMAIN b |-> b[i]]
  OBVIOUS
<1> QED
  BY <1>1, Zenon

LEMMA ReplaceAt ==
    ASSUME NEW S, NEW q \in Seq(S), NEW i \in 1..Len(q), NEW e \in S
    PROVE  [q EXCEPT ![i] = e] \in Seq(S) /\ Len([q EXCEPT ![i] = e]) = Len(q)
OBVIOUS

LEMMA FrontOf ==
    ASSUME NEW S, NEW q \in Seq(S), NEW p, p = SubSeq(q, 1, Len(q) - 1)
    PROVE  /\ p \in Seq(S) /\ Len(p) = IF 1 <= Len(q) - 1 THEN Len(q) - 1 ELSE 0
           /\ \A i \in 1..Len(q) - 1 : p[i] = q[i]
OBVIOUS

LEMMA AppendAt ==
    ASSUME NEW S, NEW q \in Seq(S), NEW e \in S, NEW p, p = Append(q, e)
    PROVE  p \in Seq(S) /\ Len(p) = Len(q) + 1 /\ p[Len(q) + 1] = e
OBVIOUS

-----------------------------------------------------------------------------
(* The steps of one session *)

Carries(n, m) == n.tx = m.tx /\ n.buf = m.buf /\ n.raced = m.raced

\* A step in which s becomes n and its connection k, outside a restart.
Ordinary(s, n, k) ==
    /\ Shared'
    /\ n \in Session /\ k \in Connection
    /\ sess' = [sess EXCEPT ![s] = n] /\ conn' = [conn EXCEPT ![s] = k]
    /\ n.pc \in {"attach", "detach", "remove"} \union CreatePCs => n.arg \in Catalogs
    /\ sess[s].pc \notin RestartPCs /\ n.pc \notin RestartPCs
    /\ prov'.mu # prov.mu => prov.mu \in {s, None} /\ prov'.mu \in {s, None}
    /\ duck'.gen = duck.gen /\ duck'.closed = duck.closed /\ duck'.readonly = duck.readonly
    /\ Len(duck'.inst) = Len(duck.inst)
    /\ pool'.db = pool.db
    /\ \A t \in Sessions \ {s} : t \in pool'.txns <=> t \in pool.txns
    /\ left'.faults <= left.faults

\* The pool at most remembers the transaction of a refused CHECKPOINT.
SamePool(s) ==
    /\ pool'.db = pool.db /\ pool'.orphan = pool.orphan
    /\ pool.txns \subseteq pool'.txns
    /\ s \in pool'.txns => s \in pool.txns \/ sess[s].tx = "none"

\* One that neither writes nor takes, returns or closes a connection.
Light(s, n, k) ==
    /\ Ordinary(s, n, k)
    /\ Carries(n, sess[s])
    /\ k.st = conn[s].st /\ k.gen = conn[s].gen /\ k.open = conn[s].open
    /\ SamePool(s)
    /\ duck'.inst = duck.inst /\ duck'.file = duck.file /\ duck'.wal = duck.wal
    /\ hist'.kept = hist.kept /\ hist'.gone = hist.gone
    /\ left'.writes = left.writes
    /\ sess[s].pc # "store" /\ n.pc # "store"
    /\ n.pc = "take" => conn[s].st # "stored"
    /\ n.clean => \/ sess[s].clean /\ (sess[s].pc # "idle" \/ sess[s].tx # "none")
                  \/ n.pc = "idle" /\ n.tx = "none"
                  \/ ~Restarting

\* One that has no part in CREATE DATABASE or DROP DATABASE.
Neat ==
    /\ cats' = cats /\ hist'.odd = hist.odd
    /\ hist'.astray => hist.astray \/ \E t \in Sessions : conn[t].cat # Default
    /\ duck'.free = duck.free /\ duck'.gen = duck.gen /\ (StorageOpen => StorageOpen')
    /\ \A t \in Sessions :
          /\ conn'[t].cat \in {conn[t].cat, Default}
          /\ sess'[t].prev \in {sess[t].prev, Default}
          /\ \/ sess[t].pc \notin CreatePCs /\ sess'[t].pc \notin CreatePCs
             \/ sess'[t].pc = sess[t].pc /\ sess'[t].arg = sess[t].arg

\* One that has no part in BACKUP.
Apart(s, n) ==
    /\ backup' = backup /\ hist'.raced = hist.raced
    /\ duck'.file = duck.file /\ duck'.wal = duck.wal
    /\ n.raced => sess[s].raced
    /\ n.op = "resume" => sess[s].op = "resume"
    /\ n.pc \notin BackupPCs

LEMMA EndedFields ==
    ASSUME TypeOK, NEW s \in Sessions
    PROVE  \E n \in Session :
              /\ Ended(s) = [sess EXCEPT ![s] = n]
              /\ n.pc = "idle" /\ n.op = "none" /\ n.arg = None /\ n.prev = Default
              /\ Carries(n, sess[s]) /\ n.db = sess[s].db
              /\ n.clean => sess[s].clean \/ sess[s].tx = "none"
<1>1. PICK m \in Session : m = sess[s]
  BY Zenon DEF TypeOK
<1>2. PICK k \in BOOLEAN : k = (m.clean \/ m.tx = "none")
  BY Zenon
<1>3. PICK n : n = [m EXCEPT !.pc = "idle", !.op = "none", !.arg = None, !.ph = "build",
                    !.prev = Default, !.clean = k]
  OBVIOUS
<1>4. n \in Session
  BY <1>3, Zenon DEF Session, PCs, Ops, Args, CatNames
<1>5. /\ n.pc = "idle" /\ n.op = "none" /\ n.arg = None /\ n.prev = Default
      /\ n.db = m.db /\ n.tx = m.tx /\ n.buf = m.buf /\ n.raced = m.raced
      /\ n.clean = k
  BY <1>3, Zenon DEF Session
<1>6. Ended(s) = [sess EXCEPT ![s] = n]
  BY <1>1, <1>2, <1>3, Zenon DEF Ended, Session, TypeOK
<1>7. n.clean => sess[s].clean \/ sess[s].tx = "none"
  BY <1>1, <1>2, <1>5, Zenon
<1> QED
  BY <1>1, <1>4, <1>5, <1>6, <1>7, Zenon DEF Carries

LEMMA GotoFields ==
    ASSUME TypeOK, NEW s \in Sessions, NEW l \in PCs
    PROVE  \E n \in Session :
              /\ Goto(s, l) = [sess EXCEPT ![s] = n]
              /\ n.pc = l /\ n.op = sess[s].op /\ n.arg = sess[s].arg /\ n.prev = sess[s].prev
              /\ Carries(n, sess[s]) /\ n.db = sess[s].db /\ n.clean = sess[s].clean
<1>1. PICK m \in Session : m = sess[s]
  BY Zenon DEF TypeOK
<1>2. PICK n : n = [m EXCEPT !.pc = l]
  BY Zenon
<1>3. n \in Session
  BY <1>2, Zenon DEF Session
<1>4. /\ n.pc = l /\ n.op = m.op /\ n.arg = m.arg /\ n.prev = m.prev
      /\ n.db = m.db /\ n.tx = m.tx /\ n.buf = m.buf /\ n.raced = m.raced
      /\ n.clean = m.clean
  BY <1>2, Zenon DEF Session
<1>5. Goto(s, l) = [sess EXCEPT ![s] = n]
  BY <1>1, <1>2, Zenon DEF Goto, Session, TypeOK
<1> QED
  BY <1>1, <1>3, <1>4, <1>5, Zenon DEF Carries

-----------------------------------------------------------------------------
(* The minor steps: lookups, locks, errors, USE, schemas, the start of a command *)

\* Nothing changes around s but the locks, the schemas and the budget.
Around(s) ==
    /\ duck' \in Instances /\ duck' = [duck EXCEPT !.dbs = duck'.dbs]
    /\ prov' \in [mu : Sessions \union {None}, readers : SUBSET Sessions]
    /\ prov'.mu # prov.mu => prov.mu \in {s, None} /\ prov'.mu \in {s, None}
    /\ left' \in [ops : Nat, writes : Nat, faults : Nat]
    /\ left'.writes = left.writes /\ left'.faults <= left.faults
    /\ UNCHANGED <<cats, pool, backup, hist>>

Minor(s, n, k) ==
    /\ Around(s)
    /\ n \in Session /\ k \in Connection
    /\ sess' = [sess EXCEPT ![s] = n] /\ conn' = [conn EXCEPT ![s] = k]
    /\ Carries(n, sess[s])
    /\ k.st = conn[s].st /\ k.gen = conn[s].gen /\ k.open = conn[s].open /\ k.cat = conn[s].cat
    /\ sess[s].pc \notin CreatePCs \union RestartPCs \union {"store"}
    /\ n.pc \notin CreatePCs \union BackupPCs \union {"store"}
    /\ n.pc \in {"attach", "detach", "remove"} => n.arg \in Catalogs
    /\ n.pc = "take" => conn[s].st # "stored"
    /\ n.prev \in {sess[s].prev, Default}
    /\ n.op = "resume" => sess[s].op = "resume"
    /\ n.clean => \/ sess[s].clean /\ (sess[s].pc # "idle" \/ sess[s].tx # "none")
                  \/ n.pc = "idle" /\ n.tx = "none"
                  \/ ~Restarting

Minors(s) == \E n \in Session, k \in Connection : Light(s, n, k) /\ Neat /\ Apart(s, n)

\* A fault, or none.
LEMMA FaultFields ==
    ASSUME TypeOK, left' = left \/ (Fault /\ left' = [left EXCEPT !.faults = @ - 1])
    PROVE  /\ left' \in [ops : Nat, writes : Nat, faults : Nat]
           /\ left'.writes = left.writes /\ left'.faults <= left.faults
<1>1. left \in [ops : Nat, writes : Nat, faults : Nat] /\ left.faults \in Nat
  BY Zenon DEF TypeOK, Shared
<1>2. CASE left' = left
  BY <1>1, <1>2
<1>3. CASE Fault /\ left' = [left EXCEPT !.faults = @ - 1]
  <2>1. left.faults - 1 \in Nat /\ left.faults - 1 <= left.faults
    BY <1>1, <1>3 DEF Fault
  <2> QED
    BY <1>1, <1>3, <2>1, Zenon
<1> QED
  BY <1>2, <1>3, Zenon

Commands(s) ==
    \/ Insert(s) \/ ComInitDB(s) \/ Use(s) \/ CreateIndex(s) \/ StartTransaction(s)
    \/ CreateDB(s) \/ DropDB(s) \/ CreateDatabase(s) \/ DropDatabase(s) \/ Backup(s)

\* GetConnForSchema changes only the schema.
LEMMA SchemaFields ==
    ASSUME TypeOK, NEW s \in Sessions, NEW d \in Args
    PROVE  /\ GetConnForSchema(s, d) \in Connection
           /\ GetConnForSchema(s, d).st = conn[s].st /\ GetConnForSchema(s, d).gen = conn[s].gen
           /\ GetConnForSchema(s, d).open = conn[s].open /\ GetConnForSchema(s, d).cat = conn[s].cat
           /\ d = None \/ GetConnForSchema(s, d).schema = d
<1>1. PICK c \in Connection : c = conn[s]
  BY Zenon DEF TypeOK
<1>2. PICK k : k = [c EXCEPT !.schema = d]
  BY Zenon
<1>3. /\ k \in Connection /\ k.st = c.st /\ k.gen = c.gen /\ k.open = c.open /\ k.cat = c.cat
      /\ k.schema = d
  BY <1>2, Zenon DEF Connection
<1>4. (GetConnForSchema(s, d) = c /\ (d = None \/ c.schema = d)) \/ GetConnForSchema(s, d) = k
  BY <1>1, <1>2, Zenon DEF GetConnForSchema
<1> QED
  BY <1>1, <1>3, <1>4, Zenon

LEMMA WantedIsArg == ASSUME TypeOK, NEW s \in Sessions PROVE Wanted(s) \in Args /\ sess[s].db \in Args
BY Zenon DEF TypeOK, Session, Args, Wanted

\* The steps that touch neither the instances nor the catalogs nor the rows.
MinorStep(s) ==
    \/ Load(s) \/ Resolve(s) \/ hasDatabase(s) \/ Lock(s) \/ Commands(s) \/ RunUse(s) \/ RunDDL(s)
    \/ RunFails(s)
    \/ Take(s) /\ pool.db \in duck.closed

LEMMA MinorSteps == \A s \in Sessions : TypeOK /\ MinorStep(s) => Minors(s)
<1>CommandFields.
    ASSUME TypeOK, NEW s \in Sessions, NEW o \in Ops, NEW a \in Args, NEW l \in PCs,
           Command(s, o, a, l)
    PROVE  \E n \in Session :
              /\ sess' = [sess EXCEPT ![s] = n]
              /\ n.pc = l /\ n.op = o /\ n.arg = a /\ n.prev = sess[s].prev
              /\ Carries(n, sess[s]) /\ n.db = sess[s].db
              /\ n.clean => IF sess[s].tx = "none" THEN ~Restarting ELSE sess[s].clean
  <2> USE <1>CommandFields
  <2>1. PICK m \in Session : m = sess[s]
    BY Zenon DEF TypeOK
  <2>2. PICK k \in BOOLEAN : k = IF m.tx = "none" THEN ~Restarting ELSE m.clean
    BY Zenon DEF Session
  <2>3. PICK h \in {"build", "resolve"} : h = IF l = "resolve" THEN "resolve" ELSE "build"
    OBVIOUS
  <2>4. PICK n : n = [m EXCEPT !.pc = l, !.op = o, !.arg = a, !.ph = h, !.clean = k]
    OBVIOUS
  <2>5. n \in Session
    BY <2>4, Zenon DEF Session
  <2>6. /\ n.pc = l /\ n.op = o /\ n.arg = a /\ n.prev = m.prev
        /\ n.db = m.db /\ n.tx = m.tx /\ n.buf = m.buf /\ n.raced = m.raced
        /\ n.clean = k
    BY <2>4, Zenon DEF Session
  <2>7. sess' = [sess EXCEPT ![s] = n]
    BY <2>1, <2>2, <2>3, <2>4, Zenon DEF Command, Session, TypeOK
  <2> QED
    BY <2>1, <2>2, <2>5, <2>6, <2>7, Zenon DEF Carries

<1>MinorIsLight.
    ASSUME TypeOK, NEW s \in Sessions, NEW n, NEW k, Minor(s, n, k)
    PROVE  Minors(s)
  <2> USE <1>MinorIsLight
  <2>1. /\ duck'.gen = duck.gen /\ duck'.closed = duck.closed /\ duck'.readonly = duck.readonly
        /\ duck'.free = duck.free /\ duck'.inst = duck.inst /\ duck'.file = duck.file
        /\ duck'.wal = duck.wal
    BY Zenon DEF Minor, Around, TypeOK, Shared, Instances
  <2>2. Shared'
    BY Zenon DEF Minor, Around, TypeOK, Shared
  <2>3. Ordinary(s, n, k)
    BY <2>1, <2>2, Zenon DEF Minor, Around, Ordinary, RestartPCs, BackupPCs, CreatePCs
  <2>4. Light(s, n, k)
    BY <2>1, <2>3, Zenon DEF Minor, Around, Light, SamePool, CreatePCs
  <2>5. Neat
    <3>1. cats' = cats /\ hist' = hist
      BY Zenon DEF Minor, Around
    <3>2. StorageOpen => StorageOpen'
      BY <2>1, Zenon DEF StorageOpen
    <3>3. ASSUME NEW t \in Sessions
          PROVE  /\ conn'[t].cat \in {conn[t].cat, Default}
                 /\ sess'[t].prev \in {sess[t].prev, Default}
                 /\ \/ sess[t].pc \notin CreatePCs /\ sess'[t].pc \notin CreatePCs
                    \/ sess'[t].pc = sess[t].pc /\ sess'[t].arg = sess[t].arg
      BY Zenon DEF Minor, TypeOK
    <3> QED
      BY <2>1, <3>1, <3>2, <3>3, Zenon DEF Neat
  <2>6. Apart(s, n)
    BY <2>1, Zenon DEF Minor, Around, Apart, Carries
  <2> QED
    BY <2>4, <2>5, <2>6, Zenon DEF Minor, Minors

<1>EndMinor.
    ASSUME TypeOK, NEW s \in Sessions, Around(s), sess' = Ended(s), conn' = conn,
           sess[s].pc \notin CreatePCs \union RestartPCs \union {"store", "idle"}
    PROVE  Minors(s)
  <2> USE <1>EndMinor
  <2>1. PICK n \in Session :
                /\ Ended(s) = [sess EXCEPT ![s] = n]
                /\ n.pc = "idle" /\ n.op = "none" /\ n.arg = None /\ n.prev = Default
                /\ Carries(n, sess[s]) /\ n.db = sess[s].db
                /\ n.clean => sess[s].clean \/ sess[s].tx = "none"
    BY EndedFields, Zenon
  <2>2. PICK k \in Connection : k = conn[s] /\ conn' = [conn EXCEPT ![s] = k]
    BY Zenon DEF TypeOK
  <2>3. Minor(s, n, k)
    BY <2>1, <2>2, Zenon DEF Minor, Carries, CreatePCs, BackupPCs, RestartPCs
  <2> QED
    BY <2>3, <1>MinorIsLight, Zenon

<1>GotoMinor.
    ASSUME TypeOK, NEW s \in Sessions, Around(s), conn' = conn,
           NEW l \in {"load", "take", "lookup", "run", "lock"}, sess' = Goto(s, l),
           l = "take" => conn[s].st # "stored",
           sess[s].pc \notin CreatePCs \union RestartPCs \union {"store", "idle"}
    PROVE  Minors(s)
  <2> USE <1>GotoMinor
  <2>0. l \in PCs /\ l \notin CreatePCs \union BackupPCs \union {"store", "attach", "detach", "remove"}
    BY Zenon DEF PCs, CreatePCs, BackupPCs, RestartPCs
  <2>1. PICK n \in Session :
                /\ Goto(s, l) = [sess EXCEPT ![s] = n]
                /\ n.pc = l /\ n.op = sess[s].op /\ n.arg = sess[s].arg /\ n.prev = sess[s].prev
                /\ Carries(n, sess[s]) /\ n.db = sess[s].db /\ n.clean = sess[s].clean
    BY <2>0, GotoFields, Zenon
  <2>2. PICK k \in Connection : k = conn[s] /\ conn' = [conn EXCEPT ![s] = k]
    BY Zenon DEF TypeOK
  <2>3. Minor(s, n, k)
    BY <2>0, <2>1, <2>2, Zenon DEF Minor, Carries
  <2> QED
    BY <2>3, <1>MinorIsLight, Zenon

<1>SameInstances. TypeOK => duck \in Instances /\ duck = [duck EXCEPT !.dbs = duck.dbs]
  BY Zenon DEF TypeOK, Shared, Instances

<1>UnlockedFields.
    ASSUME TypeOK, NEW s \in Sessions, prov' = Unlocked(s)
    PROVE  /\ prov' \in [mu : Sessions \union {None}, readers : SUBSET Sessions]
           /\ prov'.mu # prov.mu => prov.mu \in {s, None} /\ prov'.mu \in {s, None}
  BY <1>UnlockedFields, Zenon DEF TypeOK, Shared, Unlocked

<1>LoadMinor. ASSUME TypeOK, NEW s \in Sessions, Load(s) PROVE Minors(s)
  <2> USE <1>LoadMinor
  <2>1. PICK l \in {"load", "take", "lookup", "run", "lock"} :
           sess' = Goto(s, l) /\ (l = "take" => conn[s].st # "stored")
    BY Zenon DEF Load
  <2>2. Around(s)
    BY <1>SameInstances DEF Load, Around, TypeOK, Shared
  <2>3. conn' = conn /\ sess[s].pc \notin CreatePCs \union RestartPCs \union {"store", "idle"}
    BY Zenon DEF Load, CreatePCs, RestartPCs
  <2> QED
    BY <2>1, <2>2, <2>3, <1>GotoMinor, Zenon

<1>TakeFailsMinor.
    ASSUME TypeOK, NEW s \in Sessions, Take(s), pool.db \in duck.closed PROVE Minors(s)
  <2> USE <1>TakeFailsMinor
  <2>1. sess' = Ended(s) /\ conn' = conn
    BY Zenon DEF Take
  <2>2. Around(s)
    BY <1>SameInstances, <1>UnlockedFields DEF Take, Around, TypeOK, Shared
  <2>3. sess[s].pc \notin CreatePCs \union RestartPCs \union {"store", "idle"}
    BY Zenon DEF Take, CreatePCs, RestartPCs
  <2> QED
    BY <2>1, <2>2, <2>3, <1>EndMinor, Zenon

<1>RunFailsMinor. ASSUME TypeOK, NEW s \in Sessions, RunFails(s) PROVE Minors(s)
  <2> USE <1>RunFailsMinor
  <2>1. sess' = Ended(s) /\ conn' = conn
    BY Zenon DEF RunFails
  <2>2. Around(s)
    BY <1>SameInstances, <1>UnlockedFields DEF RunFails, Around, TypeOK, Shared
  <2>3. sess[s].pc \notin CreatePCs \union RestartPCs \union {"store", "idle"}
    BY Zenon DEF RunFails, CreatePCs, RestartPCs
  <2> QED
    BY <2>1, <2>2, <2>3, <1>EndMinor, Zenon

<1>ResolveMinor. ASSUME TypeOK, NEW s \in Sessions, Resolve(s) PROVE Minors(s)
  <2> USE <1>ResolveMinor
  <2>1. sess' = Goto(s, "load") /\ conn' = conn
    BY Zenon DEF Resolve
  <2>2. Around(s)
    BY <1>SameInstances DEF Resolve, Around, TypeOK, Shared
  <2>3. sess[s].pc \notin CreatePCs \union RestartPCs \union {"store", "idle"}
    BY Zenon DEF Resolve, CreatePCs, RestartPCs
  <2> QED
    BY <2>1, <2>2, <2>3, <1>GotoMinor, Zenon

<1>LockMinor. ASSUME TypeOK, NEW s \in Sessions, Lock(s) PROVE Minors(s)
  <2> USE <1>LockMinor
  <2>1. sess' = Goto(s, "load") /\ conn' = conn
    BY Zenon DEF Lock
  <2>2. Around(s)
    BY <1>SameInstances DEF Lock, Around, TypeOK, Shared
  <2>3. sess[s].pc \notin CreatePCs \union RestartPCs \union {"store", "idle"}
    BY Zenon DEF Lock, CreatePCs, RestartPCs
  <2> QED
    BY <2>1, <2>2, <2>3, <1>GotoMinor

<1>hasDatabaseMinor. ASSUME TypeOK, NEW s \in Sessions, hasDatabase(s) PROVE Minors(s)
  <2> USE <1>hasDatabaseMinor
  <2>1. Around(s)
    <3>1. left' = left \/ (Fault /\ left' = [left EXCEPT !.faults = @ - 1])
      BY Zenon DEF hasDatabase
    <3> QED
      BY <3>1, <1>SameInstances, <1>UnlockedFields, FaultFields, Zenon DEF hasDatabase, Around
  <2>2. conn' = conn /\ sess[s].pc \notin CreatePCs \union RestartPCs \union {"store", "idle"}
    BY Zenon DEF hasDatabase, CreatePCs, RestartPCs
  <2>3. CASE sess' = Ended(s)
    BY <2>1, <2>2, <2>3, <1>EndMinor, Zenon
  <2>4. CASE \E l \in {"lock", "load"} : sess' = [sess EXCEPT ![s].ph = "build", ![s].pc = l]
    <3>1. PICK l \in {"lock", "load"} : sess' = [sess EXCEPT ![s].ph = "build", ![s].pc = l]
      BY <2>4, Zenon
    <3>2. PICK m \in Session : m = sess[s]
      BY Zenon DEF TypeOK
    <3>3. PICK n : n = [m EXCEPT !.ph = "build", !.pc = l]
      OBVIOUS
    <3>4. n \in Session
      BY <3>3, Zenon DEF Session, PCs
    <3>5. /\ n.pc = l /\ n.op = m.op /\ n.arg = m.arg /\ n.prev = m.prev
          /\ n.tx = m.tx /\ n.buf = m.buf /\ n.raced = m.raced /\ n.clean = m.clean
      BY <3>3, Zenon DEF Session
    <3>6. sess' = [sess EXCEPT ![s] = n]
      BY <3>1, <3>2, <3>3, Zenon DEF Session, TypeOK
    <3>7. PICK k \in Connection : k = conn[s] /\ conn' = [conn EXCEPT ![s] = k]
      BY <2>2, Zenon DEF TypeOK
    <3>8. l \notin CreatePCs \union BackupPCs \union {"store", "attach", "detach", "remove", "take"}
      BY Zenon DEF CreatePCs, BackupPCs, RestartPCs
    <3>9. Minor(s, n, k)
      BY <2>1, <2>2, <3>2, <3>4, <3>5, <3>6, <3>7, <3>8, Zenon DEF Minor, Carries
    <3> QED
      BY <3>9, <1>MinorIsLight, Zenon
  <2> QED
    BY <2>3, <2>4, Zenon DEF hasDatabase

<1>CommandMinor.
    ASSUME TypeOK, NEW s \in Sessions, NEW o \in Ops \ {"resume"}, NEW a \in Args,
           NEW l \in {"load", "resolve", "attach", "detach"},
           l \in {"attach", "detach"} => a \in Catalogs, Command(s, o, a, l)
    PROVE  Minors(s)
  <2> USE <1>CommandMinor
  <2>0. l \in PCs /\ l \notin CreatePCs \union BackupPCs \union {"store", "remove", "take"}
    BY Zenon DEF PCs, CreatePCs, BackupPCs, RestartPCs
  <2>1. PICK n \in Session :
                /\ sess' = [sess EXCEPT ![s] = n]
                /\ n.pc = l /\ n.op = o /\ n.arg = a /\ n.prev = sess[s].prev
                /\ Carries(n, sess[s]) /\ n.db = sess[s].db
                /\ n.clean => IF sess[s].tx = "none" THEN ~Restarting ELSE sess[s].clean
    BY <2>0, <1>CommandFields
  <2>2. PICK k \in Connection : k = conn[s] /\ conn' = [conn EXCEPT ![s] = k]
    BY Zenon DEF Command, TypeOK
  <2>3. sess[s].pc \notin CreatePCs \union RestartPCs \union {"store"}
    BY Zenon DEF Command, CreatePCs, RestartPCs
  <2>4. Around(s)
    <3>1. /\ left' \in [ops : Nat, writes : Nat, faults : Nat]
          /\ left'.writes = left.writes /\ left'.faults <= left.faults
      <4>1. left \in [ops : Nat, writes : Nat, faults : Nat] /\ left.ops > 0
        BY Zenon DEF TypeOK, Shared, Command
      <4>2. left.ops - 1 \in Nat /\ left.faults <= left.faults
        BY <4>1
      <4> QED
        BY <4>1, <4>2, Zenon DEF Command
    <3> QED
      BY <3>1, <1>SameInstances, Zenon DEF Command, Around, TypeOK, Shared
  <2>5. Minor(s, n, k)
    BY <2>0, <2>1, <2>2, <2>3, <2>4, Zenon DEF Minor, Carries
  <2> QED
    BY <2>5, <1>MinorIsLight, Zenon

<1>CommandsMinor. ASSUME TypeOK, NEW s \in Sessions, Commands(s) PROVE Minors(s)
  <2> USE <1>CommandsMinor
  <2>1. ASSUME NEW o \in {"init", "use", "index", "dml", "begin", "createdb", "dropdb", "backup"},
               NEW a \in Schemas \union {None}, NEW l \in {"load", "resolve"}, Command(s, o, a, l)
        PROVE  Minors(s)
    <3>1. o \in Ops \ {"resume"} /\ a \in Args
      BY Zenon DEF Ops, Args
    <3> QED
      BY <2>1, <3>1, <1>CommandMinor, Zenon
  <2>2. ASSUME NEW o \in {"create", "create_if", "drop"}, NEW a \in Catalogs,
               NEW l \in {"attach", "detach"}, Command(s, o, a, l)
        PROVE  Minors(s)
    <3>1. o \in Ops \ {"resume"} /\ a \in Args
      BY Zenon DEF Ops, Args
    <3> QED
      BY <2>2, <3>1, <1>CommandMinor, Zenon
  <2>4. CASE Insert(s)
    BY <2>1, <2>4, Zenon DEF Insert
  <2>5. CASE ComInitDB(s) \/ Use(s) \/ CreateIndex(s) \/ CreateDB(s) \/ DropDB(s)
    BY <2>1, <2>5, Zenon DEF ComInitDB, Use, CreateIndex, CreateDB, DropDB
  <2>6. CASE StartTransaction(s) \/ Backup(s)
    BY <2>1, <2>6, Zenon DEF StartTransaction, Backup
  <2>7. CASE CreateDatabase(s) \/ DropDatabase(s)
    BY <2>2, <2>7, Zenon DEF CreateDatabase, DropDatabase
  <2> QED
    BY <2>4, <2>5, <2>6, <2>7, Zenon DEF Commands

\* The session's record when a command ends and its current database changes.
<1>EndedInFields.
    ASSUME TypeOK, NEW s \in Sessions, NEW d \in Args
    PROVE  \E n \in Session :
              /\ [Ended(s) EXCEPT ![s].db = d] = [sess EXCEPT ![s] = n]
              /\ n.pc = "idle" /\ n.op = "none" /\ n.arg = None /\ n.prev = Default
              /\ Carries(n, sess[s])
              /\ n.clean => sess[s].clean \/ sess[s].tx = "none"
  <2> USE <1>EndedInFields
  <2>1. PICK m \in Session :
                /\ Ended(s) = [sess EXCEPT ![s] = m]
                /\ m.pc = "idle" /\ m.op = "none" /\ m.arg = None /\ m.prev = Default
                /\ Carries(m, sess[s]) /\ m.db = sess[s].db
                /\ m.clean => sess[s].clean \/ sess[s].tx = "none"
    BY EndedFields, Zenon
  <2>2. PICK n : n = [m EXCEPT !.db = d]
    BY Zenon
  <2>3. /\ n \in Session
        /\ n.pc = m.pc /\ n.op = m.op /\ n.arg = m.arg /\ n.prev = m.prev
        /\ n.tx = m.tx /\ n.buf = m.buf /\ n.raced = m.raced /\ n.clean = m.clean
    BY <2>2, Zenon DEF Session
  <2>4. [Ended(s) EXCEPT ![s].db = d] = [sess EXCEPT ![s] = n]
    BY <2>1, <2>2, Zenon DEF TypeOK
  <2> QED
    BY <2>1, <2>3, <2>4, Zenon DEF Carries

<1>EndInMinor.
    ASSUME TypeOK, NEW s \in Sessions, Around(s), NEW d \in Args, NEW k \in Connection,
           sess' = [Ended(s) EXCEPT ![s].db = d], conn' = [conn EXCEPT ![s] = k],
           k.st = conn[s].st, k.gen = conn[s].gen, k.open = conn[s].open, k.cat = conn[s].cat,
           sess[s].pc = "run"
    PROVE  Minors(s)
  <2> USE <1>EndInMinor
  <2>1. PICK n \in Session :
                /\ sess' = [sess EXCEPT ![s] = n]
                /\ n.pc = "idle" /\ n.op = "none" /\ n.arg = None /\ n.prev = Default
                /\ Carries(n, sess[s])
                /\ n.clean => sess[s].clean \/ sess[s].tx = "none"
    BY <1>EndedInFields, Zenon
  <2>2. Minor(s, n, k)
    BY <2>1, Zenon DEF Minor, Carries, CreatePCs, BackupPCs, RestartPCs
  <2> QED
    BY <2>2, <1>MinorIsLight, Zenon

<1>EndedDb.
    ASSUME TypeOK, NEW s \in Sessions
    PROVE  Ended(s)[s].db = sess[s].db /\ Ended(s) = [Ended(s) EXCEPT ![s].db = sess[s].db]
  <2> USE <1>EndedDb
  <2>1. PICK n \in Session : Ended(s) = [sess EXCEPT ![s] = n] /\ n.db = sess[s].db
    BY EndedFields, Zenon
  <2>2. n = [n EXCEPT !.db = n.db]
    BY Zenon DEF Session
  <2>3. Ended(s)[s] = n
    BY <2>1, Zenon DEF TypeOK
  <2>4. [Ended(s) EXCEPT ![s].db = sess[s].db] = [Ended(s) EXCEPT ![s] = [n EXCEPT !.db = n.db]]
    BY <2>1, <2>3, Zenon
  <2>5. [Ended(s) EXCEPT ![s] = n] = Ended(s)
    BY <2>1, <2>3, Zenon DEF TypeOK
  <2> QED
    BY <2>1, <2>2, <2>3, <2>4, <2>5, Zenon

<1>RunUseMinor. ASSUME TypeOK, NEW s \in Sessions, RunUse(s) PROVE Minors(s)
  <2> USE <1>RunUseMinor
  <2>1. Around(s)
    BY <1>SameInstances DEF RunUse, Around, TypeOK, Shared
  <2>2. sess[s].pc = "run"
    BY Zenon DEF RunUse, Build
  <2>3. sess[s].arg \in Args /\ sess[s].db \in Args
    BY Zenon DEF TypeOK, Session
  <2>4. CASE sess[s].arg \in duck.dbs
    <3>1. PICK d \in Args : d = IF sess[s].op = "index" THEN sess[s].db ELSE sess[s].arg
      BY <2>3, Zenon
    <3>2. sess' = [Ended(s) EXCEPT ![s].db = d]
      BY <2>4, <3>1, <1>EndedDb, Zenon DEF RunUse
    <3>3. PICK c \in Connection : c = conn[s]
      BY Zenon DEF TypeOK
    <3>4. PICK k : k = [c EXCEPT !.schema = sess[s].arg]
      BY Zenon
    <3>5. k \in Connection /\ k.st = c.st /\ k.gen = c.gen /\ k.open = c.open /\ k.cat = c.cat
      BY <2>3, <3>4, Zenon DEF Connection
    <3>6. conn' = [conn EXCEPT ![s] = k]
      BY <2>4, <3>3, <3>4, Zenon DEF RunUse, TypeOK
    <3> QED
      BY <2>1, <2>2, <3>2, <3>3, <3>5, <3>6, <1>EndInMinor, Zenon
  <2>5. CASE sess[s].arg \notin duck.dbs
    <3>1. sess' = [Ended(s) EXCEPT ![s].db = sess[s].db]
      BY <2>5, <1>EndedDb, Zenon DEF RunUse
    <3>2. conn' = [conn EXCEPT ![s] = GetConnForSchema(s, Wanted(s))]
      BY <2>5, Zenon DEF RunUse
    <3> QED
      BY <2>1, <2>2, <2>3, <3>1, <3>2, SchemaFields, WantedIsArg, <1>EndInMinor, Zenon
  <2> QED
    BY <2>4, <2>5, Zenon

<1>RunDDLMinor. ASSUME TypeOK, NEW s \in Sessions, RunDDL(s) PROVE Minors(s)
  <2> USE <1>RunDDLMinor
  <2>1. duck' \in Instances /\ duck' = [duck EXCEPT !.dbs = duck'.dbs]
    <3>1. PICK b : b = IF sess[s].op = "createdb" THEN duck.dbs \union {sess[s].arg}
                                                  ELSE duck.dbs \ {sess[s].arg}
      BY Zenon
    <3>2. duck \in Instances /\ sess[s].arg \in Args
      BY Zenon DEF TypeOK, Shared, Session
    <3>3. b \in SUBSET Args
      BY <3>1, <3>2, Zenon DEF Instances
    <3>4. duck' = [duck EXCEPT !.dbs = b]
      BY <3>1, Zenon DEF RunDDL
    <3> QED
      BY <3>2, <3>3, <3>4, Zenon DEF Instances
  <2>2. Around(s)
    BY <2>1, <1>UnlockedFields DEF RunDDL, Around, TypeOK, Shared
  <2>3. sess[s].pc = "run"
    BY Zenon DEF RunDDL, Build
  <2>4. PICK d \in Args : d = IF sess[s].op = "dropdb" /\ sess[s].db = sess[s].arg
                              THEN None ELSE sess[s].db
    BY WantedIsArg, Zenon DEF Args
  <2>5. sess' = [Ended(s) EXCEPT ![s].db = d]
    BY <2>4, <1>EndedDb, Zenon DEF RunDDL
  <2>6. conn' = [conn EXCEPT ![s] = GetConnForSchema(s, Wanted(s))]
    BY Zenon DEF RunDDL
  <2> QED
    BY <2>2, <2>3, <2>4, <2>5, <2>6, SchemaFields, WantedIsArg, <1>EndInMinor, Zenon
<1> QED
  BY <1>LoadMinor, <1>ResolveMinor, <1>hasDatabaseMinor, <1>LockMinor, <1>CommandsMinor,
     <1>RunUseMinor, <1>RunDDLMinor, <1>RunFailsMinor, <1>TakeFailsMinor, Zenon DEF MinorStep

-----------------------------------------------------------------------------
(* The steps of CREATE DATABASE and DROP DATABASE *)

CatPCs == {"attach", "detach", "remove"} \union CreatePCs

\* Nothing changes around the catalogs but the idle connections and the budget.
CatAround ==
    /\ Shared' /\ UNCHANGED <<prov, pool, conn, backup>>
    /\ duck'.gen = duck.gen /\ duck'.closed = duck.closed /\ duck'.readonly = duck.readonly
    /\ duck'.inst = duck.inst /\ duck'.file = duck.file /\ duck'.wal = duck.wal
    /\ hist'.kept = hist.kept /\ hist'.gone = hist.gone /\ hist'.raced = hist.raced
    /\ left'.writes = left.writes /\ left'.faults <= left.faults

Lights(s) == \E n \in Session, k \in Connection : Light(s, n, k) /\ Apart(s, n)

\* The history may only become odd.
LEMMA OddFields ==
    ASSUME TypeOK, NEW b \in BOOLEAN, hist' = [hist EXCEPT !.odd = @ \/ b]
    PROVE  /\ hist' \in [kept : SUBSET Nat, gone : SUBSET Nat, astray : BOOLEAN, odd : BOOLEAN,
                         raced : BOOLEAN]
           /\ hist'.kept = hist.kept /\ hist'.gone = hist.gone /\ hist'.raced = hist.raced
           /\ hist'.astray = hist.astray /\ hist'.odd = (hist.odd \/ b)
<1>1. PICK o \in BOOLEAN : o = (hist.odd \/ b)
  BY Zenon
<1>2. hist' = [hist EXCEPT !.odd = o]
  BY <1>1, Zenon
<1> QED
  BY <1>1, <1>2, Zenon DEF TypeOK, Shared

LEMMA TopFields ==
    ASSUME TypeOK
    PROVE  /\ Top \in CatNames
           /\ \A c \in CatNames : WithTop(c) \in Seq(CatNames)
<1>1. duck.free \in Seq(CatNames) /\ Default \in CatNames
  BY Zenon DEF TypeOK, Shared, Instances, CatNames
<1>2. CASE duck.free = <<>>
  BY <1>1, <1>2 DEF Top, WithTop
<1>3. CASE duck.free # <<>>
  <2>1. Len(duck.free) \in 1..Len(duck.free)
    BY <1>1, <1>3
  <2> QED
    BY <1>1, <1>3, <2>1 DEF Top, WithTop
<1> QED
  BY <1>2, <1>3, Zenon

LEMMA FreeFields ==
    ASSUME TypeOK, NEW f \in Seq(CatNames), duck' = [duck EXCEPT !.free = f]
    PROVE  /\ duck' \in Instances /\ duck'.free = f
           /\ duck'.gen = duck.gen /\ duck'.closed = duck.closed /\ duck'.readonly = duck.readonly
           /\ duck'.inst = duck.inst /\ duck'.file = duck.file /\ duck'.wal = duck.wal
BY Zenon DEF TypeOK, Shared, Instances

LEMMA SwitchFields ==
    ASSUME TypeOK, NEW s \in Sessions, NEW c \in CatNames
    PROVE  \E n \in Session :
              /\ [Goto(s, "init") EXCEPT ![s].prev = c] = [sess EXCEPT ![s] = n]
              /\ n.pc = "init" /\ n.op = sess[s].op /\ n.arg = sess[s].arg /\ n.prev = c
              /\ Carries(n, sess[s]) /\ n.clean = sess[s].clean
<1>1. PICK m \in Session :
              /\ Goto(s, "init") = [sess EXCEPT ![s] = m]
              /\ m.pc = "init" /\ m.op = sess[s].op /\ m.arg = sess[s].arg
              /\ Carries(m, sess[s]) /\ m.clean = sess[s].clean
  <2>1. "init" \in PCs
    BY Zenon DEF PCs, CreatePCs
  <2> QED
    BY <2>1, GotoFields
<1>2. PICK n : n = [m EXCEPT !.prev = c]
  BY Zenon
<1>3. /\ n \in Session
      /\ n.pc = m.pc /\ n.op = m.op /\ n.arg = m.arg /\ n.prev = c
      /\ n.tx = m.tx /\ n.buf = m.buf /\ n.raced = m.raced /\ n.clean = m.clean
  BY <1>2, Zenon DEF Session
<1>4. [Goto(s, "init") EXCEPT ![s].prev = c] = [sess EXCEPT ![s] = n]
  BY <1>1, <1>2, Zenon DEF TypeOK
<1> QED
  BY <1>1, <1>3, <1>4 DEF Carries

LEMMA InitsGrow ==
    ASSUME NEW i \in {<<>>, <<"tables">>, <<"tables", "views">>}, i # Internals
    PROVE  /\ Append(i, Internals[Len(i) + 1]) \in {<<>>, <<"tables">>, <<"tables", "views">>}
           /\ Append(i, Internals[Len(i) + 1]) = Internals <=> Len(i) + 1 = Len(Internals)
<1>1. CASE i = <<>>
  <2>1. Internals[Len(i) + 1] = "tables" /\ Append(i, "tables") = <<"tables">>
    BY <1>1 DEF Internals
  <2>2. Len(i) + 1 = 1 /\ Len(Internals) = 2 /\ <<"tables">> # Internals
    BY <1>1 DEF Internals
  <2> QED
    BY <2>1, <2>2
<1>2. CASE i = <<"tables">>
  <2>a. Append(<<"tables">>, "views") = <<"tables", "views">>
    <3>1. PICK a : a = Append(<<"tables">>, "views")
      BY Zenon
    <3>2. PICK b : b = <<"tables", "views">>
      BY Zenon
    <3>3. a \in Seq({"tables", "views"}) /\ b \in Seq({"tables", "views"})
      BY <3>1, <3>2
    <3>4. Len(a) = 2 /\ a[1] = "tables" /\ a[2] = "views"
      BY <3>1
    <3>5. Len(b) = 2 /\ b[1] = "tables" /\ b[2] = "views"
      BY <3>2, Zenon
    <3>6. \A j \in 1..2 : a[j] = b[j]
      BY <3>4, <3>5
    <3> QED
      BY <3>1, <3>2, <3>3, <3>4, <3>5, <3>6, SameSequence, Zenon
  <2>b. Len(i) = 1
    BY <1>2, Zenon
  <2>c. Internals[2] = "views"
    BY Zenon DEF Internals
  <2>1. Internals[Len(i) + 1] = "views" /\ Append(i, "views") = <<"tables", "views">>
    BY <1>2, <2>a, <2>b, <2>c
  <2>2. Len(i) + 1 = 2 /\ Len(Internals) = 2
    BY <1>2 DEF Internals
  <2> QED
    BY <2>1, <2>2, Zenon DEF Internals
<1> QED
  BY <1>1, <1>2, Zenon DEF Internals

LEMMA InitsFields ==
    ASSUME TypeOK, NEW c \in Catalogs, cats[c].inits # Internals
    PROVE  /\ [cats EXCEPT ![c].inits = Append(@, Internals[Len(@) + 1])] \in [Catalogs -> Catalog]
           /\ \E k \in Catalog :
                 /\ [cats EXCEPT ![c].inits = Append(@, Internals[Len(@) + 1])] = [cats EXCEPT ![c] = k]
                 /\ k.file = cats[c].file /\ k.attached = cats[c].attached
                 /\ k.inits = Internals <=> Len(cats[c].inits) + 1 = Len(Internals)
<1>1. PICK m \in Catalog : m = cats[c]
  BY Zenon DEF TypeOK, Shared
<1>2. PICK i \in {<<>>, <<"tables">>, <<"tables", "views">>} : i = Append(m.inits, Internals[Len(m.inits) + 1])
  BY <1>1, InitsGrow, Zenon DEF Catalog
<1>3. i = Internals <=> Len(m.inits) + 1 = Len(Internals)
  BY <1>1, <1>2, InitsGrow, Zenon DEF Catalog
<1>4. PICK k : k = [m EXCEPT !.inits = i]
  BY Zenon
<1>5. k \in Catalog /\ k.file = m.file /\ k.attached = m.attached /\ k.inits = i
  BY <1>4, Zenon DEF Catalog
<1>6. [cats EXCEPT ![c].inits = Append(@, Internals[Len(@) + 1])] = [cats EXCEPT ![c] = k]
  BY <1>1, <1>2, <1>4, Zenon
<1> QED
  BY <1>1, <1>3, <1>5, <1>6, Zenon DEF TypeOK, Shared

\* What a restore leaves of a catalog.
LEMMA RestoreFields ==
    ASSUME TypeOK, NEW s \in Sessions, executeRestore(s)
    PROVE  \E c \in Catalogs, k \in Catalog :
              /\ cats' = [cats EXCEPT ![c] = k]
              /\ k.file \in {"db", "bad"}
              /\ k.file = "db" => k.inits = Internals
              /\ k.file # "db" => k.inits = <<>>
              /\ k.attached => k.file = "db" \/ cats[c].attached
              /\ cats[c].attached => k.attached
              /\ hist' = [hist EXCEPT !.odd = @ \/ cats[c].attached]
<1>1. PICK c \in Catalogs :
          /\ hist' = [hist EXCEPT !.odd = @ \/ cats[c].attached]
          /\ \/ cats' = [cats EXCEPT ![c] = IF StorageOpen THEN AttachCatalog(DownloadFile(c, TRUE))
                                                            ELSE DownloadFile(c, TRUE)]
             \/ cats' = [cats EXCEPT ![c] = DownloadFile(c, FALSE)]
  BY Zenon DEF executeRestore
<1>2. PICK m \in Catalog : m = cats[c]
  BY Zenon DEF TypeOK, Shared
<1>3. PICK w : w = [m EXCEPT !.file = "db", !.inits = Internals]
  OBVIOUS
<1>4. w \in Catalog /\ w.file = "db" /\ w.inits = Internals /\ w.attached = m.attached
  BY <1>3, Zenon DEF Catalog, Internals
<1>5. PICK b : b = [m EXCEPT !.file = "bad", !.inits = <<>>]
  OBVIOUS
<1>6. b \in Catalog /\ b.file = "bad" /\ b.inits = <<>> /\ b.attached = m.attached
  BY <1>5, Zenon DEF Catalog
<1>7. PICK a : a = [w EXCEPT !.attached = TRUE]
  BY Zenon
<1>8. a \in Catalog /\ a.file = "db" /\ a.inits = Internals /\ a.attached = TRUE
  BY <1>4, <1>7, Zenon DEF Catalog
<1>9. DownloadFile(c, TRUE) = w /\ DownloadFile(c, FALSE) = b
  BY <1>2, <1>3, <1>5, Zenon DEF DownloadFile
<1>10. AttachCatalog(w) = a
  BY <1>4, <1>7, Zenon DEF AttachCatalog
<1>11. cats' = [cats EXCEPT ![c] = a] \/ cats' = [cats EXCEPT ![c] = w] \/ cats' = [cats EXCEPT ![c] = b]
  BY <1>1, <1>9, <1>10, Zenon
<1>12. CASE cats' = [cats EXCEPT ![c] = a]
  BY <1>1, <1>2, <1>8, <1>12, Zenon
<1>13. CASE cats' = [cats EXCEPT ![c] = w]
  BY <1>1, <1>2, <1>4, <1>13, Zenon
<1>14. CASE cats' = [cats EXCEPT ![c] = b]
  BY <1>1, <1>2, <1>6, <1>14, Zenon
<1> QED
  BY <1>11, <1>12, <1>13, <1>14, Zenon

CatStep(s) == \/ Attach(s) \/ Switch(s) \/ initCatalog(s) \/ SwitchBack(s) \/ Detach(s) \/ Remove(s)
              \/ executeRestore(s)

LEMMA CatSteps == \A s \in Sessions : TypeOK /\ CatStep(s) => Lights(s)
<1>CatLight.
    ASSUME TypeOK, NEW s \in Sessions, CatAround, NEW n \in Session,
           sess' = [sess EXCEPT ![s] = n], sess[s].pc \in CatPCs,
           n.pc \in {"idle", "remove"} \union CreatePCs,
           n.pc # "idle" => n.arg = sess[s].arg,
           Carries(n, sess[s]), n.op \in {"none", sess[s].op},
           n.clean => (sess[s].clean \/ (n.pc = "idle" /\ sess[s].tx = "none"))
    PROVE  Lights(s)
  <2> USE <1>CatLight
  <2>1. PICK k \in Connection : k = conn[s] /\ conn' = [conn EXCEPT ![s] = k]
    BY Zenon DEF CatAround, TypeOK
  <2>2. sess[s].arg \in Catalogs
    BY Zenon DEF TypeOK, CatPCs
  <2>3. sess[s].pc \notin RestartPCs \union {"store", "idle"} /\ n.pc \notin BackupPCs \union {"store", "take"}
    BY Zenon DEF CatPCs, CreatePCs, RestartPCs, BackupPCs
  <2>4. Ordinary(s, n, k)
    BY <2>1, <2>2, <2>3, Zenon DEF Ordinary, CatAround, BackupPCs, CreatePCs
  <2>5. Light(s, n, k)
    BY <2>1, <2>3, <2>4, Zenon DEF Light, SamePool, CatAround, Carries
  <2>6. Apart(s, n)
    BY <2>3, Zenon DEF Apart, CatAround, Carries
  <2> QED
    BY <2>5, <2>6, Zenon DEF Lights

<1>CatEnds.
    ASSUME TypeOK, NEW s \in Sessions, CatAround, sess' = Ended(s), sess[s].pc \in CatPCs
    PROVE  Lights(s)
  <2> USE <1>CatEnds
  <2>1. PICK n \in Session :
                /\ Ended(s) = [sess EXCEPT ![s] = n]
                /\ n.pc = "idle" /\ n.op = "none" /\ n.arg = None /\ n.prev = Default
                /\ Carries(n, sess[s]) /\ n.db = sess[s].db
                /\ n.clean => sess[s].clean \/ sess[s].tx = "none"
    BY EndedFields, Zenon
  <2>2. sess' = [sess EXCEPT ![s] = n]
    BY <2>1, Zenon
  <2> QED
    BY <2>1, <2>2, <1>CatLight, Zenon

<1>CatGoes.
    ASSUME TypeOK, NEW s \in Sessions, CatAround, NEW l \in {"remove"} \union CreatePCs,
           sess' = Goto(s, l), sess[s].pc \in CatPCs
    PROVE  Lights(s)
  <2> USE <1>CatGoes
  <2>0. l \in PCs
    BY Zenon DEF PCs, CreatePCs
  <2>1. PICK n \in Session :
                /\ Goto(s, l) = [sess EXCEPT ![s] = n]
                /\ n.pc = l /\ n.op = sess[s].op /\ n.arg = sess[s].arg /\ n.prev = sess[s].prev
                /\ Carries(n, sess[s]) /\ n.db = sess[s].db /\ n.clean = sess[s].clean
    BY <2>0, GotoFields, Zenon
  <2>2. sess' = [sess EXCEPT ![s] = n] /\ l # "idle"
    BY <2>1, Zenon DEF CreatePCs
  <2> QED
    BY <2>0, <2>1, <2>2, <1>CatLight, Zenon

<1>CatalogUpdates.
    ASSUME TypeOK, NEW c \in Catalogs
    PROVE  /\ [cats EXCEPT ![c].attached = TRUE, ![c].file = "db"] \in [Catalogs -> Catalog]
           /\ [cats EXCEPT ![c].attached = FALSE] \in [Catalogs -> Catalog]
           /\ [cats EXCEPT ![c].file = "none", ![c].inits = <<>>] \in [Catalogs -> Catalog]
  <2> USE <1>CatalogUpdates
  <2>1. PICK k \in Catalog : k = cats[c]
    BY Zenon DEF TypeOK, Shared
  <2>2. /\ [k EXCEPT !.attached = TRUE, !.file = "db"] \in Catalog
        /\ [k EXCEPT !.attached = FALSE] \in Catalog
        /\ [k EXCEPT !.file = "none", !.inits = <<>>] \in Catalog
    BY Zenon DEF Catalog
  <2>3. /\ [cats EXCEPT ![c].attached = TRUE, ![c].file = "db"]
              = [cats EXCEPT ![c] = [k EXCEPT !.attached = TRUE, !.file = "db"]]
        /\ [cats EXCEPT ![c].attached = FALSE] = [cats EXCEPT ![c] = [k EXCEPT !.attached = FALSE]]
        /\ [cats EXCEPT ![c].file = "none", ![c].inits = <<>>]
              = [cats EXCEPT ![c] = [k EXCEPT !.file = "none", !.inits = <<>>]]
    BY <2>1, Zenon DEF TypeOK, Shared
  <2> QED
    BY <2>2, <2>3, Zenon DEF TypeOK, Shared

<1>AttachLight. ASSUME TypeOK, NEW s \in Sessions, Attach(s) PROVE Lights(s)
  <2> USE <1>AttachLight
  <2>1. sess[s].pc \in CatPCs /\ sess[s].arg \in Catalogs
    BY Zenon DEF Attach, CatPCs, TypeOK
  <2>2. cats' \in [Catalogs -> Catalog]
    <3>1. \/ cats' = cats
          \/ cats' = [cats EXCEPT ![sess[s].arg].attached = TRUE, ![sess[s].arg].file = "db"]
      BY Zenon DEF Attach
    <3>2. cats \in [Catalogs -> Catalog]
      BY Zenon DEF TypeOK, Shared
    <3>3. [cats EXCEPT ![sess[s].arg].attached = TRUE, ![sess[s].arg].file = "db"]
             \in [Catalogs -> Catalog]
      BY <2>1, <1>CatalogUpdates, Zenon
    <3> QED
      BY <3>1, <3>2, <3>3, Zenon
  <2>3. CatAround
    <3>1. CASE hist' = hist
      BY <2>2, <3>1 DEF Attach, CatAround, TypeOK, Shared
    <3>2. CASE \E b \in BOOLEAN : hist' = [hist EXCEPT !.odd = @ \/ b]
      BY <2>2, <3>2, OddFields DEF Attach, CatAround, TypeOK, Shared
    <3> QED
      BY <3>1, <3>2, Zenon DEF Attach
  <2>4. CASE sess' = Ended(s)
    BY <2>1, <2>3, <2>4, <1>CatEnds, Zenon
  <2>5. CASE sess' = Goto(s, "switch")
    BY <2>1, <2>3, <2>5, <1>CatGoes, Zenon DEF CreatePCs
  <2> QED
    BY <2>4, <2>5, Zenon DEF Attach

<1>SwitchLight. ASSUME TypeOK, NEW s \in Sessions, Switch(s) PROVE Lights(s)
  <2> USE <1>SwitchLight
  <2>1. sess[s].pc \in CatPCs /\ sess[s].arg \in CatNames
    BY Zenon DEF Switch, CatPCs, CreatePCs, TypeOK, CatNames
  <2>2. CASE sess' = Ended(s) /\ duck' = duck
    <3>1. CatAround
      BY <2>2 DEF Switch, CatAround, TypeOK, Shared
    <3> QED
      BY <2>1, <2>2, <3>1, <1>CatEnds, Zenon
  <2>3. CASE /\ duck' = [duck EXCEPT !.free = WithTop(sess[s].arg)]
             /\ sess' = [Goto(s, "init") EXCEPT ![s].prev = Top]
    <3>1. PICK f \in Seq(CatNames) : f = WithTop(sess[s].arg)
      BY <2>1, TopFields, Zenon
    <3>a. /\ duck' \in Instances
          /\ duck'.gen = duck.gen /\ duck'.closed = duck.closed /\ duck'.readonly = duck.readonly
          /\ duck'.inst = duck.inst /\ duck'.file = duck.file /\ duck'.wal = duck.wal
      BY <2>3, <3>1, FreeFields, Zenon
    <3>2. CatAround
      BY <3>a DEF Switch, CatAround, TypeOK, Shared
    <3>3. PICK n \in Session :
                /\ sess' = [sess EXCEPT ![s] = n]
                /\ n.pc = "init" /\ n.op = sess[s].op /\ n.arg = sess[s].arg /\ n.prev = Top
                /\ Carries(n, sess[s]) /\ n.clean = sess[s].clean
      <4>1. PICK c \in CatNames : c = Top
        BY TopFields, Zenon
      <4>2. PICK n \in Session :
                /\ [Goto(s, "init") EXCEPT ![s].prev = c] = [sess EXCEPT ![s] = n]
                /\ n.pc = "init" /\ n.op = sess[s].op /\ n.arg = sess[s].arg /\ n.prev = c
                /\ Carries(n, sess[s]) /\ n.clean = sess[s].clean
        BY SwitchFields, Zenon
      <4> QED
        BY <2>3, <4>1, <4>2, Zenon
    <3>4. "init" \in CreatePCs
      BY Zenon DEF CreatePCs
    <3> QED
      BY <2>1, <3>2, <3>3, <3>4, <1>CatLight, Zenon
  <2> QED
    BY <2>2, <2>3, Zenon DEF Switch

<1>initCatalogLight. ASSUME TypeOK, NEW s \in Sessions, initCatalog(s) PROVE Lights(s)
  <2> USE <1>initCatalogLight
  <2>1. sess[s].pc \in CatPCs /\ sess[s].pc = "init" /\ "init" \in CreatePCs /\ "back" \in CreatePCs
    BY Zenon DEF initCatalog, CatPCs, CreatePCs
  <2>2. cats' \in [Catalogs -> Catalog]
    <3>1. CASE cats' = cats
      BY <3>1, Zenon DEF TypeOK, Shared
    <3>2. CASE /\ Top # Default /\ cats[Top].inits # Internals
               /\ cats' = [cats EXCEPT ![Top].inits = Append(@, Internals[Len(@) + 1])]
      <4>1. PICK c \in Catalogs : c = Top
        BY <3>2, TopFields, Zenon DEF CatNames
      <4>2. [cats EXCEPT ![c].inits = Append(@, Internals[Len(@) + 1])] \in [Catalogs -> Catalog]
        BY <3>2, <4>1, InitsFields, Zenon
      <4> QED
        BY <3>2, <4>1, <4>2, Zenon
    <3> QED
      BY <3>1, <3>2, Zenon DEF initCatalog
  <2>3. /\ hist' \in [kept : SUBSET Nat, gone : SUBSET Nat, astray : BOOLEAN, odd : BOOLEAN,
                      raced : BOOLEAN]
        /\ hist'.kept = hist.kept /\ hist'.gone = hist.gone /\ hist'.raced = hist.raced
    <3>1. hist' = hist \/ hist' = [hist EXCEPT !.odd = TRUE]
      BY Zenon DEF initCatalog
    <3> QED
      BY <3>1, Zenon DEF TypeOK, Shared
  <2>4. CatAround
    <3>1. left' = left \/ (Fault /\ left' = [left EXCEPT !.faults = @ - 1])
      BY Zenon DEF initCatalog
    <3>2. /\ left' \in [ops : Nat, writes : Nat, faults : Nat]
          /\ left'.writes = left.writes /\ left'.faults <= left.faults
      BY <3>1, FaultFields, Zenon
    <3> QED
      BY <2>2, <2>3, <3>2, Zenon DEF initCatalog, CatAround, TypeOK, Shared
  <2>5. CASE sess' = Goto(s, "back")
    BY <2>1, <2>4, <2>5, <1>CatGoes, Zenon
  <2>6. CASE sess' = sess
    <3>1. PICK n \in Session : n = sess[s]
      BY Zenon DEF TypeOK
    <3>2. sess' = [sess EXCEPT ![s] = n]
      BY <2>6, <3>1, Zenon DEF TypeOK
    <3> QED
      BY <2>1, <2>4, <3>1, <3>2, <1>CatLight, Zenon DEF Carries
  <2> QED
    BY <2>5, <2>6, Zenon DEF initCatalog

<1>SwitchBackLight. ASSUME TypeOK, NEW s \in Sessions, SwitchBack(s) PROVE Lights(s)
  <2> USE <1>SwitchBackLight
  <2>1. sess[s].pc \in CatPCs
    BY Zenon DEF SwitchBack, CatPCs, CreatePCs
  <2>2. PICK f \in Seq(CatNames) : f = WithTop(sess[s].prev)
    BY TopFields, Zenon DEF TypeOK, Session
  <2>3. CASE duck' = duck
    <3>1. CatAround
      BY <2>3 DEF SwitchBack, CatAround, TypeOK, Shared
    <3> QED
      BY <2>1, <3>1, <1>CatEnds, Zenon DEF SwitchBack
  <2>4. CASE duck' = [duck EXCEPT !.free = f]
    <3>1. /\ duck' \in Instances
          /\ duck'.gen = duck.gen /\ duck'.closed = duck.closed /\ duck'.readonly = duck.readonly
          /\ duck'.inst = duck.inst /\ duck'.file = duck.file /\ duck'.wal = duck.wal
      BY <2>4, FreeFields, Zenon
    <3>2. CatAround
      BY <3>1 DEF SwitchBack, CatAround, TypeOK, Shared
    <3> QED
      BY <2>1, <3>2, <1>CatEnds DEF SwitchBack
  <2> QED
    BY <2>2, <2>3, <2>4, Zenon DEF SwitchBack

<1>DetachLight. ASSUME TypeOK, NEW s \in Sessions, Detach(s) PROVE Lights(s)
  <2> USE <1>DetachLight
  <2>1. sess[s].pc \in CatPCs /\ sess[s].arg \in Catalogs
    BY Zenon DEF Detach, CatPCs, TypeOK
  <2>2. cats' \in [Catalogs -> Catalog]
    <3>1. cats' = cats \/ cats' = [cats EXCEPT ![sess[s].arg].attached = FALSE]
      BY Zenon DEF Detach
    <3>2. cats \in [Catalogs -> Catalog]
      BY DEF TypeOK, Shared
    <3>3. [cats EXCEPT ![sess[s].arg].attached = FALSE] \in [Catalogs -> Catalog]
      BY <2>1, <1>CatalogUpdates, Zenon
    <3> QED
      BY <3>1, <3>2, <3>3, Zenon
  <2>3. CatAround
    <3>1. PICK b \in BOOLEAN : b = Creating
      BY Zenon DEF Creating
    <3>2. hist' = [hist EXCEPT !.odd = @ \/ b]
      BY <3>1, Zenon DEF Detach
    <3> QED
      BY <2>2, <3>2, OddFields DEF Detach, CatAround, TypeOK, Shared
  <2>4. CASE sess' = Ended(s)
    BY <2>1, <2>3, <2>4, <1>CatEnds
  <2>5. CASE sess' = Goto(s, "remove")
    BY <2>1, <2>3, <2>5, <1>CatGoes, Zenon
  <2> QED
    BY <2>4, <2>5, Zenon DEF Detach

<1>RemoveLight. ASSUME TypeOK, NEW s \in Sessions, Remove(s) PROVE Lights(s)
  <2> USE <1>RemoveLight
  <2>1. sess[s].pc \in CatPCs /\ sess[s].arg \in Catalogs
    BY Zenon DEF Remove, CatPCs, TypeOK
  <2>2. cats' \in [Catalogs -> Catalog]
    <3>1. cats' = [cats EXCEPT ![sess[s].arg].file = "none", ![sess[s].arg].inits = <<>>]
      BY Zenon DEF Remove
    <3>2. [cats EXCEPT ![sess[s].arg].file = "none", ![sess[s].arg].inits = <<>>]
             \in [Catalogs -> Catalog]
      BY <2>1, <1>CatalogUpdates, Zenon
    <3> QED
      BY <3>1, <3>2, Zenon
  <2>3. CatAround
    <3>1. PICK b \in BOOLEAN : b = cats[sess[s].arg].attached
      BY <2>1, Zenon DEF TypeOK, Shared, Catalog
    <3>2. hist' = [hist EXCEPT !.odd = @ \/ b]
      BY <3>1, Zenon DEF Remove
    <3> QED
      BY <2>2, <3>2, OddFields DEF Remove, CatAround, TypeOK, Shared
  <2> QED
    BY <2>1, <2>3, <1>CatEnds, Zenon DEF Remove

<1>executeRestoreLight. ASSUME TypeOK, NEW s \in Sessions, executeRestore(s) PROVE Lights(s)
  <2> USE <1>executeRestoreLight
  <2>1. PICK c \in Catalogs, k \in Catalog :
                /\ cats' = [cats EXCEPT ![c] = k]
                /\ hist' = [hist EXCEPT !.odd = @ \/ cats[c].attached]
    BY RestoreFields, Zenon
  <2>2. cats' \in [Catalogs -> Catalog]
    BY <2>1, Zenon DEF TypeOK, Shared
  <2>3. PICK b \in BOOLEAN : b = cats[c].attached
    BY <2>1, Zenon DEF TypeOK, Shared, Catalog
  <2>4. hist' = [hist EXCEPT !.odd = @ \/ b]
    BY <2>1, <2>3, Zenon
  <2>5. /\ left' \in [ops : Nat, writes : Nat, faults : Nat]
        /\ left'.writes = left.writes /\ left'.faults <= left.faults
    <3>1. left \in [ops : Nat, writes : Nat, faults : Nat] /\ left.ops > 0
      BY Zenon DEF TypeOK, Shared, executeRestore
    <3>2. \/ left' = [left EXCEPT !.ops = @ - 1]
          \/ left.faults > 0 /\ left' = [left EXCEPT !.ops = @ - 1, !.faults = @ - 1]
      BY Zenon DEF executeRestore, Fault
    <3>3. left.ops - 1 \in Nat /\ left.faults <= left.faults
      BY <3>1
    <3>4. left.faults > 0 => left.faults - 1 \in Nat /\ left.faults - 1 <= left.faults
      BY <3>1
    <3> QED
      BY <3>1, <3>2, <3>3, <3>4, Zenon
  <2>6. CatAround
    BY <2>2, <2>4, <2>5, OddFields, Zenon DEF executeRestore, CatAround, TypeOK, Shared
  <2>7. PICK n \in Session : n = sess[s] /\ sess' = [sess EXCEPT ![s] = n]
    BY DEF executeRestore, TypeOK
  <2>8. PICK q \in Connection : q = conn[s] /\ conn' = [conn EXCEPT ![s] = q]
    BY DEF executeRestore, TypeOK
  <2>9. n.pc = "idle"
    BY <2>7, Zenon DEF executeRestore
  <2>10. Ordinary(s, n, q)
    BY <2>6, <2>7, <2>8, <2>9, Zenon DEF Ordinary, CatAround, CreatePCs, RestartPCs
  <2>11. Light(s, n, q)
    BY <2>6, <2>7, <2>8, <2>9, <2>10, Zenon DEF Light, SamePool, CatAround, Carries
  <2>12. Apart(s, n)
    BY <2>6, <2>7, <2>9, Zenon DEF Apart, CatAround, BackupPCs, RestartPCs
  <2> QED
    BY <2>11, <2>12, Zenon DEF Lights
<1> QED
  BY <1>AttachLight, <1>SwitchLight, <1>initCatalogLight, <1>SwitchBackLight, <1>DetachLight,
     <1>RemoveLight,
     <1>executeRestoreLight, Zenon DEF CatStep

-----------------------------------------------------------------------------
(* The steps of BACKUP outside its restarts *)

BackAround(s) ==
    /\ Shared' /\ UNCHANGED <<duck, prov, cats, conn>>
    /\ SamePool(s) /\ \A t \in Sessions \ {s} : t \in pool'.txns <=> t \in pool.txns
    /\ hist'.kept = hist.kept /\ hist'.gone = hist.gone
    /\ hist'.astray = hist.astray /\ hist'.odd = hist.odd
    /\ left'.writes = left.writes /\ left'.faults <= left.faults

Keeps(s) == \E n \in Session, k \in Connection : Light(s, n, k) /\ Neat

BackStep(s) == \/ stopAllReplication(s) \/ UploadFile(s) \/ Uploaded(s) \/ startAllReplication(s)
               \/ doCheckpoint(s) /\ ~(conn[s].open /\ CanCheckpoint(s))

LEMMA BackSteps == \A s \in Sessions : TypeOK /\ BackStep(s) => Keeps(s)
<1>BackLight.
    ASSUME TypeOK, NEW s \in Sessions, BackAround(s), NEW n \in Session,
           sess' = [sess EXCEPT ![s] = n],
           sess[s].pc \notin CreatePCs \union RestartPCs \union {"store", "idle"},
           n.pc \in {"idle", "checkpoint", "close", "uploading"},
           Carries(n, sess[s]), n.prev \in {sess[s].prev, Default},
           n.clean => (sess[s].clean \/ (n.pc = "idle" /\ sess[s].tx = "none"))
    PROVE  Keeps(s)
  <2> USE <1>BackLight
  <2>1. PICK k \in Connection : k = conn[s] /\ conn' = [conn EXCEPT ![s] = k]
    BY Zenon DEF BackAround, TypeOK
  <2>2. n.pc \notin RestartPCs \union CreatePCs \union {"store", "take", "attach", "detach", "remove"}
    BY Zenon DEF CreatePCs, RestartPCs
  <2>3. Ordinary(s, n, k)
    BY <2>1, <2>2, Zenon DEF Ordinary, BackAround, SamePool
  <2>4. Light(s, n, k)
    <3>1. sess[s].pc # "idle" /\ sess[s].pc # "store" /\ n.pc # "store" /\ n.pc # "take"
      BY <2>2, Zenon
    <3>2. n.tx = sess[s].tx
      BY Zenon DEF Carries
    <3>3. duck' = duck
      BY Zenon DEF BackAround
    <3>4. /\ SamePool(s) /\ hist'.kept = hist.kept /\ hist'.gone = hist.gone
          /\ left'.writes = left.writes
      BY Zenon DEF BackAround
    <3> QED
      BY <2>1, <2>3, <3>1, <3>2, <3>3, <3>4, Zenon DEF Light
  <2>5. Neat
    <3>1. StorageOpen => StorageOpen'
      BY Zenon DEF StorageOpen, BackAround
    <3>2. ASSUME NEW t \in Sessions
          PROVE  /\ conn'[t].cat \in {conn[t].cat, Default}
                 /\ sess'[t].prev \in {sess[t].prev, Default}
                 /\ \/ sess[t].pc \notin CreatePCs /\ sess'[t].pc \notin CreatePCs
                    \/ sess'[t].pc = sess[t].pc /\ sess'[t].arg = sess[t].arg
      BY <2>2, Zenon DEF BackAround, TypeOK
    <3> QED
      BY <3>1, <3>2, Zenon DEF Neat, BackAround
  <2> QED
    BY <2>4, <2>5, Zenon DEF Keeps

<1>BackEnds.
    ASSUME TypeOK, NEW s \in Sessions, BackAround(s), sess' = Ended(s),
           sess[s].pc \notin CreatePCs \union RestartPCs \union {"store", "idle"}
    PROVE  Keeps(s)
  <2> USE <1>BackEnds
  <2>1. PICK n \in Session :
                /\ Ended(s) = [sess EXCEPT ![s] = n]
                /\ n.pc = "idle" /\ n.op = "none" /\ n.arg = None /\ n.prev = Default
                /\ Carries(n, sess[s]) /\ n.db = sess[s].db
                /\ n.clean => sess[s].clean \/ sess[s].tx = "none"
    BY EndedFields, Zenon
  <2>2. sess' = [sess EXCEPT ![s] = n]
    BY <2>1, Zenon
  <2> QED
    BY <2>1, <2>2, <1>BackLight, Zenon

<1>BackGoes.
    ASSUME TypeOK, NEW s \in Sessions, BackAround(s), NEW l \in {"checkpoint", "close", "uploading"},
           sess' = Goto(s, l),
           sess[s].pc \notin CreatePCs \union RestartPCs \union {"store", "idle"}
    PROVE  Keeps(s)
  <2> USE <1>BackGoes
  <2>0. l \in PCs
    BY Zenon DEF PCs, BackupPCs
  <2>1. PICK n \in Session :
                /\ Goto(s, l) = [sess EXCEPT ![s] = n]
                /\ n.pc = l /\ n.op = sess[s].op /\ n.arg = sess[s].arg /\ n.prev = sess[s].prev
                /\ Carries(n, sess[s]) /\ n.db = sess[s].db /\ n.clean = sess[s].clean
    BY <2>0, GotoFields, Zenon
  <2>2. sess' = [sess EXCEPT ![s] = n]
    BY <2>1, Zenon
  <2> QED
    BY <2>1, <2>2, <1>BackLight, Zenon

<1>stopAllReplicationKeeps.
    ASSUME TypeOK, NEW s \in Sessions, stopAllReplication(s) PROVE Keeps(s)
  <2> USE <1>stopAllReplicationKeeps
  <2>1. sess[s].pc \notin CreatePCs \union RestartPCs \union {"store", "idle"}
    BY Zenon DEF stopAllReplication, Build, CreatePCs, RestartPCs
  <2>2. PICK b \in BOOLEAN : b = (hist.raced \/ \E t \in Sessions \ {s} : sess[t].op \in {"backup", "resume"})
    BY Zenon
  <2>3. hist' = [hist EXCEPT !.raced = b]
    BY <2>2, Zenon DEF stopAllReplication
  <2>4. backup' \in [enabled : BOOLEAN, up : SUBSET Nat, before : SUBSET Nat, ok : BOOLEAN]
    BY Zenon DEF stopAllReplication, TypeOK, Shared
  <2>5. BackAround(s)
    BY <2>3, <2>4 DEF stopAllReplication, BackAround, SamePool, TypeOK, Shared
  <2> QED
    BY <2>1, <2>5, <1>BackGoes, Zenon DEF stopAllReplication

<1>UploadFileKeeps. ASSUME TypeOK, NEW s \in Sessions, UploadFile(s) PROVE Keeps(s)
  <2> USE <1>UploadFileKeeps
  <2>1. sess[s].pc \notin CreatePCs \union RestartPCs \union {"store", "idle"}
    BY Zenon DEF UploadFile, CreatePCs, RestartPCs
  <2>2. backup' \in [enabled : BOOLEAN, up : SUBSET Nat, before : SUBSET Nat, ok : BOOLEAN]
    BY Zenon DEF UploadFile, TypeOK, Shared, Instances
  <2>3. BackAround(s)
    BY <2>2 DEF UploadFile, BackAround, SamePool, TypeOK, Shared
  <2> QED
    BY <2>1, <2>3, <1>BackGoes, Zenon DEF UploadFile

<1>startAllReplicationKeeps.
    ASSUME TypeOK, NEW s \in Sessions, startAllReplication(s) PROVE Keeps(s)
  <2> USE <1>startAllReplicationKeeps
  <2>1. sess[s].pc \notin CreatePCs \union RestartPCs \union {"store", "idle"}
    BY Zenon DEF startAllReplication, Build, CreatePCs, RestartPCs
  <2>2. backup' \in [enabled : BOOLEAN, up : SUBSET Nat, before : SUBSET Nat, ok : BOOLEAN]
    BY Zenon DEF startAllReplication, NoBackup
  <2>3. BackAround(s)
    <3>1. UNCHANGED <<duck, prov, cats, pool, conn, hist, left>> /\ left.faults \in Nat
      BY Zenon DEF startAllReplication, TypeOK, Shared
    <3> QED
      BY <2>2, <3>1 DEF BackAround, SamePool, TypeOK, Shared
  <2> QED
    BY <2>1, <2>3, <1>BackEnds, Zenon DEF startAllReplication

<1>UploadedKeeps. ASSUME TypeOK, NEW s \in Sessions, Uploaded(s) PROVE Keeps(s)
  <2> USE <1>UploadedKeeps
  <2>1. sess[s].pc \notin CreatePCs \union RestartPCs \union {"store", "idle"}
    BY Zenon DEF Uploaded, CreatePCs, RestartPCs
  <2>2. backup' \in [enabled : BOOLEAN, up : SUBSET Nat, before : SUBSET Nat, ok : BOOLEAN]
    <3>1. PICK b \in BOOLEAN : b = (duck.file = backup.up)
      BY Zenon
    <3>2. backup' = [backup EXCEPT !.ok = b] \/ backup' = NoBackup(FALSE)
      BY <3>1, Zenon DEF Uploaded
    <3>3. CASE backup' = [backup EXCEPT !.ok = b]
      BY <3>3, Zenon DEF TypeOK, Shared
    <3>4. CASE backup' = NoBackup(FALSE)
      BY <3>4, Zenon DEF NoBackup
    <3> QED
      BY <3>2, <3>3, <3>4, Zenon
  <2>3. BackAround(s)
    <3>1. left' = left \/ (Fault /\ left' = [left EXCEPT !.faults = @ - 1])
      BY Zenon DEF Uploaded
    <3>2. /\ left' \in [ops : Nat, writes : Nat, faults : Nat]
          /\ left'.writes = left.writes /\ left'.faults <= left.faults
      BY <3>1, FaultFields
    <3> QED
      BY <2>2, <3>2, Zenon DEF Uploaded, BackAround, SamePool, TypeOK, Shared
  <2>4. CASE sess' = Ended(s)
    BY <2>1, <2>3, <2>4, <1>BackEnds, Zenon
  <2>5. CASE sess' = [sess EXCEPT ![s].pc = "close", ![s].op = "resume"]
    <3>1. PICK m \in Session : m = sess[s]
      BY DEF TypeOK
    <3>2. PICK n : n = [m EXCEPT !.pc = "close", !.op = "resume"]
      OBVIOUS
    <3>3. /\ n \in Session
          /\ n.pc = "close" /\ n.prev = m.prev
          /\ n.tx = m.tx /\ n.buf = m.buf /\ n.raced = m.raced /\ n.clean = m.clean
      BY <3>2, Zenon DEF Session, PCs, BackupPCs, Ops
    <3>4. sess' = [sess EXCEPT ![s] = n]
      BY <2>5, <3>1, <3>2, Zenon DEF TypeOK, Session
    <3> QED
      BY <2>1, <2>3, <3>1, <3>3, <3>4, <1>BackLight, Zenon DEF Carries
  <2> QED
    BY <2>4, <2>5, Zenon DEF Uploaded

<1>CheckpointFailsKeeps.
    ASSUME TypeOK, NEW s \in Sessions, doCheckpoint(s), ~(conn[s].open /\ CanCheckpoint(s))
    PROVE  Keeps(s)
  <2> USE <1>CheckpointFailsKeeps
  <2>1. sess[s].pc \notin CreatePCs \union RestartPCs \union {"store", "idle"}
    BY Zenon DEF doCheckpoint, CreatePCs, RestartPCs
  <2>2. BackAround(s)
    <3>1. /\ UNCHANGED <<duck, prov, cats, conn, backup, hist, left>> /\ left.faults \in Nat
          /\ pool' = pool \/ (sess[s].tx = "none" /\ pool' = [pool EXCEPT !.txns = @ \union {s}])
          /\ pool \in [db : Nat, txns : SUBSET Sessions, orphan : BOOLEAN]
      BY Zenon DEF doCheckpoint, TypeOK, Shared
    <3>2. /\ pool' \in [db : Nat, txns : SUBSET Sessions, orphan : BOOLEAN]
          /\ SamePool(s) /\ \A t \in Sessions \ {s} : t \in pool'.txns <=> t \in pool.txns
      <4>1. CASE pool' = pool
        BY <3>1, <4>1, Zenon DEF SamePool
      <4>2. CASE sess[s].tx = "none" /\ pool' = [pool EXCEPT !.txns = @ \union {s}]
        BY <3>1, <4>2, Zenon DEF SamePool
      <4> QED
        BY <3>1, <4>1, <4>2, Zenon
    <3>3. Shared'
      BY <3>1, <3>2, Zenon DEF TypeOK, Shared
    <3> QED
      BY <3>1, <3>2, <3>3 DEF BackAround
  <2> QED
    BY <2>1, <2>2, <1>BackEnds, Zenon DEF doCheckpoint
<1> QED
  BY <1>stopAllReplicationKeeps, <1>UploadFileKeeps, <1>UploadedKeeps,
     <1>startAllReplicationKeeps,
     <1>CheckpointFailsKeeps, Zenon DEF BackStep

-----------------------------------------------------------------------------
(* The steps that write, or take, store, use or close a connection *)

\* The instances q with the rows W added to instance g.
Added(q, g, W) == [i \in DOMAIN q |-> IF i = g THEN q[i] \union W ELSE q[i]]
Grown(I, q, g, W) ==
    /\ I \in Seq(SUBSET Nat) /\ Len(I) = Len(q)
    /\ \A i \in 1..Len(q) : I[i] = q[i] \union (IF i = g THEN W ELSE {})

\* Added keeps the type and the length, and grows the one set.
LEMMA InstFields ==
    ASSUME NEW g \in Nat, NEW W \in SUBSET Nat, NEW q \in Seq(SUBSET Nat)
    PROVE  Grown(Added(q, g, W), q, g, W)
<1>1. DOMAIN q = 1..Len(q) /\ Len(q) \in Nat /\ \A i \in 1..Len(q) : q[i] \in SUBSET Nat
  OBVIOUS
<1>2. ASSUME NEW i \in 1..Len(q)
      PROVE  /\ Added(q, g, W)[i] = q[i] \union (IF i = g THEN W ELSE {})
             /\ Added(q, g, W)[i] \in SUBSET Nat
  BY <1>1, <1>2, Zenon DEF Added
<1>3. Added(q, g, W) \in [1..Len(q) -> SUBSET Nat]
  <2>1. Added(q, g, W) = [i \in 1..Len(q) |-> Added(q, g, W)[i]]
    BY <1>1, Zenon DEF Added
  <2> QED
    BY <1>2, <2>1, Zenon
<1>4. Added(q, g, W) \in Seq(SUBSET Nat) /\ Len(Added(q, g, W)) = Len(q)
  BY <1>1, <1>3
<1> QED
  BY <1>2, <1>4, Zenon DEF Grown

\* d is duck with the rows W committed in instance g.
Committed(d, g, W) ==
    /\ d \in Instances /\ (W = {} => d = duck)
    /\ d.gen = duck.gen /\ d.closed = duck.closed /\ d.readonly = duck.readonly
    /\ d.free = duck.free /\ Len(d.inst) = Len(duck.inst)
    /\ \A i \in 1..Len(duck.inst) : d.inst[i] = duck.inst[i] \union (IF i = g THEN W ELSE {})
    /\ duck.file \subseteq d.file /\ duck.file \union duck.wal \subseteq d.file \union d.wal
    /\ d.file \union d.wal \subseteq duck.file \union duck.wal \union W
    /\ g = duck.gen => W \subseteq d.file \union d.wal

LEMMA CommitsFields ==
    ASSUME TypeOK, NEW g \in Nat, NEW W \in SUBSET Nat, NEW d \in Commits(g, W)
    PROVE  Committed(d, g, W)
<1> USE DEF Committed
<1>1. duck \in Instances
  BY Zenon DEF TypeOK, Shared
<1>2. CASE W = {}
  <2>1. d = duck
    BY <1>2, Zenon DEF Commits
  <2>2. \A i \in 1..Len(duck.inst) : d.inst[i] = duck.inst[i] \union (IF i = g THEN W ELSE {})
    BY <1>2, <2>1, Zenon
  <2> QED
    BY <1>1, <1>2, <2>1, <2>2, Zenon
<1>3. CASE W # {}
  <2>0. duck.inst \in Seq(SUBSET Nat)
    BY <1>1 DEF Instances
  <2>1. PICK I \in Seq(SUBSET Nat) :
           /\ I = Added(duck.inst, g, W)
           /\ Len(I) = Len(duck.inst)
           /\ \A i \in 1..Len(duck.inst) : I[i] = duck.inst[i] \union (IF i = g THEN W ELSE {})
    <3>1. PICK q \in Seq(SUBSET Nat) : q = duck.inst
      BY <2>0, Zenon
    <3>2. Grown(Added(q, g, W), q, g, W)
      BY InstFields, Zenon
    <3> QED
      BY <3>1, <3>2, Zenon DEF Grown
  <2>2. PICK a : a = [duck EXCEPT !.inst = I]
    BY Zenon
  <2>3. [duck EXCEPT !.inst = [i \in DOMAIN @ |-> IF i = g THEN @[i] \union W ELSE @[i]]] = a
    BY <1>1, <2>1, <2>2, Zenon DEF Instances, Added
  <2>4. /\ a \in Instances /\ a.inst = I
        /\ a.gen = duck.gen /\ a.closed = duck.closed /\ a.readonly = duck.readonly
        /\ a.free = duck.free /\ a.file = duck.file /\ a.wal = duck.wal
    BY <1>1, <2>1, <2>2, Zenon DEF Instances
  <2>5. PICK b : b = [a EXCEPT !.wal = @ \union W]
    BY Zenon
  <2>6. /\ b \in Instances /\ b.inst = I
        /\ b.gen = duck.gen /\ b.closed = duck.closed /\ b.readonly = duck.readonly
        /\ b.free = duck.free /\ b.file = duck.file /\ b.wal = duck.wal \union W
    <3>1. a.wal \union W \in SUBSET Nat
      BY <2>4, Zenon DEF Instances
    <3> QED
      BY <2>4, <2>5, <3>1, Zenon DEF Instances
  <2>7. PICK e : e = [b EXCEPT !.file = @ \union b.wal, !.wal = {}]
    OBVIOUS
  <2>8. /\ e \in Instances /\ e.inst = I
        /\ e.gen = duck.gen /\ e.closed = duck.closed /\ e.readonly = duck.readonly
        /\ e.free = duck.free /\ e.file = duck.file \union duck.wal \union W /\ e.wal = {}
    <3>1. b.file \union b.wal \in SUBSET Nat
      BY <2>6, Zenon DEF Instances
    <3> QED
      BY <2>6, <2>7, <3>1, Zenon DEF Instances
  <2>9. d = b \/ d = e \/ (d = a /\ g # duck.gen)
    BY <1>3, <2>3, <2>5, <2>7, Zenon DEF Commits, Checkpointed
  <2>10. CASE d = a /\ g # duck.gen
    BY <1>3, <2>1, <2>4, <2>10, Zenon
  <2>11. CASE d = b
    BY <1>3, <2>1, <2>6, <2>11, Zenon
  <2>12. CASE d = e
    BY <1>3, <2>1, <2>8, <2>12, Zenon
  <2> QED
    BY <2>9, <2>10, <2>11, <2>12, Zenon
<1> QED
  BY <1>2, <1>3, Zenon

\* Everything else that could matter to rows stays as it is.
Rowless == /\ duck'.inst = duck.inst /\ duck'.file = duck.file /\ duck'.wal = duck.wal
           /\ hist'.kept = hist.kept /\ left' = left

LEMMA WithoutTop ==
    ASSUME NEW q \in Seq(CatNames)
    PROVE  /\ SubSeq(q, 1, Len(q) - 1) \in Seq(CatNames)
           /\ \A i \in 1..Len(SubSeq(q, 1, Len(q) - 1)) :
                 i \in 1..Len(q) /\ i # Len(q) /\ SubSeq(q, 1, Len(q) - 1)[i] = q[i]
<1>1. Len(q) \in Nat
  OBVIOUS
<1>3. PICK p : p = SubSeq(q, 1, Len(q) - 1)
  BY Zenon
<1>4. /\ p \in Seq(CatNames) /\ Len(p) = IF 1 <= Len(q) - 1 THEN Len(q) - 1 ELSE 0
      /\ \A i \in 1..Len(q) - 1 : p[i] = q[i]
  BY <1>3, FrontOf, Zenon
<1>5. \A i \in 1..Len(p) : i \in 1..Len(q) /\ i # Len(q) /\ p[i] = q[i]
  BY <1>1, <1>4
<1> QED
  BY <1>3, <1>4, <1>5, Zenon

LEMMA TakeFields ==
    ASSUME TypeOK, NEW s \in Sessions, Take(s), pool.db \notin duck.closed
    PROVE  \E n \in Session, k \in Connection :
              /\ Ordinary(s, n, k) /\ Apart(s, n) /\ Rowless /\ hist'.gone = hist.gone
              /\ n.pc = "store" /\ n.prev = sess[s].prev /\ n.clean = sess[s].clean
              /\ n.arg = sess[s].arg /\ Carries(n, sess[s])
              /\ k.st = "taken" /\ k.gen = pool.db /\ k.cat = Top /\ k.open
              /\ pool' = pool
              /\ hist'.astray = hist.astray /\ hist'.odd = (hist.odd \/ Creating)
              /\ duck'.free = SubSeq(duck.free, 1, Len(duck.free) - 1)
<1>0. "store" \in PCs /\ sess[s].pc = "take"
  BY Zenon DEF PCs, Take
<1>1. PICK n \in Session :
              /\ sess' = [sess EXCEPT ![s] = n]
              /\ n.pc = "store" /\ n.op = sess[s].op /\ n.arg = sess[s].arg /\ n.prev = sess[s].prev
              /\ Carries(n, sess[s]) /\ n.db = sess[s].db /\ n.clean = sess[s].clean
  BY <1>0, GotoFields DEF Take
<1>2. PICK k : k = [NoConn EXCEPT !.st = "taken", !.gen = pool.db, !.cat = Top, !.open = TRUE]
  OBVIOUS
<1>3. pool.db \in Nat
  BY Zenon DEF TypeOK, Shared
<1>4. /\ k \in Connection /\ k.st = "taken" /\ k.gen = pool.db /\ k.cat = Top /\ k.open
  BY <1>2, <1>3, TopFields, Zenon DEF Connection, NoConn
<1>5. conn' = [conn EXCEPT ![s] = k]
  BY <1>2, Zenon DEF Take
<1>6. PICK f \in Seq(CatNames) : f = SubSeq(duck.free, 1, Len(duck.free) - 1)
  <2>1. duck.free \in Seq(CatNames)
    BY Zenon DEF TypeOK, Shared, Instances
  <2> QED
    BY <2>1, WithoutTop, Zenon
<1>7. duck' = [duck EXCEPT !.free = f]
  BY <1>6, Zenon DEF Take
<1>8. /\ duck' \in Instances /\ duck'.free = f
      /\ duck'.gen = duck.gen /\ duck'.closed = duck.closed /\ duck'.readonly = duck.readonly
      /\ duck'.inst = duck.inst /\ duck'.file = duck.file /\ duck'.wal = duck.wal
  BY <1>7, FreeFields, Zenon
<1>9. PICK b \in BOOLEAN : b = Creating
  BY Zenon DEF Creating
<1>10. hist' = [hist EXCEPT !.odd = @ \/ b]
  BY <1>9, Zenon DEF Take
<1>11. /\ hist' \in [kept : SUBSET Nat, gone : SUBSET Nat, astray : BOOLEAN, odd : BOOLEAN,
                         raced : BOOLEAN]
       /\ hist'.kept = hist.kept /\ hist'.gone = hist.gone /\ hist'.raced = hist.raced
       /\ hist'.astray = hist.astray /\ hist'.odd = (hist.odd \/ b)
  BY <1>10, OddFields, Zenon
<1>12. UNCHANGED <<prov, cats, pool, backup, left>>
  BY Zenon DEF Take
<1>13. Shared' /\ left.faults \in Nat
  BY <1>8, <1>11, <1>12, Zenon DEF TypeOK, Shared
<1>14. Ordinary(s, n, k)
  BY <1>0, <1>1, <1>4, <1>5, <1>8, <1>12, <1>13 DEF Ordinary, CreatePCs, RestartPCs
<1>15. Apart(s, n)
  BY <1>1, <1>8, <1>11, <1>12, Zenon DEF Apart, Carries, BackupPCs, RestartPCs
<1> QED
  BY <1>1, <1>4, <1>6, <1>8, <1>9, <1>11, <1>12, <1>14, <1>15, Zenon DEF Rowless

LEMMA StoreFields ==
    ASSUME TypeOK, NEW s \in Sessions, Store(s)
    PROVE  \E n \in Session, k \in Connection :
              /\ Ordinary(s, n, k) /\ Neat /\ Rowless /\ hist'.gone = hist.gone
              /\ n.pc \in {"run", "lookup"} /\ n.op = sess[s].op /\ n.clean = sess[s].clean
              /\ n.tx = sess[s].tx /\ n.buf = sess[s].buf
              /\ n.raced = (sess[s].raced \/ conn[s].gen \in duck.closed \/ Restarting)
              /\ k.st = "stored" /\ k.gen = conn[s].gen /\ k.open = conn[s].open
              /\ pool' = pool /\ backup' = backup
              /\ hist'.raced = (hist.raced \/ conn[s].gen \in duck.closed \/ Restarting)
<1>1. PICK m \in Session : m = sess[s]
  BY Zenon DEF TypeOK
<1>2. PICK r \in BOOLEAN : r = (m.raced \/ conn[s].gen \in duck.closed \/ Restarting)
  BY Zenon
<1>3. PICK l \in {"run", "lookup"} : l = IF m.ph = "resolve" THEN "lookup" ELSE "run"
  OBVIOUS
<1>4. PICK n : n = [m EXCEPT !.pc = l, !.raced = r]
  OBVIOUS
<1>5. /\ n \in Session
      /\ n.pc = l /\ n.op = m.op /\ n.arg = m.arg /\ n.prev = m.prev
      /\ n.tx = m.tx /\ n.buf = m.buf /\ n.raced = r /\ n.clean = m.clean
  BY <1>4, Zenon DEF Session, PCs
<1>6. sess' = [sess EXCEPT ![s] = n]
  BY <1>1, <1>2, <1>3, <1>4, Zenon DEF Store, TypeOK, Session
<1>7. PICK c \in Connection : c = conn[s]
  BY Zenon DEF TypeOK
<1>8. PICK k : k = [c EXCEPT !.st = "stored"]
  BY Zenon
<1>9. k \in Connection /\ k.st = "stored" /\ k.gen = c.gen /\ k.open = c.open /\ k.cat = c.cat
  BY <1>8, Zenon DEF Connection
<1>10. conn' = [conn EXCEPT ![s] = k]
  BY <1>7, <1>8, Zenon DEF Store, TypeOK
<1>11. PICK b \in BOOLEAN : b = (hist.raced \/ conn[s].gen \in duck.closed \/ Restarting)
  BY Zenon
<1>12. hist' = [hist EXCEPT !.raced = b]
  BY <1>11, Zenon DEF Store
<1>13. /\ hist' \in [kept : SUBSET Nat, gone : SUBSET Nat, astray : BOOLEAN, odd : BOOLEAN,
                     raced : BOOLEAN]
       /\ hist'.kept = hist.kept /\ hist'.gone = hist.gone /\ hist'.raced = b
       /\ hist'.astray = hist.astray /\ hist'.odd = hist.odd
  BY <1>12, Zenon DEF TypeOK, Shared
<1>14. UNCHANGED <<duck, prov, cats, pool, backup, left>> /\ sess[s].pc = "store"
  BY Zenon DEF Store
<1>15. Shared' /\ left.faults \in Nat
  BY <1>13, <1>14, Zenon DEF TypeOK, Shared
<1>16. Ordinary(s, n, k)
  BY <1>5, <1>6, <1>9, <1>10, <1>14, <1>15 DEF Ordinary, CreatePCs, RestartPCs
<1>17. Neat
  <2>1. StorageOpen => StorageOpen'
    BY <1>14, Zenon DEF StorageOpen
  <2>2. sess[s].pc \notin CreatePCs /\ n.pc \notin CreatePCs
    BY <1>5, <1>14, Zenon DEF CreatePCs
  <2>3. ASSUME NEW t \in Sessions
        PROVE  /\ conn'[t].cat \in {conn[t].cat, Default}
               /\ sess'[t].prev \in {sess[t].prev, Default}
               /\ \/ sess[t].pc \notin CreatePCs /\ sess'[t].pc \notin CreatePCs
                  \/ sess'[t].pc = sess[t].pc /\ sess'[t].arg = sess[t].arg
    BY <1>1, <1>5, <1>6, <1>7, <1>9, <1>10, <2>2, Zenon DEF TypeOK
  <2> QED
    BY <1>13, <1>14, <2>1, <2>3, Zenon DEF Neat
<1> QED
  BY <1>1, <1>2, <1>5, <1>7, <1>9, <1>11, <1>13, <1>14, <1>16, <1>17 DEF Rowless

LEMMA NeatStep ==
    ASSUME TypeOK, NEW s \in Sessions, NEW n \in Session, NEW k \in Connection,
           sess' = [sess EXCEPT ![s] = n], conn' = [conn EXCEPT ![s] = k],
           cats' = cats, hist'.odd = hist.odd,
           hist'.astray => hist.astray \/ conn[s].cat # Default,
           duck'.free = duck.free, duck'.gen = duck.gen, duck'.closed = duck.closed,
           k.cat \in {conn[s].cat, Default}, n.prev \in {sess[s].prev, Default},
           sess[s].pc \notin CreatePCs, n.pc \notin CreatePCs
    PROVE  Neat
<1>1. StorageOpen => StorageOpen'
  BY Zenon DEF StorageOpen
<1>2. ASSUME NEW t \in Sessions
      PROVE  /\ conn'[t].cat \in {conn[t].cat, Default}
             /\ sess'[t].prev \in {sess[t].prev, Default}
             /\ \/ sess[t].pc \notin CreatePCs /\ sess'[t].pc \notin CreatePCs
                \/ sess'[t].pc = sess[t].pc /\ sess'[t].arg = sess[t].arg
  BY Zenon DEF TypeOK
<1> QED
  BY <1>1, <1>2, Zenon DEF Neat

\* What a client that leaves, or rolls back, leaves behind.
Discarded(s) == IF Clean(s) THEN sess[s].buf ELSE {}

LEMMA DiscardFields ==
    ASSUME TypeOK, NEW s \in Sessions,
           hist' = IF Clean(s) THEN [hist EXCEPT !.gone = @ \union sess[s].buf] ELSE hist
    PROVE  /\ hist' \in [kept : SUBSET Nat, gone : SUBSET Nat, astray : BOOLEAN, odd : BOOLEAN,
                         raced : BOOLEAN]
           /\ hist'.kept = hist.kept /\ hist'.gone = hist.gone \union Discarded(s)
           /\ hist'.raced = hist.raced /\ hist'.astray = hist.astray /\ hist'.odd = hist.odd
<1>1. sess[s].buf \in SUBSET Nat /\ hist.gone \in SUBSET Nat
  BY Zenon DEF TypeOK, Shared, Session
<1>2. PICK g \in SUBSET Nat : g = hist.gone \union Discarded(s)
  BY <1>1, Zenon DEF Discarded
<1>3. hist' = [hist EXCEPT !.gone = g]
  <2>1. hist = [hist EXCEPT !.gone = hist.gone]
    BY Zenon DEF TypeOK, Shared
  <2>2. CASE Clean(s)
    BY <1>2, <2>2, Zenon DEF Discarded
  <2>3. CASE ~Clean(s)
    BY <1>1, <1>2, <2>1, <2>3, Zenon DEF Discarded
  <2> QED
    BY <2>2, <2>3, Zenon
<1> QED
  BY <1>2, <1>3, Zenon DEF TypeOK, Shared

LEMMA CloseConnFields ==
    ASSUME TypeOK, NEW s \in Sessions, CloseConn(s)
    PROVE  \E n \in Session, k \in Connection :
              /\ Ordinary(s, n, k) /\ Neat /\ Apart(s, n) /\ Rowless
              /\ sess[s].pc = "idle"
              /\ n.pc = "idle" /\ n.op = "none" /\ n.tx = "none" /\ n.buf = {} /\ ~n.raced
              /\ k.st = "none" /\ ~k.open
              /\ s \notin pool'.txns /\ (pool'.orphan <=> pool.orphan \/ s \in pool.txns)
              /\ hist'.gone = hist.gone \union Discarded(s)
<1>1. PICK n : n = Idle
  OBVIOUS
<1>2. /\ n \in Session
      /\ n.pc = "idle" /\ n.op = "none" /\ n.tx = "none" /\ n.buf = {} /\ ~n.raced
      /\ n.prev = Default
  BY <1>1, Zenon DEF Idle, Session, PCs, Ops, Args, CatNames
<1>3. PICK k : k = NoConn
  OBVIOUS
<1>4. k \in Connection /\ k.st = "none" /\ ~k.open /\ k.cat = Default
  BY <1>3, Zenon DEF NoConn, Connection, CatNames
<1>5. sess' = [sess EXCEPT ![s] = n] /\ conn' = [conn EXCEPT ![s] = k]
  BY <1>1, <1>3, Zenon DEF CloseConn
<1>6. PICK o \in BOOLEAN : o = (pool.orphan \/ s \in pool.txns)
  BY Zenon
<1>7. pool' = [pool EXCEPT !.txns = @ \ {s}, !.orphan = o]
  BY <1>6, Zenon DEF CloseConn
<1>8. /\ pool' \in [db : Nat, txns : SUBSET Sessions, orphan : BOOLEAN]
      /\ pool'.db = pool.db /\ pool'.txns = pool.txns \ {s} /\ pool'.orphan = o
  BY <1>7, Zenon DEF TypeOK, Shared
<1>9. /\ hist' \in [kept : SUBSET Nat, gone : SUBSET Nat, astray : BOOLEAN, odd : BOOLEAN,
                         raced : BOOLEAN]
      /\ hist'.kept = hist.kept /\ hist'.gone = hist.gone \union Discarded(s)
      /\ hist'.raced = hist.raced /\ hist'.astray = hist.astray /\ hist'.odd = hist.odd
  BY DiscardFields, Zenon DEF CloseConn
<1>10. UNCHANGED <<duck, prov, cats, backup, left>> /\ sess[s].pc = "idle"
  BY Zenon DEF CloseConn
<1>11. Shared' /\ left.faults \in Nat
  BY <1>8, <1>9, <1>10, Zenon DEF TypeOK, Shared
<1>12. "idle" \notin CreatePCs \union RestartPCs \union BackupPCs
  BY Zenon DEF CreatePCs, RestartPCs, BackupPCs
<1>13. Ordinary(s, n, k)
  BY <1>2, <1>4, <1>5, <1>8, <1>10, <1>11, <1>12 DEF Ordinary
<1>14. Neat
  BY <1>2, <1>4, <1>5, <1>9, <1>10, <1>12, NeatStep, Zenon
<1>15. Apart(s, n)
  BY <1>2, <1>9, <1>10, <1>12, Zenon DEF Apart
<1> QED
  BY <1>2, <1>4, <1>6, <1>8, <1>9, <1>10, <1>13, <1>14, <1>15, Zenon DEF Rowless

LEMMA GetTxnFields ==
    ASSUME TypeOK, NEW s \in Sessions, GetTxn(s)
    PROVE  \E n \in Session, k \in Connection :
              /\ Ordinary(s, n, k) /\ Neat /\ Apart(s, n) /\ Rowless /\ hist' = hist
              /\ sess[s].pc = "run" /\ conn[s].open
              /\ n.pc = "idle" /\ n.op = "none" /\ n.tx = "open" /\ n.buf = sess[s].buf
              /\ n.raced = sess[s].raced /\ n.clean = sess[s].clean
              /\ k.st = conn[s].st /\ k.gen = conn[s].gen /\ k.open = conn[s].open
              /\ pool'.txns = pool.txns \union {s} /\ pool'.orphan = pool.orphan
<1>1. PICK m \in Session :
              /\ Ended(s) = [sess EXCEPT ![s] = m]
              /\ m.pc = "idle" /\ m.op = "none" /\ m.prev = Default
              /\ Carries(m, sess[s])
  BY EndedFields, Zenon
<1>2. PICK n : n = [m EXCEPT !.tx = "open", !.clean = sess[s].clean]
  OBVIOUS
<1>3. /\ n \in Session
      /\ n.pc = "idle" /\ n.op = "none" /\ n.prev = Default /\ n.tx = "open"
      /\ n.buf = sess[s].buf /\ n.raced = sess[s].raced /\ n.clean = sess[s].clean
  <2>1. sess[s].clean \in BOOLEAN
    BY Zenon DEF TypeOK, Session
  <2> QED
    BY <1>1, <1>2, <2>1, Zenon DEF Session, Carries
<1>4. sess' = [sess EXCEPT ![s] = n]
  BY <1>1, <1>2, Zenon DEF GetTxn, TypeOK, Session
<1>5. PICK k \in Connection :
         /\ conn' = [conn EXCEPT ![s] = k]
         /\ k.st = conn[s].st /\ k.gen = conn[s].gen /\ k.open = conn[s].open /\ k.cat = conn[s].cat
  BY SchemaFields, WantedIsArg, Zenon DEF GetTxn
<1>6. /\ pool' \in [db : Nat, txns : SUBSET Sessions, orphan : BOOLEAN]
      /\ pool'.db = pool.db /\ pool'.txns = pool.txns \union {s} /\ pool'.orphan = pool.orphan
  BY Zenon DEF GetTxn, TypeOK, Shared
<1>7. UNCHANGED <<duck, prov, cats, backup, hist, left>> /\ sess[s].pc = "run" /\ conn[s].open
  BY Zenon DEF GetTxn, Build, Usable
<1>8. Shared' /\ left.faults \in Nat
  BY <1>6, <1>7, Zenon DEF TypeOK, Shared
<1>9. {"idle", "run"} \intersect (CreatePCs \union RestartPCs \union BackupPCs) = {}
  BY Zenon DEF CreatePCs, RestartPCs, BackupPCs
<1>10. Ordinary(s, n, k)
  BY <1>3, <1>4, <1>5, <1>6, <1>7, <1>8, <1>9 DEF Ordinary
<1>11. Neat
  BY <1>3, <1>4, <1>5, <1>7, <1>9, NeatStep, Zenon
<1>12. Apart(s, n)
  BY <1>3, <1>7, <1>9, Zenon DEF Apart
<1> QED
  BY <1>3, <1>5, <1>6, <1>7, <1>10, <1>11, <1>12, Zenon DEF Rowless

LEMMA FinishFields ==
    ASSUME TypeOK, NEW s \in Sessions,
           sess' = [sess EXCEPT ![s].tx = "none", ![s].buf = {}, ![s].clean = TRUE]
    PROVE  \E n \in Session :
              /\ sess' = [sess EXCEPT ![s] = n]
              /\ n.pc = sess[s].pc /\ n.op = sess[s].op /\ n.arg = sess[s].arg /\ n.prev = sess[s].prev
              /\ n.tx = "none" /\ n.buf = {} /\ n.raced = sess[s].raced
<1>1. PICK m \in Session : m = sess[s]
  BY Zenon DEF TypeOK
<1>2. PICK n : n = [m EXCEPT !.tx = "none", !.buf = {}, !.clean = TRUE]
  OBVIOUS
<1>3. /\ n \in Session
      /\ n.pc = m.pc /\ n.op = m.op /\ n.arg = m.arg /\ n.prev = m.prev
      /\ n.tx = "none" /\ n.buf = {} /\ n.raced = m.raced
  BY <1>2, Zenon DEF Session
<1>4. sess' = [sess EXCEPT ![s] = n]
  BY <1>1, <1>2, Zenon DEF TypeOK, Session
<1> QED
  BY <1>1, <1>3, <1>4, Zenon

LEMMA RollbackFields ==
    ASSUME TypeOK, NEW s \in Sessions, Rollback(s)
    PROVE  \E n \in Session, k \in Connection :
              /\ Ordinary(s, n, k) /\ Neat /\ Apart(s, n) /\ Rowless
              /\ sess[s].pc = "idle"
              /\ n.pc = "idle" /\ n.tx = "none" /\ n.buf = {} /\ n.raced = sess[s].raced
              /\ k = conn[s]
              /\ pool'.txns = pool.txns \ {s} /\ pool'.orphan = pool.orphan
              /\ hist'.gone = hist.gone \union Discarded(s)
<1>1. PICK n \in Session :
              /\ sess' = [sess EXCEPT ![s] = n]
              /\ n.pc = sess[s].pc /\ n.op = sess[s].op /\ n.arg = sess[s].arg /\ n.prev = sess[s].prev
              /\ n.tx = "none" /\ n.buf = {} /\ n.raced = sess[s].raced
  BY FinishFields, Zenon DEF Rollback
<1>2. PICK k \in Connection : k = conn[s] /\ conn' = [conn EXCEPT ![s] = k]
  BY Zenon DEF Rollback, TypeOK
<1>3. /\ pool' \in [db : Nat, txns : SUBSET Sessions, orphan : BOOLEAN]
      /\ pool'.db = pool.db /\ pool'.txns = pool.txns \ {s} /\ pool'.orphan = pool.orphan
  BY Zenon DEF Rollback, TypeOK, Shared
<1>4. /\ hist' \in [kept : SUBSET Nat, gone : SUBSET Nat, astray : BOOLEAN, odd : BOOLEAN,
                         raced : BOOLEAN]
      /\ hist'.kept = hist.kept /\ hist'.gone = hist.gone \union Discarded(s)
      /\ hist'.raced = hist.raced /\ hist'.astray = hist.astray /\ hist'.odd = hist.odd
  BY DiscardFields, Zenon DEF Rollback
<1>5. UNCHANGED <<duck, prov, cats, backup, left>> /\ sess[s].pc = "idle"
  BY Zenon DEF Rollback
<1>6. Shared' /\ left.faults \in Nat
  BY <1>3, <1>4, <1>5, Zenon DEF TypeOK, Shared
<1>7. "idle" \notin CreatePCs \union RestartPCs \union BackupPCs
  BY Zenon DEF CreatePCs, RestartPCs, BackupPCs
<1>8. Ordinary(s, n, k)
  BY <1>1, <1>2, <1>3, <1>5, <1>6, <1>7 DEF Ordinary
<1>9. Neat
  <2>1. /\ k.cat \in {conn[s].cat, Default} /\ n.prev \in {sess[s].prev, Default}
        /\ sess[s].pc \notin CreatePCs /\ n.pc \notin CreatePCs /\ cats' = cats
        /\ duck'.free = duck.free /\ duck'.gen = duck.gen /\ duck'.closed = duck.closed
    BY <1>1, <1>2, <1>5, <1>7, Zenon
  <2> QED
    BY <1>1, <1>2, <1>4, <2>1, NeatStep, Zenon
<1>10. Apart(s, n)
  BY <1>1, <1>4, <1>5, <1>7, Zenon DEF Apart
<1> QED
  BY <1>1, <1>2, <1>3, <1>4, <1>5, <1>8, <1>9, <1>10, Zenon DEF Rowless

\* What CommitTransaction writes, and what it promises.
Written(s) == IF sess[s].tx = "open" THEN sess[s].buf ELSE {}
Promised(s) == IF sess[s].tx = "open" /\ Clean(s) THEN sess[s].buf ELSE {}

LEMMA CommitFields ==
    ASSUME TypeOK, NEW s \in Sessions, CommitTransaction(s)
    PROVE  \E n \in Session, k \in Connection :
              /\ Ordinary(s, n, k) /\ Neat
              /\ sess[s].pc = "idle"
              /\ n.pc = "idle" /\ n.op = sess[s].op
              /\ n.tx = "none" /\ n.buf = {} /\ n.raced = sess[s].raced
              /\ k = conn[s]
              /\ pool'.txns = pool.txns \ {s} /\ pool'.orphan = pool.orphan
              /\ duck' \in Commits(TxGen(s), Written(s))
              /\ hist'.kept = hist.kept \union Promised(s)
              /\ hist'.gone = hist.gone /\ hist'.raced = hist.raced /\ backup' = backup /\ left' = left
<1>1. PICK n \in Session :
              /\ sess' = [sess EXCEPT ![s] = n]
              /\ n.pc = sess[s].pc /\ n.op = sess[s].op /\ n.arg = sess[s].arg /\ n.prev = sess[s].prev
              /\ n.tx = "none" /\ n.buf = {} /\ n.raced = sess[s].raced
  BY FinishFields, Zenon DEF CommitTransaction
<1>2. PICK k \in Connection : k = conn[s] /\ conn' = [conn EXCEPT ![s] = k]
  BY Zenon DEF CommitTransaction, TypeOK
<1>3. /\ pool' \in [db : Nat, txns : SUBSET Sessions, orphan : BOOLEAN]
      /\ pool'.db = pool.db /\ pool'.txns = pool.txns \ {s} /\ pool'.orphan = pool.orphan
  BY Zenon DEF CommitTransaction, TypeOK, Shared
<1>4. sess[s].buf \in SUBSET Nat /\ hist.kept \in SUBSET Nat /\ TxGen(s) \in Nat
  BY Zenon DEF TypeOK, Shared, Session, Connection, TxGen
<1>5. /\ hist' \in [kept : SUBSET Nat, gone : SUBSET Nat, astray : BOOLEAN, odd : BOOLEAN,
                         raced : BOOLEAN]
      /\ hist'.kept = hist.kept \union Promised(s) /\ hist'.gone = hist.gone
      /\ hist'.raced = hist.raced /\ hist'.astray = hist.astray /\ hist'.odd = hist.odd
  <2>1. PICK g \in SUBSET Nat : g = hist.kept \union Promised(s)
    BY <1>4, Zenon DEF Promised
  <2>2. hist' = [hist EXCEPT !.kept = g]
    <3>1. hist = [hist EXCEPT !.kept = hist.kept]
      BY Zenon DEF TypeOK, Shared
    <3>2. CASE sess[s].tx = "open" /\ Clean(s)
      BY <2>1, <3>2, Zenon DEF Promised, CommitTransaction
    <3>3. CASE ~(sess[s].tx = "open" /\ Clean(s))
      <4>1. hist' = hist /\ g = hist.kept
        BY <1>4, <2>1, <3>3, Zenon DEF Promised, CommitTransaction
      <4> QED
        BY <3>1, <4>1, Zenon
    <3> QED
      BY <3>2, <3>3, Zenon
  <2> QED
    BY <2>1, <2>2, Zenon DEF TypeOK, Shared
<1>6. PICK W \in SUBSET Nat : W = Written(s)
  BY <1>4, Zenon DEF Written
<1>7. duck' \in Commits(TxGen(s), W)
  BY <1>6, Zenon DEF Written, CommitTransaction, Commits
<1>8. /\ duck' \in Instances
      /\ duck'.gen = duck.gen /\ duck'.closed = duck.closed /\ duck'.readonly = duck.readonly
      /\ duck'.free = duck.free /\ Len(duck'.inst) = Len(duck.inst)
  <2>1. Committed(duck', TxGen(s), W)
    BY <1>4, <1>7, CommitsFields, Zenon
  <2> QED
    BY <2>1, Zenon DEF Committed
<1>9. UNCHANGED <<prov, cats, backup, left>> /\ sess[s].pc = "idle"
  BY Zenon DEF CommitTransaction
<1>10. Shared' /\ left.faults \in Nat
  BY <1>3, <1>5, <1>8, <1>9, Zenon DEF TypeOK, Shared
<1>11. "idle" \notin CreatePCs \union RestartPCs
  BY Zenon DEF CreatePCs, RestartPCs
<1>12. Ordinary(s, n, k)
  BY <1>1, <1>2, <1>3, <1>8, <1>9, <1>10, <1>11 DEF Ordinary
<1>13. Neat
  <2>1. /\ k.cat \in {conn[s].cat, Default} /\ n.prev \in {sess[s].prev, Default}
        /\ sess[s].pc \notin CreatePCs /\ n.pc \notin CreatePCs /\ cats' = cats
    BY <1>1, <1>2, <1>9, <1>11, Zenon
  <2> QED
    BY <1>1, <1>2, <1>5, <1>8, <2>1, NeatStep, Zenon
<1> QED
  BY <1>1, <1>2, <1>3, <1>5, <1>6, <1>7, <1>9, <1>12, <1>13, Zenon

InTxn(s) == sess[s].tx = "open" /\ s \in pool.txns

\* The row that executeDML writes, where it goes, and whether it is promised at once.
LEMMA DMLFields ==
    ASSUME TypeOK, NEW s \in Sessions, executeDML(s)
    PROVE  \E n \in Session, k \in Connection :
              /\ Ordinary(s, n, k) /\ Neat
              /\ sess[s].pc = "run" /\ conn[s].open /\ conn[s].gen \notin duck.readonly
              /\ n.pc = "idle" /\ n.op = "none" /\ n.tx = sess[s].tx /\ n.raced = sess[s].raced
              /\ n.buf = sess[s].buf \union (IF InTxn(s) THEN {left.writes} ELSE {})
              /\ n.clean => sess[s].clean \/ sess[s].tx = "none"
              /\ k.st = conn[s].st /\ k.gen = conn[s].gen /\ k.open = conn[s].open
              /\ pool' = pool /\ left.writes > 0 /\ left'.writes = left.writes - 1
              /\ duck' \in Commits(conn[s].gen, IF InTxn(s) THEN {} ELSE {left.writes})
              /\ hist'.kept = hist.kept \union
                    (IF Clean(s) /\ sess[s].tx = "none" THEN {left.writes} ELSE {})
              /\ hist'.gone = hist.gone /\ hist'.raced = hist.raced /\ backup' = backup
<1>1. /\ left' \in [ops : Nat, writes : Nat, faults : Nat] /\ left'.faults <= left.faults
      /\ left.writes > 0 /\ left'.writes = left.writes - 1 /\ {left.writes} \in SUBSET Nat
  <2>1. /\ left \in [ops : Nat, writes : Nat, faults : Nat] /\ left.writes > 0
        /\ left' = [left EXCEPT !.writes = @ - 1]
    BY Zenon DEF TypeOK, Shared, executeDML
  <2>2. left.writes - 1 \in Nat /\ left.faults <= left.faults
    BY <2>1
  <2> QED
    BY <2>1, <2>2, Zenon
<1>2. PICK k \in Connection :
         /\ k = GetConnForSchema(s, Wanted(s))
         /\ k.st = conn[s].st /\ k.gen = conn[s].gen /\ k.open = conn[s].open /\ k.cat = conn[s].cat
         /\ Wanted(s) = None \/ k.schema = Wanted(s)
  BY SchemaFields, WantedIsArg, Zenon
<1>3. Wanted(s) = sess[s].db
  BY Zenon DEF executeDML, Wanted
<1>4. conn' = [conn EXCEPT ![s] = k]
  BY <1>2, Zenon DEF executeDML
<1>5. PICK m \in Session :
              /\ Ended(s) = [sess EXCEPT ![s] = m]
              /\ m.pc = "idle" /\ m.op = "none" /\ m.prev = Default
              /\ Carries(m, sess[s])
              /\ m.clean => sess[s].clean \/ sess[s].tx = "none"
  BY EndedFields, Zenon
<1>6. PICK B \in SUBSET Nat :
         B = sess[s].buf \union (IF InTxn(s) THEN {left.writes} ELSE {})
  BY <1>1, Zenon DEF TypeOK, Session
<1>7. PICK n : n = [m EXCEPT !.buf = B]
  BY Zenon
<1>8. /\ n \in Session /\ n.pc = "idle" /\ n.op = "none" /\ n.prev = Default
      /\ n.tx = sess[s].tx /\ n.raced = sess[s].raced /\ n.buf = B /\ n.clean = m.clean
  BY <1>5, <1>7, Zenon DEF Session, Carries
<1>9. sess' = [sess EXCEPT ![s] = n]
  <2>1. m = [m EXCEPT !.buf = m.buf] /\ m.buf = sess[s].buf
    BY <1>5, Zenon DEF Session, Carries
  <2>2. CASE InTxn(s)
    <3>1. Ended(s)[s] = m
      BY <1>5, Zenon DEF TypeOK
    <3>2. sess' = [Ended(s) EXCEPT ![s].buf = B]
      BY <1>6, <2>1, <2>2, <3>1, Zenon DEF executeDML, InTxn
    <3> QED
      BY <1>5, <1>7, <3>1, <3>2, Zenon DEF TypeOK
  <2>3. CASE ~InTxn(s)
    <3>1. sess' = Ended(s) /\ B = sess[s].buf
      BY <1>6, <2>3, Zenon DEF executeDML, InTxn
    <3> QED
      BY <1>5, <1>7, <2>1, <3>1, Zenon
  <2> QED
    BY <2>2, <2>3, Zenon
<1>10. PICK W \in SUBSET Nat : W = IF InTxn(s) THEN {} ELSE {left.writes}
  BY <1>1, Zenon
<1>11. duck' \in Commits(conn[s].gen, W)
  <2>1. CASE InTxn(s)
    BY <1>10, <2>1, Zenon DEF executeDML, Commits, InTxn
  <2>2. CASE ~InTxn(s)
    BY <1>2, <1>10, <2>2, Zenon DEF executeDML, InTxn
  <2> QED
    BY <2>1, <2>2, Zenon
<1>12. conn[s].gen \in Nat
  BY Zenon DEF TypeOK, Connection
<1>13. /\ duck' \in Instances
       /\ duck'.gen = duck.gen /\ duck'.closed = duck.closed /\ duck'.readonly = duck.readonly
       /\ duck'.free = duck.free /\ Len(duck'.inst) = Len(duck.inst)
  <2>1. Committed(duck', conn[s].gen, W)
    BY <1>11, <1>12, CommitsFields, Zenon
  <2> QED
    BY <2>1, Zenon DEF Committed
<1>14. /\ hist' \in [kept : SUBSET Nat, gone : SUBSET Nat, astray : BOOLEAN, odd : BOOLEAN,
                         raced : BOOLEAN]
       /\ hist'.kept = hist.kept \union (IF Clean(s) /\ sess[s].tx = "none" THEN {left.writes} ELSE {})
       /\ hist'.gone = hist.gone /\ hist'.raced = hist.raced /\ hist'.odd = hist.odd
       /\ hist'.astray => hist.astray \/ conn[s].cat # Default
  <2>1. PICK b \in BOOLEAN :
           b = (hist.astray \/ k.cat # Default \/ (sess[s].db # None /\ k.schema # sess[s].db))
    BY Zenon
  <2>2. b => hist.astray \/ conn[s].cat # Default
    BY <1>2, <1>3, <2>1, Zenon
  <2>3. PICK g \in SUBSET Nat :
           g = hist.kept \union (IF Clean(s) /\ sess[s].tx = "none" THEN {left.writes} ELSE {})
    BY <1>1, Zenon DEF TypeOK, Shared
  <2>4. PICK h : h = [hist EXCEPT !.astray = b]
    BY Zenon
  <2>5. /\ h \in [kept : SUBSET Nat, gone : SUBSET Nat, astray : BOOLEAN, odd : BOOLEAN,
                  raced : BOOLEAN]
        /\ h.kept = hist.kept /\ h.gone = hist.gone /\ h.raced = hist.raced /\ h.odd = hist.odd
        /\ h.astray = b
    BY <2>4, Zenon DEF TypeOK, Shared
  <2>6. hist' = IF ~InTxn(s) /\ Clean(s) /\ sess[s].tx = "none"
                THEN [h EXCEPT !.kept = @ \union {left.writes}] ELSE h
    BY <1>2, <2>1, <2>4, Zenon DEF executeDML, InTxn
  <2>7. CASE Clean(s) /\ sess[s].tx = "none"
    <3>1. hist' = [h EXCEPT !.kept = g]
      BY <2>3, <2>5, <2>6, <2>7, Zenon DEF InTxn
    <3> QED
      BY <2>2, <2>3, <2>5, <3>1, Zenon
  <2>8. CASE ~(Clean(s) /\ sess[s].tx = "none")
    <3>1. hist' = h /\ g = hist.kept
      BY <2>3, <2>6, <2>8, Zenon
    <3> QED
      BY <2>2, <2>3, <2>5, <3>1, Zenon
  <2> QED
    BY <2>7, <2>8, Zenon
<1>15. /\ UNCHANGED <<prov, cats, pool, backup>>
       /\ sess[s].pc = "run" /\ conn[s].open /\ conn[s].gen \notin duck.readonly
  BY Zenon DEF executeDML, Build, Usable, Writable
<1>16. Shared'
  BY <1>1, <1>13, <1>14, <1>15, Zenon DEF TypeOK, Shared
<1>17. {"idle", "run"} \intersect (CreatePCs \union RestartPCs) = {}
  BY Zenon DEF CreatePCs, RestartPCs
<1>18. Ordinary(s, n, k)
  BY <1>1, <1>4, <1>8, <1>9, <1>13, <1>15, <1>16, <1>17, Zenon DEF Ordinary
<1>19. Neat
  <2>1. /\ k.cat \in {conn[s].cat, Default} /\ n.prev \in {sess[s].prev, Default}
        /\ sess[s].pc \notin CreatePCs /\ n.pc \notin CreatePCs /\ cats' = cats
    BY <1>2, <1>8, <1>15, <1>17, Zenon
  <2> QED
    BY <1>4, <1>8, <1>9, <1>13, <1>14, <2>1, NeatStep, Zenon
<1> QED
  BY <1>1, <1>2, <1>5, <1>6, <1>8, <1>10, <1>11, <1>14, <1>15, <1>18, <1>19, Zenon

LEMMA CheckpointFields ==
    ASSUME TypeOK, NEW s \in Sessions, doCheckpoint(s), conn[s].open /\ CanCheckpoint(s)
    PROVE  \E n \in Session, k \in Connection :
              /\ Ordinary(s, n, k) /\ Neat
              /\ sess[s].pc = "checkpoint"
              /\ n.pc = "close" /\ n.op = sess[s].op /\ Carries(n, sess[s]) /\ n.clean = sess[s].clean
              /\ k = conn[s]
              /\ duck'.inst = duck.inst /\ duck'.file = duck.file \union duck.wal /\ duck'.wal = {}
              /\ UNCHANGED <<pool, backup, hist, left>>
<1>0. "close" \in PCs
  BY Zenon DEF PCs, BackupPCs
<1>1. PICK n \in Session :
              /\ Goto(s, "close") = [sess EXCEPT ![s] = n]
              /\ n.pc = "close" /\ n.op = sess[s].op /\ n.arg = sess[s].arg /\ n.prev = sess[s].prev
              /\ Carries(n, sess[s]) /\ n.db = sess[s].db /\ n.clean = sess[s].clean
  BY <1>0, GotoFields, Zenon
<1>2. sess' = [sess EXCEPT ![s] = n] /\ sess[s].pc = "checkpoint"
  BY <1>1, Zenon DEF doCheckpoint
<1>3. PICK k \in Connection : k = conn[s] /\ conn' = [conn EXCEPT ![s] = k]
  BY Zenon DEF doCheckpoint, TypeOK
<1>4. UNCHANGED <<prov, cats, pool, backup, hist, left>> /\ duck' = Checkpointed(duck)
  BY Zenon DEF doCheckpoint
<1>5. /\ duck' \in Instances
      /\ duck'.gen = duck.gen /\ duck'.closed = duck.closed /\ duck'.readonly = duck.readonly
      /\ duck'.free = duck.free /\ duck'.inst = duck.inst
      /\ duck'.file = duck.file \union duck.wal /\ duck'.wal = {}
  BY <1>4, Zenon DEF Checkpointed, TypeOK, Shared, Instances
<1>6. Shared' /\ left.faults \in Nat
  BY <1>4, <1>5, Zenon DEF TypeOK, Shared
<1>7. {"checkpoint", "close"} \intersect (CreatePCs \union RestartPCs) = {}
  BY Zenon DEF CreatePCs, RestartPCs
<1>8. Ordinary(s, n, k)
  BY <1>1, <1>2, <1>3, <1>4, <1>5, <1>6, <1>7 DEF Ordinary
<1>9. Neat
  <2>1. /\ k.cat \in {conn[s].cat, Default} /\ n.prev \in {sess[s].prev, Default}
        /\ sess[s].pc \notin CreatePCs /\ n.pc \notin CreatePCs /\ cats' = cats /\ hist' = hist
    BY <1>1, <1>2, <1>3, <1>4, <1>7, Zenon
  <2> QED
    BY <1>2, <1>3, <1>5, <2>1, NeatStep, Zenon
<1> QED
  BY <1>1, <1>2, <1>3, <1>4, <1>5, <1>8, <1>9, Zenon

-----------------------------------------------------------------------------
(* What an ordinary step keeps *)

LEMMA OrdinaryOthers ==
    ASSUME TypeOK, NEW s \in Sessions, NEW n, NEW k, Ordinary(s, n, k)
    PROVE  /\ sess'[s] = n /\ conn'[s] = k
           /\ \A t \in Sessions : t # s => sess'[t] = sess[t] /\ conn'[t] = conn[t]
           /\ \A l \in RestartPCs : \A t \in Sessions : sess'[t].pc = l <=> sess[t].pc = l
           /\ Restarting' <=> Restarting
<1>1. /\ sess'[s] = n /\ conn'[s] = k
      /\ \A t \in Sessions : t # s => sess'[t] = sess[t] /\ conn'[t] = conn[t]
  BY Zenon DEF Ordinary, TypeOK
<1>2. ASSUME NEW l \in RestartPCs, NEW t \in Sessions
      PROVE  sess'[t].pc = l <=> sess[t].pc = l
  BY <1>1, Zenon DEF Ordinary
<1>3. Restarting' <=> Restarting
  BY <1>2, Zenon DEF Restarting, RestartPCs
<1> QED
  BY <1>1, <1>2, <1>3, Zenon

LEMMA OrdinaryType ==
    ASSUME TypeOK, NEW s \in Sessions, NEW n, NEW k, Ordinary(s, n, k)
    PROVE  TypeOK'
<1>1. Shared' /\ conn' \in [Sessions -> Connection] /\ sess' \in [Sessions -> Session]
  BY Zenon DEF Ordinary, TypeOK
<1>2. ASSUME NEW t \in Sessions
      PROVE  sess'[t].pc \in {"attach", "detach", "remove"} \union CreatePCs => sess'[t].arg \in Catalogs
  BY OrdinaryOthers DEF Ordinary, TypeOK
<1> QED
  BY <1>1, <1>2, Zenon DEF TypeOK

\* The connection of s and its transaction, after a step in which s becomes n.
ConnAt(s, n, k) ==
    /\ k.st # "none" => k.gen \in 1..duck.gen
    /\ k.st = "none" => ~k.open
    /\ k.st = "taken" <=> n.pc = "store"
    /\ n.pc \in {"take", "store"} => k.st # "stored"
    /\ n.tx = "open" /\ ~n.raced => k.st = "stored" /\ k.open /\ s \in pool'.txns
    /\ k.st = "stored" /\ k.open /\ ~n.raced =>
          \/ k.gen = duck.gen
          \/ \E p \in Sessions : PC(p) = "reset"
    /\ \A p \in Sessions : PC(p) = "swap" /\ k.st = "stored" /\ k.open => n.raced
    /\ Restarting /\ n.clean => n.pc = "idle" /\ n.tx = "none"
    /\ n.buf # {} /\ ~n.raced => n.tx = "open" /\ k.gen \notin duck.readonly

-----------------------------------------------------------------------------
(* The steps of a restart *)

LEMMA OneRestart ==
    ASSUME TypeOK, Restarts
    PROVE  /\ prov.mu = None => \A t \in Sessions : PC(t) \notin RestartPCs
           /\ \A s, t \in Sessions : PC(s) \in RestartPCs /\ PC(t) \in RestartPCs => s = t
BY StorageAssumption, Zenon DEF Restarts

LEMMA ArgStays ==
    ASSUME TypeOK, sess' \in [Sessions -> Session], conn' \in [Sessions -> Connection], Shared',
           \A t \in Sessions : \/ sess'[t].pc = sess[t].pc /\ sess'[t].arg = sess[t].arg
                               \/ sess'[t].pc \in {"idle", "load", "upload"} \union RestartPCs
    PROVE  TypeOK'
<1>1. ASSUME NEW t \in Sessions, sess'[t].pc \in {"attach", "detach", "remove"} \union CreatePCs
      PROVE  sess'[t].arg \in Catalogs
  <2>1. sess'[t].pc \notin {"idle", "load", "upload"} \union RestartPCs
    BY <1>1, Zenon DEF CreatePCs, RestartPCs
  <2> QED
    BY <1>1, <2>1, Zenon DEF TypeOK
<1> QED
  BY <1>1, Zenon DEF TypeOK

LEMMA ProviderCloseFields ==
    ASSUME TypeOK, NEW s \in Sessions, ProviderClose(s)
    PROVE  /\ TypeOK' /\ sess[s].pc = "close"
           /\ \A t \in Sessions :
                 /\ sess'[t].pc = (IF t = s THEN "open" ELSE sess[t].pc)
                 /\ sess'[t].op = sess[t].op /\ sess'[t].arg = sess[t].arg /\ sess'[t].prev = sess[t].prev
                 /\ Carries(sess'[t], sess[t])
                 /\ sess'[t].clean <=> sess[t].pc = "idle" /\ sess[t].tx = "none"
           /\ duck'.gen = duck.gen /\ duck'.readonly = duck.readonly /\ duck'.inst = duck.inst
           /\ duck'.closed = duck.closed \union {duck.gen} /\ duck'.free = <<>>
           /\ duck'.file \union duck'.wal = duck.file \union duck.wal
           /\ \/ duck'.file = duck.file
              \/ /\ duck.file \subseteq duck'.file
                 /\ duck.gen \notin duck.readonly
           /\ prov.mu = None /\ prov'.mu = s
           /\ UNCHANGED <<cats, pool, conn, backup, left>>
           /\ hist'.kept = hist.kept /\ hist'.gone = hist.gone /\ hist'.raced = hist.raced
           /\ hist'.astray = hist.astray /\ hist'.odd = (hist.odd \/ Creating)
<1>1. ASSUME NEW t \in Sessions
      PROVE  /\ sess'[t] \in Session
             /\ sess'[t].pc = (IF t = s THEN "open" ELSE sess[t].pc)
             /\ sess'[t].op = sess[t].op /\ sess'[t].arg = sess[t].arg /\ sess'[t].prev = sess[t].prev
             /\ Carries(sess'[t], sess[t])
             /\ sess'[t].clean <=> sess[t].pc = "idle" /\ sess[t].tx = "none"
  <2>1. PICK m \in Session : m = sess[t]
    BY Zenon DEF TypeOK
  <2>2. PICK b \in BOOLEAN : b = (m.pc = "idle" /\ m.tx = "none")
    BY Zenon
  <2>3. PICK l \in PCs : l = IF t = s THEN "open" ELSE m.pc
    BY Zenon DEF Session, PCs, BackupPCs, RestartPCs
  <2>4. PICK n : n = [m EXCEPT !.clean = b, !.pc = l]
    OBVIOUS
  <2>5. /\ n \in Session
        /\ n.pc = l /\ n.op = m.op /\ n.arg = m.arg /\ n.prev = m.prev
        /\ n.tx = m.tx /\ n.buf = m.buf /\ n.raced = m.raced /\ n.clean = b
    BY <2>4, Zenon DEF Session
  <2>6. sess'[t] = n
    BY <2>1, <2>2, <2>3, <2>4, Zenon DEF ProviderClose, Session
  <2> QED
    BY <2>1, <2>2, <2>3, <2>5, <2>6, Zenon DEF Carries
<1>2. sess' \in [Sessions -> Session]
  <2>1. sess' = [t \in Sessions |-> sess'[t]]
    BY Zenon DEF ProviderClose
  <2> QED
    BY <1>1, <2>1, Zenon
<1>3. PICK d \in {duck, Checkpointed(duck)} :
         /\ d = duck \/ duck.gen \notin duck.readonly
         /\ duck' = [d EXCEPT !.closed = @ \union {duck.gen}, !.free = <<>>]
  BY Zenon DEF ProviderClose
<1>4. /\ d \in Instances
      /\ d.gen = duck.gen /\ d.closed = duck.closed /\ d.readonly = duck.readonly /\ d.inst = duck.inst
      /\ d.file \union d.wal = duck.file \union duck.wal
      /\ \/ d.file = duck.file
         \/ duck.file \subseteq d.file /\ duck.gen \notin duck.readonly
  <2>1. duck \in Instances
    BY Zenon DEF TypeOK, Shared
  <2>2. CASE d = duck
    BY <2>1, <2>2, Zenon
  <2>3. CASE d = Checkpointed(duck) /\ duck.gen \notin duck.readonly
    BY <2>1, <2>3, Zenon DEF Checkpointed, Instances
  <2> QED
    BY <1>3, <2>2, <2>3, Zenon
<1>5. /\ duck' \in Instances
      /\ duck'.gen = d.gen /\ duck'.readonly = d.readonly /\ duck'.inst = d.inst
      /\ duck'.closed = d.closed \union {duck.gen} /\ duck'.free = <<>>
      /\ duck'.file = d.file /\ duck'.wal = d.wal
  <2>1. d.closed \union {duck.gen} \in SUBSET Nat /\ <<>> \in Seq(CatNames)
    BY <1>4 DEF Instances
  <2> QED
    BY <1>3, <1>4, <2>1, Zenon DEF Instances
<1>6. PICK b \in BOOLEAN : b = Creating
  BY Zenon DEF Creating
<1>7. hist' = [hist EXCEPT !.odd = @ \/ b]
  BY <1>6, Zenon DEF ProviderClose
<1>8. /\ hist' \in [kept : SUBSET Nat, gone : SUBSET Nat, astray : BOOLEAN, odd : BOOLEAN,
                         raced : BOOLEAN]
      /\ hist'.kept = hist.kept /\ hist'.gone = hist.gone /\ hist'.raced = hist.raced
      /\ hist'.astray = hist.astray /\ hist'.odd = (hist.odd \/ b)
  BY <1>7, OddFields, Zenon
<1>9. /\ UNCHANGED <<cats, pool, conn, backup, left>> /\ sess[s].pc = "close" /\ prov.mu = None
      /\ prov' \in [mu : Sessions \union {None}, readers : SUBSET Sessions] /\ prov'.mu = s
  BY Zenon DEF ProviderClose, TypeOK, Shared
<1>10. Shared'
  BY <1>5, <1>8, <1>9, Zenon DEF TypeOK, Shared
<1>11. TypeOK'
  BY <1>1, <1>2, <1>9, <1>10, ArgStays, Zenon DEF TypeOK, RestartPCs
<1> QED
  BY <1>1, <1>4, <1>5, <1>6, <1>8, <1>9, <1>11, Zenon

LEMMA OpenedFields ==
    ASSUME TypeOK, NEW ro \in BOOLEAN
    PROVE  /\ Opened(ro) \in Instances
           /\ Opened(ro).gen = duck.gen + 1 /\ Opened(ro).closed = duck.closed /\ Opened(ro).free = <<>>
           /\ Opened(ro).readonly = duck.readonly \union (IF ro THEN {duck.gen + 1} ELSE {})
           /\ Len(Opened(ro).inst) = Len(duck.inst) + 1
           /\ Opened(ro).inst[Len(duck.inst) + 1] = duck.file \union duck.wal
           /\ Opened(ro).file = duck.file /\ Opened(ro).wal = duck.wal
<1>1. duck \in Instances /\ duck.gen + 1 \in Nat /\ duck.inst \in Seq(SUBSET Nat)
  BY DEF TypeOK, Shared, Instances
<1>2. PICK F \in SUBSET Nat : F = duck.file \union duck.wal
  BY <1>1, Zenon DEF Instances
<1>3. PICK q : q = Append(duck.inst, F)
  BY Zenon
<1>4. q \in Seq(SUBSET Nat) /\ Len(q) = Len(duck.inst) + 1 /\ q[Len(duck.inst) + 1] = F
  BY <1>1, <1>2, <1>3, AppendAt
<1>5. PICK R \in SUBSET Nat : R = duck.readonly \union (IF ro THEN {duck.gen + 1} ELSE {})
  BY <1>1, Zenon DEF Instances
<1>6. PICK d : d = [duck EXCEPT !.gen = duck.gen + 1, !.free = <<>>, !.inst = q, !.readonly = R]
  OBVIOUS
<1>7. /\ d \in Instances /\ d.gen = duck.gen + 1 /\ d.closed = duck.closed /\ d.free = <<>>
      /\ d.readonly = R /\ d.inst = q /\ d.file = duck.file /\ d.wal = duck.wal
  <2>1. <<>> \in Seq(CatNames)
    OBVIOUS
  <2> QED
    BY <1>1, <1>4, <1>6, <2>1, Zenon DEF Instances
<1>8. R = IF ro THEN duck.readonly \union {duck.gen + 1} ELSE duck.readonly
  BY <1>5, Zenon
<1>9. Opened(ro) = d
  BY <1>2, <1>3, <1>6, <1>8, Zenon DEF Opened
<1> QED
  BY <1>2, <1>4, <1>5, <1>7, <1>9, Zenon

\* The new connector is in place.
LEMMA OpenFields ==
    ASSUME TypeOK, NEW s \in Sessions, ProviderOpen(s), left' = left
    PROVE  /\ TypeOK' /\ sess[s].pc = "open"
           /\ \A t \in Sessions : t # s => sess'[t] = sess[t]
           /\ sess'[s].pc = "reset" /\ sess'[s].op = sess[s].op /\ sess'[s].arg = sess[s].arg
           /\ sess'[s].prev = sess[s].prev /\ Carries(sess'[s], sess[s]) /\ sess'[s].clean = sess[s].clean
           /\ duck'.gen = duck.gen + 1 /\ duck'.closed = duck.closed /\ duck'.free = <<>>
           /\ duck'.readonly = duck.readonly \union (IF sess[s].op = "backup" THEN {duck.gen + 1} ELSE {})
           /\ Len(duck'.inst) = Len(duck.inst) + 1
           /\ duck'.inst[Len(duck.inst) + 1] = duck.file \union duck.wal
           /\ duck'.file = duck.file /\ duck'.wal = duck.wal
           /\ \A c \in Catalogs : /\ cats'[c].file = cats[c].file /\ cats'[c].inits = cats[c].inits
                                  /\ ~cats'[c].attached
           /\ UNCHANGED <<prov, pool, conn, backup, hist>>
<1>1. /\ duck' = Opened(sess[s].op = "backup")
      /\ cats' = [c \in Catalogs |-> [cats[c] EXCEPT !.attached = FALSE]]
      /\ sess' = Goto(s, "reset") /\ prov' = prov
  <2>1. PICK f \in Nat : f = left.faults /\ left \in [ops : Nat, writes : Nat, faults : Nat]
    BY Zenon DEF TypeOK, Shared
  <2>2. left' # [left EXCEPT !.faults = @ - 1]
    <3>1. SUFFICES ASSUME left' = [left EXCEPT !.faults = @ - 1] PROVE FALSE
      OBVIOUS
    <3>2. left'.faults = f - 1 /\ left'.faults = f
      BY <2>1, <3>1, Zenon
    <3> QED
      BY <3>2
  <2> QED
    BY <2>2, Zenon DEF ProviderOpen
<1>2. UNCHANGED <<pool, conn, backup, hist>> /\ sess[s].pc = "open"
  BY Zenon DEF ProviderOpen
<1>3. PICK ro \in BOOLEAN : ro = (sess[s].op = "backup")
  BY Zenon
<1>4. /\ duck' \in Instances
      /\ duck'.gen = duck.gen + 1 /\ duck'.closed = duck.closed /\ duck'.free = <<>>
      /\ duck'.readonly = duck.readonly \union (IF sess[s].op = "backup" THEN {duck.gen + 1} ELSE {})
      /\ Len(duck'.inst) = Len(duck.inst) + 1
      /\ duck'.inst[Len(duck.inst) + 1] = duck.file \union duck.wal
      /\ duck'.file = duck.file /\ duck'.wal = duck.wal
  BY <1>1, <1>3, OpenedFields, Zenon
<1>5. PICK n \in Session :
              /\ Goto(s, "reset") = [sess EXCEPT ![s] = n]
              /\ n.pc = "reset" /\ n.op = sess[s].op /\ n.arg = sess[s].arg /\ n.prev = sess[s].prev
              /\ Carries(n, sess[s]) /\ n.db = sess[s].db /\ n.clean = sess[s].clean
  <2>1. "reset" \in PCs
    BY Zenon DEF PCs, BackupPCs, RestartPCs
  <2> QED
    BY <2>1, GotoFields, Zenon
<1>6. sess' = [sess EXCEPT ![s] = n] /\ sess'[s] = n /\ \A t \in Sessions : t # s => sess'[t] = sess[t]
  BY <1>1, <1>5, Zenon DEF TypeOK
<1>7. ASSUME NEW c \in Catalogs
      PROVE  /\ cats'[c] \in Catalog
             /\ cats'[c].file = cats[c].file /\ cats'[c].inits = cats[c].inits /\ ~cats'[c].attached
  <2>1. PICK k \in Catalog : k = cats[c]
    BY Zenon DEF TypeOK, Shared
  <2> QED
    BY <1>1, <2>1, Zenon DEF Catalog
<1>8. cats' \in [Catalogs -> Catalog]
  <2>1. cats' = [c \in Catalogs |-> cats'[c]]
    BY <1>1, Zenon
  <2> QED
    BY <1>7, <2>1, Zenon
<1>9. Shared' /\ conn' \in [Sessions -> Connection] /\ sess' \in [Sessions -> Session]
  BY <1>1, <1>2, <1>4, <1>6, <1>8, Zenon DEF TypeOK, Shared
<1>10. TypeOK'
  BY <1>5, <1>6, <1>9, ArgStays, Zenon DEF RestartPCs
<1> QED
  BY <1>1, <1>2, <1>4, <1>5, <1>6, <1>7, <1>10, Zenon

\* The new connector cannot be opened: the restart ends there.
LEMMA OpenFailsFields ==
    ASSUME TypeOK, NEW s \in Sessions, ProviderOpen(s), left' # left
    PROVE  /\ TypeOK' /\ sess[s].pc = "open"
           /\ \A t \in Sessions : t # s => sess'[t] = sess[t]
           /\ sess'[s].pc = "idle" /\ sess'[s].op = "none" /\ sess'[s].prev = Default
           /\ Carries(sess'[s], sess[s])
           /\ prov'.mu = None /\ left'.writes = left.writes /\ left'.faults < left.faults
           /\ UNCHANGED <<duck, cats, pool, conn, backup, hist>>
<1>1. /\ Fault /\ left' = [left EXCEPT !.faults = @ - 1] /\ sess' = Ended(s)
      /\ prov' = [prov EXCEPT !.mu = None]
      /\ UNCHANGED <<duck, cats, pool, conn, backup, hist>> /\ sess[s].pc = "open"
  BY Zenon DEF ProviderOpen
<1>2. PICK n \in Session :
              /\ Ended(s) = [sess EXCEPT ![s] = n]
              /\ n.pc = "idle" /\ n.op = "none" /\ n.arg = None /\ n.prev = Default
              /\ Carries(n, sess[s]) /\ n.db = sess[s].db
              /\ n.clean => sess[s].clean \/ sess[s].tx = "none"
  BY EndedFields, Zenon
<1>3. sess' \in [Sessions -> Session] /\ sess'[s] = n /\ \A t \in Sessions : t # s => sess'[t] = sess[t]
  BY <1>1, <1>2, Zenon DEF TypeOK
<1>4. /\ left' \in [ops : Nat, writes : Nat, faults : Nat]
      /\ left'.writes = left.writes /\ left'.faults <= left.faults
  BY <1>1, FaultFields, Zenon
<1>5. left'.faults < left.faults
  <2>1. left \in [ops : Nat, writes : Nat, faults : Nat]
    BY Zenon DEF TypeOK, Shared
  <2>2. PICK f \in Nat : f = left.faults
    BY <2>1, Zenon
  <2>3. left'.faults = f - 1
    BY <1>1, <2>1, <2>2, Zenon
  <2> QED
    BY <2>2, <2>3
<1>6. prov' \in [mu : Sessions \union {None}, readers : SUBSET Sessions] /\ prov'.mu = None
  BY <1>1, Zenon DEF TypeOK, Shared
<1>7. Shared' /\ conn' \in [Sessions -> Connection]
  BY <1>1, <1>4, <1>6, Zenon DEF TypeOK, Shared
<1>8. TypeOK'
  BY <1>2, <1>3, <1>7, ArgStays, Zenon
<1> QED
  BY <1>1, <1>2, <1>3, <1>4, <1>5, <1>6, <1>8, Zenon

\* The sessions whose transactions ConnectionPool's Close rolls back.
RolledBack(t) == t \in pool.txns /\ sess[t].tx # "none"

LEMMA PoolCloseFields ==
    ASSUME TypeOK, NEW s \in Sessions, PoolClose(s)
    PROVE  /\ TypeOK' /\ sess[s].pc = "reset"
           /\ \A t \in Sessions :
                 /\ sess'[t].tx = (IF RolledBack(t) THEN "done" ELSE sess[t].tx)
                 /\ sess'[t].buf = (IF RolledBack(t) THEN {} ELSE sess[t].buf)
                 /\ sess'[t].raced = sess[t].raced /\ sess'[t].clean = sess[t].clean
                 /\ sess'[t].prev = sess[t].prev
                 /\ t # s => /\ sess'[t].pc = sess[t].pc /\ sess'[t].op = sess[t].op
                             /\ sess'[t].arg = sess[t].arg
                 /\ conn'[t].st = conn[t].st /\ conn'[t].gen = conn[t].gen /\ conn'[t].cat = conn[t].cat
                 /\ conn'[t].open <=> conn[t].open /\ conn[t].st # "stored"
           /\ IF RollbackErrs THEN sess'[s].pc = "idle" /\ sess'[s].op = "none" /\ prov'.mu = None
              ELSE sess'[s].pc = "swap" /\ sess'[s].op = sess[s].op /\ prov' = prov
           /\ duck'.gen = duck.gen /\ duck'.readonly = duck.readonly /\ duck'.inst = duck.inst
           /\ duck'.closed = duck.closed \union {pool.db} /\ duck'.free = duck.free
           /\ duck'.file = duck.file /\ duck'.wal = duck.wal
           /\ UNCHANGED <<cats, pool, backup, hist, left>>
<1>1. /\ UNCHANGED <<cats, pool, backup, hist, left>> /\ sess[s].pc = "reset"
      /\ duck' = [duck EXCEPT !.closed = @ \union {pool.db}]
      /\ prov' = IF RollbackErrs THEN [prov EXCEPT !.mu = None] ELSE prov
  BY Zenon DEF PoolClose
<1>2. /\ duck' \in Instances
      /\ duck'.gen = duck.gen /\ duck'.readonly = duck.readonly /\ duck'.inst = duck.inst
      /\ duck'.closed = duck.closed \union {pool.db} /\ duck'.free = duck.free
      /\ duck'.file = duck.file /\ duck'.wal = duck.wal
  <2>1. duck \in Instances /\ pool.db \in Nat
    BY Zenon DEF TypeOK, Shared
  <2>2. duck.closed \union {pool.db} \in SUBSET Nat
    BY <2>1, Zenon DEF Instances
  <2> QED
    BY <1>1, <2>1, <2>2, Zenon DEF Instances
<1>3. ASSUME NEW t \in Sessions
      PROVE  /\ conn'[t] \in Connection
             /\ conn'[t].st = conn[t].st /\ conn'[t].gen = conn[t].gen /\ conn'[t].cat = conn[t].cat
             /\ conn'[t].open <=> conn[t].open /\ conn[t].st # "stored"
  <2>1. PICK k \in Connection : k = conn[t]
    BY Zenon DEF TypeOK
  <2>2. conn'[t] = IF k.st = "stored" THEN [k EXCEPT !.open = FALSE] ELSE k
    BY <2>1, Zenon DEF PoolClose
  <2>3. CASE k.st = "stored"
    BY <2>1, <2>2, <2>3, Zenon DEF Connection
  <2>4. CASE k.st # "stored"
    BY <2>1, <2>2, <2>4, Zenon
  <2> QED
    BY <2>3, <2>4, Zenon
<1>4. ASSUME NEW t \in Sessions
      PROVE  /\ sess'[t] \in Session
             /\ sess'[t].tx = (IF RolledBack(t) THEN "done" ELSE sess[t].tx)
             /\ sess'[t].buf = (IF RolledBack(t) THEN {} ELSE sess[t].buf)
             /\ sess'[t].raced = sess[t].raced /\ sess'[t].clean = sess[t].clean
             /\ sess'[t].prev = sess[t].prev
             /\ t # s => /\ sess'[t].pc = sess[t].pc /\ sess'[t].op = sess[t].op
                         /\ sess'[t].arg = sess[t].arg
             /\ t = s => IF RollbackErrs THEN sess'[s].pc = "idle" /\ sess'[s].op = "none"
                         ELSE sess'[s].pc = "swap" /\ sess'[s].op = sess[s].op
  <2>1. PICK m \in Session : m = sess[t]
    BY DEF TypeOK
  <2>2. PICK b : b = IF RolledBack(t) THEN [m EXCEPT !.tx = "done", !.buf = {}] ELSE m
    BY Zenon
  <2>3. /\ b \in Session /\ b.tx = (IF RolledBack(t) THEN "done" ELSE m.tx)
        /\ b.buf = (IF RolledBack(t) THEN {} ELSE m.buf)
        /\ b.pc = m.pc /\ b.op = m.op /\ b.arg = m.arg /\ b.prev = m.prev
        /\ b.raced = m.raced /\ b.clean = m.clean
    <3>1. CASE RolledBack(t)
      BY <2>2, <3>1, Zenon DEF Session
    <3>2. CASE ~RolledBack(t)
      BY <2>2, <3>2, Zenon
    <3> QED
      BY <3>1, <3>2, Zenon
  <2>4. sess'[t] = IF t # s THEN b
                   ELSE IF RollbackErrs THEN [b EXCEPT !.pc = "idle", !.op = "none", !.arg = None]
                   ELSE [b EXCEPT !.pc = "swap"]
    BY <2>1, <2>2, Zenon DEF PoolClose, RolledBack
  <2>5. CASE t # s
    BY <2>1, <2>3, <2>4, <2>5, Zenon
  <2>6. CASE t = s /\ RollbackErrs
    <3>1. PICK n : n = [b EXCEPT !.pc = "idle", !.op = "none", !.arg = None]
      OBVIOUS
    <3>2. /\ n \in Session /\ n.pc = "idle" /\ n.op = "none"
          /\ n.tx = b.tx /\ n.buf = b.buf /\ n.raced = b.raced /\ n.clean = b.clean /\ n.prev = b.prev
      BY <2>3, <3>1, Zenon DEF Session, PCs, Ops, Args
    <3>3. sess'[t] = n
      BY <2>4, <2>6, <3>1, Zenon
    <3> QED
      BY <2>1, <2>3, <2>6, <3>2, <3>3, Zenon
  <2>7. CASE t = s /\ ~RollbackErrs
    <3>1. PICK n : n = [b EXCEPT !.pc = "swap"]
      BY Zenon
    <3>2. /\ n \in Session /\ n.pc = "swap" /\ n.op = b.op
          /\ n.tx = b.tx /\ n.buf = b.buf /\ n.raced = b.raced /\ n.clean = b.clean /\ n.prev = b.prev
      BY <2>3, <3>1, Zenon DEF Session, PCs, BackupPCs, RestartPCs
    <3>3. sess'[t] = n
      BY <2>4, <2>7, <3>1, Zenon
    <3> QED
      BY <2>1, <2>3, <2>7, <3>2, <3>3, Zenon
  <2> QED
    BY <2>5, <2>6, <2>7, Zenon
<1>5. sess' \in [Sessions -> Session] /\ conn' \in [Sessions -> Connection]
  <2>1. sess' = [t \in Sessions |-> sess'[t]] /\ conn' = [t \in Sessions |-> conn'[t]]
    BY Zenon DEF PoolClose
  <2> QED
    BY <1>3, <1>4, <2>1, Zenon
<1>6. /\ prov' \in [mu : Sessions \union {None}, readers : SUBSET Sessions]
      /\ RollbackErrs => prov'.mu = None
  BY <1>1, Zenon DEF TypeOK, Shared
<1>7. Shared'
  BY <1>1, <1>2, <1>6, Zenon DEF TypeOK, Shared
<1>8. TypeOK'
  BY <1>4, <1>5, <1>7, ArgStays, Zenon DEF RestartPCs
<1> QED
  BY <1>1, <1>2, <1>3, <1>4, <1>6, <1>8, Zenon

LEMMA NoConnFields == NoConn \in Connection /\ NoConn.st = "none" /\ ~NoConn.open /\ NoConn.cat = Default
BY Zenon DEF NoConn, Connection, CatNames

LEMMA ResetSwapFields ==
    ASSUME TypeOK, NEW s \in Sessions, ResetSwap(s)
    PROVE  /\ TypeOK' /\ sess[s].pc = "swap"
           /\ \A t \in Sessions :
                 /\ t # s => sess'[t] = sess[t]
                 /\ conn[t].st = "stored" => conn'[t] = NoConn
                 /\ conn[t].st # "stored" => conn'[t] = conn[t]
           /\ sess'[s].pc = AfterRestart(s) /\ sess'[s].op = sess[s].op /\ sess'[s].arg = sess[s].arg
           /\ sess'[s].prev = sess[s].prev
           /\ Carries(sess'[s], sess[s]) /\ sess'[s].clean = sess[s].clean
           /\ pool'.db = duck.gen /\ pool'.txns = {} /\ pool'.orphan = pool.orphan
           /\ prov'.mu = None
           /\ UNCHANGED <<duck, cats, backup, hist, left>>
<1>1. /\ UNCHANGED <<duck, cats, backup, hist, left>> /\ sess[s].pc = "swap"
      /\ pool' = [pool EXCEPT !.txns = {}, !.db = duck.gen]
      /\ prov' = [prov EXCEPT !.mu = None] /\ sess' = Goto(s, AfterRestart(s))
      /\ conn' = [t \in Sessions |-> IF conn[t].st = "stored" THEN NoConn ELSE conn[t]]
  BY Zenon DEF ResetSwap
<1>2. PICK l \in {"load", "upload"} : l = AfterRestart(s)
  BY Zenon DEF AfterRestart
<1>3. l \in PCs
  BY Zenon DEF PCs, BackupPCs
<1>4. PICK n \in Session :
              /\ Goto(s, l) = [sess EXCEPT ![s] = n]
              /\ n.pc = l /\ n.op = sess[s].op /\ n.arg = sess[s].arg /\ n.prev = sess[s].prev
              /\ Carries(n, sess[s]) /\ n.db = sess[s].db /\ n.clean = sess[s].clean
  BY <1>3, GotoFields, Zenon
<1>5. sess' \in [Sessions -> Session] /\ sess'[s] = n /\ \A t \in Sessions : t # s => sess'[t] = sess[t]
  BY <1>1, <1>2, <1>4, Zenon DEF TypeOK
<1>6. /\ conn' \in [Sessions -> Connection]
      /\ \A t \in Sessions : /\ conn[t].st = "stored" => conn'[t] = NoConn
                             /\ conn[t].st # "stored" => conn'[t] = conn[t]
  BY <1>1, NoConnFields, Zenon DEF TypeOK
<1>7. /\ pool' \in [db : Nat, txns : SUBSET Sessions, orphan : BOOLEAN]
      /\ pool'.db = duck.gen /\ pool'.txns = {} /\ pool'.orphan = pool.orphan
      /\ prov' \in [mu : Sessions \union {None}, readers : SUBSET Sessions] /\ prov'.mu = None
  BY <1>1, Zenon DEF TypeOK, Shared, Instances
<1>8. Shared'
  BY <1>1, <1>7, Zenon DEF TypeOK, Shared
<1>9. TypeOK'
  BY <1>2, <1>4, <1>5, <1>6, <1>8, ArgStays
<1> QED
  BY <1>1, <1>2, <1>4, <1>5, <1>6, <1>7, <1>9

LEMMA IdleFields ==
    /\ Idle \in Session
    /\ Idle.pc = "idle" /\ Idle.op = "none" /\ Idle.tx = "none" /\ Idle.buf = {} /\ ~Idle.raced
    /\ Idle.prev = Default
BY Zenon DEF Idle, Session, PCs, Ops, Args, CatNames

LEMMA NewFields ==
    ASSUME TypeOK, NewDBProvider
    PROVE  /\ TypeOK'
           /\ \A t \in Sessions : sess'[t] = Idle /\ conn'[t] = NoConn
           /\ duck'.gen = duck.gen + 1 /\ duck'.closed = 1..duck.gen /\ duck'.readonly = duck.readonly
           /\ duck'.free = <<Default>>
           /\ Len(duck'.inst) = Len(duck.inst) + 1
           /\ duck'.inst[Len(duck.inst) + 1] = duck.file \union duck.wal
           /\ duck'.file = duck.file /\ duck'.wal = duck.wal
           /\ \A c \in Catalogs : /\ cats'[c].file = cats[c].file /\ cats'[c].inits = cats[c].inits
                                  /\ cats'[c].attached => cats[c].file = "db"
           /\ pool'.db = duck.gen + 1 /\ pool'.txns = {} /\ prov'.mu = None
           /\ left'.writes = left.writes /\ left'.faults < left.faults
           /\ hist'.kept = hist.kept /\ hist'.gone = hist.gone /\ hist'.raced = hist.raced
           /\ hist'.astray = hist.astray /\ hist'.odd = (hist.odd \/ Creating)
<1>1. /\ sess' = [s \in Sessions |-> Idle] /\ conn' = [s \in Sessions |-> NoConn]
      /\ prov' = [mu |-> None, readers |-> {}]
      /\ pool' = [db |-> duck.gen + 1, txns |-> {}, orphan |-> FALSE]
      /\ left' = [left EXCEPT !.faults = @ - 1] /\ Fault
      /\ duck' = [Opened(FALSE) EXCEPT !.closed = 1..duck.gen, !.free = <<Default>>]
      /\ cats' = attachCatalogs /\ backup' = NoBackup(backup.enabled)
  BY Zenon DEF NewDBProvider
<1>2. /\ sess' \in [Sessions -> Session] /\ conn' \in [Sessions -> Connection]
      /\ \A t \in Sessions : sess'[t] = Idle /\ conn'[t] = NoConn
  BY <1>1, IdleFields, NoConnFields, Zenon
<1>3. PICK d : /\ d = Opened(FALSE) /\ d \in Instances
               /\ d.gen = duck.gen + 1 /\ d.readonly = duck.readonly
               /\ Len(d.inst) = Len(duck.inst) + 1
               /\ d.inst[Len(duck.inst) + 1] = duck.file \union duck.wal
               /\ d.file = duck.file /\ d.wal = duck.wal
  BY OpenedFields, Zenon
<1>4. /\ duck' \in Instances
      /\ duck'.gen = d.gen /\ duck'.closed = 1..duck.gen /\ duck'.readonly = d.readonly
      /\ duck'.free = <<Default>> /\ duck'.inst = d.inst
      /\ duck'.file = d.file /\ duck'.wal = d.wal
  <2>1. 1..duck.gen \in SUBSET Nat /\ <<Default>> \in Seq(CatNames)
    BY DEF TypeOK, Shared, Instances, CatNames
  <2> QED
    BY <1>1, <1>3, <2>1, Zenon DEF Instances
<1>5. ASSUME NEW c \in Catalogs
      PROVE  /\ cats'[c] \in Catalog
             /\ cats'[c].file = cats[c].file /\ cats'[c].inits = cats[c].inits
             /\ cats'[c].attached => cats[c].file = "db"
  <2>1. PICK k \in Catalog : k = cats[c]
    BY Zenon DEF TypeOK, Shared
  <2>2. PICK u : u = [k EXCEPT !.attached = FALSE]
    BY Zenon
  <2>3. u \in Catalog /\ u.file = k.file /\ u.inits = k.inits /\ u.attached = FALSE
    BY <2>2, Zenon DEF Catalog
  <2>4. PICK b \in BOOLEAN : b = (u.file = "db")
    BY Zenon
  <2>5. PICK v : v = [u EXCEPT !.attached = b]
    BY Zenon
  <2>6. v \in Catalog /\ v.file = k.file /\ v.inits = k.inits /\ v.attached = b
    BY <2>3, <2>5, Zenon DEF Catalog
  <2>7. cats'[c] = v
    <3>1. cats'[c] = AttachCatalog(u)
      BY <1>1, <2>1, <2>2, Zenon DEF attachCatalogs
    <3> QED
      BY <2>3, <2>4, <2>5, <3>1, Zenon DEF AttachCatalog
  <2> QED
    BY <2>1, <2>3, <2>4, <2>6, <2>7, Zenon
<1>6. cats' \in [Catalogs -> Catalog]
  <2>1. cats' = [c \in Catalogs |-> cats'[c]]
    BY <1>1, Zenon DEF attachCatalogs
  <2> QED
    BY <1>5, <2>1, Zenon
<1>7. /\ pool' \in [db : Nat, txns : SUBSET Sessions, orphan : BOOLEAN]
      /\ pool'.db = duck.gen + 1 /\ pool'.txns = {}
      /\ prov' \in [mu : Sessions \union {None}, readers : SUBSET Sessions] /\ prov'.mu = None
  BY <1>1 DEF TypeOK, Shared, Instances
<1>8. /\ left' \in [ops : Nat, writes : Nat, faults : Nat] /\ left'.writes = left.writes
  BY <1>1, FaultFields, Zenon
<1>9. left'.faults < left.faults
  <2>1. left \in [ops : Nat, writes : Nat, faults : Nat]
    BY Zenon DEF TypeOK, Shared
  <2>2. PICK f \in Nat : f = left.faults
    BY <2>1, Zenon
  <2>3. left'.faults = f - 1
    BY <1>1, <2>1, <2>2, Zenon
  <2> QED
    BY <2>2, <2>3
<1>10. backup' \in [enabled : BOOLEAN, up : SUBSET Nat, before : SUBSET Nat, ok : BOOLEAN]
  <2>1. backup.enabled \in BOOLEAN
    BY Zenon DEF TypeOK, Shared
  <2> QED
    BY <1>1, <2>1, Zenon DEF NoBackup
<1>11. PICK b \in BOOLEAN : b = Creating
  BY Zenon DEF Creating
<1>12. hist' = [hist EXCEPT !.odd = @ \/ b]
  BY <1>11, Zenon DEF NewDBProvider
<1>13. /\ hist' \in [kept : SUBSET Nat, gone : SUBSET Nat, astray : BOOLEAN, odd : BOOLEAN,
                         raced : BOOLEAN]
       /\ hist'.kept = hist.kept /\ hist'.gone = hist.gone /\ hist'.raced = hist.raced
       /\ hist'.astray = hist.astray /\ hist'.odd = (hist.odd \/ b)
  BY <1>12, OddFields, Zenon
<1>14. Shared'
  BY <1>4, <1>6, <1>7, <1>8, <1>10, <1>13 DEF Shared
<1>15. TypeOK'
  BY <1>2, <1>14, IdleFields, ArgStays, Zenon
<1> QED
  BY <1>2, <1>3, <1>4, <1>5, <1>7, <1>8, <1>9, <1>11, <1>13, <1>15, Zenon

-----------------------------------------------------------------------------
(* The kinds of steps *)

ConnStep(s) == \/ Take(s) /\ pool.db \notin duck.closed
               \/ Store(s) \/ CloseConn(s) \/ GetTxn(s) \/ CommitTransaction(s) \/ Rollback(s)
               \/ executeDML(s)
               \/ doCheckpoint(s) /\ (conn[s].open /\ CanCheckpoint(s))
RestartStep(s) == ProviderClose(s) \/ ProviderOpen(s) \/ PoolClose(s) \/ ResetSwap(s)

LEMMA NextCases ==
    ASSUME TypeOK, Next
    PROVE  \/ NewDBProvider
           \/ \E s \in Sessions : \/ Minors(s) \/ CatStep(s) \/ BackStep(s) \/ ConnStep(s)
                                  \/ RestartStep(s)
<1>1. ASSUME NEW s \in Sessions,
             \/ Load(s) \/ Take(s) \/ Store(s) \/ CloseConn(s) \/ RunFails(s)
             \/ Insert(s) \/ executeDML(s)
      PROVE  Minors(s) \/ ConnStep(s)
  <2>1. CASE Take(s) /\ pool.db \in duck.closed
    BY <2>1, MinorSteps, Zenon DEF MinorStep
  <2>2. CASE Load(s) \/ RunFails(s)
    BY <2>2, MinorSteps, Zenon DEF MinorStep
  <2>3. CASE Insert(s)
    <3>1. Commands(s)
      BY <2>3, Zenon DEF Commands
    <3> QED
      BY <3>1, MinorSteps, Zenon DEF MinorStep
  <2> QED
    BY <1>1, <2>1, <2>2, <2>3, Zenon DEF ConnStep
<1>2. ASSUME NEW s \in Sessions,
             \/ ComInitDB(s) \/ Use(s) \/ CreateIndex(s) \/ StartTransaction(s) \/ CreateDB(s) \/ DropDB(s)
             \/ Resolve(s) \/ hasDatabase(s) \/ Lock(s)
             \/ RunUse(s) \/ GetTxn(s) \/ CommitTransaction(s) \/ Rollback(s) \/ RunDDL(s)
      PROVE  Minors(s) \/ ConnStep(s)
  <2>1. CASE \/ ComInitDB(s) \/ Use(s) \/ CreateIndex(s) \/ StartTransaction(s) \/ CreateDB(s)
             \/ DropDB(s)
    <3>1. Commands(s)
      BY <2>1, Zenon DEF Commands
    <3> QED
      BY <3>1, MinorSteps, Zenon DEF MinorStep
  <2>2. CASE Resolve(s) \/ hasDatabase(s) \/ Lock(s) \/ RunUse(s) \/ RunDDL(s)
    BY <2>2, MinorSteps, Zenon DEF MinorStep
  <2> QED
    BY <1>2, <2>1, <2>2, Zenon DEF ConnStep
<1>3. ASSUME NEW s \in Sessions,
             \/ CreateDatabase(s) \/ DropDatabase(s) \/ Attach(s) \/ Switch(s) \/ initCatalog(s)
             \/ SwitchBack(s) \/ Detach(s) \/ Remove(s) \/ executeRestore(s)
             \/ Backup(s) \/ stopAllReplication(s) \/ doCheckpoint(s) \/ UploadFile(s) \/ Uploaded(s)
             \/ startAllReplication(s)
             \/ ProviderClose(s) \/ ProviderOpen(s) \/ PoolClose(s) \/ ResetSwap(s)
      PROVE  Minors(s) \/ CatStep(s) \/ BackStep(s) \/ ConnStep(s) \/ RestartStep(s)
  <2>1. CASE CreateDatabase(s) \/ DropDatabase(s) \/ Backup(s)
    <3>1. Commands(s)
      BY <2>1, Zenon DEF Commands
    <3> QED
      BY <3>1, MinorSteps, Zenon DEF MinorStep
  <2>2. CASE doCheckpoint(s)
    BY <2>2, Zenon DEF BackStep, ConnStep
  <2> QED
    BY <1>3, <2>1, <2>2, Zenon DEF CatStep, BackStep, RestartStep
<1>4. MySQL \subseteq Sessions /\ Postgres \subseteq Sessions
  BY StorageAssumption, Zenon DEF Postgres
<1> QED
  BY <1>1, <1>2, <1>3, <1>4, Zenon DEF Next

\* A step of these three kinds is light.
LEMMA LightSteps ==
    ASSUME TypeOK, NEW s \in Sessions, Minors(s) \/ CatStep(s) \/ BackStep(s)
    PROVE  \E n \in Session, k \in Connection : Light(s, n, k)
<1>1. CASE Minors(s)
  BY <1>1, Zenon DEF Minors
<1>2. CASE CatStep(s)
  BY <1>2, CatSteps, Zenon DEF Lights
<1>3. CASE BackStep(s)
  BY <1>3, BackSteps, Zenon DEF Keeps
<1> QED
  BY <1>1, <1>2, <1>3, Zenon

LEMMA ConnSteps ==
    ASSUME TypeOK, NEW s \in Sessions, ConnStep(s)
    PROVE  \E n \in Session, k \in Connection : Ordinary(s, n, k)
<1>1. CASE (Take(s) /\ pool.db \notin duck.closed) \/ Store(s)
  BY <1>1, TakeFields, StoreFields, Zenon
<1>2. CASE CloseConn(s) \/ GetTxn(s)
  BY <1>2, CloseConnFields, GetTxnFields, Zenon
<1>3. CASE CommitTransaction(s) \/ Rollback(s)
  BY <1>3, CommitFields, RollbackFields, Zenon
<1>4. CASE executeDML(s) \/ (doCheckpoint(s) /\ (conn[s].open /\ CanCheckpoint(s)))
  BY <1>4, DMLFields, CheckpointFields, Zenon
<1> QED
  BY <1>1, <1>2, <1>3, <1>4, Zenon DEF ConnStep

-----------------------------------------------------------------------------
(* Types, restarts and connections *)

Core == TypeOK /\ Restarts /\ Connections

LEMMA CoreNext == Core /\ [Next]_vars => Core'
<1>OrdinaryRestarts.
    ASSUME TypeOK, Restarts, NEW s \in Sessions, NEW n, NEW k, Ordinary(s, n, k)
    PROVE  Restarts'
  <2> USE <1>OrdinaryRestarts
  <2>1. /\ duck'.gen = duck.gen /\ duck'.closed = duck.closed /\ duck'.readonly = duck.readonly
        /\ Len(duck'.inst) = Len(duck.inst) /\ pool'.db = pool.db
        /\ prov'.mu # prov.mu => prov.mu \in {s, None} /\ prov'.mu \in {s, None}
        /\ sess[s].pc \notin RestartPCs
    BY Zenon DEF Ordinary
  <2>2. ASSUME NEW t \in Sessions, sess'[t].pc \in RestartPCs
        PROVE  sess[t].pc = sess'[t].pc /\ prov'.mu = t
    <3>1. sess[t].pc = sess'[t].pc /\ t # s
      BY <2>1, <2>2, OrdinaryOthers
    <3>2. prov.mu = t /\ t # None
      BY <2>2, <3>1, StorageAssumption, Zenon DEF Restarts, PC
    <3> QED
      BY <2>1, <3>1, <3>2, Zenon
  <2>3. {"open", "reset", "swap"} \subseteq RestartPCs
    BY Zenon DEF RestartPCs
  <2>4. \A t \in Sessions : sess'[t].pc = "open" => duck.gen \in duck.closed
    BY <2>2, <2>3, Zenon DEF Restarts, PC
  <2>5. \A t \in Sessions : sess'[t].pc \in {"reset", "swap"} =>
            duck.gen \notin duck.closed /\ pool.db # duck.gen
    BY <2>2, <2>3, Zenon DEF Restarts, PC
  <2> QED
    BY <2>1, <2>2, <2>4, <2>5 DEF Restarts, PC

<1>OrdinaryConnections.
    ASSUME TypeOK, Connections, NEW s \in Sessions, NEW n, NEW k, Ordinary(s, n, k), ConnAt(s, n, k)
    PROVE  Connections'
  <2> USE <1>OrdinaryConnections
  <2>1. /\ duck'.gen = duck.gen /\ duck'.readonly = duck.readonly
        /\ \A t \in Sessions \ {s} : t \in pool'.txns <=> t \in pool.txns
    BY Zenon DEF Ordinary
  <2>2. /\ sess'[s] = n /\ conn'[s] = k
        /\ \A t \in Sessions : t # s => sess'[t] = sess[t] /\ conn'[t] = conn[t]
        /\ Restarting' <=> Restarting
        /\ \A t \in Sessions : sess'[t].pc = "reset" <=> sess[t].pc = "reset"
        /\ \A t \in Sessions : sess'[t].pc = "swap" <=> sess[t].pc = "swap"
    BY OrdinaryOthers DEF RestartPCs
  <2>3. ASSUME NEW t \in Sessions PROVE ConnAt(t, sess'[t], conn'[t])
    <3>1. CASE t = s
      BY <2>2, <3>1, Zenon
    <3>2. CASE t # s
      <4>1. sess'[t] = sess[t] /\ conn'[t] = conn[t] /\ (t \in pool'.txns <=> t \in pool.txns)
        BY <2>1, <2>2, <3>2, Zenon
      <4> QED
        BY <4>1 DEF Connections, ConnAt, PC, Held
    <3> QED
      BY <3>1, <3>2, Zenon
  <2>4. \A t \in Sessions :
           /\ conn'[t].st # "none" => conn'[t].gen \in 1..duck.gen
           /\ conn'[t].st = "none" => ~conn'[t].open
           /\ conn'[t].st = "taken" <=> sess'[t].pc = "store"
           /\ sess'[t].pc \in {"take", "store"} => conn'[t].st # "stored"
           /\ sess'[t].tx = "open" /\ ~sess'[t].raced =>
                 conn'[t].st = "stored" /\ conn'[t].open /\ t \in pool'.txns
           /\ sess'[t].buf # {} /\ ~sess'[t].raced =>
                 sess'[t].tx = "open" /\ conn'[t].gen \notin duck.readonly
    BY <2>3, Zenon DEF ConnAt
  <2>5. \A t \in Sessions : conn'[t].st = "stored" /\ conn'[t].open /\ ~sess'[t].raced =>
            \/ conn'[t].gen = duck.gen
            \/ \E p \in Sessions : sess'[p].pc = "reset"
    BY <2>2, <2>3, Zenon DEF ConnAt, PC
  <2>6. \A p, t \in Sessions :
            sess'[p].pc = "swap" /\ conn'[t].st = "stored" /\ conn'[t].open => sess'[t].raced
    BY <2>2, <2>3, Zenon DEF ConnAt, PC
  <2>7. Restarting' => \A t \in Sessions : sess'[t].clean => sess'[t].pc = "idle" /\ sess'[t].tx = "none"
    BY <2>2, <2>3, Zenon DEF ConnAt
  <2> QED
    BY <2>1, <2>4, <2>5, <2>6, <2>7, Zenon DEF Connections, PC, Held

<1>LightConn.
    ASSUME TypeOK, Connections, NEW s \in Sessions, NEW n, NEW k, Light(s, n, k)
    PROVE  ConnAt(s, n, k)
  <2> USE <1>LightConn
  <2>1. /\ n.tx = sess[s].tx /\ n.buf = sess[s].buf /\ n.raced = sess[s].raced
        /\ k.st = conn[s].st /\ k.gen = conn[s].gen /\ k.open = conn[s].open
        /\ (s \in pool.txns => s \in pool'.txns) /\ sess[s].pc # "store" /\ n.pc # "store"
        /\ n.pc = "take" => conn[s].st # "stored"
    BY Zenon DEF Light, Carries, SamePool
  <2>2. Restarting /\ n.clean => n.pc = "idle" /\ n.tx = "none"
    BY Zenon DEF Light, Connections, PC
  <2> QED
    BY <2>1, <2>2, SMTT(30) DEF ConnAt, Connections, PC, Held

<1>TakeConn.
    ASSUME TypeOK, Restarts, Connections, NEW s \in Sessions, Take(s), pool.db \notin duck.closed
    PROVE  Connections'
  <2> USE <1>TakeConn
  <2>1. PICK n \in Session, k \in Connection :
                /\ Ordinary(s, n, k)
                /\ n.pc = "store" /\ n.clean = sess[s].clean /\ Carries(n, sess[s])
                /\ k.st = "taken" /\ k.gen = pool.db /\ k.open
                /\ pool' = pool
    BY TakeFields, Zenon
  <2>2. sess[s].pc = "take"
    BY Zenon DEF Take
  <2>3. ConnAt(s, n, k)
    BY <2>1, <2>2 DEF ConnAt, Connections, Restarts, PC, Held, Carries
  <2> QED
    BY <2>1, <2>3, <1>OrdinaryConnections, Zenon

<1>StoreConn.
    ASSUME TypeOK, Restarts, Connections, NEW s \in Sessions, Store(s)
    PROVE  Connections'
  <2> USE <1>StoreConn
  <2>1. PICK n \in Session, k \in Connection :
                /\ Ordinary(s, n, k)
                /\ n.pc \in {"run", "lookup"} /\ n.clean = sess[s].clean
                /\ n.tx = sess[s].tx /\ n.buf = sess[s].buf
                /\ n.raced = (sess[s].raced \/ conn[s].gen \in duck.closed \/ Restarting)
                /\ k.st = "stored" /\ k.gen = conn[s].gen /\ k.open = conn[s].open
                /\ pool' = pool
    BY StoreFields, Zenon
  <2>2. sess[s].pc = "store" /\ conn[s].st = "taken" /\ conn[s].gen \in 1..duck.gen
    BY Zenon DEF Store, Connections, PC
  <2>3. ~n.raced => ~sess[s].raced /\ ~Restarting /\ conn[s].gen = duck.gen
    BY <2>1, <2>2, Zenon DEF Restarts
  <2>4. \A p \in Sessions : PC(p) = "swap" => n.raced
    BY <2>1, Zenon DEF Restarting, PC
  <2>5. ConnAt(s, n, k)
    BY <2>1, <2>2, <2>3, <2>4, Zenon DEF ConnAt, Connections, PC, Held
  <2> QED
    BY <2>1, <2>5, <1>OrdinaryConnections, Zenon

<1>CloseConnConn.
    ASSUME TypeOK, Connections, NEW s \in Sessions, CloseConn(s)
    PROVE  Connections'
  <2> USE <1>CloseConnConn
  <2>1. PICK n \in Session, k \in Connection :
                /\ Ordinary(s, n, k)
                /\ n.pc = "idle" /\ n.tx = "none" /\ n.buf = {} /\ ~n.raced
                /\ k.st = "none" /\ ~k.open /\ s \notin pool'.txns
    BY CloseConnFields, Zenon
  <2>2. ConnAt(s, n, k)
    BY <2>1, Zenon DEF ConnAt
  <2> QED
    BY <2>1, <2>2, <1>OrdinaryConnections, Zenon

<1>GetTxnConn.
    ASSUME TypeOK, Connections, NEW s \in Sessions, GetTxn(s)
    PROVE  Connections'
  <2> USE <1>GetTxnConn
  <2>1. PICK n \in Session, k \in Connection :
                /\ Ordinary(s, n, k)
                /\ sess[s].pc = "run" /\ conn[s].open
                /\ n.pc = "idle" /\ n.tx = "open" /\ n.buf = sess[s].buf
                /\ n.raced = sess[s].raced /\ n.clean = sess[s].clean
                /\ k.st = conn[s].st /\ k.gen = conn[s].gen /\ k.open = conn[s].open
                /\ pool'.txns = pool.txns \union {s}
    BY GetTxnFields, Zenon
  <2>2. conn[s].st = "stored"
    BY <2>1, Zenon DEF Connections, PC, TypeOK, Connection
  <2>3. ConnAt(s, n, k)
    BY <2>1, <2>2, Zenon DEF ConnAt, Connections, PC, Held
  <2> QED
    BY <2>1, <2>3, <1>OrdinaryConnections, Zenon

<1>FinishConn.
    ASSUME TypeOK, Connections, NEW s \in Sessions, CommitTransaction(s) \/ Rollback(s)
    PROVE  Connections'
  <2> USE <1>FinishConn
  <2>1. PICK n \in Session, k \in Connection :
                /\ Ordinary(s, n, k) /\ sess[s].pc = "idle"
                /\ n.pc = "idle" /\ n.tx = "none" /\ n.buf = {} /\ n.raced = sess[s].raced
                /\ k = conn[s] /\ pool'.txns = pool.txns \ {s}
    BY CommitFields, RollbackFields, Zenon
  <2>2. ConnAt(s, n, k)
    BY <2>1, Zenon DEF ConnAt, Connections, PC, Held
  <2> QED
    BY <2>1, <2>2, <1>OrdinaryConnections, Zenon

<1>DMLConn.
    ASSUME TypeOK, Connections, NEW s \in Sessions, executeDML(s)
    PROVE  Connections'
  <2> USE <1>DMLConn
  <2>1. PICK n \in Session, k \in Connection :
                /\ Ordinary(s, n, k)
                /\ sess[s].pc = "run" /\ conn[s].open /\ conn[s].gen \notin duck.readonly
                /\ n.pc = "idle" /\ n.op = "none" /\ n.tx = sess[s].tx /\ n.raced = sess[s].raced
                /\ n.buf = sess[s].buf \union (IF InTxn(s) THEN {left.writes} ELSE {})
                /\ n.clean => sess[s].clean \/ sess[s].tx = "none"
                /\ k.st = conn[s].st /\ k.gen = conn[s].gen /\ k.open = conn[s].open
                /\ pool' = pool
    BY DMLFields, Zenon
  <2>2. n.buf # {} /\ ~n.raced => n.tx = "open"
    BY <2>1, Zenon DEF Connections, InTxn
  <2>3. ConnAt(s, n, k)
    BY <2>1, <2>2, SMTT(30) DEF ConnAt, Connections, PC, Held
  <2> QED
    BY <2>1, <2>3, <1>OrdinaryConnections, Zenon

<1>CheckpointConn.
    ASSUME TypeOK, Connections, NEW s \in Sessions, doCheckpoint(s), conn[s].open /\ CanCheckpoint(s)
    PROVE  Connections'
  <2> USE <1>CheckpointConn
  <2>1. PICK n \in Session, k \in Connection :
                /\ Ordinary(s, n, k)
                /\ sess[s].pc = "checkpoint"
                /\ n.pc = "close" /\ Carries(n, sess[s]) /\ n.clean = sess[s].clean
                /\ k = conn[s] /\ pool' = pool
    BY CheckpointFields, Zenon
  <2>2. ConnAt(s, n, k)
    BY <2>1, Zenon DEF ConnAt, Connections, PC, Held, Carries
  <2> QED
    BY <2>1, <2>2, <1>OrdinaryConnections, Zenon

<1>ProviderCloseConn.
    ASSUME TypeOK, Restarts, Connections, NEW s \in Sessions, ProviderClose(s)
    PROVE  Restarts' /\ Connections'
  <2> USE <1>ProviderCloseConn
  <2>1. /\ sess[s].pc = "close"
        /\ \A t \in Sessions :
              /\ sess'[t].pc = (IF t = s THEN "open" ELSE sess[t].pc)
              /\ sess'[t].tx = sess[t].tx /\ sess'[t].buf = sess[t].buf /\ sess'[t].raced = sess[t].raced
              /\ sess'[t].clean <=> sess[t].pc = "idle" /\ sess[t].tx = "none"
        /\ duck'.gen = duck.gen /\ duck'.readonly = duck.readonly /\ duck'.inst = duck.inst
        /\ duck'.closed = duck.closed \union {duck.gen}
        /\ prov.mu = None /\ prov'.mu = s /\ pool' = pool /\ conn' = conn
    BY ProviderCloseFields DEF Carries
  <2>2. \A t \in Sessions : sess[t].pc \notin RestartPCs
    BY <2>1, OneRestart, Zenon DEF PC
  <2>3. {"open", "reset", "swap"} \subseteq RestartPCs
    BY Zenon DEF RestartPCs
  <2>4. Restarts'
    BY <2>1, <2>2, <2>3 DEF Restarts, PC
  <2>5. Connections'
    <3>1. /\ \A t \in Sessions : conn'[t].st # "none" => conn'[t].gen \in 1..duck'.gen
          /\ \A t \in Sessions : conn'[t].st = "none" => ~conn'[t].open
          /\ \A t \in Sessions : conn'[t].st = "taken" <=> sess'[t].pc = "store"
          /\ \A t \in Sessions : sess'[t].pc \in {"take", "store"} => conn'[t].st # "stored"
      BY <2>1, SMTT(30) DEF Connections, PC
    <3>2. \A t \in Sessions : sess'[t].tx = "open" /\ ~sess'[t].raced => Held(t)' /\ t \in pool'.txns
      BY <2>1 DEF Connections, Held
    <3>3. \A t \in Sessions : Held(t)' /\ ~sess'[t].raced => conn'[t].gen = duck'.gen
      BY <2>1, <2>2, <2>3 DEF Connections, PC, Held
    <3>4. \A p \in Sessions : sess'[p].pc # "swap"
      BY <2>1, <2>2, <2>3
    <3>5. \A t \in Sessions : sess'[t].clean => sess'[t].pc = "idle" /\ sess'[t].tx = "none"
      BY <2>1
    <3>6. \A t \in Sessions : sess'[t].buf # {} /\ ~sess'[t].raced =>
              sess'[t].tx = "open" /\ conn'[t].gen \notin duck'.readonly
      BY <2>1 DEF Connections
    <3> QED
      BY <3>1, <3>2, <3>3, <3>4, <3>5, <3>6, Zenon DEF Connections, PC
  <2> QED
    BY <2>4, <2>5, Zenon

<1>OpenConn.
    ASSUME TypeOK, Restarts, Connections, NEW s \in Sessions, ProviderOpen(s), left' = left
    PROVE  Restarts' /\ Connections'
  <2> USE <1>OpenConn
  <2>1. /\ sess[s].pc = "open" /\ sess'[s].pc = "reset"
        /\ \A t \in Sessions : t # s => sess'[t] = sess[t]
        /\ sess'[s].tx = sess[s].tx /\ sess'[s].buf = sess[s].buf
        /\ sess'[s].raced = sess[s].raced /\ sess'[s].clean = sess[s].clean
        /\ duck'.gen = duck.gen + 1 /\ duck'.closed = duck.closed
        /\ duck'.readonly \subseteq duck.readonly \union {duck.gen + 1}
        /\ Len(duck'.inst) = Len(duck.inst) + 1
        /\ prov' = prov /\ pool' = pool /\ conn' = conn
    BY OpenFields, Zenon DEF Carries
  <2>2. \A t \in Sessions : t # s => sess[t].pc \notin RestartPCs
    BY <2>1, OneRestart, Zenon DEF PC, RestartPCs
  <2>3. {"open", "reset", "swap"} \subseteq RestartPCs /\ duck.gen \in Nat \ {0} /\ prov.mu = s
        /\ duck.gen \in duck.closed /\ duck.closed \subseteq 1..duck.gen
        /\ duck.readonly \subseteq 1..duck.gen /\ pool.db \in 1..duck.gen /\ Len(duck.inst) = duck.gen
        /\ \A g \in 1..duck.gen : g \in duck.closed
    BY <2>1, Zenon DEF RestartPCs, Restarts, PC
  <2>4. Restarts'
    <3>1. /\ duck'.gen \in Nat \ {0} /\ Len(duck'.inst) = duck'.gen
          /\ duck'.closed \subseteq 1..duck'.gen /\ duck'.readonly \subseteq 1..duck'.gen
          /\ pool'.db \in 1..duck'.gen
          /\ \A g \in 1..duck'.gen : g # duck'.gen => g \in duck'.closed
          /\ duck'.gen \notin duck'.closed /\ pool'.db # duck'.gen
      BY <2>1, <2>3, SMTT(30)
    <3>2. \A t \in Sessions : sess'[t].pc \in RestartPCs => t = s
      BY <2>1, <2>2, Zenon
    <3> QED
      BY <2>1, <2>3, <3>1, <3>2, Zenon DEF Restarts, PC
  <2>5. Connections'
    <3>1. /\ \A t \in Sessions : conn'[t].st # "none" => conn'[t].gen \in 1..duck.gen
          /\ \A t \in Sessions : conn'[t].st # "none" => conn'[t].gen \in 1..duck'.gen
          /\ \A t \in Sessions : conn'[t].st = "none" => ~conn'[t].open
          /\ \A t \in Sessions : conn'[t].st = "taken" <=> sess'[t].pc = "store"
          /\ \A t \in Sessions : sess'[t].pc \in {"take", "store"} => conn'[t].st # "stored"
      BY <2>1, <2>3 DEF Connections, PC
    <3>2. \A t \in Sessions : sess'[t].tx = "open" /\ ~sess'[t].raced => Held(t)' /\ t \in pool'.txns
      BY <2>1 DEF Connections, Held
    <3>3. \E p \in Sessions : sess'[p].pc = "reset"
      BY <2>1, Zenon
    <3>4. \A p \in Sessions : sess'[p].pc # "swap"
      BY <2>1, <2>2, <2>3, Zenon
    <3>5. \A t \in Sessions : sess'[t].clean => sess'[t].pc = "idle" /\ sess'[t].tx = "none"
      <4>1. Restarting
        BY <2>1, Zenon DEF Restarting
      <4> QED
        BY <2>1, <4>1 DEF Connections, PC
    <3>6. \A t \in Sessions : sess'[t].buf # {} /\ ~sess'[t].raced =>
              sess'[t].tx = "open" /\ conn'[t].gen \notin duck.readonly
      BY <2>1 DEF Connections
    <3>7. \A t \in Sessions : sess'[t].buf # {} /\ ~sess'[t].raced => conn'[t].gen \notin duck'.readonly
      BY <2>1, <2>3, <3>1, <3>2, <3>6 DEF Held
    <3> QED
      BY <3>1, <3>2, <3>3, <3>4, <3>5, <3>6, <3>7, Zenon DEF Connections, PC
  <2> QED
    BY <2>4, <2>5, Zenon

<1>OpenFailsConn.
    ASSUME TypeOK, Restarts, Connections, NEW s \in Sessions, ProviderOpen(s), left' # left
    PROVE  Restarts' /\ Connections'
  <2> USE <1>OpenFailsConn
  <2>1. /\ sess[s].pc = "open" /\ sess'[s].pc = "idle"
        /\ \A t \in Sessions : t # s => sess'[t] = sess[t]
        /\ sess'[s].tx = sess[s].tx /\ sess'[s].buf = sess[s].buf /\ sess'[s].raced = sess[s].raced
        /\ duck' = duck /\ pool' = pool /\ conn' = conn
    BY OpenFailsFields, Zenon DEF Carries
  <2>2. {"open", "reset", "swap"} \subseteq RestartPCs /\ "idle" \notin RestartPCs
    BY Zenon DEF RestartPCs
  <2>3. \A t \in Sessions : t # s => sess[t].pc \notin RestartPCs
    BY <2>1, <2>2, OneRestart, Zenon DEF PC
  <2>4. \A t \in Sessions : sess'[t].pc \notin RestartPCs
    BY <2>1, <2>2, <2>3, Zenon
  <2>5. Restarts'
    BY <2>1, <2>2, <2>4, Zenon DEF Restarts, PC
  <2>6. ~Restarting'
    BY <2>2, <2>4, Zenon DEF Restarting
  <2>7. /\ \A t \in Sessions : conn'[t].st # "none" => conn'[t].gen \in 1..duck'.gen
        /\ \A t \in Sessions : conn'[t].st = "none" => ~conn'[t].open
        /\ \A t \in Sessions : conn'[t].st = "taken" <=> sess'[t].pc = "store"
        /\ \A t \in Sessions : sess'[t].pc \in {"take", "store"} => conn'[t].st # "stored"
    BY <2>1 DEF Connections, PC
  <2>8. \A t \in Sessions : sess'[t].tx = "open" /\ ~sess'[t].raced => Held(t)' /\ t \in pool'.txns
    BY <2>1 DEF Connections, Held
  <2>9. \A t \in Sessions : Held(t)' /\ ~sess'[t].raced => conn'[t].gen = duck'.gen
    BY <2>1, <2>2, <2>3 DEF Connections, PC, Held
  <2>10. \A t \in Sessions : sess'[t].buf # {} /\ ~sess'[t].raced =>
              sess'[t].tx = "open" /\ conn'[t].gen \notin duck'.readonly
    BY <2>1 DEF Connections
  <2>11. \A t \in Sessions : sess'[t].pc # "swap"
    BY <2>2, <2>4, Zenon
  <2>12. Connections'
    BY <2>6, <2>7, <2>8, <2>9, <2>10, <2>11, Zenon DEF Connections, PC
  <2> QED
    BY <2>5, <2>12, Zenon

<1>PoolCloseConn.
    ASSUME TypeOK, Restarts, Connections, NEW s \in Sessions, PoolClose(s)
    PROVE  Restarts' /\ Connections'
  <2> USE <1>PoolCloseConn
  <2>1. /\ sess[s].pc = "reset"
        /\ \A t \in Sessions :
              /\ sess'[t].tx = (IF RolledBack(t) THEN "done" ELSE sess[t].tx)
              /\ sess'[t].buf = (IF RolledBack(t) THEN {} ELSE sess[t].buf)
              /\ sess'[t].raced = sess[t].raced /\ sess'[t].clean = sess[t].clean
              /\ t # s => sess'[t].pc = sess[t].pc
              /\ conn'[t].st = conn[t].st /\ conn'[t].gen = conn[t].gen
              /\ conn'[t].open <=> conn[t].open /\ conn[t].st # "stored"
        /\ \/ sess'[s].pc = "idle"
           \/ sess'[s].pc = "swap" /\ prov' = prov
        /\ duck'.gen = duck.gen /\ duck'.readonly = duck.readonly /\ duck'.inst = duck.inst
        /\ duck'.closed = duck.closed \union {pool.db} /\ pool' = pool
    BY PoolCloseFields
  <2>2. {"open", "reset", "swap"} \subseteq RestartPCs /\ "idle" \notin RestartPCs
    BY Zenon DEF RestartPCs
  <2>3. \A t \in Sessions : t # s => sess[t].pc \notin RestartPCs
    BY <2>1, <2>2, OneRestart DEF PC
  <2>4. \A t \in Sessions : sess'[t].pc \in RestartPCs => t = s /\ sess'[t].pc = "swap" /\ prov' = prov
    BY <2>1, <2>2, <2>3
  <2>5. prov.mu = s /\ duck.gen \notin duck.closed /\ pool.db # duck.gen
    BY <2>1, <2>2 DEF Restarts, PC
  <2>6. Restarts'
    <3>1. /\ duck'.gen \in Nat \ {0} /\ Len(duck'.inst) = duck'.gen
          /\ duck'.closed \subseteq 1..duck'.gen /\ duck'.readonly \subseteq 1..duck'.gen
          /\ pool'.db \in 1..duck'.gen
          /\ \A g \in 1..duck'.gen : g # duck'.gen => g \in duck'.closed
          /\ duck'.gen \notin duck'.closed /\ pool'.db # duck'.gen
      BY <2>1, <2>5, Zenon DEF Restarts
    <3>2. \A t \in Sessions : sess'[t].pc \in RestartPCs => prov'.mu = t
      BY <2>4, <2>5, Zenon
    <3>3. \A t \in Sessions : sess'[t].pc # "open"
      BY <2>2, <2>4, Zenon
    <3> QED
      BY <3>1, <3>2, <3>3 DEF Restarts, PC
  <2>7. /\ \A t \in Sessions : conn'[t].st # "none" => conn'[t].gen \in 1..duck'.gen
        /\ \A t \in Sessions : conn'[t].st = "none" => ~conn'[t].open
        /\ \A t \in Sessions : conn'[t].st = "taken" <=> sess'[t].pc = "store"
        /\ \A t \in Sessions : sess'[t].pc \in {"take", "store"} => conn'[t].st # "stored"
    BY <2>1, SMTT(30) DEF Connections, PC
  <2>8. \A t \in Sessions : sess'[t].tx = "open" => sess'[t].raced
    BY <2>1 DEF Connections, RolledBack
  <2>9. \A t \in Sessions : ~Held(t)'
    BY <2>1, Zenon DEF Held
  <2>10. \A t \in Sessions : sess'[t].buf # {} => sess'[t].raced
    <3>1. ASSUME NEW t \in Sessions, ~sess[t].raced, sess[t].buf # {} PROVE RolledBack(t)
      <4>1. sess[t].tx = "open"
        BY <3>1, Zenon DEF Connections
      <4> QED
        BY <3>1, <4>1, Zenon DEF Connections, RolledBack
    <3> QED
      BY <2>1, <3>1, Zenon
  <2>11. \A t \in Sessions : Restarting' /\ sess'[t].clean => sess'[t].pc = "idle" /\ sess'[t].tx = "none"
    <3>1. Restarting
      BY <2>1, Zenon DEF Restarting
    <3>2. ASSUME NEW t \in Sessions, sess'[t].clean
          PROVE  sess'[t].pc = "idle" /\ sess'[t].tx = "none"
      <4>1. sess[t].clean /\ sess[t].pc = "idle" /\ sess[t].tx = "none" /\ t # s
        BY <2>1, <3>1, <3>2 DEF Connections, PC
      <4>2. ~RolledBack(t)
        BY <4>1, Zenon DEF RolledBack
      <4> QED
        BY <2>1, <4>1, <4>2, Zenon
    <3> QED
      BY <3>2, Zenon
  <2>12. Connections'
    BY <2>7, <2>8, <2>9, <2>10, <2>11, Zenon DEF Connections, PC
  <2> QED
    BY <2>6, <2>12

<1>ResetSwapConn.
    ASSUME TypeOK, Restarts, Connections, NEW s \in Sessions, ResetSwap(s)
    PROVE  Restarts' /\ Connections'
  <2> USE <1>ResetSwapConn
  <2>1. /\ sess[s].pc = "swap" /\ sess'[s].pc \in {"load", "upload"}
        /\ \A t \in Sessions : t # s => sess'[t] = sess[t]
        /\ sess'[s].tx = sess[s].tx /\ sess'[s].buf = sess[s].buf /\ sess'[s].raced = sess[s].raced
        /\ \A t \in Sessions : /\ conn[t].st = "stored" => conn'[t].st = "none" /\ ~conn'[t].open
                               /\ conn[t].st # "stored" => conn'[t] = conn[t]
        /\ duck' = duck /\ pool'.db = duck.gen /\ pool'.txns = {}
    BY ResetSwapFields, NoConnFields, Zenon DEF Carries, AfterRestart
  <2>2. {"open", "reset", "swap"} \subseteq RestartPCs /\ {"load", "upload"} \intersect RestartPCs = {}
    BY Zenon DEF RestartPCs
  <2>3. \A t \in Sessions : t # s => sess[t].pc \notin RestartPCs
    BY <2>1, <2>2, OneRestart, Zenon DEF PC
  <2>4. \A t \in Sessions : sess'[t].pc \notin RestartPCs
    BY <2>1, <2>2, <2>3, Zenon
  <2>5. Restarts'
    <3>1. pool'.db \in 1..duck'.gen
      BY <2>1 DEF Restarts
    <3> QED
      BY <2>1, <2>2, <2>4, <3>1 DEF Restarts, PC
  <2>6. ~Restarting' /\ \A t \in Sessions : sess'[t].pc # "swap"
    BY <2>2, <2>4, Zenon DEF Restarting
  <2>7. \A t \in Sessions : sess[t].tx = "open" => sess[t].raced
    BY <2>1, Zenon DEF Connections, PC
  <2>8. /\ \A t \in Sessions : conn'[t].st # "none" => conn'[t].gen \in 1..duck'.gen
        /\ \A t \in Sessions : conn'[t].st = "none" => ~conn'[t].open
        /\ \A t \in Sessions : conn'[t].st = "taken" <=> sess'[t].pc = "store"
        /\ \A t \in Sessions : conn'[t].st # "stored"
    BY <2>1 DEF Connections, PC
  <2>9. \A t \in Sessions : /\ sess'[t].tx = "open" => sess'[t].raced
                            /\ sess'[t].buf # {} => sess'[t].raced
    BY <2>1, <2>7 DEF Connections
  <2>10. Connections'
    BY <2>1, <2>6, <2>8, <2>9, Zenon DEF Connections, PC, Held
  <2> QED
    BY <2>5, <2>10

<1>NewConn.
    ASSUME TypeOK, Restarts, NewDBProvider
    PROVE  Restarts' /\ Connections'
  <2> USE <1>NewConn
  <2>1. /\ \A t \in Sessions : /\ sess'[t].pc = "idle" /\ sess'[t].tx = "none" /\ sess'[t].buf = {}
                               /\ conn'[t].st = "none" /\ ~conn'[t].open
        /\ duck'.gen = duck.gen + 1 /\ duck'.closed = 1..duck.gen /\ duck'.readonly = duck.readonly
        /\ Len(duck'.inst) = Len(duck.inst) + 1
        /\ pool'.db = duck.gen + 1 /\ pool'.txns = {}
    BY NewFields, IdleFields, NoConnFields, Zenon
  <2>2. ~Restarting' /\ "idle" \notin RestartPCs
    BY <2>1, Zenon DEF Restarting, RestartPCs
  <2>3. /\ duck'.gen \in Nat \ {0} /\ Len(duck'.inst) = duck'.gen
        /\ duck'.closed \subseteq 1..duck'.gen /\ duck'.readonly \subseteq 1..duck'.gen
        /\ pool'.db \in 1..duck'.gen
        /\ \A g \in 1..duck'.gen : g # duck'.gen => g \in duck'.closed
    BY <2>1 DEF Restarts
  <2>4. Restarts'
    BY <2>1, <2>2, <2>3, Zenon DEF Restarts, PC
  <2>5. Connections'
    BY <2>1, <2>2 DEF Connections, PC, Held
  <2> QED
    BY <2>4, <2>5, Zenon
<1> SUFFICES ASSUME Core, [Next]_vars PROVE Core'
  OBVIOUS
<1>0. TypeOK /\ Restarts /\ Connections
  BY Zenon DEF Core
<1>1. CASE UNCHANGED vars
  <2>0. UNCHANGED <<duck, prov, cats, pool, conn, sess, backup, hist, left>>
    BY <1>1, Zenon DEF vars
  <2>1. TypeOK'
    BY <1>0, <2>0, Zenon DEF TypeOK, Shared
  <2>2. Restarts'
    BY <1>0, <2>0, Zenon DEF Restarts, PC
  <2>3. Connections'
    BY <1>0, <2>0, Zenon DEF Connections, Restarting, PC, Held
  <2> QED
    BY <2>1, <2>2, <2>3, Zenon DEF Core
<1>2. CASE NewDBProvider
  BY <1>0, <1>2, NewFields, <1>NewConn DEF Core
<1>3. ASSUME NEW s \in Sessions, Minors(s) \/ CatStep(s) \/ BackStep(s)
      PROVE  Core'
  <2>1. PICK n \in Session, k \in Connection : Light(s, n, k)
    BY <1>0, <1>3, LightSteps, Zenon
  <2>2. Ordinary(s, n, k) /\ ConnAt(s, n, k)
    BY <1>0, <2>1, <1>LightConn, Zenon DEF Light
  <2> QED
    BY <1>0, <2>2, OrdinaryType, <1>OrdinaryRestarts, <1>OrdinaryConnections DEF Core
<1>4. ASSUME NEW s \in Sessions, ConnStep(s)
      PROVE  Core'
  <2>1. PICK n \in Session, k \in Connection : Ordinary(s, n, k)
    BY <1>0, <1>4, ConnSteps, Zenon
  <2>2. TypeOK' /\ Restarts'
    BY <1>0, <2>1, OrdinaryType, <1>OrdinaryRestarts
  <2>3. Connections'
    BY <1>0, <1>4, <1>TakeConn, <1>StoreConn, <1>CloseConnConn, <1>GetTxnConn, <1>FinishConn,
       <1>DMLConn, <1>CheckpointConn, Zenon
       DEF ConnStep
  <2> QED
    BY <2>2, <2>3, Zenon DEF Core
<1>5. ASSUME NEW s \in Sessions, RestartStep(s)
      PROVE  Core'
  <2>1. CASE ProviderClose(s)
    BY <1>0, <2>1, ProviderCloseFields, <1>ProviderCloseConn DEF Core
  <2>2. CASE ProviderOpen(s) /\ left' = left
    BY <1>0, <2>2, OpenFields, <1>OpenConn DEF Core
  <2>3. CASE ProviderOpen(s) /\ left' # left
    BY <1>0, <2>3, OpenFailsFields, <1>OpenFailsConn, Zenon DEF Core
  <2>4. CASE PoolClose(s)
    BY <1>0, <2>4, PoolCloseFields, <1>PoolCloseConn DEF Core
  <2>5. CASE ResetSwap(s)
    BY <1>0, <2>5, ResetSwapFields, <1>ResetSwapConn DEF Core
  <2> QED
    BY <1>5, <2>1, <2>2, <2>3, <2>4, <2>5 DEF RestartStep
<1> QED
  BY <1>0, <1>1, <1>2, <1>3, <1>4, <1>5, NextCases

LEMMA CoreInit == ASSUME Init PROVE Core
<1>1. duck \in Instances
  <2>1. PICK i : i = <<{}>>
    BY Zenon
  <2>2. i \in Seq(SUBSET Nat) /\ <<Default>> \in Seq(CatNames)
    BY <2>1 DEF CatNames
  <2>3. Schemas \in SUBSET Args
    BY Zenon DEF Args
  <2> QED
    BY <2>1, <2>2, <2>3, Zenon DEF Init, Instances
<1>2. cats \in [Catalogs -> Catalog]
  BY Zenon DEF Init, Catalog
<1>3. sess \in [Sessions -> Session] /\ conn \in [Sessions -> Connection]
  BY IdleFields, NoConnFields, Zenon DEF Init
<1>4. left \in [ops : Nat, writes : Nat, faults : Nat]
  BY StorageAssumption, Zenon DEF Init
<1>5. backup \in [enabled : BOOLEAN, up : SUBSET Nat, before : SUBSET Nat, ok : BOOLEAN]
  BY Zenon DEF Init, NoBackup
<1>6. /\ prov \in [mu : Sessions \union {None}, readers : SUBSET Sessions]
      /\ pool \in [db : Nat, txns : SUBSET Sessions, orphan : BOOLEAN]
      /\ hist \in [kept : SUBSET Nat, gone : SUBSET Nat, astray : BOOLEAN, odd : BOOLEAN,
                   raced : BOOLEAN]
  BY Zenon DEF Init
<1>7. \A s \in Sessions : /\ sess[s].pc = "idle" /\ sess[s].tx = "none" /\ sess[s].buf = {}
                          /\ conn[s].st = "none" /\ ~conn[s].open
  BY IdleFields, NoConnFields, Zenon DEF Init
<1>8. TypeOK
  BY <1>1, <1>2, <1>3, <1>4, <1>5, <1>6, <1>7, Zenon DEF TypeOK, Shared, CreatePCs
<1>9. ~Restarting /\ "idle" \notin RestartPCs
  BY <1>7, Zenon DEF Restarting, RestartPCs
<1>10. Restarts
  <2>1. /\ duck.gen = 1 /\ duck.closed = {} /\ duck.readonly = {} /\ duck.inst = <<{}>> /\ pool.db = 1
    BY Zenon DEF Init
  <2>2. Len(duck.inst) = 1
    BY <2>1, Zenon
  <2> QED
    BY <1>7, <1>9, <2>1, <2>2 DEF Restarts, PC
<1>11. Connections
  <2>1. pool.txns = {}
    BY Zenon DEF Init
  <2> QED
    BY <1>7, <1>9, <2>1, Zenon DEF Connections, PC, Held
<1> QED
  BY <1>8, <1>10, <1>11, Zenon DEF Core

=============================================================================
