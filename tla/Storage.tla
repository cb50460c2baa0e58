------------------------------ MODULE Storage ------------------------------
(***************************************************************************)
(* How sessions reach DuckDB: the provider that owns the DuckDB instance   *)
(* and its files (catalog/provider.go), the pool that gives every session  *)
(* a connection and a transaction of its own (catalog/connpool.go), the    *)
(* sessions of both protocols that use it (backend/session.go, executor.go,*)
(* handler.go, adapter/adapter.go), and BACKUP, which closes the instance  *)
(* under them and opens it twice (pgserver/backup_handler.go).             *)
(*                                                                         *)
(* A driver connection is in one place at a time: idle in the sql.DB of    *)
(* its instance, or held by one session.  It carries its own state, the    *)
(* catalog and schema that USE last chose and an open transaction.  A      *)
(* statement is one step; between two statements, two accesses to the      *)
(* pool's maps, or two steps of a restart, anything may happen.            *)
(***************************************************************************)
EXTENDS Naturals, FiniteSets, Sequences

CONSTANTS
    Sessions,      \* client sessions
    MySQL,         \* those that speak the MySQL protocol
    Schemas,       \* MySQL databases, schemas of DuckDB
    Catalogs,      \* Postgres databases, attached files
    None,          \* no session, no schema
    MaxOps,        \* bound on the commands
    MaxWrites,     \* bound on the rows written
    MaxGens,       \* bound on the instances opened
    MaxFaults      \* bound on the faults

Default == "default"   \* the catalog of the default database file

ASSUME StorageAssumption ==
    /\ MySQL \subseteq Sessions
    /\ None \notin Sessions \union Schemas
    /\ Default \notin Catalogs
    /\ {MaxOps, MaxWrites, MaxGens, MaxFaults} \subseteq Nat

VARIABLES
    duck,      \* the DuckDB instances and the default database file
    prov,      \* the provider: its lock
    cats,      \* the other database files
    pool,      \* the ConnectionPool
    conn,      \* the sql.Conn of each session
    sess,      \* the sessions
    backup,    \* the subscription table's flag and the last backup
    hist,      \* what the properties remember
    left       \* commands, rows and faults that may still come

vars == <<duck, prov, cats, pool, conn, sess, backup, hist, left>>

Postgres == Sessions \ MySQL
Internals == <<"tables", "views">>   \* what initCatalog creates, in order

NoConn == [st |-> "none", gen |-> 0, cat |-> Default, schema |-> "main", open |-> FALSE]
Idle == [pc |-> "idle", op |-> "none", arg |-> None, ph |-> "build", db |-> None,
         prev |-> Default, tx |-> "none", buf |-> {}, clean |-> TRUE, raced |-> FALSE]

NoBackup(on) == [enabled |-> on, up |-> {}, before |-> {}, ok |-> FALSE]

Fault == left.faults > 0
Goto(s, l) == [sess EXCEPT ![s].pc = l]
\* A command ends, in success or in error: the session reads the next one.
Ended(s) == [sess EXCEPT ![s].pc = "idle", ![s].op = "none", ![s].arg = None, ![s].ph = "build",
                         ![s].prev = Default, ![s].clean = @ \/ sess[s].tx = "none"]

\* A CreateCatalog is between its ATTACH and the USE that ends it.
Creating == \E s \in Sessions : sess[s].pc \in {"switch", "init", "back"}
Restarting == \E s \in Sessions : sess[s].pc \in {"open", "reset", "swap"}
\* The locks of the provider without those of s.
Unlocked(s) == [mu |-> IF prov.mu = s THEN None ELSE prov.mu, readers |-> prov.readers \ {s}]
\* History: no restart came between the start of the transaction or statement of s
\* and now, and its connection did not come from a pool that was being reset.
Clean(s) == sess[s].clean /\ ~sess[s].raced
-----------------------------------------------------------------------------
(* DuckDB and database/sql, as the code uses them *)

\* A statement sent to the sql.DB itself runs on the idle connection that was
\* returned last, or on a new one in the default catalog.
Top == IF duck.free = <<>> THEN Default ELSE duck.free[Len(duck.free)]
WithTop(c) == IF duck.free = <<>> THEN <<c>> ELSE [duck.free EXCEPT ![Len(duck.free)] = c]
StorageOpen == duck.gen \notin duck.closed

\* A reset forgets the transaction of a connection that it missed: the session still
\* has it, on an instance that is gone (0), and the pool gives it another connection.
TxGen(s) == IF s \in pool.txns THEN conn[s].gen ELSE 0
WritersOf(g) == {s \in Sessions : conn[s].open /\ TxGen(s) = g /\ sess[s].buf # {}}
\* CHECKPOINT is refused while another transaction has uncommitted writes.
CanCheckpoint(s) == WritersOf(duck.gen) \ {s} = {}
Checkpointed(d) == [d EXCEPT !.file = @ \union d.wal, !.wal = {}]

\* The states after a commit of W on instance g.  It goes to the write-ahead log
\* and may set off a checkpoint.  An old instance that is still held writes files
\* a newer one has read: whether anything of it survives is not defined.
Commits(g, W) ==
    LET d == [duck EXCEPT !.inst = [i \in DOMAIN @ |-> IF i = g THEN @[i] \union W ELSE @[i]]]
        logged == [d EXCEPT !.wal = @ \union W]
    IN IF W = {} THEN {duck}
       ELSE {logged, Checkpointed(logged)} \union (IF g = duck.gen THEN {} ELSE {d})

\* A new instance of the default file, after replay of the log.
Opened(ro) == [duck EXCEPT !.gen = @ + 1, !.free = <<>>,
                           !.inst = Append(@, duck.file \union duck.wal),
                           !.readonly = IF ro THEN @ \union {duck.gen + 1} ELSE @]
-----------------------------------------------------------------------------
(* ConnectionPool *)

\* GetConn, first half: the session's entry.
Load(s) ==
    /\ sess[s].pc = "load"
    /\ sess' = Goto(s, IF conn[s].st # "stored" THEN "take"
                       ELSE IF sess[s].ph = "resolve" THEN "lookup" ELSE "run")
    /\ UNCHANGED <<duck, prov, cats, pool, conn, backup, hist, left>>

\* No entry: a connection of its own from the sql.DB, which may be closed.
Take(s) ==
    /\ sess[s].pc = "take"
    /\ IF pool.db \in duck.closed
       THEN /\ sess' = Ended(s)
            /\ prov' = Unlocked(s)
            /\ UNCHANGED <<duck, conn, hist>>
       ELSE /\ conn' = [conn EXCEPT ![s] = [NoConn EXCEPT !.st = "taken", !.gen = pool.db,
                                                          !.cat = Top, !.open = TRUE]]
            /\ duck' = [duck EXCEPT !.free = SubSeq(@, 1, Len(@) - 1)]
            /\ sess' = Goto(s, "store")
            /\ hist' = [hist EXCEPT !.odd = @ \/ Creating]
            /\ UNCHANGED prov
    /\ UNCHANGED <<cats, pool, backup, left>>

\* GetConn, second half: by now the entry may belong to a pool that was reset.
Store(s) ==
    /\ sess[s].pc = "store"
    /\ conn' = [conn EXCEPT ![s].st = "stored"]
    /\ sess' = [sess EXCEPT ![s].pc = IF sess[s].ph = "resolve" THEN "lookup" ELSE "run",
                            ![s].raced = @ \/ conn[s].gen \in duck.closed \/ Restarting]
    /\ hist' = [hist EXCEPT !.raced = @ \/ conn[s].gen \in duck.closed \/ Restarting]
    /\ UNCHANGED <<duck, prov, cats, pool, backup, left>>

\* Mutant: a GetConnForSchema that takes the connection as it is.
GetConnAnySchema(s, d) == conn[s]

\* GetConnForSchema: the connection of s, switched to schema d if it is elsewhere.
GetConnForSchema(s, d) ==
    IF d = None \/ conn[s].schema = d THEN conn[s] ELSE [conn[s] EXCEPT !.schema = d]
Usable(s, d) == conn[s].open /\ (d = None \/ conn[s].schema = d \/ d \in duck.dbs)

\* CloseConn, when a client leaves: the driver connection is closed, never returned.
\* The entry in txns stays.
CloseConn(s) ==
    /\ sess[s].pc = "idle"
    /\ conn[s].st # "none" \/ sess[s].tx # "none"
    /\ conn' = [conn EXCEPT ![s] = NoConn]
    /\ sess' = [sess EXCEPT ![s] = Idle]
    /\ pool' = [pool EXCEPT !.txns = @ \ {s}, !.orphan = @ \/ s \in pool.txns]
    /\ hist' = IF Clean(s) THEN [hist EXCEPT !.gone = @ \union sess[s].buf] ELSE hist
    /\ UNCHANGED <<duck, prov, cats, backup, left>>

\* Rolling back on a closed connection, or a second time, is an error.
RollbackErrs == pool.orphan \/ \E t \in pool.txns : sess[t].tx = "done"

\* Close: rollback of every transaction, then the connections the maps hold and the
\* sql.DB are closed.  After an error Reset and Restart return.
PoolClose(s) ==
    /\ sess[s].pc = "reset"
    /\ conn' = [t \in Sessions |-> IF conn[t].st = "stored" THEN [conn[t] EXCEPT !.open = FALSE]
                                                            ELSE conn[t]]
    /\ sess' = [t \in Sessions |->
                  LET a == IF t \in pool.txns /\ sess[t].tx # "none"
                           THEN [sess[t] EXCEPT !.tx = "done", !.buf = {}] ELSE sess[t]
                  IN IF t # s THEN a
                     ELSE IF RollbackErrs THEN [a EXCEPT !.pc = "idle", !.op = "none", !.arg = None]
                     ELSE [a EXCEPT !.pc = "swap"]]
    /\ duck' = [duck EXCEPT !.closed = @ \union {pool.db}]
    /\ prov' = IF RollbackErrs THEN [prov EXCEPT !.mu = None] ELSE prov
    /\ UNCHANGED <<cats, pool, backup, hist, left>>
-----------------------------------------------------------------------------
(* DatabaseProvider: restart *)

\* What BACKUP does when a restart is over.
AfterRestart(s) == IF sess[s].op = "backup" THEN "upload" ELSE "load"

\* Close: CHECKPOINT, whose failure is only logged, and the sql.DB with its idle
\* connections.  What sessions hold stays open.
ProviderClose(s) ==
    /\ sess[s].pc = "close"
    /\ prov.mu = None /\ prov.readers = {}
    /\ prov' = [prov EXCEPT !.mu = s]
    /\ LET d == IF CanCheckpoint(None) /\ duck.gen \notin duck.readonly THEN Checkpointed(duck)
                                                                       ELSE duck
       IN duck' = [d EXCEPT !.closed = @ \union {duck.gen}, !.free = <<>>]
    /\ sess' = [t \in Sessions |->
                  [sess[t] EXCEPT !.clean = sess[t].pc = "idle" /\ sess[t].tx = "none",
                                  !.pc = IF t = s THEN "open" ELSE @]]
    /\ hist' = [hist EXCEPT !.odd = @ \/ Creating]
    /\ UNCHANGED <<cats, pool, conn, backup, left>>

\* Mutant: a restart that leaves the pool as it is.
RestartOnly(s) ==
    /\ sess[s].pc = "open"
    /\ duck.gen < MaxGens
    /\ duck' = Opened(sess[s].op = "backup")
    /\ cats' = [c \in Catalogs |-> [cats[c] EXCEPT !.attached = FALSE]]
    /\ sess' = Goto(s, AfterRestart(s))
    /\ prov' = [prov EXCEPT !.mu = None]
    /\ UNCHANGED <<pool, conn, backup, hist, left>>

\* NewConnector on the default file only: the other catalogs are no longer attached.
\* If it fails, the old instance is closed and there is no other.
ProviderOpen(s) ==
    /\ sess[s].pc = "open"
    /\ duck.gen < MaxGens
    /\ \/ /\ duck' = Opened(sess[s].op = "backup")
          /\ cats' = [c \in Catalogs |-> [cats[c] EXCEPT !.attached = FALSE]]
          /\ sess' = Goto(s, "reset")
          /\ UNCHANGED <<prov, left>>
       \/ /\ Fault
          /\ left' = [left EXCEPT !.faults = @ - 1]
          /\ sess' = Ended(s)
          /\ prov' = [prov EXCEPT !.mu = None]
          /\ UNCHANGED <<duck, cats>>
    /\ UNCHANGED <<pool, conn, backup, hist>>

\* Mutant: the maps are emptied, and the old sql.DB stays.
ResetKeepsDB(s) ==
    /\ sess[s].pc = "swap"
    /\ pool' = [pool EXCEPT !.txns = {}]
    /\ conn' = [t \in Sessions |-> IF conn[t].st = "stored" THEN NoConn ELSE conn[t]]
    /\ prov' = [prov EXCEPT !.mu = None]
    /\ sess' = Goto(s, AfterRestart(s))
    /\ UNCHANGED <<duck, cats, backup, hist, left>>

\* Reset, second half: the maps are emptied and the new sql.DB is in place.
ResetSwap(s) ==
    /\ sess[s].pc = "swap"
    /\ pool' = [pool EXCEPT !.txns = {}, !.db = duck.gen]
    /\ conn' = [t \in Sessions |-> IF conn[t].st = "stored" THEN NoConn ELSE conn[t]]
    /\ prov' = [prov EXCEPT !.mu = None]
    /\ sess' = Goto(s, AfterRestart(s))
    /\ UNCHANGED <<duck, cats, backup, hist, left>>
-----------------------------------------------------------------------------
(* Sessions *)

Command(s, o, a, pc) ==
    /\ sess[s].pc = "idle"
    /\ left.ops > 0
    /\ left' = [left EXCEPT !.ops = @ - 1]
    /\ sess' = [sess EXCEPT ![s].pc = pc, ![s].op = o, ![s].arg = a,
                            ![s].ph = IF pc = "resolve" THEN "resolve" ELSE "build",
                            ![s].clean = IF sess[s].tx = "none" THEN ~Restarting ELSE @]
    /\ UNCHANGED <<duck, prov, cats, pool, conn, backup, hist>>

\* ComInitDB goes straight to the pool; the analyzer looks databases up first.
ComInitDB(s) == \E d \in Schemas : Command(s, "init", d, "load")
Use(s) == \E d \in Schemas : Command(s, "use", d, "resolve")
CreateIndex(s) == sess[s].db # None /\ \E d \in Schemas : Command(s, "index", d, "resolve")
\* A table without a database's name is one of the current database, if there is one.
Insert(s) == /\ left.writes > 0
             /\ IF s \in Postgres THEN Command(s, "dml", None, "load")
                ELSE \E d \in Schemas : /\ sess[s].db \in {None, d}
                                       /\ Command(s, "dml", d, "resolve")
\* StartTransaction gets the transaction of the pool, and with it a connection.
StartTransaction(s) == sess[s].tx = "none" /\ Command(s, "begin", None, "load")
CreateDB(s) == \E d \in Schemas : Command(s, "createdb", d, "resolve")
DropDB(s) == \E d \in Schemas : Command(s, "dropdb", d, "resolve")

\* Database and HasDatabase hold the provider's read lock while they query.
Resolve(s) ==
    /\ sess[s].pc = "resolve"
    /\ prov.mu = None
    /\ prov' = [prov EXCEPT !.readers = @ \union {s}]
    /\ sess' = Goto(s, "load")
    /\ UNCHANGED <<duck, cats, pool, conn, backup, hist, left>>

\* hasDatabase, and the start of Build, which flushes the delta buffer first.
hasDatabase(s) ==
    /\ sess[s].pc = "lookup"
    /\ prov' = Unlocked(s)
    /\ \/ /\ sess' = IF ~conn[s].open \/ (sess[s].op = "createdb") = (sess[s].arg \in duck.dbs)
                     THEN Ended(s)
                     ELSE [sess EXCEPT ![s].ph = "build",
                              ![s].pc = IF sess[s].op \in {"createdb", "dropdb"} THEN "lock" ELSE "load"]
          /\ UNCHANGED left
       \/ /\ Fault
          /\ left' = [left EXCEPT !.faults = @ - 1]
          /\ sess' = Ended(s)
    /\ UNCHANGED <<duck, cats, pool, conn, backup, hist>>

\* CreateDatabase and DropDatabase hold the write lock.
Lock(s) ==
    /\ sess[s].pc = "lock"
    /\ prov.mu = None /\ prov.readers = {}
    /\ prov' = [prov EXCEPT !.mu = s]
    /\ sess' = Goto(s, "load")
    /\ UNCHANGED <<duck, cats, pool, conn, backup, hist, left>>

\* The schema each command asks GetConnForSchema for: CreateDatabase and BACKUP ask
\* for none, ComInitDB for the one to switch to, all others for the current database.
Wanted(s) == CASE sess[s].op = "init" -> sess[s].arg
               [] sess[s].op \in {"createdb", "backup", "resume"} -> None
               [] OTHER -> sess[s].db
\* The transaction that a refused CHECKPOINT leaves behind takes no more statements.
Aborted(s) == s \in pool.txns /\ sess[s].tx = "none"
\* Build, once the framework has left the statement to it: the connection is there,
\* in the wanted schema.
Build(s) == sess[s].pc = "run" /\ Usable(s, Wanted(s)) /\ ~Aborted(s)
Writable(s) == conn[s].gen \notin duck.readonly

\* The connection is closed, or its schema is gone: the command ends in an error.
RunFails(s) ==
    /\ sess[s].pc = "run"
    /\ \/ ~Usable(s, Wanted(s)) \/ Aborted(s)
       \/ sess[s].op \in {"dml", "index", "createdb", "dropdb", "backup", "resume"} /\ ~Writable(s)
    /\ sess' = Ended(s)
    /\ prov' = Unlocked(s)
    /\ UNCHANGED <<duck, cats, pool, conn, backup, hist, left>>

\* USE, ComInitDB, and the catalog's DDL that says USE before it acts: only the first
\* two change the session's current database, all change the connection's schema.
RunUse(s) ==
    /\ Build(s) /\ sess[s].op \in {"init", "use", "index"}
    /\ sess[s].op = "index" => Writable(s)
    /\ IF sess[s].arg \in duck.dbs
       THEN /\ conn' = [conn EXCEPT ![s].schema = sess[s].arg]
            /\ sess' = [Ended(s) EXCEPT ![s].db = IF sess[s].op = "index" THEN @ ELSE sess[s].arg]
       ELSE sess' = Ended(s) /\ conn' = [conn EXCEPT ![s] = GetConnForSchema(s, Wanted(s))]
    /\ UNCHANGED <<duck, prov, cats, pool, backup, hist, left>>

\* executeDML: inside the transaction of the connection, or committed at once.
executeDML(s) ==
    /\ Build(s) /\ sess[s].op = "dml" /\ Writable(s)
    /\ left.writes > 0
    /\ left' = [left EXCEPT !.writes = @ - 1]
    /\ LET c == GetConnForSchema(s, Wanted(s))
           lost == c.cat # Default \/ (sess[s].db # None /\ c.schema # sess[s].db)
           h == [hist EXCEPT !.astray = @ \/ lost]
       IN /\ conn' = [conn EXCEPT ![s] = c]
          /\ IF sess[s].tx = "open" /\ s \in pool.txns
             THEN /\ sess' = [Ended(s) EXCEPT ![s].buf = @ \union {left.writes}]
                  /\ hist' = h
                  /\ UNCHANGED duck
             ELSE /\ sess' = Ended(s)
                  /\ duck' \in Commits(c.gen, {left.writes})
                  /\ hist' = IF Clean(s) /\ sess[s].tx = "none"
                             THEN [h EXCEPT !.kept = @ \union {left.writes}] ELSE h
    /\ UNCHANGED <<prov, cats, pool, backup>>

\* GetTxn: BeginTx on the connection, remembered for the session.
GetTxn(s) ==
    /\ Build(s) /\ sess[s].op = "begin"
    /\ pool' = [pool EXCEPT !.txns = @ \union {s}]
    /\ conn' = [conn EXCEPT ![s] = GetConnForSchema(s, Wanted(s))]
    /\ sess' = [Ended(s) EXCEPT ![s].tx = "open", ![s].clean = sess[s].clean]
    /\ UNCHANGED <<duck, prov, cats, backup, hist, left>>

\* CommitTransaction: a transaction that a restart rolled back is an error.
CommitTransaction(s) ==
    /\ sess[s].pc = "idle" /\ sess[s].tx # "none"
    /\ pool' = [pool EXCEPT !.txns = @ \ {s}]
    /\ sess' = [sess EXCEPT ![s].tx = "none", ![s].buf = {}, ![s].clean = TRUE]
    /\ IF sess[s].tx = "open"
       THEN /\ duck' \in Commits(TxGen(s), sess[s].buf)
            /\ hist' = IF Clean(s) THEN [hist EXCEPT !.kept = @ \union sess[s].buf] ELSE hist
       ELSE UNCHANGED <<duck, hist>>
    /\ UNCHANGED <<prov, cats, conn, backup, left>>

Rollback(s) ==
    /\ sess[s].pc = "idle" /\ sess[s].tx # "none"
    /\ pool' = [pool EXCEPT !.txns = @ \ {s}]
    /\ sess' = [sess EXCEPT ![s].tx = "none", ![s].buf = {}, ![s].clean = TRUE]
    /\ hist' = IF Clean(s) THEN [hist EXCEPT !.gone = @ \union sess[s].buf] ELSE hist
    /\ UNCHANGED <<duck, prov, cats, conn, backup, left>>

\* CreateDatabase and DropDatabase, at the end of which the lock is released.  A
\* session whose current database is dropped has none any more.
RunDDL(s) ==
    /\ Build(s) /\ sess[s].op \in {"createdb", "dropdb"} /\ Writable(s)
    /\ conn' = [conn EXCEPT ![s] = GetConnForSchema(s, Wanted(s))]
    /\ duck' = [duck EXCEPT !.dbs = IF sess[s].op = "createdb" THEN @ \union {sess[s].arg}
                                                               ELSE @ \ {sess[s].arg}]
    /\ sess' = [Ended(s) EXCEPT ![s].db = IF sess[s].op = "dropdb" /\ @ = sess[s].arg
                                          THEN None ELSE @]
    /\ prov' = Unlocked(s)
    /\ UNCHANGED <<cats, pool, backup, hist, left>>
-----------------------------------------------------------------------------
(* DatabaseProvider: the other catalogs.  Every statement goes to the sql.DB. *)

CreateDatabase(s) == \E c \in Catalogs, o \in {"create", "create_if"} : Command(s, o, c, "attach")
DropDatabase(s) == \E c \in Catalogs : Command(s, "drop", c, "detach")

\* CreateCatalog: only a file that did not exist is initialised.
Attach(s) ==
    LET c == sess[s].arg
        new == cats[c].file = "none"
    IN /\ sess[s].pc = "attach"
       /\ IF \/ ~StorageOpen
             \/ cats[c].attached /\ sess[s].op = "create"
             \/ ~cats[c].attached /\ (cats[c].file = "bad" \/ (new /\ duck.gen \in duck.readonly))
          THEN sess' = Ended(s) /\ UNCHANGED <<cats, hist>>
          ELSE /\ cats' = [cats EXCEPT ![c].attached = TRUE, ![c].file = "db"]
               /\ sess' = IF new THEN Goto(s, "switch") ELSE Ended(s)
               /\ hist' = [hist EXCEPT !.odd = @ \/ (new /\ (Creating \/ cats[c].attached))]
       /\ UNCHANGED <<duck, prov, pool, conn, backup, left>>

\* Mutant: the catalog that is current is never changed.
NoSwitch(s) ==
    /\ sess[s].pc = "switch"
    /\ StorageOpen
    /\ sess' = [Goto(s, "init") EXCEPT ![s].prev = Top]
    /\ UNCHANGED <<duck, prov, cats, pool, conn, backup, hist, left>>

\* SELECT current_catalog and USE.
Switch(s) ==
    /\ sess[s].pc = "switch"
    /\ IF StorageOpen /\ cats[sess[s].arg].attached
       THEN /\ duck' = [duck EXCEPT !.free = WithTop(sess[s].arg)]
            /\ sess' = [Goto(s, "init") EXCEPT ![s].prev = Top]
       ELSE sess' = Ended(s) /\ UNCHANGED duck
    /\ UNCHANGED <<prov, cats, pool, conn, backup, hist, left>>

\* initCatalog: one statement after the other, in the catalog that is current on
\* whichever connection it gets.  An error ends it; the deferred USE still runs.
initCatalog(s) ==
    /\ sess[s].pc = "init"
    /\ \/ /\ IF ~StorageOpen \/ Top = Default \/ cats[Top].inits = Internals
             THEN sess' = Goto(s, "back") /\ UNCHANGED cats
             ELSE /\ cats' = [cats EXCEPT ![Top].inits = Append(@, Internals[Len(@) + 1])]
                  /\ sess' = IF Len(cats[Top].inits) + 1 = Len(Internals) THEN Goto(s, "back") ELSE sess
          /\ UNCHANGED <<hist, left>>
       \/ /\ Fault
          /\ left' = [left EXCEPT !.faults = @ - 1]
          /\ sess' = Goto(s, "back")
          /\ hist' = [hist EXCEPT !.odd = TRUE]
          /\ UNCHANGED cats
    /\ UNCHANGED <<duck, prov, pool, conn, backup>>

SwitchBack(s) ==
    /\ sess[s].pc = "back"
    /\ duck' = IF StorageOpen THEN [duck EXCEPT !.free = WithTop(sess[s].prev)] ELSE duck
    /\ sess' = Ended(s)
    /\ UNCHANGED <<prov, cats, pool, conn, backup, hist, left>>

\* DropCatalog: DETACH, then the file is removed.
Detach(s) ==
    /\ sess[s].pc = "detach"
    /\ IF StorageOpen /\ cats[sess[s].arg].attached /\ cats[sess[s].arg].file # "none"
       THEN /\ cats' = [cats EXCEPT ![sess[s].arg].attached = FALSE]
            /\ sess' = Goto(s, "remove")
       ELSE sess' = Ended(s) /\ UNCHANGED cats
    /\ hist' = [hist EXCEPT !.odd = @ \/ Creating]
    /\ UNCHANGED <<duck, prov, pool, conn, backup, left>>

Remove(s) ==
    /\ sess[s].pc = "remove"
    /\ cats' = [cats EXCEPT ![sess[s].arg].file = "none", ![sess[s].arg].inits = <<>>]
    /\ sess' = Ended(s)
    /\ hist' = [hist EXCEPT !.odd = @ \/ cats[sess[s].arg].attached]
    /\ UNCHANGED <<duck, prov, pool, conn, backup, left>>

\* DownloadFile creates the file first and may stop halfway.
DownloadFile(c, whole) == [cats[c] EXCEPT !.file = IF whole THEN "db" ELSE "bad",
                                          !.inits = IF whole THEN Internals ELSE <<>>]
\* AttachCatalog: ATTACH IF NOT EXISTS.  One that is attached is left as it is.
AttachCatalog(k) == [k EXCEPT !.attached = @ \/ k.file = "db"]
\* attachCatalogs, in a new instance: what cannot be attached is logged and skipped.
attachCatalogs == [c \in Catalogs |-> AttachCatalog([cats[c] EXCEPT !.attached = FALSE])]

\* executeRestore: over the file of an attached catalog it changes what is open.
executeRestore(s) ==
    /\ sess[s].pc = "idle" /\ left.ops > 0
    /\ \E c \in Catalogs :
          /\ hist' = [hist EXCEPT !.odd = @ \/ cats[c].attached]
          /\ \/ /\ cats' = [cats EXCEPT ![c] = IF StorageOpen THEN AttachCatalog(DownloadFile(c, TRUE))
                                                            ELSE DownloadFile(c, TRUE)]
                /\ left' = [left EXCEPT !.ops = @ - 1]
             \/ /\ Fault
                /\ cats' = [cats EXCEPT ![c] = DownloadFile(c, FALSE)]
                /\ left' = [left EXCEPT !.ops = @ - 1, !.faults = @ - 1]
    /\ UNCHANGED <<duck, prov, pool, conn, sess, backup>>
-----------------------------------------------------------------------------
(* BACKUP *)

Backup(s) == sess[s].tx = "none" /\ Command(s, "backup", None, "load")

\* stopAllReplication: the table says so, then the replicators are stopped.
stopAllReplication(s) ==
    /\ Build(s) /\ sess[s].op = "backup" /\ Writable(s)
    /\ backup' = [enabled |-> FALSE, up |-> {}, before |-> hist.kept, ok |-> FALSE]
    /\ sess' = Goto(s, "checkpoint")
    /\ hist' = [hist EXCEPT !.raced = @ \/ \E t \in Sessions \ {s} : sess[t].op \in {"backup", "resume"}]
    /\ UNCHANGED <<duck, prov, cats, pool, conn, left>>

\* Mutant: the file is not brought up to date.
NoCheckpoint(s) ==
    /\ sess[s].pc = "checkpoint"
    /\ sess' = Goto(s, "close")
    /\ UNCHANGED <<duck, prov, cats, pool, conn, backup, hist, left>>

\* CHECKPOINT in a transaction of its own, which stays in the pool when it is refused.
doCheckpoint(s) ==
    /\ sess[s].pc = "checkpoint"
    /\ IF conn[s].open /\ CanCheckpoint(s)
       THEN duck' = Checkpointed(duck) /\ sess' = Goto(s, "close") /\ UNCHANGED pool
       ELSE /\ sess' = Ended(s)
            /\ pool' = IF conn[s].open /\ sess[s].tx = "none"
                       THEN [pool EXCEPT !.txns = @ \union {s}] ELSE pool
            /\ UNCHANGED duck
    /\ UNCHANGED <<prov, cats, conn, backup, hist, left>>

\* UploadFile reads the file over a while; an error leaves the server read-only and
\* replication stopped.
UploadFile(s) ==
    /\ sess[s].pc = "upload"
    /\ backup' = [backup EXCEPT !.up = duck.file]
    /\ sess' = Goto(s, "uploading")
    /\ UNCHANGED <<duck, prov, cats, pool, conn, hist, left>>

Uploaded(s) ==
    /\ sess[s].pc = "uploading"
    /\ \/ /\ sess' = [sess EXCEPT ![s].pc = "close", ![s].op = "resume"]
          /\ backup' = [backup EXCEPT !.ok = duck.file = backup.up]
          /\ UNCHANGED left
       \/ /\ Fault
          /\ left' = [left EXCEPT !.faults = @ - 1]
          /\ sess' = Ended(s)
          /\ backup' = NoBackup(FALSE)
    /\ UNCHANGED <<duck, prov, cats, pool, conn, hist>>

\* startAllReplication, on a connection of the new instance.
startAllReplication(s) ==
    /\ Build(s) /\ sess[s].op = "resume" /\ Writable(s)
    /\ backup' = NoBackup(TRUE)
    /\ sess' = Ended(s)
    /\ UNCHANGED <<duck, prov, cats, pool, conn, hist, left>>
-----------------------------------------------------------------------------
\* The server dies and starts again (NewDBProvider): the default file and its log
\* are replayed, every other file that can be is attached.
NewDBProvider ==
    /\ Fault /\ duck.gen < MaxGens
    /\ left' = [left EXCEPT !.faults = @ - 1]
    /\ duck' = [Opened(FALSE) EXCEPT !.closed = 1..duck.gen, !.free = <<Default>>]
    /\ prov' = [mu |-> None, readers |-> {}]
    /\ cats' = attachCatalogs
    /\ pool' = [db |-> duck.gen + 1, txns |-> {}, orphan |-> FALSE]
    /\ conn' = [s \in Sessions |-> NoConn]
    /\ sess' = [s \in Sessions |-> Idle]
    /\ hist' = [hist EXCEPT !.odd = @ \/ Creating]
    /\ backup' = NoBackup(backup.enabled)

Init ==
    /\ duck = [gen |-> 1, closed |-> {}, readonly |-> {}, free |-> <<Default>>, inst |-> <<{}>>,
               file |-> {}, wal |-> {}, dbs |-> Schemas]
    /\ prov = [mu |-> None, readers |-> {}]
    /\ cats = [c \in Catalogs |-> [file |-> "none", attached |-> FALSE, inits |-> <<>>]]
    /\ pool = [db |-> 1, txns |-> {}, orphan |-> FALSE]
    /\ conn = [s \in Sessions |-> NoConn]
    /\ sess = [s \in Sessions |-> Idle]
    /\ backup = NoBackup(TRUE)
    /\ hist = [kept |-> {}, gone |-> {}, astray |-> FALSE, odd |-> FALSE, raced |-> FALSE]
    /\ left = [ops |-> MaxOps, writes |-> MaxWrites, faults |-> MaxFaults]

Next ==
    \/ \E s \in Sessions :
          \/ Load(s) \/ Take(s) \/ Store(s) \/ CloseConn(s) \/ RunFails(s)
          \/ Insert(s) \/ executeDML(s)
    \/ \E s \in MySQL :
          \/ ComInitDB(s) \/ Use(s) \/ CreateIndex(s) \/ StartTransaction(s) \/ CreateDB(s) \/ DropDB(s)
          \/ Resolve(s) \/ hasDatabase(s) \/ Lock(s)
          \/ RunUse(s) \/ GetTxn(s) \/ CommitTransaction(s) \/ Rollback(s) \/ RunDDL(s)
    \/ \E s \in Postgres :
          \/ CreateDatabase(s) \/ DropDatabase(s) \/ Attach(s) \/ Switch(s) \/ initCatalog(s)
          \/ SwitchBack(s) \/ Detach(s) \/ Remove(s) \/ executeRestore(s)
          \/ Backup(s) \/ stopAllReplication(s) \/ doCheckpoint(s) \/ UploadFile(s) \/ Uploaded(s)
          \/ startAllReplication(s)
          \/ ProviderClose(s) \/ ProviderOpen(s) \/ PoolClose(s) \/ ResetSwap(s)
    \/ NewDBProvider

Spec == Init /\ [][Next]_vars
-----------------------------------------------------------------------------
(* Properties *)

\* A statement of a session runs in the session's current database, whatever the
\* connection was last switched to by USE, by DDL on another database, or by being
\* new (connpool.go GetConnForSchema), as long as no connection was taken while
\* CREATE DATABASE had an idle one switched to another catalog.
RunsWhereMeant == hist.astray => hist.odd

\* What was acknowledged is in the open instance, and what was rolled back or left
\* behind by a client is not, across restarts and crashes (Restart, Reset, Close,
\* CommitTransaction, Rollback), for every transaction that no restart overlapped.
Durable == /\ hist.kept \subseteq duck.inst[duck.gen]
           /\ hist.gone \intersect duck.inst[duck.gen] = {}

\* Outside a restart the pool hands out connections of the provider's instance
\* (Restart, Reset) whatever fails, and that instance is open as long as nothing fails;
\* unless a client left with a transaction in the pool (CloseConn keeps the entry of
\* txns, whose rollback fails Close).
PoolServes == \/ Restarting
              \/ pool.db = duck.gen /\ (StorageOpen \/ left.faults < MaxFaults)
              \/ pool.orphan

\* A backup that was uploaded in full has every row acknowledged before it began,
\* and the file stood still while it was read (executeBackup), unless a session got
\* its connection while the pool was being reset or two backups overlapped.
BackupWhole ==
    \A s \in Postgres :
       sess[s].op = "resume" =>
          \/ backup.ok /\ backup.before \subseteq backup.up
          \/ hist.raced

\* A catalog that is attached has its file, and once no CREATE DATABASE is at work on
\* it has all that initCatalog creates (CreateCatalog), unless its statements shared
\* connections with a session, or one of them failed.
CatalogWhole ==
    \A c \in Catalogs :
       cats[c].attached =>
          \/ cats[c].file = "db" /\ (cats[c].inits = Internals \/ \E s \in Sessions : sess[s].arg = c /\ sess[s].pc # "idle")
          \/ hist.odd
=============================================================================
