---------------------------- MODULE CatalogTable ----------------------------
(***************************************************************************)
(* The MySQL tables kept in DuckDB (catalog/database.go, catalog/table.go) *)
(* the inserter of their rows (catalog/inserter.go) and LOAD DATA          *)
(* (backend/loaddata.go).                                                  *)
(*                                                                         *)
(* What DuckDB cannot hold of a MySQL table (the primary key of a table    *)
(* without index, the sequence of its AUTO_INCREMENT column, its CHECKs)   *)
(* is kept as an ExtraTableInfo in the comment of the table, and the       *)
(* AUTO_INCREMENT flag in the comment of the column.  Every statement of a *)
(* session looks the table up anew, so that the lock of a Table object     *)
(* excludes nobody, and turns into several DuckDB statements, each its own *)
(* transaction, between which other sessions run and any of which may be   *)
(* refused.  Sessions are in autocommit mode.                              *)
(***************************************************************************)
EXTENDS Naturals, FiniteSets, Sequences, SequencesExt, TLC

CONSTANTS
    Sessions,    \* client sessions
    Names,       \* names of tables
    Layouts,     \* column lists that CREATE TABLE may give
    Extra,       \* columns that ALTER TABLE may add or turn a column into
    CheckNames,  \* names of CHECK constraints
    IndexNames,  \* names of secondary indexes
    Rows,        \* value lists that INSERT may give; 0 stands for NULL
    MaxCommands, \* bound on the statements of all sessions
    MaxSeqs,     \* bound on the sequences ever made
    MaxFaults    \* bound on the statements refused or killed

NoTable == [cols |-> <<>>]   \* a table has at least one column
Nothing == 0                 \* no default, no sequence
Value == MaxSeqs + 1         \* a default other than a sequence
Commands == 1..MaxCommands
Seqs == 1..MaxSeqs

VARIABLES
    tab,      \* DuckDB: the tables, by name
    seq,      \* DuckDB: the sequences, start 0 when there is none
    tmp,      \* DuckDB: the temporary table of each session, by table
    cur,      \* DuckDB: currval of each session, 0 when undefined
    noindex,  \* configuration: replication without index
    job,      \* the statement each session runs
    commands, \* statements begun
    uuids,    \* sequence names drawn
    faults,   \* faults that may still happen
    muddled,  \* history: tables written from a stale object, or by a statement
              \* that stopped half way
    shifted,  \* history: tables that lost a column at or before a pretended key
    rewound,  \* history: tables whose sequence restarted at or below a value used
    handed,   \* history: the automatic values each table has been given
    twice,    \* history: tables given an automatic value twice
    outcome   \* history: how each INSERT ended, and the rows it was to insert

disk == <<tab, seq, tmp, cur>>
doubts == <<muddled, shifted, rewound>>
history == <<doubts, handed, twice, outcome>>
vars == <<disk, noindex, job, commands, uuids, faults, history>>

NoJob == [at |-> "idle"]
NoInfo == [PkOrdinals |-> <<>>, Replicated |-> FALSE, Sequence |-> Nothing, Checks |-> {}]
Opt(c, list) == IF c THEN list ELSE <<>>

Ordinals(cols, P(_)) == SelectSeq([i \in 1..Len(cols) |-> i], LAMBDA i : P(cols[i]))
Find(cols, c) == {i \in DOMAIN cols : cols[i].name = c}
-----------------------------------------------------------------------------
(* External: the statements DuckDB runs, as changes of a table.  A result of *)
(* NoTable stands for a refusal.                                            *)

Column(c, default) == [name |-> c.name, null |-> TRUE, default |-> default,
                       auto |-> FALSE, key |-> FALSE]

AddsColumn(T, c, default) ==
    IF Find(T.cols, c.name) # {} \/ (default \in Seqs /\ seq[default].start = 0) THEN NoTable
    ELSE [T EXCEPT !.cols = Append(@, Column(c, default))]

Alters(T, c, field, value) ==
    IF Find(T.cols, c) = {} THEN NoTable
    ELSE [T EXCEPT !.cols = [i \in DOMAIN @ |->
                           IF @[i].name = c THEN [@[i] EXCEPT ![field] = value] ELSE @[i]]]

\* A table has one primary key; its columns are marked as the declared key.
AddsKey(T, c) ==
    IF T.pk # <<>> \/ Find(T.cols, c) = {} THEN NoTable
    ELSE LET i == CHOOSE i \in Find(T.cols, c) : TRUE
         IN  [T EXCEPT !.pk = <<i>>, !.cols[i].key = TRUE, !.cols[i].null = FALSE]

\* A column goes unless it is the last one, or an index or the primary key
\* is on it or on a later one.
DropsColumn(T, c) ==
    IF Find(T.cols, c) = {} \/ Len(T.cols) = 1 THEN NoTable
    ELSE LET i == CHOOSE i \in Find(T.cols, c) : TRUE
             later == {T.cols[j].name : j \in i..Len(T.cols)}
         IN  IF (\E j \in Range(T.pk) : j >= i) \/ (\E x \in T.index : x.col \in later)
             THEN NoTable
             ELSE [T EXCEPT !.cols = RemoveAt(@, i)]

Changed(T, st) ==
    CASE st.do = "add column" -> AddsColumn(T, st.c, st.default)
      [] st.do = "null" -> Alters(T, st.c, "null", st.null)
      [] st.do = "default" -> Alters(T, st.c, "default", st.default)
      [] st.do = "comment column" -> Alters(T, st.c, "auto", st.auto)
      [] st.do = "rename column" ->
            IF Find(T.cols, st.to) # {} THEN NoTable
            ELSE Alters(T, st.c, "name", st.to)
      [] st.do = "add key" -> AddsKey(T, st.c)
      [] st.do = "drop column" -> DropsColumn(T, st.c)
      [] st.do = "comment table" -> [T EXCEPT !.info = st.info]
      [] st.do = "index" ->
            IF (\E x \in T.index : x.name = st.name) \/ Find(T.cols, st.c) = {} THEN NoTable
            ELSE [T EXCEPT !.index = @ \union {[name |-> st.name, col |-> st.c]}]
      [] st.do = "drop index" ->
            IF \A x \in T.index : x.name # st.name THEN NoTable
            ELSE [T EXCEPT !.index = {x \in @ : x.name # st.name}]
      [] st.do = "truncate" -> [T EXCEPT !.rows = <<>>]
      [] st.do = "copy" ->
            IF tab[st.from] = NoTable \/ Len(tab[st.from].cols) # Len(T.cols) THEN NoTable
            ELSE [T EXCEPT !.rows = @ \o tab[st.from].rows]
      [] OTHER -> T

\* What statement st makes of table t.
Target(t, st) ==
    IF st.do = "create" THEN IF tab[t] = NoTable THEN st.table ELSE NoTable
    ELSE IF tab[t] = NoTable \/ (st.do = "rename" /\ tab[st.to] # NoTable) THEN NoTable
    ELSE Changed(tab[t], st)
-----------------------------------------------------------------------------
(* The DuckDB statements of each operation on a table object *)

Column_(c, auto) == [do |-> "comment column", c |-> c, auto |-> auto]
Table_(info) == [do |-> "comment table", info |-> info]
Sequence_(id, start) == [do |-> "sequence", id |-> id, start |-> start]

isIndexCreationDisabled(replicated) == noindex /\ replicated

\* A table in DuckDB, before its comments are written.
Bare(layout, replicated, id) ==
    LET key == Ordinals(layout, LAMBDA c : c.key)
    IN  [cols |-> [i \in DOMAIN layout |->
                     [name |-> layout[i].name, null |-> layout[i].null, auto |-> FALSE,
                      key |-> layout[i].key,
                      default |-> IF layout[i].auto THEN id ELSE Nothing]],
         pk |-> IF isIndexCreationDisabled(replicated) THEN <<>> ELSE key,
         info |-> NoInfo, index |-> {}, rows |-> <<>>]

Info(layout, replicated, id) ==
    [PkOrdinals |-> Ordinals(layout, LAMBDA c : c.key),
     Replicated |-> isIndexCreationDisabled(replicated),
     Sequence |-> IF \E i \in DOMAIN layout : layout[i].auto THEN id ELSE Nothing,
     Checks |-> {}]

createAllTable(layout, replicated, id) ==
    Opt(\E i \in DOMAIN layout : layout[i].auto, <<Sequence_(id, 1)>>)
    \o <<[do |-> "create", table |-> Bare(layout, replicated, id)],
         Table_(Info(layout, replicated, id))>>
    \o [i \in DOMAIN layout |-> Column_(layout[i].name, layout[i].auto)]

\* Mutant: the table comment is not written.
AddColumnUnrecorded(o, c, id) ==
    Opt(c.auto, <<Sequence_(id, 1)>>)
    \o <<[do |-> "add column", c |-> c, default |-> IF c.auto THEN id ELSE Nothing],
         Column_(c.name, c.auto)>>

AddColumn(o, c, id) ==
    LET info == [o.info EXCEPT !.Sequence = IF c.auto THEN id ELSE @,
                               !.PkOrdinals = IF c.key THEN <<Len(o.cols) + 1>> ELSE @]
        default == IF c.value THEN Value ELSE IF c.auto THEN id ELSE Nothing
    IN  Opt(c.auto, <<Sequence_(id, 1)>>)
        \o <<[do |-> "add column", c |-> c, default |-> default]>>
        \o Opt(~c.null, <<[do |-> "null", c |-> c.name, null |-> FALSE]>>)
        \o <<Column_(c.name, c.auto)>>
        \o Opt(c.key, <<[do |-> "add key", c |-> c.name]>>)
        \o Opt(c.auto \/ c.key, <<Table_(info)>>)

DropColumn(o, c) ==
    LET auto == \E i \in Find(o.cols, c) : o.cols[i].auto
    IN  <<[do |-> "drop column", c |-> c]>>
        \o Opt(auto, <<[do |-> "drop sequence", id |-> o.info.Sequence],
                       Table_([o.info EXCEPT !.Sequence = Nothing])>>)

\* The flag of the column comment is set only when AUTO_INCREMENT is new.
ModifyColumn(o, i, c, id) ==
    LET old == o.cols[i]
        wasKey == i \in Range(o.pk)
        starts == ~old.auto /\ c.auto
        ends == old.auto /\ ~c.auto
        info == [o.info EXCEPT
                   !.Sequence = IF starts THEN id ELSE IF ends THEN Nothing ELSE @,
                   !.PkOrdinals = IF c.key /\ ~wasKey THEN <<i>> ELSE @]
        Default(d) == <<[do |-> "default", c |-> old.name, default |-> d]>>
    IN  Opt(old.null # c.null, <<[do |-> "null", c |-> old.name, null |-> c.null]>>)
        \o Opt(~c.auto /\ c.value, Default(Value))
        \o Opt(starts, <<Sequence_(id, 1)>> \o Default(id))
        \o Opt(ends, Default(Nothing))
        \o Opt(c.name # old.name, <<[do |-> "rename column", c |-> old.name, to |-> c.name]>>)
        \o <<Column_(c.name, starts)>>
        \o Opt(c.key /\ ~wasKey, <<[do |-> "add key", c |-> c.name]>>)
        \o Opt(starts \/ ends \/ (c.key /\ ~wasKey), <<Table_(info)>>)

updateExtraTableInfo(info) == <<Table_(info)>>

\* A new sequence takes the place of the old one, which stays behind.
setAutoIncrementValue(o, v, id) ==
    LET i == CHOOSE i \in DOMAIN o.cols : o.cols[i].auto
    IN  <<Sequence_(id, v), [do |-> "default", c |-> o.cols[i].name, default |-> id]>>
        \o updateExtraTableInfo([o.info EXCEPT !.Sequence = id])

\* Mutant: the key of the comment is not pretended.
withSchemaPhysical(info, T) == T.pk

\* Where the physical key is missing, the key of the comment is pretended.
withSchema(info, T) ==
    IF T.pk = <<>> /\ noindex THEN info.PkOrdinals ELSE T.pk
-----------------------------------------------------------------------------
(* Sessions *)

\* A table as CREATE TABLE leaves it.
Made(layout, replicated, id) ==
    LET T == Bare(layout, replicated, id)
    IN  [T EXCEPT !.cols = [i \in DOMAIN @ |-> [@[i] EXCEPT !.auto = layout[i].auto]],
                  !.info = Info(layout, replicated, id)]

\* One table is there, or none; sequence 1 is that table's.
Init ==
    /\ noindex \in BOOLEAN
    /\ \E t \in Names, made \in {NoTable} \union
                               {Made(l, r, 1) : l \in Layouts, r \in BOOLEAN} :
          tab = [n \in Names |-> IF n = t THEN made ELSE NoTable]
    /\ seq = [q \in Seqs |-> IF q = 1 THEN [start |-> 1, next |-> 1]
                                      ELSE [start |-> 0, next |-> 0]]
    /\ uuids = 1
    /\ tmp = [s \in Sessions |-> [n \in Names |-> NoTable]]
    /\ cur = [s \in Sessions |-> [q \in Seqs |-> 0]]
    /\ job = [s \in Sessions |-> NoJob]
    /\ commands = 0 /\ faults = MaxFaults
    /\ muddled = {} /\ shifted = {} /\ rewound = {} /\ twice = {}
    /\ handed = [n \in Names |-> {}]
    /\ outcome = [k \in Commands |-> [end |-> "none", n |-> 0]]

At(s, phase) == job[s].at = phase
Set(s, j) == job' = [job EXCEPT ![s] = j]
Goto(s, phase) == Set(s, [job[s] EXCEPT !.at = phase])
Done(s) == Set(s, NoJob)

\* Statements on an existing table look it up first: the comment of the table
\* is read here, its columns and key by the action that plans the statement.
Lookups == {"add column", "drop column", "modify column", "index", "drop index",
            "check", "drop check", "auto_increment", "truncate", "insert", "load data"}

findTables(s) ==
    /\ At(s, "idle") /\ commands < MaxCommands
    /\ commands' = commands + 1
    /\ \E t \in Names, op \in Lookups :
          /\ tab[t] # NoTable
          /\ Set(s, [at |-> "load", op |-> op, t |-> t, k |-> commands + 1,
                     fresh |-> TRUE, info |-> tab[t].info, hasPK |-> tab[t].pk # <<>>])
    /\ UNCHANGED <<disk, noindex, uuids, faults, history>>

\* A pretended key beyond the last column panics, and the statement with it.
Loadable(s) ==
    LET T == tab[job[s].t]
    IN  T # NoTable /\ \A i \in Range(withSchema(job[s].info, T)) : i <= Len(T.cols)
Loads(s, op) == At(s, "load") /\ job[s].op = op /\ Loadable(s)
getPKSchema(s) ==
    LET T == tab[job[s].t]
    IN  [info |-> job[s].info, cols |-> T.cols, pk |-> withSchema(job[s].info, T)]

LookupFails(s) ==
    /\ At(s, "load")
    /\ ~Loadable(s)
    /\ Done(s)
    /\ UNCHANGED <<disk, noindex, commands, uuids, faults, history>>

\* DuckDB parses all statements of a string before it runs the first.
Parses(list) == \A i \in DOMAIN list : list[i].do = "drop sequence" => list[i].id # Nothing

Exec(s, list) ==
    IF Parses(list) /\ list # <<>>
    THEN Set(s, [job[s] EXCEPT !.at = "exec"] @@
                [o |-> getPKSchema(s), todo |-> list, ran |-> FALSE])
    ELSE Done(s)

Drawn == uuids + 1
Draw(needed) == IF needed THEN Drawn \in Seqs /\ uuids' = Drawn ELSE UNCHANGED uuids
Still == UNCHANGED <<disk, noindex, faults, history>>
-----------------------------------------------------------------------------
(* One action per statement of the user: it plans what DuckDB is to run *)

\* CREATE, DROP and RENAME TABLE and the copy look nothing up.
Blind(s, op, t, list) ==
    /\ At(s, "idle") /\ commands < MaxCommands
    /\ commands' = commands + 1
    /\ Set(s, [at |-> "exec", op |-> op, t |-> t, k |-> commands + 1, fresh |-> TRUE,
               todo |-> list, ran |-> FALSE])
    /\ Still

CreateTable(s) ==
    \E t \in Names, l \in Layouts, replicated \in BOOLEAN :
        /\ Draw(\E i \in DOMAIN l : l[i].auto)
        /\ Blind(s, "create", t, createAllTable(l, replicated, Drawn))

DropTable(s) == \E t \in Names : Blind(s, "drop", t, <<[do |-> "drop"]>>) /\ UNCHANGED uuids

RenameTable(s) ==
    \E t \in Names : \E n \in Names \ {t} :
        Blind(s, "rename", t, <<[do |-> "rename", to |-> n]>>) /\ UNCHANGED uuids

\* The destination has just been created.
CopyTableData(s) ==
    \E t \in Names : \E n \in Names \ {t} :
        /\ tab[t] # NoTable /\ tab[t].rows = <<>>
        /\ Blind(s, "copy", t, <<[do |-> "copy", from |-> n]>>) /\ UNCHANGED uuids

HasAuto(o) == \E i \in DOMAIN o.cols : o.cols[i].auto

\* go-mysql-server refuses a duplicate column, a second AUTO_INCREMENT
\* column and a second primary key.
Valid(o, c, i) ==
    /\ \A j \in DOMAIN o.cols \ {i} : o.cols[j].name # c.name /\ ~(c.auto /\ o.cols[j].auto)
    /\ c.key => Range(o.pk) \subseteq {i}

AlterAddColumn(s) ==
    /\ Loads(s, "add column")
    /\ \E c \in Extra : /\ Valid(getPKSchema(s), c, 0) /\ Draw(c.auto)
                        /\ Exec(s, AddColumn(getPKSchema(s), c, Drawn))
    /\ Still /\ UNCHANGED commands

AlterDropColumn(s) ==
    /\ Loads(s, "drop column")
    /\ \E i \in DOMAIN tab[job[s].t].cols :
          Exec(s, DropColumn(getPKSchema(s), tab[job[s].t].cols[i].name))
    /\ Still /\ UNCHANGED <<commands, uuids>>

AlterModifyColumn(s) ==
    /\ Loads(s, "modify column")
    /\ \E i \in DOMAIN tab[job[s].t].cols, c \in Extra :
          /\ Valid(getPKSchema(s), c, i) /\ Draw(c.auto)
          /\ Exec(s, ModifyColumn(getPKSchema(s), i, c, Drawn))
    /\ Still /\ UNCHANGED commands

\* CREATE INDEX is left out where indexes are disabled; DROP INDEX is not.
CreateIndex(s) ==
    /\ Loads(s, "index")
    /\ \E x \in IndexNames, i \in DOMAIN tab[job[s].t].cols, replicated \in BOOLEAN :
          Exec(s, Opt(~isIndexCreationDisabled(replicated),
                      <<[do |-> "index", name |-> x, c |-> tab[job[s].t].cols[i].name]>>))
    /\ Still /\ UNCHANGED <<commands, uuids>>

DropIndex(s) ==
    /\ Loads(s, "drop index")
    /\ \E x \in IndexNames : Exec(s, <<[do |-> "drop index", name |-> x]>>)
    /\ Still /\ UNCHANGED <<commands, uuids>>

CreateCheck(s) ==
    /\ Loads(s, "check")
    /\ \E x \in CheckNames :
          Exec(s, updateExtraTableInfo([job[s].info EXCEPT !.Checks = @ \union {x}]))
    /\ Still /\ UNCHANGED <<commands, uuids>>

DropCheck(s) ==
    /\ Loads(s, "drop check")
    /\ \E x \in CheckNames :
          Exec(s, Opt(x \in job[s].info.Checks,
                      updateExtraTableInfo([job[s].info EXCEPT !.Checks = @ \ {x}])))
    /\ Still /\ UNCHANGED <<commands, uuids>>

\* ALTER TABLE ... AUTO_INCREMENT = v
SetAutoIncrementValue(s) ==
    LET set == HasAuto(getPKSchema(s)) /\ job[s].info.Sequence # Nothing
    IN  /\ Loads(s, "auto_increment")
        /\ Draw(set)
        /\ \E v \in 1..3 : Exec(s, Opt(set, setAutoIncrementValue(getPKSchema(s), v, Drawn)))
        /\ Still /\ UNCHANGED commands

Truncate(s) ==
    /\ Loads(s, "truncate") /\ Exec(s, <<[do |-> "truncate"]>>)
    /\ Still /\ UNCHANGED <<commands, uuids>>
-----------------------------------------------------------------------------
(* The statements run in DuckDB, one by one *)

\* Everybody else's object of a table named in ts is stale from now on.
Stale(s, j, ts) ==
    job' = [r \in Sessions |-> IF r = s THEN j
                               ELSE IF job[r].at # "idle" /\ job[r].t \in ts
                                    THEN [job[r] EXCEPT !.fresh = FALSE] ELSE job[r]]

\* The rest of the list; an INSERT goes on with its row, and its object has
\* the new sequence.
Rest(s) ==
    LET j == [job[s] EXCEPT !.todo = Tail(@), !.ran = TRUE]
        st == Head(job[s].todo)
    IN  IF j.todo # <<>> THEN j
        ELSE IF j.op = "insert" THEN [j EXCEPT !.at = "put", !.o.info = st.info]
        ELSE NoJob

\* A sequence that a column default depends on cannot be dropped.
InUse(id) == \E n \in Names : \E i \in DOMAIN tab[n].cols : tab[n].cols[i].default = id
Refuses(t, st) ==
    CASE st.do = "sequence" -> FALSE
      [] st.do = "drop sequence" -> InUse(st.id)
      [] OTHER -> Target(t, st) = NoTable

RunSequence(s) ==
    /\ At(s, "exec")
    /\ LET st == Head(job[s].todo)
       IN  /\ st.do \in {"sequence", "drop sequence"} /\ ~Refuses(job[s].t, st)
           /\ seq' = [seq EXCEPT ![st.id] = IF st.do = "sequence"
                                            THEN [start |-> st.start, next |-> st.start]
                                            ELSE [start |-> 0, next |-> 0]]
    /\ Set(s, Rest(s))
    /\ UNCHANGED <<tab, tmp, cur, noindex, commands, uuids, faults, history>>

UnderWay(s, t) == job[s].at = "exec" /\ job[s].t = t /\ job[s].ran

\* History: a table that is created or dropped starts over, a renamed one
\* takes its history along, and what is written from a stale object, or left
\* half done, muddles the table.
Starts == {"create", "drop", "rename"}
Harmless == Starts \union {"truncate", "copy"}
Kept(S, t, st) == CASE st.do = "rename" -> (S \ {t}) \union {st.to : n \in S \intersect {t}}
                    [] st.do \in {"create", "drop"} -> S \ {t}
                    [] OTHER -> S

Remember(s, st) ==
    LET t == job[s].t
        T == tab[t]
        torn == {t : r \in {r \in Sessions \ {s} : st.do = "rename" /\ UnderWay(r, t)}}
        stale == IF job[s].fresh \/ st.do \in Harmless THEN {} ELSE {t}
        shifts == IF /\ st.do = "drop column" /\ T.pk = <<>>
                     /\ \E i \in Find(T.cols, st.c), p \in Range(T.info.PkOrdinals) : i <= p
                  THEN {t} ELSE {}
        rewinds == IF /\ st.do = "comment table" /\ st.info.Sequence \in Seqs
                      /\ st.info.Sequence # T.info.Sequence
                      /\ \E v \in handed[t] : v >= seq[st.info.Sequence].next
                   THEN {t} ELSE {}
    IN  /\ muddled' = Kept(muddled \union torn, t, st) \union stale
        /\ shifted' = Kept(shifted, t, st) \union shifts
        /\ rewound' = Kept(rewound, t, st) \union rewinds
        /\ twice' = Kept(twice, t, st)
        /\ handed' = [n \in Names |-> IF st.do = "rename" /\ n = st.to THEN handed[t]
                                      ELSE IF st.do \in Starts /\ n = t THEN {}
                                      ELSE handed[n]]

RunStatement(s) ==
    /\ At(s, "exec")
    /\ LET t == job[s].t
           st == Head(job[s].todo)
           ts == IF st.do = "rename" THEN {t, st.to} ELSE {t}
       IN  /\ st.do \notin {"sequence", "drop sequence"} /\ ~Refuses(t, st)
           /\ tab' = [n \in Names |->
                        IF n = t THEN IF st.do \in {"drop", "rename"} THEN NoTable ELSE Target(t, st)
                        ELSE IF n \in ts THEN tab[t] ELSE tab[n]]
           /\ Remember(s, st)
           /\ Stale(s, Rest(s), ts)
    /\ UNCHANGED <<seq, tmp, cur, noindex, commands, uuids, faults, outcome>>

\* The statement ends with an error, half way if a part of it has run.
Abandon(s) ==
    /\ muddled' = IF job[s].ran THEN muddled \union {job[s].t} ELSE muddled
    /\ IF job[s].op = "insert" THEN Goto(s, "discard") ELSE Done(s)
    /\ UNCHANGED <<disk, noindex, commands, uuids, shifted, rewound, handed, twice, outcome>>

StatementFails(s) ==
    /\ At(s, "exec")
    /\ Refuses(job[s].t, Head(job[s].todo))
    /\ Abandon(s) /\ UNCHANGED faults

\* External: DuckDB refuses a statement for a reason of its own (a conflict
\* with another transaction, a dependency), or the statement is killed.
StatementRefused(s) ==
    /\ At(s, "exec") /\ faults > 0 /\ faults' = faults - 1
    /\ Abandon(s)
-----------------------------------------------------------------------------
(* INSERT: rowInserter and AUTO_INCREMENT *)

Tmp(s) == tmp[s][job[s].t]
Inserting(s, given) ==
    [job[s] EXCEPT !.at = "begin", !.op = "insert"] @@
    [o |-> getPKSchema(s), given |-> given, i |-> 1, err |-> FALSE, est |-> 0,
     todo |-> <<>>, ran |-> FALSE]

Insert(s) ==
    /\ Loads(s, "insert")
    /\ \E given \in Rows : Set(s, Inserting(s, given))
    /\ UNCHANGED <<disk, noindex, commands, uuids, faults, history>>

\* init: a temporary table is made unless it is there, and must have the
\* columns of the object.
StatementBegin(s) ==
    LET T == tab[job[s].t]
        made == IF Tmp(s) = NoTable /\ T # NoTable
                THEN [cols |-> T.cols, rows |-> <<>>] ELSE Tmp(s)
    IN  /\ At(s, "begin")
        /\ tmp' = [tmp EXCEPT ![s][job[s].t] = made]
        /\ Set(s, [job[s] EXCEPT !.at = "row",
                                 !.err = T = NoTable \/ Len(made.cols) # Len(job[s].o.cols)])
        /\ UNCHANGED <<tab, seq, cur, noindex, commands, uuids, faults, history>>

\* getNextAutoIncrementValue: currval + 1, or the start of an unused sequence.
Peek(s) ==
    LET q == job[s].o.info.Sequence
    IN  /\ At(s, "row")
        /\ IF ~HasAuto(job[s].o) THEN Goto(s, "put")
           ELSE IF q = Nothing \/ seq[q].start = 0 THEN Goto(s, "discard")
           ELSE Set(s, [job[s] EXCEPT !.at = "next",
                          !.est = IF cur[s][q] # 0 THEN cur[s][q] + 1 ELSE seq[q].start])
        /\ UNCHANGED <<disk, noindex, commands, uuids, faults, history>>

\* nextval: the value, and what the sequence gives next.
\* Mutant: the estimate is used without nextval.
TakesEstimate(s, q) == [value |-> job[s].est, next |-> seq[q].next]
Takes(s, q) == [value |-> seq[q].next, next |-> seq[q].next + 1]

\* A value above the estimate restarts the sequence there.
GetNextAutoIncrementValue(s) ==
    LET q == job[s].o.info.Sequence
        v == job[s].given[job[s].i]
        t == job[s].t
    IN  /\ At(s, "next")
        /\ IF v > job[s].est
           THEN /\ Draw(TRUE)
                /\ Set(s, [job[s] EXCEPT !.at = "exec", !.ran = FALSE,
                             !.todo = setAutoIncrementValue(job[s].o, v, Drawn)])
                /\ UNCHANGED <<seq, cur, muddled, handed, twice>>
           ELSE IF seq[q].start = 0
           THEN Goto(s, "discard") /\ UNCHANGED <<seq, cur, uuids, muddled, handed, twice>>
           ELSE /\ seq' = [seq EXCEPT ![q].next = Takes(s, q).next]
                /\ cur' = [cur EXCEPT ![s][q] = Takes(s, q).value]
                /\ Goto(s, "put")
                /\ handed' = [handed EXCEPT ![t] = @ \union {x \in {Takes(s, q).value} : v = 0}]
                /\ twice' = twice \union {x \in {t} : v = 0 /\ Takes(s, q).value \in handed[t]}
                /\ muddled' = IF job[s].fresh THEN muddled ELSE muddled \union {t}
                /\ UNCHANGED uuids
        /\ UNCHANGED <<tab, tmp, noindex, commands, faults, shifted, rewound, outcome>>

\* The row goes to the temporary table.
InsertRow(s) ==
    /\ At(s, "put")
    /\ IF job[s].err THEN Goto(s, "discard") /\ UNCHANGED tmp
       ELSE /\ tmp' = [tmp EXCEPT ![s][job[s].t].rows = Append(@, <<job[s].k, job[s].i>>)]
            /\ IF job[s].i = Len(job[s].given) THEN Goto(s, "close")
               ELSE Set(s, [job[s] EXCEPT !.at = "row", !.i = @ + 1])
    /\ UNCHANGED <<tab, seq, cur, noindex, commands, uuids, faults, history>>

\* A row cannot be evaluated or inserted.
RowFails(s) ==
    /\ At(s, "put") /\ faults > 0 /\ faults' = faults - 1
    /\ \E err \in BOOLEAN : Set(s, [job[s] EXCEPT !.at = "discard", !.err = @ \/ err])
    /\ UNCHANGED <<disk, noindex, commands, uuids, history>>

\* Mutant: the temporary table stays.
DiscardNothing(s) ==
    /\ At(s, "discard") /\ Goto(s, "close")
    /\ UNCHANGED <<disk, noindex, commands, uuids, faults, history>>

Ended(s, end) == outcome' = [outcome EXCEPT ![job[s].k] = [end |-> end, n |-> Len(job[s].given)]]

\* DROP of the temporary table, or its refusal.
DropsTmp(s, dropped) ==
    IF dropped THEN tmp' = [tmp EXCEPT ![s][job[s].t] = NoTable] /\ UNCHANGED faults
    ELSE Tmp(s) # NoTable /\ faults > 0 /\ faults' = faults - 1 /\ UNCHANGED tmp

\* clear drops the temporary table; when it cannot, the inserter has an error.
DiscardChanges(s) ==
    /\ At(s, "discard")
    /\ \E dropped \in BOOLEAN :
          /\ DropsTmp(s, dropped)
          /\ Set(s, [job[s] EXCEPT !.at = "close", !.err = @ \/ ~dropped])
    /\ UNCHANGED <<tab, seq, cur, noindex, commands, uuids, history>>

\* The flush is one INSERT ... FROM the temporary table.
Close(s) ==
    LET t == job[s].t
        flushes == /\ ~job[s].err /\ Tmp(s) # NoTable /\ tab[t] # NoTable
                   /\ Len(Tmp(s).cols) = Len(tab[t].cols)
    IN  /\ At(s, "close")
        /\ \/ /\ tab' = IF flushes THEN [tab EXCEPT ![t].rows = @ \o Tmp(s).rows] ELSE tab
              /\ Ended(s, IF flushes THEN "ok" ELSE "failed")
              /\ UNCHANGED faults
           \/ /\ flushes /\ faults > 0 /\ faults' = faults - 1
              /\ Ended(s, "failed")
              /\ UNCHANGED tab
        /\ Goto(s, "clear")
        /\ UNCHANGED <<seq, tmp, cur, noindex, commands, uuids, doubts, handed, twice>>

\* The deferred clear, whose error nobody sees: the temporary table that it
\* leaves is the one the session's next INSERT fills, and flushes.
clear(s) ==
    /\ At(s, "clear")
    /\ \E dropped \in BOOLEAN :
          /\ DropsTmp(s, dropped)
          /\ IF dropped THEN UNCHANGED outcome ELSE Ended(s, "left")
    /\ Done(s)
    /\ UNCHANGED <<tab, seq, cur, noindex, commands, uuids, doubts, handed, twice>>

\* KILL QUERY cancels the context: nothing more runs, not even the DROP of
\* the temporary table.
Kill(s) ==
    /\ job[s].at \in {"row", "put", "close"} /\ faults > 0 /\ faults' = faults - 1
    /\ Ended(s, "killed")
    /\ Done(s)
    /\ UNCHANGED <<disk, noindex, commands, uuids, doubts, handed, twice>>
-----------------------------------------------------------------------------
(* LOAD DATA: one INSERT of DuckDB from a file of the server, or from the     *)
(* client's file through a pipe                                               *)

\* listed: the statement lists the columns, all but the AUTO_INCREMENT one;
\* opens: the settings allow the file and it, or the pipe, can be opened.
LoadDatas == [given : Rows, rewritable : BOOLEAN, local : BOOLEAN, opens : BOOLEAN,
              onConflict : BOOLEAN, listed : BOOLEAN]

\* DuckDB's reader knows the separators, the quotes and the character set.
isRewritableLoadData(load) == load.rewritable

\* The columns read from the file.
columnTypeHints(o, load) ==
    LET read == SelectSeq(o.cols, LAMBDA c : ~(load.listed /\ c.auto))
    IN  [i \in DOMAIN read |-> read[i].name]

\* A key that is only pretended cannot be named in OR IGNORE or OR REPLACE.
keyless(s, o) == o.pk = <<>> \/ o.info.Replicated \/ ~job[s].hasPK

\* The two ways to the INSERT: what they open, and whether the rows may stop early.
buildClientSideLoadData(load) == [opens |-> load.opens, breaks |-> TRUE]
buildServerSideLoadData(load) == [opens |-> load.opens, breaks |-> FALSE]

\* Another format is read by go-mysql-server and inserted row by row.
buildLoadData(s) ==
    LET o == getPKSchema(s)
    IN  /\ Loads(s, "load data")
        /\ \E load \in LoadDatas :
              LET way == IF load.local THEN buildClientSideLoadData(load)
                         ELSE buildServerSideLoadData(load)
              IN  /\ load.listed => HasAuto(o) /\ Len(o.cols) > 1
                  /\ IF ~isRewritableLoadData(load) THEN Set(s, Inserting(s, load.given))
                     ELSE IF ~way.opens THEN Done(s)
                     ELSE Set(s, [job[s] EXCEPT !.at = "read"] @@
                                 [given |-> load.given, breaks |-> way.breaks,
                                  listed |-> load.listed, names |-> columnTypeHints(o, load),
                                  onConflict |-> load.onConflict /\ ~keyless(s, o)])
        /\ UNCHANGED <<disk, noindex, commands, uuids, faults, history>>

\* External: DuckDB refuses columns that are not the table's, a conflict
\* clause without a key, and NULL in an AUTO_INCREMENT column, which no one
\* fills.
ReadRefused(s, T) ==
    \/ T = NoTable
    \/ IF job[s].listed THEN ~(Range(job[s].names) \subseteq {c.name : c \in Range(T.cols)})
       ELSE Len(job[s].names) # Len(T.cols)
    \/ job[s].onConflict /\ T.pk = <<>>
    \/ /\ \E i \in DOMAIN job[s].given : job[s].given[i] = 0
       /\ \E c \in Range(T.cols) : c.auto /\ ~c.null /\ c.name \in Range(job[s].names)

\* The sequences DuckDB draws the missing column from.
Defaults(s, T) ==
    {c.default : c \in {c \in Range(T.cols) : c.name \notin Range(job[s].names)}} \intersect Seqs

\* The INSERT is atomic, but nobody tells DuckDB that the client's rows have
\* stopped early: it inserts the n rows the pipe has carried.
executeLoadData(s) ==
    LET t == job[s].t
        T == tab[t]
        all == Len(job[s].given)
    IN  /\ At(s, "read")
        /\ \E n \in 0..all, refused \in BOOLEAN :
              LET spent == IF n < all \/ refused THEN 1 ELSE 0
                  fails == refused \/ ReadRefused(s, T)
                  qs == IF fails \/ n = 0 THEN {} ELSE Defaults(s, T)
                  drawn == {seq[q].next + i - 1 : q \in qs, i \in 1..n}
              IN  /\ n < all => job[s].breaks /\ ~refused
                  /\ spent <= faults /\ faults' = faults - spent
                  /\ tab' = IF fails THEN tab
                            ELSE [tab EXCEPT ![t].rows = @ \o [i \in 1..n |-> <<job[s].k, i>>]]
                  /\ seq' = [q \in Seqs |-> IF q \notin qs THEN seq[q]
                                            ELSE [seq[q] EXCEPT !.next = @ + n]]
                  /\ cur' = [cur EXCEPT ![s] = [q \in Seqs |-> IF q \notin qs THEN @[q]
                                                               ELSE seq[q].next + n - 1]]
                  /\ handed' = [handed EXCEPT ![t] = @ \union drawn]
                  /\ twice' = twice \union {x \in {t} : drawn \intersect handed[t] # {}}
                  /\ Ended(s, IF fails THEN "failed" ELSE IF n < all THEN "lost" ELSE "ok")
        /\ Done(s)
        /\ UNCHANGED <<tmp, noindex, commands, uuids, doubts>>
-----------------------------------------------------------------------------
Next == \E s \in Sessions :
    \/ findTables(s) \/ LookupFails(s)
    \/ CreateTable(s) \/ DropTable(s) \/ RenameTable(s) \/ CopyTableData(s)
    \/ AlterAddColumn(s) \/ AlterDropColumn(s) \/ AlterModifyColumn(s)
    \/ CreateIndex(s) \/ DropIndex(s) \/ CreateCheck(s) \/ DropCheck(s)
    \/ SetAutoIncrementValue(s) \/ Truncate(s)
    \/ RunSequence(s) \/ RunStatement(s) \/ StatementFails(s) \/ StatementRefused(s)
    \/ Insert(s) \/ StatementBegin(s) \/ Peek(s) \/ GetNextAutoIncrementValue(s)
    \/ InsertRow(s) \/ RowFails(s) \/ DiscardChanges(s) \/ Close(s) \/ clear(s)
    \/ Kill(s)
    \/ buildLoadData(s) \/ executeLoadData(s)

Spec == Init /\ [][Next]_vars
-----------------------------------------------------------------------------
Settled(t) == t \notin muddled /\ \A s \in Sessions : ~UnderWay(s, t)

\* The comments tell the truth between statements: a column whose comment has
\* the AUTO_INCREMENT flag takes its default from the sequence that the table
\* comment names, and that sequence exists.  INSERT reads the flag from one
\* comment, the sequence from the other, and fails for ever once they disagree;
\* CREATE, ADD, MODIFY and DROP COLUMN write them by separate statements.
CommentsAgree ==
    \A t \in Names : tab[t] # NoTable /\ Settled(t) =>
        LET T == tab[t]
        IN  /\ T.info.Sequence # Nothing => seq[T.info.Sequence].start # 0
            /\ \A i \in DOMAIN T.cols : T.cols[i].auto =>
                  T.info.Sequence # Nothing /\ T.cols[i].default = T.info.Sequence

\* The key a looked up object presents is the key the table was declared with,
\* by an index or, in a table replicated without index, by the comment alone:
\* the replica deletes and updates by it.
KeyIsDeclared ==
    \A s \in Sessions :
        /\ job[s].at \in {"exec", "begin", "row", "put"} /\ job[s].op \in Lookups
        /\ job[s].fresh /\ Settled(job[s].t) /\ job[s].t \notin shifted
        => Range(job[s].o.pk) = {i \in DOMAIN job[s].o.cols : job[s].o.cols[i].key}

\* Two rows of a table never get the same automatic value, whichever sessions
\* insert them, unless its sequence was restarted at or below a value used.
AutoFresh == twice \subseteq rewound \union muddled

Copies(t, x) == Cardinality({i \in DOMAIN tab[t].rows : tab[t].rows[i] = x})

\* An INSERT or LOAD DATA that is done has put every row of its list in the
\* table, once, or none of them; one that failed or has not ended, none; a LOAD
\* DATA whose client went away, a first part of the file.  A failed row, a
\* refused flush, a change of the table under way and what an earlier INSERT of
\* the session has left in its temporary table must not change that.  The rows
\* so left, by an INSERT that was killed or whose DROP failed, come again with a
\* later flush: of these INSERTs nothing is said.
InsertWhole ==
    \A t \in Names, k \in Commands :
        tab[t] # NoTable /\ outcome[k].end \notin {"killed", "left"} =>
            LET n == [i \in 1..2 |-> Copies(t, <<k, i>>)]
            IN  /\ outcome[k].end \notin {"ok", "lost"} => n[1] = 0 /\ n[2] = 0
                /\ outcome[k].end = "lost" => n[2] <= n[1] /\ n[1] <= 1
                /\ outcome[k].end = "ok" => /\ \A i \in 1..outcome[k].n : n[i] = n[1]
                                            /\ n[1] <= 1
=============================================================================
