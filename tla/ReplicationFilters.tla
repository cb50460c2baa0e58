------------------------- MODULE ReplicationFilters -------------------------
(***************************************************************************)
(* CHANGE REPLICATION FILTER (binlog_replica_controller.go) and the filter *)
(* the applier asks for every row event (binlog_replica_filtering.go).     *)
(*                                                                         *)
(* The controller and the applier share one filterConfiguration until      *)
(* RESET REPLICA ALL gives the controller a new one; the applier keeps the *)
(* old.  A command sets its options one by one, and events are filtered    *)
(* and commands of other sessions run in between: the mutex is held for    *)
(* one option or one question only.                                        *)
(***************************************************************************)
EXTENDS Naturals, Sequences

CONSTANTS
    Clients,     \* the sessions that change filters
    Commands,    \* the lists of options users send
    MaxChanges   \* bound on commands, resets and restarts

OptionNames == {"REPLICATE_DO_DB", "REPLICATE_IGNORE_DB", "REPLICATE_DO_TABLE",
                "REPLICATE_IGNORE_TABLE"}

\* An option has a list of names of databases or of tables as its value.
ASSUME FilterAssumption ==
    Commands \subseteq Seq([name : OptionNames, value : SUBSET (STRING \X STRING)])

VARIABLES
    filters,    \* the controller's configuration, which SHOW REPLICA STATUS shows
    inForce,    \* the applier's configuration
    shared,     \* they are the same object
    changes,    \* commands, resets and restarts so far
    todo,       \* the options the command of each session has still to set
    asked,      \* history: what the complete commands asked for
    goal,       \* history: the same with the running command
    settled     \* history: no command failed half way, none has run together with
                \* another, and no RESET ALL

filterVars == <<filters, inForce, shared, changes, todo, asked, goal, settled>>

newFilterConfiguration ==
    [doDatabases |-> {}, ignoreDatabases |-> {}, doTables |-> {}, ignoreTables |-> {}]

\* strings.ToLower, for the names there are.
ToLower(name) == CASE name = "D" -> "d" [] name = "T" -> "t" [] OTHER -> name

\* A list of databases is parsed as a list of tables without a database.
Databases(value) == {ToLower(urt[2]) : urt \in value}
Tables(value) == {<<ToLower(urt[1]), ToLower(urt[2])>> : urt \in value}

Unqualified(value) == \E urt \in value : urt[1] = ""

\* Mutant: new tables are added to those there are.
AddDoTables(fc, value) == [fc EXCEPT !.doTables = @ \union Tables(value)]

setDoDatabases(fc, value)     == [fc EXCEPT !.doDatabases = Databases(value)]
setIgnoreDatabases(fc, value) == [fc EXCEPT !.ignoreDatabases = Databases(value)]
setDoTables(fc, value)        == [fc EXCEPT !.doTables = Tables(value)]
setIgnoreTables(fc, value)    == [fc EXCEPT !.ignoreTables = Tables(value)]

SetOption(fc, option) ==
    CASE option.name = "REPLICATE_DO_DB"        -> setDoDatabases(fc, option.value)
      [] option.name = "REPLICATE_IGNORE_DB"    -> setIgnoreDatabases(fc, option.value)
      [] option.name = "REPLICATE_DO_TABLE"     -> setDoTables(fc, option.value)
      [] option.name = "REPLICATE_IGNORE_TABLE" -> setIgnoreTables(fc, option.value)

OptionFails(option) ==
    /\ option.name \in {"REPLICATE_DO_TABLE", "REPLICATE_IGNORE_TABLE"}
    /\ Unqualified(option.value)

InDatabase(tables, db) == {t \in tables : t[1] = db}

\* doTables only speaks for the databases that occur in it.
isTableFilteredOut(fc, table) ==
    LET db == ToLower(table[1])
        t  == <<db, ToLower(table[2])>>
    IN  \/ IF fc.doDatabases # {} THEN db \notin fc.doDatabases
           ELSE db \in fc.ignoreDatabases
        \/ InDatabase(fc.doTables, db) # {} /\ t \notin fc.doTables
        \/ t \in fc.ignoreTables

-----------------------------------------------------------------------------
(* Commands. *)

Change == changes < MaxChanges /\ changes' = changes + 1

\* The values of the last of the options that have a name.
LastOf(options, name) ==
    LET of == {i \in DOMAIN options : options[i].name = name}
    IN  UNION {options[i].value : i \in {i \in of : \A j \in of : j <= i}}

\* What is asked for after a list of options: the last option of each name replaces
\* what was there for it, in lower case.
Ask(fc, options) ==
    LET Given(name) == \E i \in DOMAIN options : options[i].name = name
        Lower(name) == {<<ToLower(urt[1]), ToLower(urt[2])>> : urt \in LastOf(options, name)}
        Second(name) == {ToLower(urt[2]) : urt \in LastOf(options, name)}
    IN  [doDatabases     |-> IF Given("REPLICATE_DO_DB") THEN Second("REPLICATE_DO_DB")
                             ELSE fc.doDatabases,
         ignoreDatabases |-> IF Given("REPLICATE_IGNORE_DB") THEN Second("REPLICATE_IGNORE_DB")
                             ELSE fc.ignoreDatabases,
         doTables        |-> IF Given("REPLICATE_DO_TABLE") THEN Lower("REPLICATE_DO_TABLE")
                             ELSE fc.doTables,
         ignoreTables    |-> IF Given("REPLICATE_IGNORE_TABLE") THEN Lower("REPLICATE_IGNORE_TABLE")
                             ELSE fc.ignoreTables]

Idle == [c \in Clients |-> << >>]

SendFilterCommand ==
    /\ Change
    /\ \E c \in Clients, options \in Commands :
          /\ todo[c] = << >>
          /\ todo' = [todo EXCEPT ![c] = options]
          /\ goal' = Ask(asked, options)
    /\ settled' = (settled /\ todo = Idle)
    /\ UNCHANGED <<filters, inForce, shared, asked>>

\* One option of a command; an error ends it with the options before in place.
SetReplicationFilterOptions(c) ==
    /\ todo[c] # << >>
    /\ LET option == Head(todo[c])
           next   == SetOption(filters, option)
       IN  IF OptionFails(option)
           THEN /\ todo' = [todo EXCEPT ![c] = << >>]
                /\ settled' = (settled /\ filters = asked)
                /\ goal' = asked
                /\ UNCHANGED <<filters, inForce, asked>>
           ELSE /\ todo' = [todo EXCEPT ![c] = Tail(@)]
                /\ filters' = next
                /\ inForce' = IF shared THEN next ELSE inForce
                /\ asked' = IF Tail(todo[c]) = << >> THEN goal ELSE asked
                /\ UNCHANGED <<goal, settled>>
    /\ UNCHANGED <<shared, changes>>

\* RESET REPLICA ALL, of a replica that does not run.
ResetReplicaAll ==
    /\ Change
    /\ filters' = newFilterConfiguration
    /\ asked' = newFilterConfiguration
    /\ goal' = newFilterConfiguration
    /\ shared' = FALSE
    /\ settled' = FALSE
    /\ UNCHANGED <<inForce, todo>>

\* A restart forgets the filters.
RestartFilters ==
    /\ Change
    /\ filters' = newFilterConfiguration
    /\ inForce' = newFilterConfiguration
    /\ shared' = TRUE
    /\ todo' = Idle
    /\ asked' = newFilterConfiguration
    /\ goal' = newFilterConfiguration
    /\ settled' = TRUE

InitFilters ==
    /\ filters = newFilterConfiguration
    /\ inForce = newFilterConfiguration
    /\ shared = TRUE
    /\ changes = 0
    /\ todo = Idle
    /\ asked = newFilterConfiguration
    /\ goal = newFilterConfiguration
    /\ settled = TRUE

-----------------------------------------------------------------------------
\* The rules of the comments in isTableFilteredOut: of the databases, and then of
\* the tables, one MUST be listed if any is.
Documented(fc, table) ==
    LET db == ToLower(table[1])
        t  == <<db, ToLower(table[2])>>
    IN  \/ fc.doDatabases # {} /\ db \notin fc.doDatabases
        \/ fc.doDatabases = {} /\ db \in fc.ignoreDatabases
        \/ fc.doTables # {} /\ t \notin fc.doTables
        \/ t \in fc.ignoreTables
=============================================================================
