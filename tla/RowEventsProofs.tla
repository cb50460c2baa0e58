--------------------------- MODULE RowEventsProofs ---------------------------
(***************************************************************************)
(* The filters of RowEvents, for any sessions, commands, tables and        *)
(* events.                                                                 *)
(***************************************************************************)
EXTENDS RowEvents, TLAPS

Option == [name : OptionNames, value : SUBSET (STRING \X STRING)]
Configuration(fc) ==
    fc = [doDatabases |-> fc.doDatabases, ignoreDatabases |-> fc.ignoreDatabases,
          doTables |-> fc.doTables, ignoreTables |-> fc.ignoreTables]

\* As long as no command has failed half way or met another, the options that the
\* running command has still to set make of the filters what it asked for.
FilterInv ==
    /\ todo \in [Clients -> Seq(Option)]
    /\ Configuration(filters)
    /\ settled => /\ inForce = filters /\ shared
                  /\ todo = Idle => filters = asked
                  /\ \A c \in Clients : todo[c] # << >> =>
                        /\ goal = Ask(filters, todo[c])
                        /\ \A d \in Clients \ {c} : todo[d] = << >>
    /\ FilterObeyed

LEMMA LastOfTail ==
    ASSUME NEW options \in Seq(Option), options # << >>, NEW name
    PROVE  LastOf(options, name) =
              IF \E i \in DOMAIN Tail(options) : Tail(options)[i].name = name
              THEN LastOf(Tail(options), name)
              ELSE IF Head(options).name = name THEN Head(options).value ELSE {}
<1> DEFINE rest == Tail(options)
           of == {i \in DOMAIN options : options[i].name = name}
           ofRest == {i \in DOMAIN rest : rest[i].name = name}
           last == {i \in of : \A j \in of : j <= i}
           lastRest == {i \in ofRest : \A j \in ofRest : j <= i}
<1>1. /\ DOMAIN options = 1..Len(options) /\ Len(options) \in Nat /\ Len(options) >= 1
      /\ DOMAIN rest = 1..(Len(options) - 1)
      /\ \A i \in DOMAIN rest : i \in Nat /\ rest[i] = options[i + 1]
      /\ Head(options) = options[1]
  OBVIOUS
<1>2. \A i \in DOMAIN options : i \in Nat /\ (i = 1 \/ i - 1 \in DOMAIN rest)
  BY <1>1
<1>3. \A i \in DOMAIN rest : i + 1 \in DOMAIN options
  BY <1>1
<1>4. \A i : i \in ofRest <=> i \in DOMAIN rest /\ i + 1 \in of
  BY <1>1, <1>3, Zenon
<1>5. \A i \in of : i \in Nat /\ (i = 1 \/ i - 1 \in ofRest)
  BY <1>1, <1>2, <1>4
<1> HIDE DEF rest, of, ofRest
<1>6. CASE ofRest # {}
  <2>1. \A i \in last : i # 1
    BY <1>1, <1>4, <1>6
  <2>2. \A i \in last : i - 1 \in lastRest
    <3> SUFFICES ASSUME NEW i \in last PROVE i - 1 \in lastRest
      OBVIOUS
    <3>1. i - 1 \in ofRest /\ i \in Nat
      BY <1>5, <2>1
    <3>2. ASSUME NEW j \in ofRest PROVE j <= i - 1
      BY <1>1, <1>4, <3>1 DEF ofRest
    <3> QED
      BY <3>1, <3>2
  <2>3. \A i \in lastRest : i + 1 \in last
    <3> SUFFICES ASSUME NEW i \in lastRest PROVE i + 1 \in last
      OBVIOUS
    <3>1. i + 1 \in of /\ i \in Nat
      BY <1>1, <1>4 DEF ofRest
    <3>2. ASSUME NEW j \in of PROVE j <= i + 1
      BY <1>5, <3>1
    <3> QED
      BY <3>1, <3>2, Zenon
  <2>4. \A i \in lastRest : rest[i] = options[i + 1] /\ i \in Nat
    BY <1>1, Zenon DEF ofRest
  <2>5. \A i \in last : i \in Nat /\ options[i] = rest[i - 1]
    <3> SUFFICES ASSUME NEW i \in last PROVE i \in Nat /\ options[i] = rest[i - 1]
      OBVIOUS
    <3>1. i - 1 \in DOMAIN rest /\ i \in Nat
      BY <1>5, <2>2, Zenon DEF ofRest
    <3> QED
      BY <1>1, <3>1
  <2>6. {options[i].value : i \in last} = {rest[i].value : i \in lastRest}
    BY <2>2, <2>3, <2>4, <2>5
  <2>7. LastOf(options, name) = LastOf(rest, name)
    BY <2>6, Zenon DEF LastOf, of, ofRest
  <2> QED
    BY <1>6, <2>7, Zenon DEF rest, ofRest
<1>7. CASE ofRest = {}
  <2>1. \A i \in of : i = 1
    BY <1>5, <1>7, Zenon
  <2>2. last = IF options[1].name = name THEN {1} ELSE {}
    <3>1. options[1].name = name <=> 1 \in of
      BY <1>1 DEF of
    <3> QED
      BY <2>1, <3>1
  <2>3. LastOf(options, name) = UNION {options[i].value : i \in last}
    BY Zenon DEF LastOf, of
  <2>4. CASE options[1].name = name
    <3>1. {options[i].value : i \in last} = {options[1].value}
      BY <2>2, <2>4
    <3> QED
      BY <1>1, <1>7, <2>3, <2>4, <3>1, Zenon DEF ofRest, rest
  <2>5. CASE options[1].name # name
    <3>1. {options[i].value : i \in last} = {}
      BY <2>2, <2>5, Zenon
    <3> QED
      BY <1>1, <1>7, <2>3, <2>5, <3>1, Zenon DEF ofRest, rest
  <2> QED
    BY <2>4, <2>5, Zenon
<1> QED
  BY <1>6, <1>7, Zenon

\* The options are set one by one, and the last of each name is what counts.
LEMMA AskHead ==
    ASSUME NEW fc, Configuration(fc), NEW options \in Seq(Option), options # << >>
    PROVE  /\ Configuration(SetOption(fc, Head(options)))
           /\ IF Tail(options) = << >> THEN Ask(fc, options) = SetOption(fc, Head(options))
              ELSE Ask(fc, options) = Ask(SetOption(fc, Head(options)), Tail(options))
<1> DEFINE option == Head(options)
           rest == Tail(options)
           next == SetOption(fc, option)
           Given(list, name) == \E i \in DOMAIN list : list[i].name = name
           Lower(list, name) == {<<ToLower(urt[1]), ToLower(urt[2])>> : urt \in LastOf(list, name)}
           Second(list, name) == {ToLower(urt[2]) : urt \in LastOf(list, name)}
<1>1. option \in Option /\ rest \in Seq(Option)
  OBVIOUS
<1>2. ASSUME NEW name
      PROVE  Given(options, name) <=> Given(rest, name) \/ option.name = name
  <2>1. /\ \A i \in DOMAIN rest : i + 1 \in DOMAIN options /\ rest[i] = options[i + 1]
        /\ \A i \in DOMAIN options : i = 1 \/ (i - 1 \in DOMAIN rest /\ rest[i - 1] = options[i])
        /\ 1 \in DOMAIN options /\ option = options[1]
    OBVIOUS
  <2> HIDE DEF rest, option
  <2> QED
    BY <2>1
<1>3. next = [doDatabases |-> IF option.name = "REPLICATE_DO_DB"
                              THEN Databases(option.value) ELSE fc.doDatabases,
              ignoreDatabases |-> IF option.name = "REPLICATE_IGNORE_DB"
                              THEN Databases(option.value) ELSE fc.ignoreDatabases,
              doTables |-> IF option.name = "REPLICATE_DO_TABLE"
                              THEN Tables(option.value) ELSE fc.doTables,
              ignoreTables |-> IF option.name = "REPLICATE_IGNORE_TABLE"
                              THEN Tables(option.value) ELSE fc.ignoreTables]
  <2> HIDE DEF option
  <2>1. option.name \in OptionNames
    BY <1>1, Zenon DEF Option
  <2>2. CASE option.name = "REPLICATE_DO_DB"
    BY <2>2, Zenon DEF SetOption, setDoDatabases, Configuration
  <2>3. CASE option.name = "REPLICATE_IGNORE_DB"
    BY <2>3, Zenon DEF SetOption, setIgnoreDatabases, Configuration
  <2>4. CASE option.name = "REPLICATE_DO_TABLE"
    BY <2>4, Zenon DEF SetOption, setDoTables, Configuration
  <2>5. CASE option.name = "REPLICATE_IGNORE_TABLE"
    BY <2>5 DEF SetOption, setIgnoreTables, Configuration
  <2> QED
    BY <2>1, <2>2, <2>3, <2>4, <2>5, Zenon DEF OptionNames
<1>4. ASSUME NEW name
      PROVE  LastOf(options, name) = IF Given(rest, name) THEN LastOf(rest, name)
                                     ELSE IF option.name = name THEN option.value ELSE {}
  BY LastOfTail
<1>5. ASSUME NEW name
      PROVE  /\ Given(rest, name) => /\ Lower(options, name) = Lower(rest, name)
                                     /\ Second(options, name) = Second(rest, name)
             /\ ~Given(rest, name) /\ option.name = name =>
                   /\ Lower(options, name) = Tables(option.value)
                   /\ Second(options, name) = Databases(option.value)
  BY <1>4 DEF Tables, Databases
<1>6. Configuration(next)
  BY <1>3 DEF Configuration
<1> DEFINE Asked(f, list) ==
             [doDatabases     |-> IF Given(list, "REPLICATE_DO_DB")
                                  THEN Second(list, "REPLICATE_DO_DB") ELSE f.doDatabases,
              ignoreDatabases |-> IF Given(list, "REPLICATE_IGNORE_DB")
                                  THEN Second(list, "REPLICATE_IGNORE_DB") ELSE f.ignoreDatabases,
              doTables        |-> IF Given(list, "REPLICATE_DO_TABLE")
                                  THEN Lower(list, "REPLICATE_DO_TABLE") ELSE f.doTables,
              ignoreTables    |-> IF Given(list, "REPLICATE_IGNORE_TABLE")
                                  THEN Lower(list, "REPLICATE_IGNORE_TABLE") ELSE f.ignoreTables]
<1>7. Ask(fc, options) = Asked(fc, options) /\ Ask(next, rest) = Asked(next, rest)
  BY Zenon DEF Ask
<1> HIDE DEF Given, Lower, Second, option, next
<1>8. Asked(fc, options) = Asked(next, rest)
  BY <1>2, <1>3, <1>5
<1>9. rest = << >> => Asked(next, rest) = next
  <2> SUFFICES ASSUME rest = << >> PROVE Asked(next, rest) = next
    OBVIOUS
  <2>1. \A name : ~Given(rest, name)
    BY DEF Given
  <2> QED
    BY <1>6, <2>1 DEF Configuration
<1> QED
  BY <1>6, <1>7, <1>8, <1>9 DEF next, option

\* Where something is claimed, the code and the comments decide alike.
LEMMA QuestionObeys ==
    ASSUME FilterInv, NEW table, Question(table)
    PROVE  FilterObeyed'
<1>1. CASE ~Claimed(table)
  BY <1>1 DEF Question, FilterObeyed
<1>2. CASE Claimed(table)
  <2>1. inForce = asked /\ table[1] # "mysql"
    BY <1>2, Zenon DEF FilterInv, Claimed
  <2>2. isTableFilteredOut(asked, table) <=> Documented(asked, table)
    BY <1>2, <2>1 DEF Claimed, isTableFilteredOut, Documented, InDatabase
  <2>3. Skipped(table) = Documented(asked, table)
    BY <2>1, <2>2, Zenon DEF Skipped, isTableFilteredOut, Documented
  <2> QED
    BY <1>2, <2>3 DEF Question, FilterObeyed
<1> QED
  BY <1>1, <1>2, Zenon

LEMMA OptionSet ==
    ASSUME FilterInv, NEW c \in Clients, SetReplicationFilterOptions(c), UNCHANGED verdict
    PROVE  FilterInv'
<1> DEFINE option == Head(todo[c])
           next == SetOption(filters, option)
<1> USE DEF FilterInv
<1>0. FilterObeyed'
  BY Zenon DEF FilterObeyed
<1>1. /\ todo[c] \in Seq(Option) /\ todo[c] # << >> /\ Tail(todo[c]) \in Seq(Option)
      /\ << >> \in Seq(Option)
  BY DEF SetReplicationFilterOptions
<1>2. /\ Configuration(next)
      /\ IF Tail(todo[c]) = << >> THEN Ask(filters, todo[c]) = next
         ELSE Ask(filters, todo[c]) = Ask(next, Tail(todo[c]))
  BY <1>1, AskHead
<1>3. settled => /\ inForce = filters /\ shared /\ goal = Ask(filters, todo[c])
                 /\ \A d \in Clients \ {c} : todo[d] = << >>
  BY <1>1, Zenon
<1>4. CASE OptionFails(option)
  <2>1. /\ todo' = [todo EXCEPT ![c] = << >>] /\ (settled' => settled /\ filters = asked)
        /\ UNCHANGED <<filters, inForce, asked, shared, verdict>>
    BY <1>4, Zenon DEF SetReplicationFilterOptions
  <2>2. /\ todo' \in [Clients -> Seq(Option)]
        /\ settled => \A d \in Clients : todo'[d] = << >>
    BY <1>1, <1>3, <2>1
  <2> QED
    BY <1>0, <1>3, <2>1, <2>2 DEF Configuration
<1>5. CASE ~OptionFails(option)
  <2>1. /\ todo' = [todo EXCEPT ![c] = Tail(todo[c])] /\ filters' = next
        /\ inForce' = (IF shared THEN next ELSE inForce)
        /\ asked' = IF Tail(todo[c]) = << >> THEN goal ELSE asked
        /\ UNCHANGED <<goal, settled, shared, verdict>>
    BY <1>5 DEF SetReplicationFilterOptions
  <2>2. /\ todo' \in [Clients -> Seq(Option)] /\ todo'[c] = Tail(todo[c])
        /\ settled => \A d \in Clients \ {c} : todo'[d] = << >>
    BY <1>1, <1>3, <2>1
  <2>3. todo' = Idle' => Tail(todo[c]) = << >>
    BY <2>2, Zenon DEF Idle
  <2> HIDE DEF next
  <2> QED
    BY <1>0, <1>2, <1>3, <2>1, <2>2, <2>3, Zenon
<1> QED
  BY <1>4, <1>5, Zenon

LEMMA FilterStep == FilterInv /\ [Next]_vars => FilterInv'
<1> SUFFICES ASSUME FilterInv, [Next]_vars PROVE FilterInv'
  OBVIOUS
<1>1. CASE UNCHANGED <<filterVars, verdict>>
  BY <1>1, Zenon DEF FilterInv, filterVars, FilterObeyed, Idle
<1>2. ASSUME NEW table, Question(table), UNCHANGED filterVars PROVE FilterInv'
  <2>1. FilterObeyed'
    BY <1>2, QuestionObeys, Zenon
  <2> QED
    BY <1>2, <2>1, Zenon DEF FilterInv, filterVars, Idle
<1>3. CASE processRowEvent
  <2>1. Question(Mine) /\ UNCHANGED filterVars
    BY <1>3, Zenon DEF processRowEvent
  <2> QED
    BY <1>2, <2>1
<1>4. CASE ForeignRowEvent
  <2>1. (\E table \in Others : Question(table)) /\ UNCHANGED filterVars
    BY <1>4, Zenon DEF ForeignRowEvent
  <2> QED
    BY <1>2, <2>1
<1>5. CASE FilterCommand
  <2>1. UNCHANGED verdict
    BY <1>5, Zenon DEF FilterCommand, tableVars
  <2>2. CASE SendFilterCommand
    <3>1. PICK c \in Clients, options \in Commands :
            todo' = [todo EXCEPT ![c] = options] /\ goal' = Ask(asked, options)
      BY <2>2, Zenon DEF SendFilterCommand
    <3>2. options \in Seq(Option) /\ todo \in [Clients -> Seq(Option)]
      BY FilterAssumption, Zenon DEF Option, FilterInv
    <3>3. /\ settled' => settled /\ todo = Idle
          /\ UNCHANGED <<filters, inForce, shared, asked>>
      BY <2>2, Zenon DEF SendFilterCommand
    <3>4. /\ todo' \in [Clients -> Seq(Option)]
          /\ \A d \in Clients : todo'[d] = IF d = c THEN options ELSE todo[d]
      BY <3>1, <3>2
    <3>5. settled' => /\ \A d \in Clients \ {c} : todo'[d] = << >>
                      /\ settled /\ filters = asked /\ goal' = Ask(filters, options)
      BY <3>1, <3>3, <3>4, Zenon DEF Idle, FilterInv
    <3>6. Configuration(filters)' /\ FilterObeyed'
      BY <2>1, <3>3, Zenon DEF FilterInv, FilterObeyed, Configuration
    <3> QED
      BY <3>3, <3>4, <3>5, <3>6, Zenon DEF FilterInv, Idle
  <2>3. CASE \E c \in Clients : SetReplicationFilterOptions(c)
    BY <2>1, <2>3, OptionSet
  <2>4. CASE ResetReplicaAll \/ RestartFilters
    <3>1. Configuration(newFilterConfiguration)
      BY Zenon DEF Configuration, newFilterConfiguration
    <3>2. Idle \in [Clients -> Seq(Option)]
      BY DEF Idle
    <3>3. /\ \/ todo' = Idle
             \/ ~settled' /\ UNCHANGED todo
          /\ filters' = newFilterConfiguration /\ asked' = newFilterConfiguration
          /\ settled' => inForce' = newFilterConfiguration /\ shared'
      BY <2>4, Zenon DEF ResetReplicaAll, RestartFilters
    <3>4. FilterObeyed' /\ (\A c \in Clients : Idle[c] = << >>)
      BY <2>1, Zenon DEF FilterInv, FilterObeyed, Idle
    <3> QED
      BY <3>1, <3>2, <3>3, <3>4, Zenon DEF FilterInv
  <2> QED
    BY <1>5, <2>2, <2>3, <2>4 DEF FilterCommand
<1>6. CASE Begin \/ extendBatchTxn \/ commitOngoingTxn \/ UNCHANGED vars
  BY <1>1, <1>6 DEF Begin, extendBatchTxn, commitOngoingTxn, vars, tableVars
<1> QED
  BY <1>3, <1>4, <1>5, <1>6 DEF Next

\* For any sessions, commands, tables and events, whatever options a command repeats or
\* leaves out and wherever events fall between them, isTableFilteredOut decides by the
\* rules of its comments on what the last complete command asked for each option, in
\* the cases that FilterObeyed claims: commands that neither fail half way nor run
\* together, and databases that doTables mentions if it mentions any.
THEOREM FiltersAsDocumented == Spec => []FilterObeyed
<1>1. Init => FilterInv
  BY DEF Init, InitFilters, FilterInv, Configuration, newFilterConfiguration, FilterObeyed,
         Idle
<1>2. FilterInv => FilterObeyed
  BY Zenon DEF FilterInv, FilterObeyed
<1> QED
  BY <1>1, <1>2, FilterStep, PTL DEF Spec

=============================================================================
