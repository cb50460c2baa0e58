--------------------------- MODULE PgSubscriptions ---------------------------
(***************************************************************************)
(* ALTER, DROP and the end of CREATE SUBSCRIPTION                          *)
(* (pgserver/subscription_handler.go), UpdateSubscriptions, which brings   *)
(* the map of replicators in line with the catalog                         *)
(* (logrepl/subscription.go), and the start and stop of a replicator       *)
(* (logrepl/replication.go; PgReplicator models the loop itself).  There   *)
(* is one subscription name, and sessions race on it.                      *)
(*                                                                         *)
(* A Subscription struct and the LogicalReplicator that its creator makes  *)
(* share an identity in Ids; a channel is known by the goroutine that made *)
(* it.  UpdateSubscriptions holds no lock.                                 *)
(***************************************************************************)
EXTENDS Naturals, FiniteSets

CONSTANTS
    Sessions,   \* client sessions
    Boot,       \* the startup of the server, which runs UpdateSubscriptions
    MaxIds,     \* bound on the structs, and replicators, of one lifetime
    MaxThreads, \* bound on the StartReplication goroutines of one lifetime
    MaxFailures \* bound on the faults

Procs == Sessions \union {Boot}
Ids == 1..MaxIds
Threads == 1..MaxThreads
Nil == 0   \* no struct, replicator or channel

ASSUME SubscriptionAssumption ==
    /\ Boot \notin Sessions
    /\ IsFiniteSet(Sessions)
    /\ MaxIds \in Nat /\ MaxThreads \in Nat /\ MaxFailures \in Nat

VARIABLES
    row,        \* the row of pg_subscription: none, enabled, disabled
    entry,      \* the struct in subscriptionMap
    sub,        \* the fields Enabled and Replicator of each struct
    made,       \* structs made
    call,       \* each session's call: the step it is at, the row it has seen,
                \* the struct or replicator it works on, the channel it uses
    thread,     \* where each goroutine is, and its replicator
    running,    \* the field of each replicator
    stop,       \* the field of each replicator
    closed,     \* channels closed
    failures,   \* faults that may still happen
    panicked,   \* history: a goroutine has panicked since the server came up
    calm        \* history: since the server came up, every command came when the
                \* last one had taken effect, and nothing failed

replicator == <<thread, running, stop, closed>>
history == <<panicked, calm>>
subscriptionVars == <<row, entry, sub, made, call, replicator, failures, history>>

RowStates == {"none", "enabled", "disabled"}

\* A slot cannot be created, StartReplication fails, the server restarts.
Failure == failures > 0 /\ failures' = failures - 1

In(states) == {t \in Threads : thread[t].state \in states}
Live == In({"running", "exiting"})
ThreadsSettled == In({"spawned", "exiting"}) = {}
Idle == \A p \in Procs : call[p].step = "idle"

NoCall == [step |-> "idle", seen |-> "none", on |-> Nil, ch |-> Nil]

\* The locals of a call go with it.
At(p, step) == IF step = "idle" THEN NoCall ELSE [call[p] EXCEPT !.step = step]
Goto(p, step) == call' = [call EXCEPT ![p] = At(p, step)]
GotoOn(p, step, i) == call' = [call EXCEPT ![p] = [At(p, step) EXCEPT !.on = i]]

\* go replicator.StartReplication(...)
Spawn(r) == \E t \in In({"unused"}) :
               /\ \A u \in In({"unused"}) : t <= u
               /\ thread' = [thread EXCEPT ![t] = [state |-> "spawned", of |-> r]]

\* HandleConnection recovers: the session ends, and another may take its place.
Panic(p) == panicked' = TRUE /\ UNCHANGED calm /\ Goto(p, "idle")

NoSub == [Enabled |-> FALSE, Replicator |-> Nil]
NoThread == [state |-> "unused", of |-> Nil]
BootOnly == [p \in Procs |-> IF p = Boot THEN [NoCall EXCEPT !.step = "read"] ELSE NoCall]

SubscriptionsInit ==
    /\ row \in RowStates
    /\ entry = Nil /\ sub = [i \in Ids |-> NoSub] /\ made = {}
    /\ call = BootOnly
    /\ thread = [t \in Threads |-> NoThread] /\ closed = {}
    /\ running = [i \in Ids |-> FALSE] /\ stop = [i \in Ids |-> Nil]
    /\ failures = MaxFailures /\ panicked = FALSE /\ calm = TRUE

\* Everything but the catalog is in memory; main runs UpdateSubscriptions.
Blank ==
    /\ entry' = Nil /\ sub' = [i \in Ids |-> NoSub] /\ made' = {}
    /\ call' = BootOnly
    /\ thread' = [t \in Threads |-> NoThread] /\ closed' = {}
    /\ running' = [i \in Ids |-> FALSE] /\ stop' = [i \in Ids |-> Nil]
-----------------------------------------------------------------------------
(* Sessions *)

\* A command commits its change of the row; ALTER and DROP of a missing row
\* change nothing.  Room is left for what the commands under way may make.
Command(s) ==
    LET busy == Cardinality({p \in Procs : call[p].step # "idle"})
    IN  /\ call[s].step = "idle" /\ call[Boot].step = "idle"
        /\ calm' = (calm /\ ThreadsSettled /\ Idle)
        /\ Cardinality(In({"unused"})) > busy /\ Cardinality(Ids \ made) > busy
        /\ row' \in (IF row = "none" THEN {"none", "enabled"} ELSE RowStates)
        /\ Goto(s, "read")
        /\ UNCHANGED <<entry, sub, made, replicator, failures, panicked>>

ReadRows(p) ==
    /\ call[p].step = "read"
    /\ call' = [call EXCEPT ![p].seen = row, ![p].step = "apply"]
    /\ UNCHANGED <<row, entry, sub, made, replicator, failures, history>>

\* LoadOrStore stores the struct of a new row, still without a replicator.
Store(p) ==
    /\ call[p].step = "apply" /\ call[p].seen # "none" /\ entry = Nil
    /\ \E i \in Ids \ made :
          /\ \A j \in Ids \ made : i <= j
          /\ entry' = i
          /\ made' = made \union {i}
          /\ sub' = [sub EXCEPT ![i] = [Enabled |-> call[p].seen = "enabled", Replicator |-> Nil]]
          /\ GotoOn(p, "create", i)
    /\ UNCHANGED <<row, replicator, failures, history>>

\* LoadOrStore finds a struct.
Found(p) ==
    /\ call[p].step = "apply" /\ call[p].seen # "none" /\ entry # Nil
    /\ Goto(p, "load")
    /\ UNCHANGED <<row, entry, sub, made, replicator, failures, history>>

\* The struct is loaded again, if still there, and flipped if its Enabled is
\* not the row's.
Compare(p) ==
    /\ call[p].step = "load"
    /\ IF entry # Nil /\ sub[entry].Enabled # (call[p].seen = "enabled")
       THEN GotoOn(p, "flip", entry)
       ELSE Goto(p, "idle")
    /\ UNCHANGED <<row, entry, sub, made, replicator, failures, history>>

\* Mutant: the struct is deleted without a stop.
RemoveOnly(p) ==
    /\ call[p].step = "apply" /\ call[p].seen = "none"
    /\ Goto(p, "delete")
    /\ UNCHANGED <<row, entry, sub, made, replicator, failures, history>>

\* The Range over the map stops the replicator of a dropped subscription.
Remove(p) ==
    /\ call[p].step = "apply" /\ call[p].seen = "none"
    /\ \/ /\ entry = Nil
          /\ Goto(p, "idle")
          /\ UNCHANGED history
       \/ /\ entry # Nil /\ sub[entry].Replicator = Nil
          /\ Panic(p)
       \/ /\ entry # Nil /\ sub[entry].Replicator # Nil
          /\ GotoOn(p, "stop_check", sub[entry].Replicator)
          /\ UNCHANGED history
    /\ UNCHANGED <<row, entry, sub, made, replicator, failures>>

\* The new replicator goes into the struct that is in the map by now.
Create(p) ==
    /\ call[p].step = "create"
    /\ sub' = IF entry = Nil THEN sub ELSE [sub EXCEPT ![entry].Replicator = call[p].on]
    /\ Goto(p, "slot")
    /\ UNCHANGED <<row, entry, made, replicator, failures, history>>

\* CreateReplicationSlotIfNotExists, whose error is returned; then the start.
Slot(p) ==
    /\ call[p].step = "slot"
    /\ Goto(p, "idle")
    /\ \/ Failure /\ calm' = FALSE /\ UNCHANGED thread
       \/ UNCHANGED <<failures, calm>> /\ IF call[p].seen = "enabled" THEN Spawn(call[p].on) ELSE UNCHANGED thread
    /\ UNCHANGED <<row, entry, sub, made, running, stop, closed, panicked>>

\* Mutant: the struct keeps its Enabled.
FlipForgets(p) ==
    /\ call[p].step = "flip" /\ sub[call[p].on].Replicator # Nil
    /\ \/ call[p].seen = "enabled" /\ Spawn(sub[call[p].on].Replicator) /\ Goto(p, "idle")
       \/ /\ call[p].seen = "disabled" /\ GotoOn(p, "stop_check", sub[call[p].on].Replicator)
          /\ UNCHANGED thread
    /\ UNCHANGED <<row, entry, sub, made, running, stop, closed, failures, history>>

\* A changed Enabled is noted before the start or the stop.
Flip(p) ==
    /\ call[p].step = "flip"
    /\ sub' = [sub EXCEPT ![call[p].on].Enabled = call[p].seen = "enabled"]
    /\ \/ /\ call[p].seen = "enabled"
          /\ Spawn(sub[call[p].on].Replicator)
          /\ Goto(p, "idle")
          /\ UNCHANGED history
       \/ /\ call[p].seen = "disabled" /\ sub[call[p].on].Replicator = Nil
          /\ Panic(p)
          /\ UNCHANGED thread
       \/ /\ call[p].seen = "disabled" /\ sub[call[p].on].Replicator # Nil
          /\ GotoOn(p, "stop_check", sub[call[p].on].Replicator)
          /\ UNCHANGED <<thread, history>>
    /\ UNCHANGED <<row, entry, made, running, stop, closed, failures>>
-----------------------------------------------------------------------------
(* Stop *)

\* Stop has returned; a dropped subscription is then deleted from the map.
Return(p) == IF call[p].seen = "none" THEN "delete" ELSE "idle"

StopCheck(p) ==
    /\ call[p].step = "stop_check"
    /\ Goto(p, IF running[call[p].on] THEN "stop_eval" ELSE Return(p))
    /\ UNCHANGED <<row, entry, sub, made, replicator, failures, history>>

\* The operand of the send is read after the mutex has been released.
StopEval(p) ==
    /\ call[p].step = "stop_eval"
    /\ call' = [call EXCEPT ![p].step = "stop_send", ![p].ch = stop[call[p].on]]
    /\ UNCHANGED <<row, entry, sub, made, replicator, failures, history>>

\* The goroutines that would receive from channel c: loops and waiting Stops.
Loops(c) == {t \in In({"running"}) : stop[thread[t].of] = c}
Waiters(c) == {q \in Procs : call[q].step = "stop_wait" /\ call[q].ch = c}

\* The operand of the receive is read after the send.
Wait(p) == [call[p] EXCEPT !.step = "stop_wait", !.ch = stop[call[p].on]]

\* The channel has no buffer, and a send on a closed one panics.
StopSend(p) ==
    /\ call[p].step = "stop_send"
    /\ \/ /\ call[p].ch \in closed
          /\ Panic(p)
          /\ UNCHANGED thread
       \/ /\ call[p].ch \notin closed
          /\ \E t \in Loops(call[p].ch) : thread' = [thread EXCEPT ![t].state = "exiting"]
          /\ call' = [call EXCEPT ![p] = Wait(p)]
          /\ UNCHANGED history
       \/ /\ call[p].ch \notin closed
          /\ \E q \in Waiters(call[p].ch) :
                call' = [call EXCEPT ![p] = Wait(p), ![q] = At(q, Return(q))]
          /\ UNCHANGED <<thread, history>>
    /\ UNCHANGED <<row, entry, sub, made, running, stop, closed, failures>>

StopWait(p) ==
    /\ call[p].step = "stop_wait" /\ call[p].ch \in closed
    /\ Goto(p, Return(p))
    /\ UNCHANGED <<row, entry, sub, made, replicator, failures, history>>

\* subscriptionMap.Delete takes whatever struct has the name by now.
Delete(p) ==
    /\ call[p].step = "delete"
    /\ entry' = Nil
    /\ Goto(p, "idle")
    /\ UNCHANGED <<row, sub, made, replicator, failures, history>>
-----------------------------------------------------------------------------
(* StartReplication *)

\* A panic of a goroutine that nothing recovers ends the process; its
\* supervisor starts it again.
Die == Blank /\ panicked' = TRUE /\ UNCHANGED <<row, failures, calm>>

\* The replicator is dereferenced; then the flag is set and the channel made.
StartReplicator(t) ==
    LET r == thread[t].of
    IN  /\ thread[t].state = "spawned"
        /\ \/ r = Nil /\ Die
           \/ /\ r # Nil
              /\ thread' = [thread EXCEPT ![t].state = "running"]
              /\ running' = [running EXCEPT ![r] = TRUE]
              /\ stop' = [stop EXCEPT ![r] = t]
              /\ UNCHANGED <<row, entry, sub, made, call, closed, failures, history>>

\* The LSN cannot be read or the schema not be used: no flag, no shutdown.
StartFails(t) ==
    /\ thread[t].state = "spawned" /\ thread[t].of # Nil
    /\ Failure
    /\ calm' = FALSE
    /\ thread' = [thread EXCEPT ![t].state = "done"]
    /\ UNCHANGED <<row, entry, sub, made, call, running, stop, closed, panicked>>

\* The loop is left on an error, or because another goroutine of the same
\* replicator has closed the channel.
LeaveLoop(t) ==
    /\ thread[t].state = "running"
    /\ \/ Failure /\ calm' = FALSE
       \/ stop[thread[t].of] \in closed /\ UNCHANGED <<failures, calm>>
    /\ thread' = [thread EXCEPT ![t].state = "exiting"]
    /\ UNCHANGED <<row, entry, sub, made, call, running, stop, closed, panicked>>

\* Mutant: the flag stays set.
ShutdownKeepsRunning(t) ==
    /\ thread[t].state = "exiting"
    /\ thread' = [thread EXCEPT ![t].state = "done"]
    /\ closed' = closed \union {stop[thread[t].of]}
    /\ UNCHANGED <<row, entry, sub, made, call, running, stop, failures, history>>

\* Mutant: the channel stays open.
ShutdownWithoutClose(t) ==
    /\ thread[t].state = "exiting"
    /\ thread' = [thread EXCEPT ![t].state = "done"]
    /\ running' = [running EXCEPT ![thread[t].of] = FALSE]
    /\ UNCHANGED <<row, entry, sub, made, call, stop, closed, failures, history>>

\* close panics on a closed channel.
shutdownReplicator(t) ==
    LET r == thread[t].of
    IN  /\ thread[t].state = "exiting"
        /\ \/ stop[r] \in closed /\ Die
           \/ /\ stop[r] \notin closed
              /\ thread' = [thread EXCEPT ![t].state = "done"]
              /\ running' = [running EXCEPT ![r] = FALSE]
              /\ closed' = closed \union {stop[r]}
              /\ UNCHANGED <<row, entry, sub, made, call, stop, failures, history>>

Restart ==
    /\ Failure
    /\ Blank
    /\ panicked' = FALSE /\ calm' = TRUE
    /\ UNCHANGED row
-----------------------------------------------------------------------------
UpdateSubscriptions(p) ==
    \/ ReadRows(p) \/ Store(p) \/ Found(p) \/ Compare(p) \/ Remove(p) \/ Create(p) \/ Slot(p)
    \/ Flip(p) \/ Delete(p)
Stop(p) == StopCheck(p) \/ StopEval(p) \/ StopSend(p) \/ StopWait(p)
Replicate(t) == StartReplicator(t) \/ StartFails(t) \/ LeaveLoop(t) \/ shutdownReplicator(t)

SubscriptionsNext ==
    \/ \E s \in Sessions : Command(s)
    \/ \E p \in Procs : UpdateSubscriptions(p) \/ Stop(p)
    \/ \E t \in Threads : Replicate(t)
    \/ Restart

SubscriptionsSpec == SubscriptionsInit /\ [][SubscriptionsNext]_subscriptionVars

\* Goroutines are scheduled; users and faults owe nothing.
SubscriptionsFairness ==
    /\ \A p \in Procs : WF_subscriptionVars(UpdateSubscriptions(p) \/ Stop(p))
    /\ \A t \in Threads : WF_subscriptionVars(StartReplicator(t) \/ shutdownReplicator(t))

SubscriptionsFairSpec == SubscriptionsSpec /\ SubscriptionsFairness
-----------------------------------------------------------------------------
(* Properties *)

\* As long as users let each command take effect and nothing fails, the
\* subscription is replicated exactly when its row says so, once no command is
\* under way and every goroutine has started or exited: the map that
\* UpdateSubscriptions keeps has not drifted from the catalog.
Agreement == calm /\ Idle /\ ThreadsSettled => (Live # {} <=> row = "enabled")

\* As long as users let each command take effect and nothing fails, no two loops
\* apply the changes of the one subscription at the same time.
OneReplication == calm => \A t, u \in Live : t = u

\* As long as users let each command take effect and nothing fails, no session or
\* goroutine panics: no send on or close of a closed stop channel, no use of a
\* replicator that is not there yet.
NoPanic == calm => ~panicked

\* A session that calls Stop gets its answer, as long as users let each command
\* take effect and nothing fails.
StopReturns == \A p \in Procs :
                  call[p].step = "stop_check" ~> call[p].step = "idle" \/ ~calm
=============================================================================
