------------------------- MODULE ReplicaController -------------------------
(***************************************************************************)
(* START, STOP and RESET REPLICA (binlog_replica_controller.go) against    *)
(* the applier goroutines that START spawns (binlog_replica_applier.go, Go *)
(* and replicaBinlogEventHandler; BinlogApplier models what they do with   *)
(* events).                                                                *)
(*                                                                         *)
(* The sessions and the goroutines share the flag running, the unbuffered  *)
(* channel stopReplicationChan, the status, and the file replica-running   *)
(* that decides whether a restarted server starts replication by itself.   *)
(* Every step between two accesses to shared state is an action.           *)
(***************************************************************************)
EXTENDS Naturals, FiniteSets

CONSTANTS
    Sessions,      \* client sessions
    Boot,          \* the startup of the server, which runs AutoStart
    Appliers,      \* names for the goroutines alive at one time
    Nobody,        \* no session
    MaxFaults      \* bound on the faults

Procs == Sessions \union {Boot}

ASSUME ControllerAssumption ==
    /\ Boot \notin Sessions
    /\ Nobody \notin Procs
    /\ IsFiniteSet(Appliers)
    /\ MaxFaults \in Nat

VARIABLES
    op,               \* where each session is
    operationMutex,   \* its holder
    applier,          \* where each goroutine is
    running,          \* the applier's flag
    io, sql,          \* ReplicaIoRunning and ReplicaSqlRunning
    replicaRunning,   \* the file replica-running exists
    saved,            \* history: the last command to write or remove it could
    configured,       \* the source is configured
    faults,           \* faults that may still happen
    calm              \* history: since the server came up, every command came when
                      \* the last one had taken effect, and no applier gave up

controllerVars == <<op, operationMutex, applier, running, io, sql, replicaRunning, saved, configured, faults, calm>>

\* A connection attempt fails or is given up, a connection is lost, the running state
\* cannot be persisted, the server restarts.
Fault == faults > 0 /\ faults' = faults - 1

In(S) == {a \in Appliers : applier[a] \in S}
Live == In({"connecting", "retrying", "streaming"})
Settling == In({"spawned", "stopping", "failed"})
Quiet == \A p \in Procs : op[p] = "idle"
Starting == {p \in Procs : op[p] \in {"start_lock", "start_check", "start_go"}}

Goto(p, l) == op' = [op EXCEPT ![p] = l]
Become(a, l) == applier' = [applier EXCEPT ![a] = l]
-----------------------------------------------------------------------------
(* Sessions *)

\* A session sends a command.
Command(s) ==
    /\ op[s] = "idle"
    /\ op[Boot] = "idle"
    /\ calm' = (calm /\ Settling = {} /\ Quiet)
    /\ \/ /\ Cardinality(In({"unused"})) > Cardinality(Starting)
          /\ Goto(s, "start_lock")
       \/ Goto(s, "stop_check")
       \/ Goto(s, "reset_lock")
    /\ UNCHANGED <<operationMutex, applier, running, io, sql, replicaRunning, saved, configured, faults>>

\* CHANGE REPLICATION SOURCE TO.
SetReplicationSourceOptions(s) ==
    /\ op[s] = "idle"
    /\ op[Boot] = "idle"
    /\ ~configured
    /\ configured' = TRUE
    /\ UNCHANGED <<op, operationMutex, applier, running, io, sql, replicaRunning, saved, faults, calm>>

Lock(p) ==
    /\ operationMutex = Nobody
    /\ operationMutex' = p
    /\ \/ op[p] = "start_lock" /\ Goto(p, "start_check")
       \/ op[p] = "reset_lock" /\ Goto(p, "reset_check")
    /\ UNCHANGED <<applier, running, io, sql, replicaRunning, saved, configured, faults, calm>>

\* A START that takes no notice of a running applier.
StartAnyway(p) ==
    /\ op[p] = "start_check"
    /\ IF ~configured
       THEN Goto(p, "idle") /\ operationMutex' = Nobody
       ELSE Goto(p, "start_go") /\ UNCHANGED operationMutex
    /\ UNCHANGED <<applier, running, io, sql, replicaRunning, saved, configured, faults, calm>>

\* START REPLICA: a running applier, or no configuration, ends it.
StartCheck(p) ==
    /\ op[p] = "start_check"
    /\ IF running \/ ~configured
       THEN Goto(p, "idle") /\ operationMutex' = Nobody
       ELSE Goto(p, "start_go") /\ UNCHANGED operationMutex
    /\ UNCHANGED <<applier, running, io, sql, replicaRunning, saved, configured, faults, calm>>

\* The goroutine is spawned; it sets running by itself, later.
StartGo(p) ==
    /\ op[p] = "start_go"
    /\ Goto(p, "start_persist")
    /\ \E a \in In({"unused"}) : Become(a, "spawned")
    /\ UNCHANGED <<operationMutex, running, io, sql, replicaRunning, saved, configured, faults, calm>>

\* persistReplicaRunningState: an error is logged, and the command succeeds without it.
Persist(state) ==
    \/ replicaRunning' = state /\ saved' = TRUE /\ UNCHANGED faults
    \/ Fault /\ saved' = FALSE /\ UNCHANGED replicaRunning

\* START records the state of a STOP.
StartPersistsStop(p) ==
    /\ op[p] = "start_persist"
    /\ Persist(FALSE)
    /\ Goto(p, "idle")
    /\ operationMutex' = Nobody
    /\ UNCHANGED <<applier, running, io, sql, configured, calm>>

StartPersist(p) ==
    /\ op[p] = "start_persist"
    /\ Persist(TRUE)
    /\ Goto(p, "idle")
    /\ operationMutex' = Nobody
    /\ UNCHANGED <<applier, running, io, sql, configured, calm>>

\* STOP REPLICA, which does not take operationMutex.
StopCheck(p) ==
    /\ op[p] = "stop_check"
    /\ Goto(p, IF running THEN "stop_send" ELSE "idle")
    /\ UNCHANGED <<operationMutex, applier, running, io, sql, replicaRunning, saved, configured, faults, calm>>

\* The channel has no buffer: the session waits for an applier that receives.
StopSend(p) ==
    /\ op[p] = "stop_send"
    /\ \E a \in In({"retrying", "streaming"}) : Become(a, "stopping")
    /\ Goto(p, "stop_status")
    /\ UNCHANGED <<operationMutex, running, io, sql, replicaRunning, saved, configured, faults, calm>>

\* The status of a stopped thread is not updated.
StopStatusIO(p) ==
    /\ op[p] = "stop_status"
    /\ Goto(p, "stop_persist")
    /\ io' = "No"
    /\ UNCHANGED <<operationMutex, applier, running, sql, replicaRunning, saved, configured, faults, calm>>

StopStatus(p) ==
    /\ op[p] = "stop_status"
    /\ Goto(p, "stop_persist")
    /\ io' = "No"
    /\ sql' = "No"
    /\ UNCHANGED <<operationMutex, applier, running, replicaRunning, saved, configured, faults, calm>>

StopPersist(p) ==
    /\ op[p] = "stop_persist"
    /\ Persist(FALSE)
    /\ Goto(p, "idle")
    /\ UNCHANGED <<operationMutex, applier, running, io, sql, configured, calm>>

\* RESET REPLICA [ALL]: without ALL only the errors in the status are cleared.
ResetReplica(p) ==
    /\ op[p] = "reset_check"
    /\ Goto(p, "idle")
    /\ operationMutex' = Nobody
    /\ configured' \in IF running THEN {configured} ELSE {configured, FALSE}
    /\ UNCHANGED <<applier, running, io, sql, replicaRunning, saved, faults, calm>>
-----------------------------------------------------------------------------
(* Appliers *)

Launch(a) ==
    /\ applier[a] = "spawned"
    /\ running' = TRUE
    /\ Become(a, "connecting")
    /\ io' = "Connecting"
    /\ sql' = "Yes"
    /\ UNCHANGED <<op, operationMutex, replicaRunning, saved, configured, faults, calm>>

\* A failed attempt starts over without listening for a STOP.
ConnectAgain(a) ==
    /\ applier[a] = "connecting"
    /\ \/ ~configured /\ Become(a, "failed") /\ UNCHANGED <<io, faults>>
       \/ configured /\ Become(a, "spawned") /\ UNCHANGED <<io, faults>>
       \/ configured /\ Become(a, "streaming") /\ io' = "Yes" /\ UNCHANGED faults
    /\ UNCHANGED <<op, operationMutex, running, sql, replicaRunning, saved, configured, calm>>

\* One attempt of connectAndStartReplicationEventStream.
Connect(a) ==
    /\ applier[a] = "connecting"
    /\ \/ ~configured /\ Become(a, "failed") /\ UNCHANGED <<io, faults, calm>>
       \/ configured /\ Fault /\ Become(a, "failed") /\ calm' = FALSE /\ UNCHANGED io
       \/ configured /\ Fault /\ Become(a, "retrying") /\ UNCHANGED <<io, calm>>
       \/ configured /\ Become(a, "streaming") /\ io' = "Yes" /\ UNCHANGED <<faults, calm>>
    /\ UNCHANGED <<op, operationMutex, running, sql, replicaRunning, saved, configured>>

\* The retry delay is over.
Retry(a) ==
    /\ applier[a] = "retrying"
    /\ Become(a, "connecting")
    /\ UNCHANGED <<op, operationMutex, running, io, sql, replicaRunning, saved, configured, faults, calm>>

LoseConnection(a) ==
    /\ applier[a] = "streaming"
    /\ Fault
    /\ Become(a, "connecting")
    /\ io' = "Connecting"
    /\ sql' = "Yes"
    /\ UNCHANGED <<op, operationMutex, running, replicaRunning, saved, configured, calm>>

\* The handler returns, after STOP or with an error; the status stays as it is.
Exit(a) ==
    /\ applier[a] \in {"stopping", "failed"}
    /\ running' = FALSE
    /\ Become(a, "unused")
    /\ UNCHANGED <<op, operationMutex, io, sql, replicaRunning, saved, configured, faults, calm>>
-----------------------------------------------------------------------------
\* The server goes down at any moment and comes up again; AutoStart follows the
\* file, unless it cannot be examined, before any session is served.
Restart ==
    /\ Fault
    /\ applier' = [a \in Appliers |-> "unused"]
    /\ \E boot \in {"start_lock", "idle"} :
          op' = [p \in Procs |-> IF p = Boot /\ replicaRunning THEN boot ELSE "idle"]
    /\ operationMutex' = Nobody
    /\ running' = FALSE
    /\ io' = "No"
    /\ sql' = "No"
    /\ calm' = TRUE
    /\ UNCHANGED <<replicaRunning, saved, configured>>

ControllerInit ==
    /\ op = [p \in Procs |-> "idle"]
    /\ operationMutex = Nobody
    /\ applier = [a \in Appliers |-> "unused"]
    /\ running = FALSE
    /\ io = "No"
    /\ sql = "No"
    /\ replicaRunning = FALSE
    /\ saved = TRUE
    /\ configured = FALSE
    /\ faults = MaxFaults
    /\ calm = TRUE

\* What a session does once it has sent its command.
Proceed(p) ==
    \/ StartCheck(p) \/ StartGo(p) \/ StartPersist(p)
    \/ StopCheck(p) \/ StopSend(p) \/ StopStatus(p) \/ StopPersist(p)
    \/ ResetReplica(p)

Run(a) == Launch(a) \/ Connect(a) \/ Retry(a) \/ Exit(a)

ControllerNext ==
    \/ \E s \in Sessions : Command(s) \/ SetReplicationSourceOptions(s)
    \/ \E p \in Procs : Lock(p) \/ Proceed(p)
    \/ \E a \in Appliers : Run(a) \/ LoseConnection(a)
    \/ Restart

ControllerSpec == ControllerInit /\ [][ControllerNext]_controllerVars

\* Goroutines are scheduled, and sync.Mutex lets no one starve.
Fairness ==
    /\ \A p \in Procs : SF_controllerVars(Lock(p)) /\ WF_controllerVars(Proceed(p))
    /\ \A a \in Appliers : WF_controllerVars(Run(a))

ControllerFairSpec == ControllerSpec /\ Fairness
-----------------------------------------------------------------------------
(* Properties *)

\* As long as users let each command take effect, no two appliers work on the
\* same state (binlogReplicaApplier has no mutex), over reconnections and restarts.
OneApplier == calm => \A a, b \in Live : a = b

\* As long as users let each command take effect, a server with a live applier and no
\* command under way has the file that makes AutoStart start it again, unless the last
\* persistReplicaRunningState failed: StartReplica and StopReplica only log that.
RunningIsPersisted == calm /\ saved /\ Quiet /\ Live # {} => replicaRunning

\* As long as users let each command take effect and no applier gives up, SHOW
\* REPLICA STATUS tells whether the applier runs, once no command is under way and
\* no goroutine is coming up or going down.
StatusTruthful == calm /\ Quiet /\ Settling = {} => (sql = "Yes" <=> Live # {})

\* STOP REPLICA returns if users let each command take effect and no applier gives
\* up: somebody receives from the channel without a buffer.
StopReturns == \A s \in Sessions : op[s] = "stop_check" ~> op[s] = "idle" \/ ~calm

=============================================================================
