---------------------------- MODULE EventProducer ----------------------------
(***************************************************************************)
(* The goroutines that read binlog events (binlog_replica_event_producer   *)
(* .go) and the applier's loop that receives from the newest one.          *)
(*                                                                         *)
(* A producer sends on channels without a buffer and closes them when it   *)
(* exits.  A receive from a closed channel returns at once with a nil      *)
(* event, which processBinlogEvent cannot handle.                          *)
(***************************************************************************)
EXTENDS Naturals

CONSTANTS
    MaxConnections,   \* connections, and so producers, of one applier
    MaxErrors         \* read errors

Producers == 1..MaxConnections

ASSUME ProducerAssumption == MaxConnections \in Nat /\ MaxErrors \in Nat

VARIABLES
    state,      \* each goroutine: new, checking, reading, read, sending, exited
    item,       \* what it has read: an event, a lost connection, another error
    alive,      \* each producer's flag
    conn,       \* each connection: none, open, broken, closed
    loop,       \* the applier's loop: connecting, selecting, lost, closing, done
    current,    \* the loop's eventProducer, 0 for nil
    late,       \* history: producers that had passed their last check when stopped
    errors      \* read errors that may still happen

producerVars == <<state, item, alive, conn, loop, current, late, errors>>

Advance(p, l) == state' = [state EXCEPT ![p] = l]
-----------------------------------------------------------------------------
(* A producer *)

\* The loop condition: p.IsRunning().
CheckRunning(p) ==
    /\ state[p] = "checking"
    /\ Advance(p, IF alive[p] THEN "reading" ELSE "exited")
    /\ UNCHANGED <<item, alive, conn, loop, current, late, errors>>

\* An event arrives, another error comes up, the connection breaks, or it is no longer
\* there to be read from.
ReadBinlogEvent(p) ==
    /\ state[p] = "reading"
    /\ Advance(p, "read")
    /\ \/ conn[p] = "open" /\ item' = [item EXCEPT ![p] = "event"] /\ UNCHANGED <<conn, errors>>
       \/ conn[p] # "open" /\ item' = [item EXCEPT ![p] = "lost"] /\ UNCHANGED <<conn, errors>>
       \/ /\ conn[p] = "open" /\ errors > 0
          /\ errors' = errors - 1
          /\ \/ item' = [item EXCEPT ![p] = "error"] /\ UNCHANGED conn
             \/ item' = [item EXCEPT ![p] = "lost"] /\ conn' = [conn EXCEPT ![p] = "broken"]
    /\ UNCHANGED <<alive, loop, current, late>>

\* What was read while the producer was stopped is sent all the same.
SendAnyway(p) ==
    /\ state[p] = "read"
    /\ Advance(p, "sending")
    /\ UNCHANGED <<item, alive, conn, loop, current, late, errors>>

CheckStopped(p) ==
    /\ state[p] = "read"
    /\ Advance(p, IF alive[p] THEN "sending" ELSE "exited")
    /\ UNCHANGED <<item, alive, conn, loop, current, late, errors>>
-----------------------------------------------------------------------------
(* The applier's loop *)

\* A new connection, and a producer for it.
ConnectAndStart ==
    /\ loop = "connecting"
    /\ \E p \in Producers :
          /\ state[p] = "new"
          /\ \A q \in Producers : q < p => state[q] # "new"
          /\ Advance(p, "checking")
          /\ alive' = [alive EXCEPT ![p] = TRUE]
          /\ conn' = [conn EXCEPT ![p] = "open"]
          /\ current' = p
    /\ loop' = "selecting"
    /\ UNCHANGED <<item, late, errors>>

\* The loop receives from one of the two channels, and the producer is off for its next
\* event before the loop has looked at this one.
Receive ==
    /\ loop = "selecting"
    /\ state[current] = "sending"
    /\ Advance(current, "checking")
    /\ loop' = IF item[current] = "lost" THEN "lost" ELSE "selecting"
    /\ UNCHANGED <<item, alive, conn, current, late, errors>>

\* eventProducer.Stop(), which a producer that waits to send does not notice.
Stop ==
    /\ alive' = [alive EXCEPT ![current] = FALSE]
    /\ late' = IF state[current] = "sending" THEN late \union {current} ELSE late

\* A lost connection after which the loop goes on with the stopped producer.
BadConnectionKeeps ==
    /\ loop = "lost"
    /\ Stop
    /\ loop' = "selecting"
    /\ UNCHANGED <<state, item, conn, current, errors>>

\* A lost connection: the producer is stopped,
BadConnection ==
    /\ loop = "lost"
    /\ Stop
    /\ loop' = "closing"
    /\ UNCHANGED <<state, item, conn, current, errors>>

\* forgotten, and the connection closed.
CloseConnection ==
    /\ loop = "closing"
    /\ conn' = [conn EXCEPT ![current] = "closed"]
    /\ current' = 0
    /\ loop' = "connecting"
    /\ UNCHANGED <<state, item, alive, late, errors>>

\* STOP REPLICA: the producer is stopped, the connection left open.
StopReplica ==
    /\ loop = "selecting"
    /\ Stop
    /\ loop' = "done"
    /\ UNCHANGED <<state, item, conn, current, errors>>
-----------------------------------------------------------------------------
ProducerInit ==
    /\ state = [p \in Producers |-> "new"]
    /\ item = [p \in Producers |-> "none"]
    /\ alive = [p \in Producers |-> FALSE]
    /\ conn = [p \in Producers |-> "none"]
    /\ loop = "connecting"
    /\ current = 0
    /\ late = {}
    /\ errors = MaxErrors

Produce(p) == CheckRunning(p) \/ ReadBinlogEvent(p) \/ CheckStopped(p)

ProducerNext ==
    \/ \E p \in Producers : Produce(p)
    \/ ConnectAndStart \/ Receive \/ BadConnection \/ CloseConnection \/ StopReplica

ProducerSpec == ProducerInit /\ [][ProducerNext]_producerVars

\* The goroutines are scheduled and the source keeps sending events.
ProducerFairSpec == ProducerSpec /\ \A p \in Producers : WF_producerVars(Produce(p))
-----------------------------------------------------------------------------
(* Properties *)

\* The loop never receives from the closed channels of a producer that has exited:
\* it would get nil events and errors for ever.
NeverClosed == loop = "selecting" => state[current] # "exited"

\* A producer that the loop has stopped, for a new connection or for STOP REPLICA, exits,
\* even if it was waiting for an event at the time.  Only one that had passed its check
\* before may not: it waits for ever to send to nobody, with a second error of the lost
\* connection or an event nobody wants, and reads nothing more.
LeftExits ==
    \A p \in Producers :
        state[p] # "new" /\ ~alive[p] ~> state[p] = "exited" \/ (state[p] = "sending" /\ p \in late)
=============================================================================
