--------------------------- MODULE ReplicaPromise ---------------------------
(***************************************************************************)
(* What replication promises to the readers of the replica and to its own  *)
(* restarts: the tables and the stored position change together, by whole  *)
(* source transactions, in the source's order, and each change once.       *)
(***************************************************************************)
EXTENDS Integers

CONSTANTS
    Txns,      \* the source's transactions, numbered in commit order
    Changes,   \* their row changes
    TxnOf(_)   \* the transaction of a change

VARIABLES
    position,  \* the transactions recorded as executed
    applied    \* how often each change has been applied

vars == <<position, applied>>

Init ==
    /\ position = {}
    /\ applied = [c \in Changes |-> 0]

\* A batch G of transactions becomes visible, position included.
Commit(G) ==
    /\ \A g \in G, h \in Txns : h < g => h \in position \union G
    /\ position' = position \union G
    /\ applied' = [c \in Changes |->
                     applied[c] + (IF TxnOf(c) \in G THEN 1 ELSE 0)]

Next == \E G \in SUBSET (Txns \ position) : Commit(G)

Spec == Init /\ [][Next]_vars

\* A transaction's changes are applied exactly once if it is recorded, and not
\* at all otherwise.
ExactlyOnce ==
    \A c \in Changes : applied[c] = IF TxnOf(c) \in position THEN 1 ELSE 0

\* No transaction is recorded before an earlier one.
InOrder == \A g \in position, h \in Txns : h < g => h \in position
=============================================================================
