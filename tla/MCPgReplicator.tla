--------------------------- MODULE MCPgReplicator ---------------------------
(* A small log for PgReplicator. *)
EXTENDS PgReplicator

R(t) == [kind |-> "row", table |-> t, relation |-> FALSE]
RAltered(t) == [kind |-> "row", table |-> t, relation |-> TRUE]
T(t) == [kind |-> "truncate", table |-> t, relation |-> FALSE]
Txn(msgs) == [streamed |-> FALSE, msgs |-> msgs]
Large(msgs) == [streamed |-> TRUE, msgs |-> msgs]

\* A large transaction, which is in the copied tables unless the source commits it
\* after them; transactions of several rows and tables; one that is empty; a table
\* altered between transactions, and within one; and TRUNCATEs of rows that are
\* stored, or still buffered, depending on where the batches end.
MixedLog == << Large(<<R("b")>>), Txn(<<R("a"), R("b")>>), Txn(<<T("a"), R("a")>>),
               Txn(<<>>), Txn(<<RAltered("a"), R("b")>>), Txn(<<R("b"), RAltered("a")>>) >>
=============================================================================
