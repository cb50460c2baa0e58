-------------------------- MODULE MCBinlogApplier --------------------------
(* Logs and fault bounds for model-checking BinlogApplier.                  *)
EXTENDS BinlogApplier

E(k, t) == [kind |-> k, table |-> t]

\* Row events only: what binlog_format=ROW writes for tables with keys.
RowLog == << <<E("row", "a"), E("row", "b")>>,
             <<E("row", "a"), E("row", "a")>>,
             <<E("skip", "c"), E("row", "a")>>,
             <<E("row", "b")>> >>

\* All kinds of events.
FullLog == << <<E("row", "a"), E("row", "b")>>,
              <<E("row", "a"), E("stmt", "b")>>,
              <<E("ddl", "a")>>,
              <<E("direct", "c"), E("row", "b")>> >>

NoFaults == [f \in Faults |-> 0]
Interruptions == [NoFaults EXCEPT !["crash"] = 2, !["disconnect"] = 2, !["stop"] = 2]
AllFaults == [f \in Faults |-> 1]
=============================================================================
