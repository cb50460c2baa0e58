---------------------------- MODULE MCPgProtocol ----------------------------
(* Instances of PgProtocol for TLC.                                        *)
EXTENDS PgProtocol

TwoNames == {"", "s"}

AllQueries == {<<"engine">>, <<"special">>, <<"deallocate">>, <<"copyin">>,
               <<"engine", "copyout">>, <<"copyout", "copyin">>}

(* A named statement of the engine, bound to either portal, or one handled *)
(* in place, and an empty unnamed one.                                     *)
Requests ==
  {Request("Parse", "s", "", <<"engine">>), Request("Parse", "s", "", <<"inplace">>),
   Request("Parse", "", "", <<"empty">>),
   Request("Bind", "s", "", << >>), Request("Bind", "s", "s", << >>),
   Request("Bind", "", "", << >>),
   Request("Execute", "", "", << >>), Request("Execute", "", "s", << >>),
   Request("CloseStatement", "s", "", << >>), Request("ClosePortal", "", "", << >>),
   Request("DescribeStatement", "s", "", << >>),
   Request("DescribePortal", "", "", << >>),
   Request("Flush", "", "", << >>)}
=============================================================================
