---------------------------- MODULE MCMcpServer -----------------------------
(* Three devices and a name no source lists, two threads: a device with a     *)
(* management and another address, a leaf with one, one without credentials.  *)
EXTENDS McpServer

CONSTANT nowhere

MCNode(crawled, mgmt, peers, scopes, groups) ==
    [crawled |-> crawled, mgmt |-> mgmt, peers |-> peers, scopes |-> scopes,
     groups |-> groups \cup {"all"}]
MCNodes ==
    [core |-> MCNode(TRUE, "m1", <<"i1", "m1">>, <<"core">>, {"crawled"}),
     leaf |-> MCNode(FALSE, nowhere, <<"i2">>, <<"leaf", "arista">>, {"leaf"}),
     bare |-> MCNode(TRUE, "m3", <<>>, <<"bare">>, {"crawled"}),
     ghost |-> MCNode(TRUE, "m4", <<>>, <<"ghost">>, {})]
MCListings == {{"core", "leaf", "bare"}, {"core"}}
MCFields == {"USERNAME", "PASSWORD", "KEY_FILE"}
MCEnvironment ==
    [scope \in {"global", "arista", "core", "leaf", "bare", "ghost"} |->
        [field \in MCFields |->
            IF scope = "global" THEN (IF field = "KEY_FILE" THEN "unset" ELSE "set")
            ELSE IF scope = "arista" /\ field = "KEY_FILE" THEN "set"
            ELSE IF scope = "bare" /\ field = "PASSWORD" THEN "empty" ELSE "unset"]]
MCTargets == {"core", "all", "nobody"}
MCCommand(pipes, listed, pieces) ==
    [unsafe |-> FALSE, denied |-> FALSE, pipes |-> pipes, listed |-> listed, pieces |-> pieces]
MCCommands == {MCCommand(<<"include">>, TRUE, 2), MCCommand(<<>>, FALSE, 1)}
MCPipeModifiers == {"include"}
=============================================================================
