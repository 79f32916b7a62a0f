------------------------------ MODULE MCDpaClients ------------------------------
(***************************************************************************)
(* Sessions, commands, files and faults for TLC.                           *)
(***************************************************************************)
EXTENDS DpaClients

\* The second session on node1 is that of a client that gave up a hung command.
TwoOnOneNode == [s \in Sessions |-> IF s = "other" THEN "node2" ELSE "node1"]

SomeFiles == {Name("old", "old_tac"), NewFile}

SomeMenus == {{"import", "restore", "startloader"}, {"version", "phonescopy", "import"},
              {"scp", "backup", "backup_list"}, {"tac", "loader_log", "success_log", "startloader"}}

F(at, where, mode, times) == [at |-> at, node |-> where, mode |-> mode, times |-> times]

\* No fault, each fault by itself, a fault of both nodes before one of node1, and
\* a fault that follows when the first has been used up.
EachFault == UNION {{<<F(a, "any", m, 1)>> : m \in Modes[a]} : a \in DOMAIN Modes}
SomeFaults ==
    EachFault \cup
    {<<>>,
     <<F("import", "any", "wrong_version", 1), F("import", "node1", "no_script_finished", 0)>>,
     <<F("startloader", "any", "timeout", 1), F("startloader", "any", "error", 1)>>}
================================================================================
