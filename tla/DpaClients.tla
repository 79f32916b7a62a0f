------------------------------- MODULE DpaClients -------------------------------
(***************************************************************************)
(* DpaWorld under clients that send any command at any time from several   *)
(* sessions, two of which may be logged in to one node: a client that has  *)
(* given up a hung command and opened a new connection is one.  At most    *)
(* MaxCalls commands are sent in all (a bound of the model).               *)
(***************************************************************************)
EXTENDS DpaWorld

CONSTANTS
    Menus,       \* sets of commands; a behaviour keeps to one of them, a bound of the model
    MaxCalls

ASSUME MenusAssumption == Menus \subseteq SUBSET Commands

VARIABLES
    menu,         \* the commands of this behaviour
    calls,        \* commands sent so far
    overlapped,   \* history: two commands were served at once
    hit,          \* history: fault -> commands it was injected into
    held,         \* history: node -> versions that its phones.dat ever held
    source,       \* history: node -> the file last put over phones.dat
    loaded        \* history: node -> the loader has run since the last import

clientVars == <<menu, calls, overlapped, hit, held, source, loaded>>
vars == <<worldVars, clientVars>>

Idle == \A s \in Sessions : pc[s] = "idle"

Init ==
    /\ WorldInit
    /\ menu \in Menus /\ \A i \in DOMAIN faults : faults[i].at \in menu
    /\ calls = 0 /\ overlapped = FALSE
    /\ hit = [i \in DOMAIN faults |-> 0]
    /\ held = [n \in Nodes |-> {phones[n]}]
    /\ source = [n \in Nodes |-> BackupName(phones[n])]
    /\ loaded = [n \in Nodes |-> TRUE]

Call(s) ==
    /\ calls < MaxCalls /\ calls' = calls + 1
    /\ \E c \in menu, f \in Files \cup {Foreign}, t \in Targets \cup {"none"} : Receive(s, c, f, t)
    /\ overlapped' = (overlapped \/ ~Idle)
    /\ UNCHANGED <<menu, hit, held, source, loaded>>

\* What a step of the world was: a fault injected, phones.dat overwritten, an
\* import or a run of the loader that came to its end.
Injected(s, i) == pc[s] = "fault" /\ pc'[s] = "consume" /\ fault'[s] = i

Overwrites(s) ==
    /\ pc[s] = "serve" /\ answer'[s].exit = 0
    /\ \/ op[s] = "restore" /\ file[s] \in Backups
       \/ op[s] = "phonescopy"
       \/ op[s] = "scp" /\ target[s] = "phones"

Stores(s, c) == pc[s] = "store" /\ op[s] = c

Step(s) ==
    /\ WorldStep(s)
    /\ hit' = [i \in DOMAIN faults |-> IF Injected(s, i) THEN hit[i] + 1 ELSE hit[i]]
    /\ held' = [n \in Nodes |-> held[n] \cup {phones'[n]}]
    /\ source' = IF Overwrites(s) THEN [source EXCEPT ![Where[s]] = file[s]] ELSE source
    /\ loaded' = [n \in Nodes |-> IF n = Where[s] /\ Stores(s, "import") THEN FALSE
                                  ELSE IF n = Where[s] /\ Stores(s, "startloader") THEN TRUE
                                  ELSE loaded[n]]
    /\ UNCHANGED <<menu, calls, overlapped>>

Next == \E s \in Sessions : Call(s) \/ Step(s)

Spec == Init /\ [][Next]_vars

--------------------------------------------------------------------------------
\* The version a node reports as installed was in its own phones.dat at some time,
\* or is the one a wrong_version fault of that node made up: whatever sessions
\* import, copy and restore in between, no version comes from the other node or
\* out of a file that was only staged.
InstalledWasHeld ==
    \A n \in Nodes :
        \/ installed[n] \in held[n]
        \/ /\ installed[n] = "bogus"
           /\ \E i \in DOMAIN faults : /\ faults[i].mode = "wrong_version" /\ hit[i] > 0
                                       /\ faults[i].node \in {"any", n}

\* While no two commands were served at once, the TAC count of a node belongs to
\* its installed version from each run of the loader to the next import.
TacOfInstalled ==
    ~overlapped => \A n \in Nodes : loaded[n] => loader_tac[n] = TacFor(installed[n])

\* Faults are used up in the order they are declared: a later fault is injected
\* only when the earlier ones for the same command and node have a limit and have
\* been injected as often as it says, however the sessions overlap.  And a fault with a
\* limit is injected at most that often, while no two commands were served at once:
\* "times - how many matching invocations are affected" (dpa_node.py:106).
FaultsInOrder ==
    /\ \A i, j \in DOMAIN faults :
        /\ i < j /\ hit[j] > 0
        /\ faults[i].at = faults[j].at /\ faults[i].node \in {"any", faults[j].node}
        => faults[i].times # 0 /\ hit[i] >= faults[i].times
    /\ ~overlapped => \A i \in DOMAIN faults : faults[i].times # 0 => hit[i] <= faults[i].times

\* The checksum of phones.dat is that of the backup it was made from, if the name of
\* the backup gives the TAC count of its version: "so a restored backup compares
\* equal to its source" (dpa_node.py:406-407).
RestoredComparesEqual ==
    \A n \in Nodes :
        source[n] \in Backups /\ source[n].tac = TacFor(source[n].version)
        => ShaOfPhones(n) = ShaOfFile(source[n])
================================================================================
