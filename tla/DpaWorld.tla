-------------------------------- MODULE DpaWorld --------------------------------
(***************************************************************************)
(* DpaWorld of dpa_node.py: the two DPA nodes and the repo server that the *)
(* sessions of all connections share, and the faults a scenario injects.   *)
(*                                                                         *)
(* A session serves one command at a time, in a thread of its own and      *)
(* without a lock.  A command is cut where it tests and uses up the budget *)
(* of a fault, and where it stores what it derived from the node's state.  *)
(*                                                                         *)
(* A file is known by what its name says: the version and the TAC count of *)
(* a backup, phones.dat_<version>__<tac>; the new input file; or neither.  *)
(* Kept are the commands that change the world or use up a fault; of the   *)
(* lists, logs and fixtures they print, only what a client decides on.     *)
(***************************************************************************)
EXTENDS Naturals, Sequences

CONSTANTS
    Sessions,
    Where,        \* session -> the node it is logged in to
    Files,        \* the files that commands name
    FaultLists    \* the values dpa.faults may have

Nodes    == {"node1", "node2"}
Versions == {"old", "new", "bogus"}      \* bogus: what the wrong_version fault reports
Tacs     == {"old_tac", "new_tac"}

\* A backup's name holds the TAC count the client registered, or NA.
Name(version, tac) == [version |-> version, tac |-> tac]
NewFile == Name("new", "none")
Foreign == Name("none", "none")          \* a name no version can be read from
Backups == {Name(v, t) : v \in Versions, t \in Tacs \cup {"NA"}}
Names   == Backups \cup {NewFile, Foreign}

\* The commands that ask for a fault by their own name, and their modes.
Modes == [version |-> {"blank", "stale", "drift"}, backup_list |-> {"empty"}, restore |-> {"missing"},
          phonescopy |-> {"fail"}, import |-> {"wrong_version", "no_script_finished", "no_prompt"},
          startloader |-> {"timeout", "no_prompt", "error"}, loader_log |-> {"missing"},
          tac |-> {"missing", "mismatch"}, scp |-> {"fail"}]
Commands == DOMAIN Modes \cup {"success_log", "backup"}
FileCommands == {"backup", "restore", "phonescopy", "scp"}

\* Where scp puts the file: staged in /tmp, over phones.dat, or on the repo server.
Targets == {"tmp", "phones", "repo"}

Faults == [at : DOMAIN Modes, node : Nodes \cup {"any"}, mode : UNION {Modes[a] : a \in DOMAIN Modes},
           times : Nat]

ASSUME WhereAssumption == Where \in [Sessions -> Nodes]
ASSUME FilesAssumption == Files \subseteq Names /\ Files # {}
ASSUME FaultListsAssumption == \A fs \in FaultLists : fs \in Seq(Faults)
ASSUME ModesAssumption == \A fs \in FaultLists : \A i \in DOMAIN fs : fs[i].mode \in Modes[fs[i].at]

VARIABLES
    faults, used,                   \* self.faults, and f._used of each
    installed,                      \* node -> installed_version
    phones,                         \* node -> phones_dat_version
    tmp,                            \* node -> files staged in /tmp
    backups,                        \* node -> names under OldDLUBKP, in order
    loader_tac,                     \* node -> loader_tac
    repo,                           \* files on the repo server
    pc, op, file, target,           \* session -> where it is, and its command
    fault,                          \* session -> index of the fault injected, 0 if none
    seen,                           \* session -> f._used as it was read
    ver,                            \* session -> the version it read
    answer                          \* session -> [exit, says] of its last command

node    == <<installed, phones, tmp, backups, loader_tac, repo>>
session == <<pc, op, file, target, fault, seen, ver, answer>>
worldVars == <<faults, used, node, session>>

--------------------------------------------------------------------------------
TacFor(version) == IF version = "new" THEN "new_tac" ELSE "old_tac"

VersionOfFile(f) == IF f.version = "none" THEN "old" ELSE f.version

BackupName(version) == Name(version, TacFor(version))

\* The checksum of a file follows its name; that of phones.dat, the version it holds.
ShaOfFile(f) == f

\* Mutant: the checksum follows the installed version.
ShaOfInstalled(n) == BackupName(installed[n])

ShaOfPhones(n) == BackupName(phones[n])

\* What `ls -lrth` shows of OldDLUBKP, and of the node's directory on the repo server.
Listed(n) ==
    LET names == IF backups[n] = <<>> THEN <<BackupName("old")>> ELSE backups[n]
    IN  {names[i] : i \in DOMAIN names}

WorldInit ==
    /\ faults \in FaultLists
    /\ used = [f \in DOMAIN faults |-> 0]
    /\ \E start \in {"old", "new"} :
        /\ installed = [n \in Nodes |-> start]
        /\ phones = [n \in Nodes |-> start]
        /\ loader_tac = [n \in Nodes |-> TacFor(start)]
    /\ tmp = [n \in Nodes |-> {}]
    /\ backups = [n \in Nodes |-> <<>>]
    /\ repo = {}
    /\ pc = [s \in Sessions |-> "idle"]
    /\ op = [s \in Sessions |-> "none"]
    /\ file = [s \in Sessions |-> Foreign]
    /\ target = [s \in Sessions |-> "none"]
    /\ fault = [s \in Sessions |-> 0]
    /\ seen = [s \in Sessions |-> 0]
    /\ ver = [s \in Sessions |-> "none"]
    /\ answer = [s \in Sessions |-> [exit |-> 0, says |-> "nothing"]]

--------------------------------------------------------------------------------
\* A command line arrives; the families are recognised by their words.
Receive(s, c, f, t) ==
    /\ pc[s] = "idle"
    /\ IF c \in FileCommands THEN f \in Files ELSE f = Foreign
    /\ IF c = "scp" THEN t \in Targets ELSE t = "none"
    /\ pc' = [pc EXCEPT ![s] = IF c \in DOMAIN Modes THEN "fault" ELSE "serve"]
    /\ op' = [op EXCEPT ![s] = c]
    /\ file' = [file EXCEPT ![s] = f]
    /\ target' = [target EXCEPT ![s] = t]
    /\ UNCHANGED <<faults, used, node, fault, seen, ver, answer>>

--------------------------------------------------------------------------------
(* _fault_for: the first fault that applies, and its budget. *)

Applies(i, s) ==
    /\ faults[i].at = op[s] /\ faults[i].node \in {"any", Where[s]}
    /\ faults[i].times = 0 \/ used[i] < faults[i].times

\* Mutant: any fault that applies, not the first.
InjectAny(s) ==
    /\ pc[s] = "fault"
    /\ \E i \in DOMAIN faults :
        /\ Applies(i, s)
        /\ fault' = [fault EXCEPT ![s] = i]
    /\ pc' = [pc EXCEPT ![s] = "consume"]
    /\ UNCHANGED <<faults, used, node, op, file, target, seen, ver, answer>>

Inject(s) ==
    /\ pc[s] = "fault"
    /\ \E i \in DOMAIN faults :
        /\ Applies(i, s)
        /\ \A j \in DOMAIN faults : Applies(j, s) => i <= j
        /\ fault' = [fault EXCEPT ![s] = i]
    /\ pc' = [pc EXCEPT ![s] = "consume"]
    /\ UNCHANGED <<faults, used, node, op, file, target, seen, ver, answer>>

NoFault(s) ==
    /\ pc[s] = "fault"
    /\ \A i \in DOMAIN faults : ~Applies(i, s)
    /\ pc' = [pc EXCEPT ![s] = "serve"]
    /\ UNCHANGED <<faults, used, node, op, file, target, fault, seen, ver, answer>>

\* self._used += 1 reads ...
Consume(s) ==
    /\ pc[s] = "consume"
    /\ seen' = [seen EXCEPT ![s] = used[fault[s]]]
    /\ pc' = [pc EXCEPT ![s] = "count"]
    /\ UNCHANGED <<faults, used, node, op, file, target, fault, ver, answer>>

\* ... and writes.
Count(s) ==
    /\ pc[s] = "count"
    /\ used' = [used EXCEPT ![fault[s]] = seen[s] + 1]
    /\ pc' = [pc EXCEPT ![s] = "serve"]
    /\ UNCHANGED <<faults, node, op, file, target, fault, seen, ver, answer>>

Mode(s) == IF fault[s] = 0 THEN "none" ELSE faults[fault[s]].mode

--------------------------------------------------------------------------------
(* _node_cmd: one action per family. *)

\* exit 2: the command does not come back to a prompt before the client's deadline.
Answer(s, exit, says) ==
    /\ pc' = [pc EXCEPT ![s] = "idle"]
    /\ answer' = [answer EXCEPT ![s] = [exit |-> exit, says |-> says]]
    /\ op' = [op EXCEPT ![s] = "none"]
    /\ file' = [file EXCEPT ![s] = Foreign]
    /\ target' = [target EXCEPT ![s] = "none"]
    /\ fault' = [fault EXCEPT ![s] = 0]
    /\ seen' = [seen EXCEPT ![s] = 0]
    /\ ver' = [ver EXCEPT ![s] = "none"]
    /\ UNCHANGED <<faults, used>>

Serves(s, c) == pc[s] = "serve" /\ op[s] = c

\* grep of phoneimporter.log
ReportVersion(s) ==
    /\ Serves(s, "version")
    /\ \/ Mode(s) = "blank" /\ Answer(s, 0, "nothing")
       \/ Mode(s) = "stale" /\ Answer(s, 0, "old")
       \/ Mode(s) = "drift" /\ Answer(s, 0, "new")
       \/ Mode(s) = "none" /\ Answer(s, 0, installed[Where[s]])
    /\ UNCHANGED node

\* The TAC count of the loader's log, during the activity and before it.
ReportTac(s) ==
    /\ \/ Serves(s, "tac") /\ Mode(s) = "missing" /\ Answer(s, 1, "nothing")
       \/ Serves(s, "tac") /\ Mode(s) = "mismatch" /\ Answer(s, 0, "999999")
       \/ /\ Serves(s, "success_log") \/ (Serves(s, "tac") /\ Mode(s) = "none")
          /\ Answer(s, 0, loader_tac[Where[s]])
    /\ UNCHANGED node

\* Nothing resets loader_ran, which __init__ sets.
ReportLoaderLog(s) ==
    /\ Serves(s, "loader_log")
    /\ IF Mode(s) = "missing" THEN Answer(s, 1, "nothing") ELSE Answer(s, 0, "listed")
    /\ UNCHANGED node

ReportBackups(s) ==
    /\ Serves(s, "backup_list")
    /\ Answer(s, 0, IF Mode(s) = "empty" THEN "nothing" ELSE "listed")
    /\ UNCHANGED node

\* A name that is no backup's is not remembered.
BackUp(s) ==
    /\ Serves(s, "backup")
    /\ backups' = IF file[s] \in Backups THEN [backups EXCEPT ![Where[s]] = Append(@, file[s])] ELSE backups
    /\ Answer(s, 0, "listed")
    /\ UNCHANGED <<installed, phones, tmp, loader_tac, repo>>

PutPhones(n, f) == phones' = [phones EXCEPT ![n] = VersionOfFile(f)]

\* Any backup can be restored, taken or not.
Restore(s) ==
    /\ Serves(s, "restore")
    /\ \/ Mode(s) = "missing" /\ Answer(s, 1, "nothing") /\ UNCHANGED phones
       \/ /\ Mode(s) = "none" /\ Answer(s, 0, "nothing")
          /\ IF file[s] \in Backups THEN PutPhones(Where[s], file[s]) ELSE UNCHANGED phones
    /\ UNCHANGED <<installed, tmp, backups, loader_tac, repo>>

\* tmp.get(fname, version_of_file(fname)): the same version, staged or not.
CopyPhones(s) ==
    /\ Serves(s, "phonescopy")
    /\ \/ Mode(s) = "fail" /\ Answer(s, 1, "nothing") /\ UNCHANGED phones
       \/ Mode(s) = "none" /\ Answer(s, 0, "listed") /\ PutPhones(Where[s], file[s])
    /\ UNCHANGED <<installed, tmp, backups, loader_tac, repo>>

\* Keep the version for the next step.
Hold(s, version) ==
    /\ ver' = [ver EXCEPT ![s] = version]
    /\ pc' = [pc EXCEPT ![s] = "store"]
    /\ UNCHANGED <<faults, used, op, file, target, fault, seen, answer>>

\* Mutant: the import installs the new version, whatever phones.dat holds.
ImportNew(s) ==
    /\ Serves(s, "import")
    /\ \/ Mode(s) = "no_script_finished" /\ Answer(s, 1, "nothing")
       \/ Mode(s) # "no_script_finished" /\ Hold(s, "new")
    /\ UNCHANGED node

Import(s) ==
    /\ Serves(s, "import")
    /\ \/ Mode(s) = "no_script_finished" /\ Answer(s, 1, "nothing")
       \/ Mode(s) = "wrong_version" /\ Hold(s, "bogus")
       \/ Mode(s) \in {"none", "no_prompt"} /\ Hold(s, phones[Where[s]])
    /\ UNCHANGED node

\* st.installed_version = ver
StoreImport(s) ==
    /\ pc[s] = "store" /\ op[s] = "import"
    /\ installed' = [installed EXCEPT ![Where[s]] = ver[s]]
    /\ Answer(s, IF Mode(s) = "no_prompt" THEN 2 ELSE 0, "finished")
    /\ UNCHANGED <<phones, tmp, backups, loader_tac, repo>>

\* Mutant: the loader takes the version of phones.dat, imported or not.
StartLoaderOfPhones(s) ==
    /\ Serves(s, "startloader")
    /\ \/ Mode(s) = "error" /\ Answer(s, 1, "nothing")
       \/ Mode(s) \in {"timeout", "no_prompt"} /\ Answer(s, 2, "nothing")
       \/ Mode(s) = "none" /\ Hold(s, phones[Where[s]])
    /\ UNCHANGED node

StartLoader(s) ==
    /\ Serves(s, "startloader")
    /\ \/ Mode(s) = "error" /\ Answer(s, 1, "nothing")
       \/ Mode(s) \in {"timeout", "no_prompt"} /\ Answer(s, 2, "nothing")
       \/ Mode(s) = "none" /\ Hold(s, installed[Where[s]])
    /\ UNCHANGED node

\* st.loader_tac = tac_for(...)
StoreTac(s) ==
    /\ pc[s] = "store" /\ op[s] = "startloader"
    /\ loader_tac' = [loader_tac EXCEPT ![Where[s]] = TacFor(ver[s])]
    /\ Answer(s, 0, "nothing")
    /\ UNCHANGED <<installed, phones, tmp, backups, repo>>

\* _scp: a pull into /tmp or over phones.dat, or a push to the repo server.
Scp(s) ==
    /\ Serves(s, "scp")
    /\ IF Mode(s) = "fail"
       THEN Answer(s, 1, "nothing") /\ UNCHANGED <<tmp, phones, repo>>
       ELSE /\ Answer(s, 0, "listed")
            /\ \/ /\ target[s] = "tmp" /\ UNCHANGED <<phones, repo>>
                  /\ tmp' = [tmp EXCEPT ![Where[s]] = @ \cup {file[s]}]
               \/ /\ target[s] = "phones" /\ UNCHANGED <<tmp, repo>>
                  /\ PutPhones(Where[s], file[s])
               \/ /\ target[s] = "repo" /\ UNCHANGED <<tmp, phones>>
                  /\ repo' = repo \cup {file[s]}
    /\ UNCHANGED <<installed, backups, loader_tac>>

WorldStep(s) ==
    \/ Inject(s) \/ NoFault(s) \/ Consume(s) \/ Count(s)
    \/ ReportVersion(s) \/ ReportTac(s) \/ ReportLoaderLog(s) \/ ReportBackups(s)
    \/ BackUp(s) \/ Restore(s) \/ CopyPhones(s) \/ Scp(s)
    \/ Import(s) \/ StoreImport(s) \/ StartLoader(s) \/ StoreTac(s)
================================================================================
