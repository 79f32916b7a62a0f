----------------------------- MODULE DpaClients_proofs -----------------------------
(***************************************************************************)
(* Proofs of the safety properties of DpaClients, for any number of        *)
(* sessions on each node, any files, any lists of faults, and any number   *)
(* of commands, served one after the other or at once.                     *)
(***************************************************************************)
EXTENDS DpaClients, FiniteSetTheorems, TLAPS

(* The inductive invariant. *)

Pcs  == {"idle", "fault", "consume", "count", "serve", "store"}
Says == {"nothing", "listed", "finished", "999999"} \cup Versions \cup Tacs

WorldTypes ==
    /\ faults \in FaultLists
    /\ used \in [DOMAIN faults -> Nat]
    /\ installed \in [Nodes -> Versions]
    /\ phones \in [Nodes -> Versions]
    /\ tmp \in [Nodes -> SUBSET Files]
    /\ backups \in [Nodes -> Seq(Backups)]
    /\ loader_tac \in [Nodes -> Tacs]
    /\ repo \subseteq Files

SessionTypes ==
    /\ pc \in [Sessions -> Pcs]
    /\ op \in [Sessions -> Commands \cup {"none"}]
    /\ file \in [Sessions -> Files \cup {Foreign}]
    /\ target \in [Sessions -> Targets \cup {"none"}]
    /\ fault \in [Sessions -> DOMAIN faults \cup {0}]
    /\ seen \in [Sessions -> Nat]
    /\ ver \in [Sessions -> Versions \cup {"none"}]
    /\ answer \in [Sessions -> [exit : 0..2, says : Says]]

ClientTypes ==
    /\ menu \in Menus
    /\ calls \in Nat
    /\ overlapped \in BOOLEAN
    /\ hit \in [DOMAIN faults -> Nat]
    /\ held \in [Nodes -> SUBSET Versions]
    /\ source \in [Nodes -> Names]
    /\ loaded \in [Nodes -> BOOLEAN]

TypeOK == WorldTypes /\ SessionTypes /\ ClientTypes

\* A command that needs a file or a target has one, and the fault that a session carries was
\* injected into the command it serves.
Carries(s) ==
    /\ pc[s] = "idle" => op[s] = "none"
    /\ pc[s] # "idle" => op[s] \in Commands
    /\ pc[s] = "store" => op[s] \in {"import", "startloader"} /\ ver[s] \in Versions
    /\ op[s] \in FileCommands => file[s] \in Files
    /\ op[s] = "scp" => target[s] \in Targets
    /\ pc[s] \in {"idle", "fault"} => fault[s] = 0
    /\ pc[s] \in {"consume", "count"} => fault[s] # 0
    /\ fault[s] # 0 => /\ hit[fault[s]] > 0
                       /\ faults[fault[s]].at = op[s]
                       /\ faults[fault[s]].node \in {"any", Where[s]}

\* A version is on its way to a node's installed_version only if its phones.dat has held it or a
\* fault has made it up.
MadeUp(n) == \E i \in DOMAIN faults : /\ faults[i].mode = "wrong_version" /\ hit[i] > 0
                                      /\ faults[i].node \in {"any", n}
MayInstall(v, n) == v \in held[n] \/ (v = "bogus" /\ MadeUp(n))

VersionInv ==
    /\ \A n \in Nodes : /\ phones[n] = VersionOfFile(source[n])
                        /\ phones[n] \in held[n]
                        /\ MayInstall(installed[n], n)
    /\ \A s \in Sessions : pc[s] = "store" /\ op[s] = "import" => MayInstall(ver[s], Where[s])

\* While commands are not served at once, a session that is about to store a TAC count still
\* holds the installed version.
Alone == \A s, t \in Sessions : pc[s] # "idle" /\ pc[t] # "idle" => s = t

TacInv ==
    ~overlapped =>
        /\ Alone
        /\ TacOfInstalled
        /\ \A s \in Sessions : pc[s] = "store" /\ op[s] = "startloader" => ver[s] = installed[Where[s]]

\* The commands that a fault was injected into and that have not yet used it up.
Pending(i) == {s \in Sessions : pc[s] \in {"consume", "count"} /\ fault[s] = i}

\* Lost updates only make the budget larger.
Budget(i) ==
    /\ IsFiniteSet(Pending(i))
    /\ used[i] + Cardinality(Pending(i)) <= hit[i]
    /\ \A s \in Pending(i) : pc[s] = "count" => seen[s] + Cardinality(Pending(i)) <= hit[i]

\* None is lost while commands are not served at once.
Exact(i) ==
    /\ Pending(i) = {} => hit[i] = used[i]
    /\ \A s \in Pending(i) : /\ hit[i] = used[i] + 1
                             /\ pc[s] = "count" => seen[s] = used[i]
    /\ faults[i].times # 0 => hit[i] <= faults[i].times

--------------------------------------------------------------------------------
(* The types. *)

\* What the assumptions say of the faults of a behaviour.
LEMMA FaultTypes ==
    ASSUME faults \in FaultLists
    PROVE  /\ DOMAIN faults \subseteq Nat \ {0}
           /\ \A i \in DOMAIN faults : faults[i].times \in Nat
<1>1. faults \in Seq(Faults)
  BY FaultListsAssumption
<1>2. DOMAIN faults = 1..Len(faults) /\ \A i \in DOMAIN faults : faults[i] \in Faults
  BY <1>1
<1>3. \A f \in Faults : f.times \in Nat
  BY DEF Faults
<1>4. QED BY <1>2, <1>3

\* Every version a file name gives is one.
LEMMA VersionTypes ==
    /\ \A f \in Names : VersionOfFile(f) \in Versions
    /\ \A v \in Versions : TacFor(v) \in Tacs /\ BackupName(v) \in Names
                          /\ VersionOfFile(BackupName(v)) = v
<1>1. \A f \in Names : f.version \in Versions \cup {"none"}
  BY DEF Names, Backups, NewFile, Foreign, Name, Versions
<1>2. \A f \in Names : VersionOfFile(f) \in Versions
  BY <1>1 DEF VersionOfFile, Versions
<1>3. ASSUME NEW v \in Versions
      PROVE  TacFor(v) \in Tacs /\ BackupName(v) \in Names /\ VersionOfFile(BackupName(v)) = v
  <2>1. TacFor(v) \in Tacs
    BY DEF TacFor, Tacs
  <2>2. BackupName(v) \in Backups
    BY <2>1 DEF BackupName, Backups
  <2>3. VersionOfFile(BackupName(v)) = v
    BY DEF VersionOfFile, BackupName, Name, Versions
  <2>4. QED BY <2>1, <2>2, <2>3 DEF Names
<1>4. QED BY <1>2, <1>3

\* The files of the commands are named as the model's files are.
LEMMA FilesAreNames == Files \cup {Foreign} \subseteq Names
BY FilesAssumption DEF Names

\* The initial values have their types.
LEMMA TypeInit == Init => TypeOK
<1> SUFFICES ASSUME Init PROVE TypeOK
  OBVIOUS
<1> USE DEF Init, WorldInit
<1>1. PICK start \in {"old", "new"} : /\ installed = [n \in Nodes |-> start]
                                       /\ phones = [n \in Nodes |-> start]
                                       /\ loader_tac = [n \in Nodes |-> TacFor(start)]
  OBVIOUS
<1>2. start \in Versions
  BY DEF Versions
<1>3. WorldTypes
  BY <1>1, <1>2, VersionTypes DEF WorldTypes
<1>4. SessionTypes
  BY DEF SessionTypes, Pcs, Says
<1>5. ClientTypes
  BY <1>1, <1>2, VersionTypes DEF ClientTypes
<1>6. QED BY <1>3, <1>4, <1>5 DEF TypeOK

\* The world's variables keep their types.
LEMMA WorldTypeStep ==
    ASSUME TypeOK, NEW s \in Sessions, WorldStep(s), Carries(s)
    PROVE  WorldTypes'
<1> USE DEF TypeOK, WorldTypes, SessionTypes, Carries, node
<1>a. /\ Where[s] \in Nodes /\ file[s] \in Names
      /\ file[s] \in Names => VersionOfFile(file[s]) \in Versions
      /\ op[s] \in FileCommands => file[s] \in Files
      /\ pc[s] = "store" => ver[s] \in Versions /\ TacFor(ver[s]) \in Tacs
  BY WhereAssumption, FilesAreNames, VersionTypes
<1>b. \A e, x : Answer(s, e, x) => UNCHANGED <<faults, used>>
  BY DEF Answer
<1>c. PutPhones(Where[s], file[s]) => phones' \in [Nodes -> Versions]
  BY <1>a DEF PutPhones
<1>1. CASE Inject(s) BY <1>1 DEF Inject
<1>2. CASE NoFault(s) BY <1>2 DEF NoFault
<1>3. CASE Consume(s) BY <1>3 DEF Consume
<1>4. CASE Count(s) BY <1>4 DEF Count
<1>5. CASE ReportVersion(s) BY <1>5 DEF ReportVersion, Serves, Answer
<1>6. CASE ReportTac(s) BY <1>6 DEF ReportTac, Serves, Answer
<1>7. CASE ReportLoaderLog(s) BY <1>7 DEF ReportLoaderLog, Serves, Answer
<1>8. CASE ReportBackups(s) BY <1>8 DEF ReportBackups, Serves, Answer
<1>9. CASE BackUp(s) BY <1>9, <1>a DEF BackUp, Serves, Answer
<1>10. CASE Restore(s) BY <1>10, <1>b, <1>c DEF Restore
<1>11. CASE CopyPhones(s) BY <1>11, <1>b, <1>c DEF CopyPhones
<1>12. CASE Scp(s)
  <2>1. UNCHANGED <<faults, used, installed, backups, loader_tac>> /\ file[s] \in Files
    BY <1>12, <1>a, <1>b DEF Scp, Serves, FileCommands
  <2>2. tmp' = tmp \/ tmp' = [tmp EXCEPT ![Where[s]] = @ \cup {file[s]}]
    BY <1>12 DEF Scp
  <2>3. phones' = phones \/ PutPhones(Where[s], file[s])
    BY <1>12 DEF Scp
  <2>4. repo' = repo \/ repo' = repo \cup {file[s]}
    BY <1>12 DEF Scp
  <2>5. tmp' \in [Nodes -> SUBSET Files]
    <3>1. tmp[Where[s]] \cup {file[s]} \in SUBSET Files
      BY <1>a, <2>1
    <3>2. QED BY <1>a, <2>2, <3>1
  <2>6. phones' \in [Nodes -> Versions] /\ repo' \subseteq Files
    BY <1>c, <2>1, <2>3, <2>4
  <2>7. QED BY <2>1, <2>5, <2>6
<1>13. CASE Import(s) BY <1>13 DEF Import, Serves, Answer, Hold
<1>14. CASE StoreImport(s) BY <1>14, <1>a DEF StoreImport, Answer
<1>15. CASE StartLoader(s) BY <1>15 DEF StartLoader, Serves, Answer, Hold
<1>16. CASE StoreTac(s) BY <1>16, <1>a DEF StoreTac, Answer
<1>17. QED BY <1>1, <1>2, <1>3, <1>4, <1>5, <1>6, <1>7, <1>8, <1>9, <1>10, <1>11, <1>12, <1>13, <1>14, <1>15, <1>16
  DEF WorldStep

\* So do those of the sessions.
LEMMA SessionTypeStep ==
    ASSUME TypeOK, NEW s \in Sessions, WorldStep(s), Carries(s)
    PROVE  SessionTypes'
<1> USE DEF TypeOK, WorldTypes, SessionTypes, Pcs
<1>a. /\ \A n \in Nodes : installed[n] \in Says /\ loader_tac[n] \in Says /\ phones[n] \in Versions
      /\ {"nothing", "old", "new", "listed", "finished", "999999"} \subseteq Says
      /\ "bogus" \in Versions /\ Where[s] \in Nodes
  BY WhereAssumption DEF Says, Versions
<1>b. ASSUME NEW e \in 0..2, NEW x \in Says, Answer(s, e, x) PROVE SessionTypes'
  BY <1>b DEF Answer
<1>c. ASSUME NEW v \in Versions, Hold(s, v) PROVE SessionTypes'
  BY <1>c DEF Hold
<1> HIDE DEF SessionTypes
<1>1. CASE Inject(s) BY <1>1 DEF SessionTypes, Carries, Inject
<1>2. CASE NoFault(s) BY <1>2 DEF SessionTypes, Carries, NoFault
<1>3. CASE Consume(s) BY <1>3 DEF SessionTypes, Carries, Consume
<1>4. CASE Count(s) BY <1>4 DEF SessionTypes, Carries, Count
<1>5. CASE ReportVersion(s) BY <1>5, <1>a, <1>b DEF ReportVersion, Serves
<1>6. CASE ReportTac(s) BY <1>6, <1>a, <1>b DEF ReportTac, Serves
<1>7. CASE ReportLoaderLog(s) BY <1>7, <1>a, <1>b DEF ReportLoaderLog, Serves
<1>8. CASE ReportBackups(s) BY <1>8, <1>a, <1>b DEF ReportBackups, Serves
<1>9. CASE BackUp(s) BY <1>9, <1>a, <1>b DEF BackUp, Serves
<1>10. CASE Restore(s) BY <1>10, <1>a, <1>b DEF Restore, Serves
<1>11. CASE CopyPhones(s) BY <1>11, <1>a, <1>b DEF CopyPhones, Serves
<1>12. CASE Scp(s) BY <1>12, <1>a, <1>b DEF Scp, Serves
<1>13. CASE Import(s) BY <1>13, <1>a, <1>b, <1>c DEF Import, Serves
<1>14. CASE StoreImport(s) BY <1>14, <1>a, <1>b DEF StoreImport, Serves
<1>15. CASE StartLoader(s) BY <1>15, <1>a, <1>b, <1>c DEF StartLoader, Serves
<1>16. CASE StoreTac(s) BY <1>16, <1>a, <1>b DEF StoreTac, Serves
<1>17. QED BY <1>1, <1>2, <1>3, <1>4, <1>5, <1>6, <1>7, <1>8, <1>9, <1>10, <1>11, <1>12, <1>13, <1>14, <1>15, <1>16
  DEF WorldStep

--------------------------------------------------------------------------------
(* What a step does to the sessions. *)

\* A step changes the state of one session.
Stays(t) == /\ pc'[t] = pc[t] /\ op'[t] = op[t] /\ file'[t] = file[t] /\ target'[t] = target[t]
            /\ fault'[t] = fault[t] /\ seen'[t] = seen[t] /\ ver'[t] = ver[t]

\* A command that holds a version goes on, and one that answers is over.
Holds(s) == /\ pc[s] = "serve" /\ pc'[s] = "store" /\ op[s] \in {"import", "startloader"}
            /\ ver'[s] \in Versions
            /\ UNCHANGED <<faults, used, op, file, target, fault, seen>>

Ends(s) == /\ pc[s] \in {"serve", "store"} /\ pc'[s] = "idle" /\ op'[s] = "none"
           /\ file'[s] = Foreign /\ target'[s] = "none" /\ fault'[s] = 0
           /\ UNCHANGED <<faults, used>>

\* A command arrives for one session.
LEMMA Receives ==
    ASSUME TypeOK, NEW s \in Sessions, Call(s)
    PROVE  /\ \A t \in Sessions \ {s} : Stays(t)
           /\ pc[s] = "idle" /\ pc'[s] \in {"fault", "serve"}
           /\ op'[s] \in menu
           /\ op'[s] \in FileCommands => file'[s] \in Files
           /\ op'[s] = "scp" => target'[s] \in Targets
           /\ file' \in [Sessions -> Files \cup {Foreign}]
           /\ SessionTypes'
           /\ UNCHANGED <<faults, used, node, fault, seen, ver>>
<1> USE DEF TypeOK, SessionTypes
<1>1. PICK c \in menu, f \in Files \cup {Foreign}, t \in Targets \cup {"none"} : Receive(s, c, f, t)
  BY DEF Call
<1>2. c \in Commands
  BY MenusAssumption DEF ClientTypes
<1> USE <1>1 DEF Receive
<1>3. \A t1 \in Sessions \ {s} : Stays(t1)
  BY DEF Stays
<1>4. pc[s] = "idle" /\ pc'[s] \in {"fault", "serve"} /\ op'[s] = c /\ file'[s] = f /\ target'[s] = t
  OBVIOUS
<1>5. UNCHANGED <<faults, used, node, fault, seen, ver, answer>>
  OBVIOUS
<1>6. pc' \in [Sessions -> Pcs]
  BY DEF Pcs
<1>7. op' \in [Sessions -> Commands \cup {"none"}]
  BY <1>2
<1>8. file' \in [Sessions -> Files \cup {Foreign}] /\ target' \in [Sessions -> Targets \cup {"none"}]
  OBVIOUS
<1>9. SessionTypes'
  BY <1>5, <1>6, <1>7, <1>8
<1>10. /\ op'[s] \in FileCommands => file'[s] \in Files
       /\ op'[s] = "scp" => target'[s] \in Targets
  BY <1>4
<1>11. QED BY <1>3, <1>4, <1>5, <1>8, <1>9, <1>10

\* The other sessions stay where they are.
LEMMA OthersStay ==
    ASSUME TypeOK, NEW s \in Sessions, WorldStep(s), NEW t \in Sessions, t # s
    PROVE  Stays(t)
<1> USE DEF TypeOK, SessionTypes, Stays
<1>1. CASE Inject(s) BY <1>1 DEF Inject
<1>2. CASE NoFault(s) BY <1>2 DEF NoFault
<1>3. CASE Consume(s) BY <1>3 DEF Consume
<1>4. CASE Count(s) BY <1>4 DEF Count
<1>5. CASE ReportVersion(s) BY <1>5 DEF ReportVersion, Serves, Answer
<1>6. CASE ReportTac(s) BY <1>6 DEF ReportTac, Serves, Answer
<1>7. CASE ReportLoaderLog(s) BY <1>7 DEF ReportLoaderLog, Serves, Answer
<1>8. CASE ReportBackups(s) BY <1>8 DEF ReportBackups, Serves, Answer
<1>9. CASE BackUp(s) BY <1>9 DEF BackUp, Serves, Answer
<1>10. CASE Restore(s) BY <1>10 DEF Restore, Serves, Answer, PutPhones
<1>11. CASE CopyPhones(s) BY <1>11 DEF CopyPhones, Serves, Answer, PutPhones
<1>12. CASE Scp(s) BY <1>12 DEF Scp, Serves, Answer, PutPhones
<1>13. CASE Import(s) BY <1>13 DEF Import, Serves, Answer, Hold
<1>14. CASE StoreImport(s) BY <1>14 DEF StoreImport, Answer
<1>15. CASE StartLoader(s) BY <1>15 DEF StartLoader, Serves, Answer, Hold
<1>16. CASE StoreTac(s) BY <1>16 DEF StoreTac, Answer
<1>17. QED BY <1>1, <1>2, <1>3, <1>4, <1>5, <1>6, <1>7, <1>8, <1>9, <1>10, <1>11, <1>12, <1>13, <1>14, <1>15, <1>16
  DEF WorldStep

\* The steps of a session.
LEMMA Moves ==
    ASSUME TypeOK, NEW s \in Sessions, WorldStep(s)
    PROVE  Inject(s) \/ NoFault(s) \/ Consume(s) \/ Count(s) \/ Holds(s) \/ Ends(s)
<1> USE DEF TypeOK, WorldTypes, SessionTypes
<1>a. \A n \in Nodes : installed[n] \in Versions /\ phones[n] \in Versions
  OBVIOUS
<1>b. Where[s] \in Nodes /\ "bogus" \in Versions
  BY WhereAssumption DEF Versions
<1>c. ASSUME NEW e, NEW x, Answer(s, e, x), pc[s] \in {"serve", "store"} PROVE Ends(s)
  BY <1>c DEF Answer, Ends
<1>d. ASSUME NEW v \in Versions, Hold(s, v), pc[s] = "serve", op[s] \in {"import", "startloader"}
      PROVE  Holds(s)
  BY <1>d DEF Hold, Holds
<1> HIDE DEF TypeOK, WorldTypes, SessionTypes
<1>1. CASE Inject(s) BY <1>1
<1>2. CASE NoFault(s) BY <1>2
<1>3. CASE Consume(s) BY <1>3
<1>4. CASE Count(s) BY <1>4
<1>5. CASE ReportVersion(s) BY <1>5, <1>c DEF ReportVersion, Serves
<1>6. CASE ReportTac(s) BY <1>6, <1>c DEF ReportTac, Serves
<1>7. CASE ReportLoaderLog(s) BY <1>7, <1>c DEF ReportLoaderLog, Serves
<1>8. CASE ReportBackups(s) BY <1>8, <1>c DEF ReportBackups, Serves
<1>9. CASE BackUp(s) BY <1>9, <1>c DEF BackUp, Serves
<1>10. CASE Restore(s) BY <1>10, <1>c DEF Restore, Serves
<1>11. CASE CopyPhones(s) BY <1>11, <1>c DEF CopyPhones, Serves
<1>12. CASE Scp(s) BY <1>12, <1>c DEF Scp, Serves
<1>13. CASE Import(s) BY <1>13, <1>a, <1>b, <1>c, <1>d DEF Import, Serves
<1>14. CASE StoreImport(s) BY <1>14, <1>c DEF StoreImport
<1>15. CASE StartLoader(s) BY <1>15, <1>a, <1>b, <1>c, <1>d DEF StartLoader, Serves
<1>16. CASE StoreTac(s) BY <1>16, <1>c DEF StoreTac
<1>17. QED BY <1>1, <1>2, <1>3, <1>4, <1>5, <1>6, <1>7, <1>8, <1>9, <1>10, <1>11, <1>12, <1>13, <1>14, <1>15, <1>16
  DEF WorldStep

\* faults is only assigned at the start, and what was injected stays injected.
LEMMA HitsGrow ==
    ASSUME TypeOK, NEW s \in Sessions, Step(s)
    PROVE  /\ faults' = faults
           /\ hit' \in [DOMAIN faults -> Nat]
           /\ \A i \in DOMAIN faults : hit[i] <= hit'[i]
<1>1. faults' = faults
  BY Moves DEF Step, Inject, NoFault, Consume, Count, Holds, Ends
<1>2. \A i \in DOMAIN faults : hit[i] \in Nat
  BY DEF TypeOK, ClientTypes
<1>3. hit' = [i \in DOMAIN faults |-> IF Injected(s, i) THEN hit[i] + 1 ELSE hit[i]]
  BY DEF Step
<1>4. \A i \in DOMAIN faults : hit'[i] \in {hit[i], hit[i] + 1}
  BY <1>3
<1>5. QED BY <1>1, <1>2, <1>3, <1>4

\* The variables keep their types, if no session carries a fault of another command.
LEMMA TypeStep ==
    ASSUME TypeOK, \A s \in Sessions : Carries(s), [Next]_vars
    PROVE  TypeOK'
<1>1. CASE UNCHANGED vars
  BY <1>1 DEF TypeOK, WorldTypes, SessionTypes, ClientTypes, vars, worldVars, clientVars, node, session
<1>2. ASSUME NEW s \in Sessions, Call(s) PROVE TypeOK'
  <2>1. SessionTypes' /\ UNCHANGED <<faults, used, node>>
    BY <1>2, Receives
  <2>2. WorldTypes'
    BY <2>1 DEF TypeOK, WorldTypes, node
  <2>3. ClientTypes'
    BY <1>2, <2>1 DEF Call, TypeOK, ClientTypes
  <2>4. QED BY <2>1, <2>2, <2>3 DEF TypeOK
<1>3. ASSUME NEW s \in Sessions, Step(s) PROVE TypeOK'
  <2>1. WorldTypes' /\ SessionTypes'
    BY <1>3, WorldTypeStep, SessionTypeStep DEF Step
  <2>2. held' \in [Nodes -> SUBSET Versions]
    BY <1>3, <2>1 DEF Step, TypeOK, ClientTypes, WorldTypes
  <2>3. source' \in [Nodes -> Names]
    <3>1. file[s] \in Names
      BY FilesAreNames DEF TypeOK, SessionTypes
    <3>2. QED BY <1>3, <3>1 DEF Step, TypeOK, ClientTypes
  <2>4. hit' \in [DOMAIN faults' -> Nat]
    BY <1>3, HitsGrow
  <2>5. loaded' \in [Nodes -> BOOLEAN]
    BY <1>3 DEF Step, TypeOK, ClientTypes
  <2>6. QED BY <1>3, <2>1, <2>2, <2>3, <2>4, <2>5 DEF Step, TypeOK, ClientTypes
<1>4. QED BY <1>1, <1>2, <1>3 DEF Next

\* A session carries faults of its own command only.
LEMMA CarriesStep ==
    ASSUME TypeOK, \A s \in Sessions : Carries(s), [Next]_vars, NEW t \in Sessions
    PROVE  Carries(t)'
<1>a. Carries(t)
  OBVIOUS
<1>1. CASE UNCHANGED vars
  BY <1>1, <1>a DEF Carries, vars, worldVars, clientVars, session
<1>2. ASSUME NEW s \in Sessions, Call(s) PROVE Carries(t)'
  <2>1. UNCHANGED <<faults, fault, ver, hit>>
    BY <1>2, Receives DEF Call
  <2>2. CASE t # s
    BY <1>2, <1>a, <2>1, <2>2, Receives DEF Carries, Stays
  <2>3. CASE t = s
    <3>1. menu \subseteq Commands
      BY MenusAssumption DEF TypeOK, ClientTypes
    <3>2. QED BY <1>2, <1>a, <2>1, <2>3, <3>1, Receives DEF Carries
  <2>4. QED BY <2>2, <2>3
<1>3. ASSUME NEW s \in Sessions, Step(s) PROVE Carries(t)'
  <2>1. WorldStep(s) /\ faults' = faults /\ \A i \in DOMAIN faults : hit[i] > 0 => hit'[i] > 0
    <3>1. \A i \in DOMAIN faults : hit[i] \in Nat /\ hit'[i] \in Nat /\ hit[i] <= hit'[i]
      BY <1>3, HitsGrow DEF TypeOK, ClientTypes
    <3>2. \A i \in DOMAIN faults : hit[i] > 0 => hit'[i] > 0
      BY <3>1
    <3>3. WorldStep(s) /\ faults' = faults
      BY <1>3, HitsGrow DEF Step
    <3>4. QED BY <3>2, <3>3
  <2>2. fault[t] \in DOMAIN faults \cup {0}
    BY DEF TypeOK, SessionTypes
  <2>3. CASE t # s
    BY <1>a, <2>1, <2>2, <2>3, OthersStay DEF Carries, Stays
  <2>4. CASE t = s
    <3> USE <1>a, <2>1, <2>2, <2>4 DEF Carries, TypeOK, SessionTypes
    <3>1. CASE Inject(s)
      <4>1. PICK i \in DOMAIN faults : Applies(i, s) /\ fault' = [fault EXCEPT ![s] = i]
        BY <3>1 DEF Inject
      <4>2. hit'[i] > 0
        <5>1. Injected(s, i)
          BY <3>1, <4>1 DEF Inject, Injected
        <5>2. QED BY <1>3, <5>1 DEF Step, ClientTypes
      <4>3. i # 0
        BY FaultTypes DEF WorldTypes
      <4>4. QED BY <3>1, <4>1, <4>2, <4>3 DEF Inject, Applies
    <3>2. CASE NoFault(s) BY <3>2 DEF NoFault
    <3>3. CASE Consume(s) BY <3>3 DEF Consume
    <3>4. CASE Count(s) BY <3>4 DEF Count
    <3>5. CASE Holds(s) BY <3>5 DEF Holds
    <3>6. CASE Ends(s) BY <3>6 DEF Ends, FileCommands
    <3> HIDE DEF Carries, TypeOK
    <3>7. QED BY <3>1, <3>2, <3>3, <3>4, <3>5, <3>6, Moves
  <2>5. QED BY <2>3, <2>4
<1>4. QED BY <1>1, <1>2, <1>3 DEF Next

\* The part of the invariant that all the proofs rest on.
BaseInv == TypeOK /\ \A s \in Sessions : Carries(s)

\* It holds at the start ...
LEMMA BaseInit == Init => BaseInv
BY TypeInit DEF BaseInv, Carries, Init, WorldInit, FileCommands

\* ... and after every step.
LEMMA BaseStep == BaseInv /\ [Next]_vars => BaseInv'
BY TypeStep, CarriesStep DEF BaseInv

\* The variables have their types, for every list of faults and every interleaving.
THEOREM DpaTypes == Spec => []TypeOK
<1>1. BaseInv => TypeOK
  BY DEF BaseInv
<1>2. QED BY <1>1, BaseInit, BaseStep, PTL DEF Spec

--------------------------------------------------------------------------------
(* What a step does to the nodes. *)

\* phones.dat is assigned in the steps whose file is remembered as its source.
LEMMA PhonesFollow ==
    ASSUME TypeOK, NEW s \in Sessions, WorldStep(s)
    PROVE  /\ Overwrites(s) => PutPhones(Where[s], file[s])
           /\ ~Overwrites(s) => phones' = phones
<1> USE DEF TypeOK, SessionTypes, node
<1>a. \A e, x : Answer(s, e, x) => answer'[s].exit = e
  BY DEF Answer
<1>1. CASE Inject(s) BY <1>1 DEF Inject, Overwrites
<1>2. CASE NoFault(s) BY <1>2 DEF NoFault, Overwrites
<1>3. CASE Consume(s) BY <1>3 DEF Consume, Overwrites
<1>4. CASE Count(s) BY <1>4 DEF Count, Overwrites
<1>5. CASE ReportVersion(s) BY <1>5 DEF ReportVersion, Serves, Overwrites
<1>6. CASE ReportTac(s) BY <1>6 DEF ReportTac, Serves, Overwrites
<1>7. CASE ReportLoaderLog(s) BY <1>7 DEF ReportLoaderLog, Serves, Overwrites
<1>8. CASE ReportBackups(s) BY <1>8 DEF ReportBackups, Serves, Overwrites
<1>9. CASE BackUp(s) BY <1>9 DEF BackUp, Serves, Overwrites
<1>10. CASE Restore(s) BY <1>10, <1>a DEF Restore, Serves, Overwrites
<1>11. CASE CopyPhones(s) BY <1>11, <1>a DEF CopyPhones, Serves, Overwrites
<1>12. CASE Scp(s) BY <1>12, <1>a DEF Scp, Serves, Overwrites
<1>13. CASE Import(s) BY <1>13 DEF Import, Serves, Overwrites
<1>14. CASE StoreImport(s) BY <1>14 DEF StoreImport, Serves, Overwrites
<1>15. CASE StartLoader(s) BY <1>15 DEF StartLoader, Serves, Overwrites
<1>16. CASE StoreTac(s) BY <1>16 DEF StoreTac, Serves, Overwrites
<1>17. QED BY <1>1, <1>2, <1>3, <1>4, <1>5, <1>6, <1>7, <1>8, <1>9, <1>10, <1>11, <1>12, <1>13, <1>14, <1>15, <1>16
  DEF WorldStep

\* installed_version is assigned in the last step of an import only, loader_tac in that of
\* a run of the loader.
LEMMA InstalledFollows ==
    ASSUME TypeOK, NEW s \in Sessions, WorldStep(s)
    PROVE  /\ IF Stores(s, "import") THEN installed' = [installed EXCEPT ![Where[s]] = ver[s]]
                                     ELSE installed' = installed
           /\ IF Stores(s, "startloader") THEN loader_tac' = [loader_tac EXCEPT ![Where[s]] = TacFor(ver[s])]
                                          ELSE loader_tac' = loader_tac
<1> USE DEF Stores, node
<1>1. CASE Inject(s) BY <1>1 DEF Inject
<1>2. CASE NoFault(s) BY <1>2 DEF NoFault
<1>3. CASE Consume(s) BY <1>3 DEF Consume
<1>4. CASE Count(s) BY <1>4 DEF Count
<1>5. CASE ReportVersion(s) BY <1>5 DEF ReportVersion, Serves
<1>6. CASE ReportTac(s) BY <1>6 DEF ReportTac, Serves
<1>7. CASE ReportLoaderLog(s) BY <1>7 DEF ReportLoaderLog, Serves
<1>8. CASE ReportBackups(s) BY <1>8 DEF ReportBackups, Serves
<1>9. CASE BackUp(s) BY <1>9 DEF BackUp, Serves
<1>10. CASE Restore(s) BY <1>10 DEF Restore, Serves
<1>11. CASE CopyPhones(s) BY <1>11 DEF CopyPhones, Serves
<1>12. CASE Scp(s) BY <1>12 DEF Scp, Serves
<1>13. CASE Import(s) BY <1>13 DEF Import, Serves
<1>14. CASE StoreImport(s) BY <1>14 DEF StoreImport, Serves
<1>15. CASE StartLoader(s) BY <1>15 DEF StartLoader, Serves
<1>16. CASE StoreTac(s) BY <1>16 DEF StoreTac, Serves
<1>17. QED BY <1>1, <1>2, <1>3, <1>4, <1>5, <1>6, <1>7, <1>8, <1>9, <1>10, <1>11, <1>12, <1>13, <1>14, <1>15, <1>16
  DEF WorldStep

\* What a command keeps for its last step.
LEMMA HeldVersion ==
    ASSUME TypeOK, NEW s \in Sessions, WorldStep(s), pc[s] # "store", pc'[s] = "store"
    PROVE  /\ UNCHANGED <<op, fault, installed, phones>>
           /\ \/ /\ op[s] = "import"
                 /\ ver'[s] = phones[Where[s]] \/ (ver'[s] = "bogus" /\ Mode(s) = "wrong_version")
              \/ op[s] = "startloader" /\ ver'[s] = installed[Where[s]]
<1> USE DEF TypeOK, SessionTypes, node
<1>a. \A e, x : Answer(s, e, x) => pc'[s] = "idle"
  BY DEF Answer
<1>b. \A v : Hold(s, v) => ver'[s] = v /\ UNCHANGED <<op, fault>>
  BY DEF Hold
<1>1. CASE Inject(s) BY <1>1 DEF Inject
<1>2. CASE NoFault(s) BY <1>2 DEF NoFault
<1>3. CASE Consume(s) BY <1>3 DEF Consume
<1>4. CASE Count(s) BY <1>4 DEF Count
<1>5. CASE ReportVersion(s) BY <1>5, <1>a DEF ReportVersion, Serves
<1>6. CASE ReportTac(s) BY <1>6, <1>a DEF ReportTac, Serves
<1>7. CASE ReportLoaderLog(s) BY <1>7, <1>a DEF ReportLoaderLog, Serves
<1>8. CASE ReportBackups(s) BY <1>8, <1>a DEF ReportBackups, Serves
<1>9. CASE BackUp(s) BY <1>9, <1>a DEF BackUp, Serves
<1>10. CASE Restore(s) BY <1>10, <1>a DEF Restore, Serves
<1>11. CASE CopyPhones(s) BY <1>11, <1>a DEF CopyPhones, Serves
<1>12. CASE Scp(s) BY <1>12, <1>a DEF Scp, Serves
<1>13. CASE Import(s) BY <1>13, <1>a, <1>b DEF Import, Serves
<1>14. CASE StoreImport(s) BY <1>14, <1>a DEF StoreImport, Serves
<1>15. CASE StartLoader(s) BY <1>15, <1>a, <1>b DEF StartLoader, Serves
<1>16. CASE StoreTac(s) BY <1>16, <1>a DEF StoreTac, Serves
<1>17. QED BY <1>1, <1>2, <1>3, <1>4, <1>5, <1>6, <1>7, <1>8, <1>9, <1>10, <1>11, <1>12, <1>13, <1>14, <1>15, <1>16
  DEF WorldStep

--------------------------------------------------------------------------------
(* RestoredComparesEqual and InstalledWasHeld. *)

\* What may be installed may still be installed later.
LEMMA MayInstallStays ==
    ASSUME TypeOK, NEW s \in Sessions, Step(s), NEW n \in Nodes, NEW v, MayInstall(v, n)
    PROVE  MayInstall(v, n)'
<1>1. held[n] \subseteq held'[n]
  BY DEF Step
<1>2. CASE v \in held[n]
  BY <1>1, <1>2 DEF MayInstall
<1>3. CASE v = "bogus" /\ MadeUp(n)
  <2>1. PICK i \in DOMAIN faults : /\ faults[i].mode = "wrong_version" /\ hit[i] > 0
                                   /\ faults[i].node \in {"any", n}
    BY <1>3 DEF MadeUp
  <2>2. faults' = faults /\ hit'[i] > 0
    <3>1. hit[i] \in Nat /\ hit'[i] \in Nat /\ hit[i] <= hit'[i] /\ faults' = faults
      BY HitsGrow DEF TypeOK, ClientTypes
    <3>2. QED BY <2>1, <3>1
  <2>3. QED BY <1>3, <2>1, <2>2 DEF MayInstall, MadeUp
<1>4. QED BY <1>2, <1>3 DEF MayInstall

\* A version reaches a node by its own phones.dat or by a fault of that node.
LEMMA VersionStep == BaseInv /\ VersionInv /\ [Next]_vars => VersionInv'
<1> SUFFICES ASSUME BaseInv, VersionInv, [Next]_vars PROVE VersionInv'
  OBVIOUS
<1>1. CASE UNCHANGED vars
  BY <1>1 DEF VersionInv, MayInstall, MadeUp, vars, worldVars, clientVars, node, session
<1>2. ASSUME NEW s \in Sessions, Call(s) PROVE VersionInv'
  <2>1. /\ UNCHANGED <<faults, phones, installed, ver, source, held, hit>>
        /\ \A t \in Sessions : pc'[t] = "store" => pc[t] = "store" /\ op'[t] = op[t]
    BY <1>2, Receives DEF Call, BaseInv, node, Stays
  <2>2. \A v, n : MayInstall(v, n) => MayInstall(v, n)'
    BY <2>1 DEF MayInstall, MadeUp
  <2>3. QED BY <2>1, <2>2 DEF VersionInv
<1>3. ASSUME NEW s \in Sessions, Step(s) PROVE VersionInv'
  <2> USE DEF BaseInv
  <2>1. WorldStep(s) /\ Where[s] \in Nodes
    BY <1>3, WhereAssumption DEF Step
  <2>2. ASSUME NEW n \in Nodes PROVE phones'[n] = VersionOfFile(source'[n]) /\ phones'[n] \in held'[n]
    <3>1. phones'[n] \in held'[n]
      BY <1>3 DEF Step
    <3>2. CASE Overwrites(s)
      <4>1. PutPhones(Where[s], file[s]) /\ source' = [source EXCEPT ![Where[s]] = file[s]]
        BY <1>3, <2>1, <3>2, PhonesFollow DEF Step
      <4>2. QED BY <2>1, <3>1, <4>1 DEF PutPhones, VersionInv, TypeOK, WorldTypes, ClientTypes
    <3>3. CASE ~Overwrites(s)
      <4>1. phones' = phones /\ source' = source
        BY <1>3, <2>1, <3>3, PhonesFollow DEF Step
      <4>2. QED BY <3>1, <4>1 DEF VersionInv
    <3>4. QED BY <3>2, <3>3
  <2>3. ASSUME NEW n \in Nodes PROVE MayInstall(installed[n], n)'
    <3>1. CASE Stores(s, "import") /\ n = Where[s]
      <4>1. installed'[n] = ver[s]
        BY <2>1, <3>1, InstalledFollows DEF TypeOK, WorldTypes
      <4>2. MayInstall(ver[s], n)
        BY <3>1 DEF VersionInv, Stores
      <4>3. QED BY <1>3, <4>1, <4>2, MayInstallStays DEF MayInstall, MadeUp
    <3>2. CASE ~(Stores(s, "import") /\ n = Where[s])
      <4>1. installed'[n] = installed[n]
        BY <2>1, <3>2, InstalledFollows DEF TypeOK, WorldTypes
      <4>2. MayInstall(installed[n], n)
        BY DEF VersionInv
      <4>3. QED BY <1>3, <4>1, <4>2, MayInstallStays DEF MayInstall, MadeUp
    <3>3. QED BY <3>1, <3>2
  <2>4. ASSUME NEW t \in Sessions, pc'[t] = "store", op'[t] = "import"
        PROVE  MayInstall(ver[t], Where[t])'
    <3>1. Where[t] \in Nodes
      BY WhereAssumption
    <3>2. CASE t # s
      <4>1. pc[t] = "store" /\ op[t] = "import" /\ ver'[t] = ver[t]
        BY <2>1, <2>4, <3>2, OthersStay DEF Stays
      <4>2. MayInstall(ver[t], Where[t])
        BY <4>1 DEF VersionInv
      <4>3. QED BY <1>3, <3>1, <4>1, <4>2, MayInstallStays DEF MayInstall, MadeUp
    <3>3. CASE t = s
      <4>1. pc[s] # "store"
        BY <2>1, <2>4, <3>3, Moves DEF Inject, NoFault, Consume, Count, Holds, Ends, TypeOK, SessionTypes
      <4>2. /\ ver'[s] = phones[Where[s]] \/ (ver'[s] = "bogus" /\ Mode(s) = "wrong_version")
            /\ phones' = phones
        BY <2>1, <2>4, <3>3, <4>1, HeldVersion
      <4>3. CASE ver'[s] = phones[Where[s]]
        BY <2>2, <3>1, <3>3, <4>2, <4>3 DEF MayInstall
      <4>4. CASE ver'[s] = "bogus" /\ Mode(s) = "wrong_version"
        <5>1. fault[s] \in DOMAIN faults /\ faults[fault[s]].mode = "wrong_version"
          BY <4>4 DEF Mode, TypeOK, SessionTypes
        <5>2. fault[s] # 0
          BY <4>4 DEF Mode
        <5>3. hit[fault[s]] > 0 /\ faults[fault[s]].node \in {"any", Where[s]}
          BY <5>2 DEF Carries
        <5>4. MadeUp(Where[s])
          BY <5>1, <5>3 DEF MadeUp
        <5>5. MayInstall("bogus", Where[s])
          BY <5>4 DEF MayInstall
        <5>6. QED BY <1>3, <3>1, <3>3, <4>4, <5>5, MayInstallStays DEF MayInstall, MadeUp
      <4>5. QED BY <4>2, <4>3, <4>4
    <3>4. QED BY <3>2, <3>3
  <2>5. QED BY <2>2, <2>3, <2>4 DEF VersionInv
<1>4. QED BY <1>1, <1>2, <1>3 DEF Next

\* The inductive invariant of both properties holds in every state.
LEMMA VersionInvariant == Spec => [](BaseInv /\ VersionInv)
<1>1. Init => VersionInv
  <2> SUFFICES ASSUME Init PROVE VersionInv
    OBVIOUS
  <2>1. PICK start \in {"old", "new"} : /\ installed = [n \in Nodes |-> start]
                                         /\ phones = [n \in Nodes |-> start]
    BY DEF Init, WorldInit
  <2>2. start \in Versions
    BY DEF Versions
  <2>3. QED BY <2>1, <2>2, VersionTypes DEF Init, WorldInit, VersionInv, MayInstall
<1>2. QED BY <1>1, BaseInit, BaseStep, VersionStep, PTL DEF Spec

\* A node reports as installed what its own phones.dat has held, or what a wrong_version
\* fault of that node made up, however imports, copies and restores overlap.
THEOREM InstalledVersions == Spec => []InstalledWasHeld
<1>1. VersionInv => InstalledWasHeld
  BY DEF VersionInv, InstalledWasHeld, MayInstall, MadeUp
<1>2. QED BY <1>1, VersionInvariant, PTL

\* phones.dat has the checksum of the backup last put over it.
THEOREM RestoredBackups == Spec => []RestoredComparesEqual
<1>1. ASSUME BaseInv, VersionInv PROVE RestoredComparesEqual
  <2> SUFFICES ASSUME NEW n \in Nodes, source[n] \in Backups, source[n].tac = TacFor(source[n].version)
               PROVE  ShaOfPhones(n) = ShaOfFile(source[n])
    BY DEF RestoredComparesEqual
  <2>1. PICK v \in Versions, t \in Tacs \cup {"NA"} : source[n] = [version |-> v, tac |-> t]
    BY DEF Backups, Name
  <2>2. phones[n] = v
    BY <1>1, <2>1 DEF VersionInv, VersionOfFile, Versions
  <2>3. QED BY <2>1, <2>2 DEF ShaOfPhones, ShaOfFile, BackupName, Name
<1>2. QED BY <1>1, VersionInvariant, PTL

--------------------------------------------------------------------------------
(* TacOfInstalled. *)

\* While commands are not served at once, no import comes between the read of the installed
\* version and the TAC count stored for it.
LEMMA TacStep == BaseInv /\ TacInv /\ [Next]_vars => TacInv'
<1> SUFFICES ASSUME BaseInv, TacInv, [Next]_vars, ~overlapped' PROVE TacInv'
  BY DEF TacInv
<1> USE DEF BaseInv
<1>1. CASE UNCHANGED vars
  BY <1>1 DEF TacInv, Alone, TacOfInstalled, vars, worldVars, clientVars, node, session
<1>2. ASSUME NEW s \in Sessions, Call(s) PROVE TacInv'
  <2>1. ~overlapped /\ Idle /\ UNCHANGED <<installed, loader_tac, loaded>>
    BY <1>2, Receives DEF Call, node
  <2>2. \A t \in Sessions : t # s => pc'[t] = "idle"
    BY <1>2, <2>1, Receives DEF Stays, Idle
  <2>3. pc'[s] # "store"
    BY <1>2, Receives
  <2>4. TacOfInstalled'
    BY <2>1 DEF TacInv, TacOfInstalled
  <2>5. QED BY <2>2, <2>3, <2>4 DEF TacInv, Alone
<1>3. ASSUME NEW s \in Sessions, Step(s) PROVE TacInv'
  <2>1. WorldStep(s) /\ ~overlapped /\ Where[s] \in Nodes
    BY <1>3, WhereAssumption DEF Step
  <2>2. pc[s] # "idle"
    BY <2>1, Moves DEF Inject, NoFault, Consume, Count, Holds, Ends
  <2>3. \A t \in Sessions : t # s => pc[t] = "idle" /\ pc'[t] = "idle"
    BY <2>1, <2>2, OthersStay DEF TacInv, Alone, Stays
  <2>4. ASSUME NEW n \in Nodes, loaded'[n] PROVE loader_tac'[n] = TacFor(installed'[n])
    <3>0. loaded'[n] = IF n = Where[s] /\ Stores(s, "import") THEN FALSE
                       ELSE IF n = Where[s] /\ Stores(s, "startloader") THEN TRUE ELSE loaded[n]
      BY <1>3 DEF Step
    <3>1. ~(n = Where[s] /\ Stores(s, "import"))
      BY <2>4, <3>0
    <3>2. installed'[n] = installed[n]
      BY <2>1, <3>1, InstalledFollows DEF TypeOK, WorldTypes
    <3>3. CASE n = Where[s] /\ Stores(s, "startloader")
      <4>1. loader_tac'[n] = TacFor(ver[s])
        BY <2>1, <3>3, InstalledFollows DEF TypeOK, WorldTypes
      <4>2. ver[s] = installed[n]
        BY <2>1, <3>3 DEF TacInv, Stores
      <4>3. QED BY <3>2, <4>1, <4>2
    <3>4. CASE ~(n = Where[s] /\ Stores(s, "startloader"))
      <4>1. loader_tac'[n] = loader_tac[n]
        BY <2>1, <3>4, InstalledFollows DEF TypeOK, WorldTypes
      <4>2. loaded[n]
        BY <2>4, <3>0, <3>1, <3>4
      <4>3. QED BY <2>1, <3>2, <4>1, <4>2 DEF TacInv, TacOfInstalled
    <3>5. QED BY <3>3, <3>4
  <2>5. ASSUME NEW t \in Sessions, pc'[t] = "store", op'[t] = "startloader"
        PROVE  ver'[t] = installed'[Where[t]]
    <3>1. t = s
      BY <2>3, <2>5
    <3>2. pc[s] # "store"
      BY <2>1, <2>5, <3>1, Moves DEF Inject, NoFault, Consume, Count, Holds, Ends, TypeOK, SessionTypes
    <3>3. QED BY <2>1, <2>5, <3>1, <3>2, HeldVersion
  <2>6. QED BY <2>3, <2>4, <2>5 DEF TacInv, Alone, TacOfInstalled
<1>4. QED BY <1>1, <1>2, <1>3 DEF Next

\* At the start the loader has run.
LEMMA InitTac == Init => TacInv
<1> SUFFICES ASSUME Init PROVE TacInv
  OBVIOUS
<1>1. PICK start \in {"old", "new"} : /\ installed = [n \in Nodes |-> start]
                                       /\ loader_tac = [n \in Nodes |-> TacFor(start)]
  BY DEF Init, WorldInit
<1>2. QED BY <1>1 DEF Init, WorldInit, TacInv, Alone, TacOfInstalled

\* From a run of the loader to the next import the TAC count is that of the installed version,
\* while no two commands are served at once.
THEOREM TacCounts == Spec => []TacOfInstalled
<1>1. TacInv => TacOfInstalled
  BY DEF TacInv, TacOfInstalled
<1>2. QED BY <1>1, BaseInit, InitTac, BaseStep, TacStep, PTL DEF Spec

--------------------------------------------------------------------------------
(* FaultsInOrder. *)

\* A step injects a fault, reads its counter, writes it, or is no use of it.
Injects(s, i) ==
    /\ pc[s] = "fault" /\ pc'[s] = "consume"
    /\ Applies(i, s) /\ \A j \in DOMAIN faults : Applies(j, s) => i <= j
    /\ s \notin Pending(i) /\ Pending(i)' = Pending(i) \cup {s}
    /\ hit'[i] = hit[i] + 1 /\ used'[i] = used[i]

Reads(s, i) ==
    /\ pc[s] = "consume" /\ pc'[s] = "count" /\ seen'[s] = used[i]
    /\ s \in Pending(i) /\ Pending(i)' = Pending(i)
    /\ hit'[i] = hit[i] /\ used'[i] = used[i]

Writes(s, i) ==
    /\ pc[s] = "count" /\ used'[i] = seen[s] + 1
    /\ s \in Pending(i) /\ Pending(i)' = Pending(i) \ {s}
    /\ hit'[i] = hit[i]

Passes(s, i) ==
    /\ s \notin Pending(i) /\ Pending(i)' = Pending(i)
    /\ hit'[i] = hit[i] /\ used'[i] = used[i]

\* What a step does to the budget of a fault.
LEMMA BudgetMoves ==
    ASSUME BaseInv, NEW s \in Sessions, Step(s), NEW i \in DOMAIN faults
    PROVE  Injects(s, i) \/ Reads(s, i) \/ Writes(s, i) \/ Passes(s, i)
<1> USE DEF BaseInv, TypeOK, WorldTypes, SessionTypes
<1>1. /\ WorldStep(s) /\ \A t \in Sessions : t # s => Stays(t)
      /\ hit' = [j \in DOMAIN faults |-> IF Injected(s, j) THEN hit[j] + 1 ELSE hit[j]]
  BY OthersStay DEF Step
<1>2. /\ Injected(s, i) => hit'[i] = hit[i] + 1
      /\ ~Injected(s, i) => hit'[i] = hit[i]
  BY <1>1
<1>3. \A t \in Sessions : t # s => (t \in Pending(i)' <=> t \in Pending(i))
  BY <1>1 DEF Stays, Pending
<1>4. /\ s \in Pending(i) <=> pc[s] \in {"consume", "count"} /\ fault[s] = i
      /\ s \in Pending(i)' <=> pc'[s] \in {"consume", "count"} /\ fault'[s] = i
      /\ Pending(i) \subseteq Sessions /\ Pending(i)' \subseteq Sessions
  BY DEF Pending
<1>5. (s \in Pending(i)' <=> s \in Pending(i)) => Pending(i)' = Pending(i)
  <2>1. ASSUME s \in Pending(i)' <=> s \in Pending(i)
        PROVE  \A t : t \in Pending(i)' <=> t \in Pending(i)
    BY <1>3, <1>4, <2>1
  <2>2. QED BY <2>1
<1>6. CASE Inject(s)
  <2>1. PICK k \in DOMAIN faults : /\ Applies(k, s) /\ \A j \in DOMAIN faults : Applies(j, s) => k <= j
                                   /\ fault' = [fault EXCEPT ![s] = k]
    BY <1>6 DEF Inject
  <2>2. pc[s] = "fault" /\ pc'[s] = "consume" /\ fault'[s] = k /\ used' = used
    BY <1>6, <2>1 DEF Inject
  <2>3. CASE k = i
    <3>1. hit'[i] = hit[i] + 1
      BY <1>2, <2>2, <2>3 DEF Injected
    <3>2. Pending(i)' = Pending(i) \cup {s} /\ s \notin Pending(i)
      BY <1>3, <1>4, <2>2, <2>3
    <3>3. QED BY <2>1, <2>2, <2>3, <3>1, <3>2 DEF Injects
  <2>4. CASE k # i
    BY <1>2, <1>4, <1>5, <2>2, <2>4 DEF Injected, Passes
  <2>5. QED BY <2>3, <2>4
<1>7. CASE Consume(s)
  <2>1. /\ pc[s] = "consume" /\ pc'[s] = "count" /\ used' = used /\ seen'[s] = used[fault[s]]
        /\ UNCHANGED fault
    BY <1>7 DEF Consume
  <2>2. QED BY <1>2, <1>4, <1>5, <2>1 DEF Injected, Reads, Passes
<1>8. CASE Count(s)
  <2>1. /\ pc[s] = "count" /\ pc'[s] = "serve" /\ UNCHANGED fault
        /\ used' = [used EXCEPT ![fault[s]] = seen[s] + 1]
    BY <1>8 DEF Count
  <2>2. CASE fault[s] = i
    <3>1. Pending(i)' = Pending(i) \ {s} /\ s \in Pending(i)
      BY <1>3, <1>4, <2>1, <2>2
    <3>2. QED BY <1>2, <2>1, <2>2, <3>1 DEF Injected, Writes
  <2>3. CASE fault[s] # i
    BY <1>2, <1>4, <1>5, <2>1, <2>3 DEF Injected, Passes
  <2>4. QED BY <2>2, <2>3
<1>9. CASE NoFault(s) \/ Holds(s) \/ Ends(s)
  <2>1. /\ pc[s] \notin {"consume", "count"} /\ pc'[s] \notin {"consume", "count"} /\ used' = used
    BY <1>9 DEF NoFault, Holds, Ends
  <2>2. QED BY <1>2, <1>4, <1>5, <2>1 DEF Injected, Passes
<1>10. QED BY <1>1, <1>6, <1>7, <1>8, <1>9, Moves

\* A call changes no budget.
LEMMA BudgetsOfCall ==
    ASSUME BaseInv, NEW s \in Sessions, Call(s), NEW i
    PROVE  Pending(i)' = Pending(i) /\ UNCHANGED <<faults, used, hit, seen, fault>>
<1>1. /\ UNCHANGED <<faults, used, hit, seen, fault>> /\ \A t \in Sessions \ {s} : pc'[t] = pc[t]
      /\ pc[s] = "idle" /\ pc'[s] \in {"fault", "serve"}
  BY Receives DEF BaseInv, Call, Stays
<1>2. QED BY <1>1 DEF Pending

\* The uses of a fault that count it up too late only leave more of its budget.
LEMMA BudgetStep ==
    ASSUME BaseInv, [Next]_vars, faults' = faults, NEW i \in DOMAIN faults, Budget(i)
    PROVE  Budget(i)'
<1>0. /\ used[i] \in Nat /\ hit[i] \in Nat /\ \A s \in Sessions : seen[s] \in Nat
      /\ IsFiniteSet(Pending(i)) /\ Cardinality(Pending(i)) \in Nat
  BY FS_CardinalityType DEF BaseInv, TypeOK, WorldTypes, SessionTypes, ClientTypes, Budget
<1>1. CASE UNCHANGED vars
  BY <1>1 DEF Budget, Pending, vars, worldVars, clientVars, session
<1>2. ASSUME NEW s \in Sessions, Call(s) PROVE Budget(i)'
  <2>1. Pending(i)' = Pending(i) /\ UNCHANGED <<used, hit, seen>>
    BY <1>2, BudgetsOfCall
  <2>2. \A t \in Pending(i) : pc'[t] = pc[t]
    BY <1>2, Receives DEF Pending, BaseInv, Stays
  <2>3. QED BY <2>1, <2>2 DEF Budget
<1>3. ASSUME NEW s \in Sessions, Step(s) PROVE Budget(i)'
  <2>1. \A t \in Sessions : t # s => pc'[t] = pc[t] /\ seen'[t] = seen[t]
    BY <1>3, OthersStay DEF Step, BaseInv, Stays
  <2>a. Pending(i) \subseteq Sessions
    BY DEF Pending
  <2>b. /\ IsFiniteSet(Pending(i) \cup {s}) /\ IsFiniteSet(Pending(i) \ {s})
        /\ s \notin Pending(i) => Cardinality(Pending(i) \cup {s}) = Cardinality(Pending(i)) + 1
        /\ s \in Pending(i) => Cardinality(Pending(i) \ {s}) = Cardinality(Pending(i)) - 1
    BY <1>0, FS_AddElement, FS_RemoveElement
  <2>2. CASE Injects(s, i)
    <3>1. Cardinality(Pending(i)') = Cardinality(Pending(i)) + 1 /\ IsFiniteSet(Pending(i)')
      BY <2>b, <2>2 DEF Injects
    <3>2. used'[i] + Cardinality(Pending(i)') <= hit'[i]
      BY <1>0, <2>2, <3>1 DEF Injects, Budget
    <3>3. ASSUME NEW t \in Pending(i)', pc'[t] = "count"
          PROVE  seen'[t] + Cardinality(Pending(i)') <= hit'[i]
      <4>1. t \in Pending(i) /\ t # s /\ t \in Sessions
        BY <2>2, <2>a, <3>3 DEF Injects
      <4>2. seen[t] + Cardinality(Pending(i)) <= hit[i] /\ seen'[t] = seen[t] /\ seen[t] \in Nat
        BY <1>0, <2>1, <3>3, <4>1 DEF Budget
      <4>3. QED BY <1>0, <2>2, <3>1, <4>2 DEF Injects
    <3>4. QED BY <3>1, <3>2, <3>3 DEF Budget
  <2>3. CASE Reads(s, i)
    <3>1. \A t \in Pending(i) : pc'[t] = "count" => seen'[t] + Cardinality(Pending(i)) <= hit[i]
      BY <2>1, <2>3, <2>a DEF Budget, Reads
    <3>2. QED BY <2>3, <3>1 DEF Budget, Reads
  <2>4. CASE Writes(s, i)
    <3>1. Cardinality(Pending(i)') = Cardinality(Pending(i)) - 1 /\ IsFiniteSet(Pending(i)')
      BY <2>b, <2>4 DEF Writes
    <3>2. seen[s] + Cardinality(Pending(i)) <= hit[i]
      BY <2>4 DEF Budget, Writes
    <3>3. used'[i] + Cardinality(Pending(i)') <= hit'[i]
      BY <1>0, <2>4, <3>1, <3>2 DEF Writes
    <3>4. ASSUME NEW t \in Pending(i)', pc'[t] = "count"
          PROVE  seen'[t] + Cardinality(Pending(i)') <= hit'[i]
      <4>1. t \in Pending(i) /\ t # s /\ t \in Sessions
        BY <2>4, <2>a, <3>4 DEF Writes
      <4>2. seen[t] + Cardinality(Pending(i)) <= hit[i] /\ seen'[t] = seen[t] /\ seen[t] \in Nat
        BY <1>0, <2>1, <3>4, <4>1 DEF Budget
      <4>3. QED BY <1>0, <2>4, <3>1, <4>2 DEF Writes
    <3>5. QED BY <3>1, <3>3, <3>4 DEF Budget
  <2>5. CASE Passes(s, i)
    BY <2>1, <2>5, <2>a DEF Budget, Passes
  <2>6. QED BY <1>3, <2>2, <2>3, <2>4, <2>5, BudgetMoves
<1>4. QED BY <1>1, <1>2, <1>3 DEF Next


\* While commands are not served at once, no use is counted too late.
LEMMA ExactStep ==
    ASSUME BaseInv, TacInv, [Next]_vars, ~overlapped', NEW i \in DOMAIN faults, Exact(i)
    PROVE  Exact(i)'
<1>0. /\ used[i] \in Nat /\ hit[i] \in Nat /\ faults[i].times \in Nat
      /\ Pending(i) \subseteq {t \in Sessions : pc[t] # "idle"}
  BY FaultTypes DEF BaseInv, TypeOK, WorldTypes, ClientTypes, Pending
<1>1. CASE UNCHANGED vars
  BY <1>1 DEF Exact, Pending, vars, worldVars, clientVars, session
<1>2. ASSUME NEW s \in Sessions, Call(s) PROVE Exact(i)'
  <2>1. Pending(i)' = Pending(i) /\ UNCHANGED <<faults, used, hit, seen>>
    BY <1>2, BudgetsOfCall
  <2>2. Idle
    BY <1>2 DEF Call
  <2>3. Pending(i) = {}
    BY <1>0, <2>2 DEF Idle
  <2>4. QED BY <2>1, <2>3 DEF Exact
<1>3. ASSUME NEW s \in Sessions, Step(s) PROVE Exact(i)'
  <2>1. ~overlapped /\ faults' = faults /\ WorldStep(s)
    BY <1>3, HitsGrow DEF Step, BaseInv
  <2>2. pc[s] # "idle"
    BY <2>1, Moves DEF BaseInv, Inject, NoFault, Consume, Count, Holds, Ends
  <2>3. Pending(i) \subseteq {s}
    BY <1>0, <2>1, <2>2 DEF TacInv, Alone
  <2>4. CASE Injects(s, i)
    <3>1. Pending(i) = {} /\ Pending(i)' = {s} /\ hit[i] = used[i]
      BY <2>3, <2>4 DEF Injects, Exact
    <3>2. faults[i].times # 0 => used[i] < faults[i].times
      BY <2>4 DEF Injects, Applies
    <3>3. faults[i].times # 0 => hit'[i] <= faults[i].times
      BY <1>0, <2>4, <3>1, <3>2 DEF Injects
    <3>4. QED BY <2>1, <2>4, <3>1, <3>3 DEF Injects, Exact
  <2>5. CASE Reads(s, i)
    BY <2>1, <2>3, <2>5 DEF Reads, Exact
  <2>6. CASE Writes(s, i)
    BY <2>1, <2>3, <2>6 DEF Writes, Exact
  <2>7. CASE Passes(s, i)
    BY <2>1, <2>3, <2>7 DEF Passes, Exact
  <2>8. QED BY <1>3, <2>4, <2>5, <2>6, <2>7, BudgetMoves
<1>4. QED BY <1>1, <1>2, <1>3 DEF Next

\* A later fault is not injected while an earlier one for the same commands applies.
Ordered(i, j) ==
    /\ i < j /\ hit[j] > 0
    /\ faults[i].at = faults[j].at /\ faults[i].node \in {"any", faults[j].node}
    => faults[i].times # 0 /\ hit[i] >= faults[i].times

\* A use of the later fault comes when the earlier one has none left.
LEMMA OrderStep ==
    ASSUME BaseInv, [Next]_vars, faults' = faults,
           NEW i \in DOMAIN faults, NEW j \in DOMAIN faults, Budget(i), Ordered(i, j)
    PROVE  Ordered(i, j)'
<1>0. /\ used[i] \in Nat /\ hit[i] \in Nat /\ hit[j] \in Nat /\ faults[i].times \in Nat
      /\ i \in Nat /\ j \in Nat
  BY FaultTypes DEF BaseInv, TypeOK, WorldTypes, ClientTypes
<1>1. CASE UNCHANGED vars
  BY <1>1 DEF Ordered, vars, worldVars, clientVars
<1>2. ASSUME NEW s \in Sessions, Call(s) PROVE Ordered(i, j)'
  BY <1>2, BudgetsOfCall DEF Ordered
<1>3. ASSUME NEW s \in Sessions, Step(s) PROVE Ordered(i, j)'
  <2>1. hit'[i] \in Nat /\ hit[i] <= hit'[i]
    BY <1>3, HitsGrow DEF BaseInv
  <2>2. CASE Injects(s, j)
    <3> SUFFICES ASSUME i < j, faults[i].at = faults[j].at, faults[i].node \in {"any", faults[j].node}
                 PROVE  faults[i].times # 0 /\ hit[i] >= faults[i].times
      BY <1>0, <2>1 DEF Ordered
    <3>1. ~Applies(i, s)
      BY <1>0, <2>2 DEF Injects
    <3>2. faults[i].at = op[s] /\ faults[i].node \in {"any", Where[s]}
      BY <2>2 DEF Injects, Applies
    <3>3. faults[i].times # 0 /\ used[i] >= faults[i].times
      BY <1>0, <3>1, <3>2 DEF Applies
    <3>4. used[i] <= hit[i]
      BY <1>0, FS_CardinalityType DEF Budget
    <3>5. QED BY <1>0, <3>3, <3>4
  <2>3. CASE hit'[j] = hit[j]
    BY <1>0, <2>1, <2>3 DEF Ordered
  <2>4. QED BY <1>3, <2>2, <2>3, BudgetMoves DEF Reads, Writes, Passes
<1>4. QED BY <1>1, <1>2, <1>3 DEF Next

\* The inductive invariant of FaultsInOrder.
OrderInv ==
    /\ BaseInv /\ TacInv
    /\ \A i \in DOMAIN faults : Budget(i) /\ (~overlapped => Exact(i))
    /\ \A i, j \in DOMAIN faults : Ordered(i, j)

\* No budget is overdrawn and no order broken at the start or by a step.
LEMMA OrderInvariant == Spec => []OrderInv
<1>1. Init => OrderInv
  <2> SUFFICES ASSUME Init PROVE OrderInv
    OBVIOUS
  <2>1. BaseInv
    BY BaseInit
  <2>2. TacInv
    BY InitTac
  <2>3. ASSUME NEW i \in DOMAIN faults PROVE Budget(i) /\ Exact(i)
    <3>1. Pending(i) = {} /\ hit[i] = 0 /\ used[i] = 0
      BY DEF Init, WorldInit, Pending
    <3>2. faults[i].times \in Nat
      BY FaultTypes DEF Init, WorldInit
    <3>3. QED BY <3>1, <3>2, FS_EmptySet DEF Budget, Exact
  <2>4. \A i, j \in DOMAIN faults : Ordered(i, j)
    BY DEF Init, WorldInit, Ordered
  <2>5. QED BY <2>1, <2>2, <2>3, <2>4 DEF OrderInv
<1>2. OrderInv /\ [Next]_vars => OrderInv'
  <2> SUFFICES ASSUME OrderInv, [Next]_vars PROVE OrderInv'
    OBVIOUS
  <2> USE DEF OrderInv
  <2>1. BaseInv' /\ TacInv'
    BY BaseStep, TacStep
  <2>2. faults' = faults /\ (overlapped => overlapped')
    <3>1. CASE UNCHANGED vars BY <3>1 DEF vars, worldVars, clientVars
    <3>2. ASSUME NEW s \in Sessions, Call(s) PROVE faults' = faults /\ (overlapped => overlapped')
      BY <3>2, Receives DEF BaseInv, Call
    <3>3. ASSUME NEW s \in Sessions, Step(s) PROVE faults' = faults /\ (overlapped => overlapped')
      BY <3>3, HitsGrow DEF BaseInv, Step
    <3>4. QED BY <3>1, <3>2, <3>3 DEF Next
  <2>3. ASSUME NEW i \in DOMAIN faults PROVE Budget(i)' /\ (~overlapped' => Exact(i)')
    BY <2>2, BudgetStep, ExactStep
  <2>4. ASSUME NEW i \in DOMAIN faults, NEW j \in DOMAIN faults PROVE Ordered(i, j)'
    BY <2>2, OrderStep
  <2>5. QED BY <2>1, <2>2, <2>3, <2>4
<1>3. QED BY <1>1, <1>2, PTL DEF Spec

\* Faults are used up in the order of their list, however the sessions overlap, and none more
\* often than its limit while no two commands are served at once.
THEOREM FaultOrder == Spec => []FaultsInOrder
<1>1. OrderInv => FaultsInOrder
  BY DEF OrderInv, Ordered, Exact, FaultsInOrder
<1>2. QED BY <1>1, OrderInvariant, PTL
================================================================================
