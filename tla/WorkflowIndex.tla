------------------------------ MODULE WorkflowIndex ------------------------------
(***************************************************************************)
(* The flattened steps of a workflow as WorkflowState.match of workflow.py *)
(* searches them.  A step is reduced to the kind of its node and the set   *)
(* of command lines its send template matches (none for an sftp step).     *)
(***************************************************************************)
EXTENDS Naturals, Sequences

CONSTANTS
    Commands,    \* concrete command lines
    Steps,       \* wf.steps, as [kind, sends] records
    ScanAhead    \* self.scan_ahead (40 in the code)

NodeKinds == {"sbc", "repo", "sftp", "local"}
N == Len(Steps)

ASSUME StepsAssumption == Steps \in Seq([kind : NodeKinds, sends : SUBSET Commands])
ASSUME CommandsAssumption == Commands # {}
ASSUME ScanAheadAssumption == ScanAhead \in Nat

--------------------------------------------------------------------------------
\* A local step is never sent over SSH; a step of another remote node is not excluded.
\* Index 0 is no step: the cursor before the first match.
Accepts(i, c) == i \in 1..N /\ Steps[i].kind # "local" /\ c \in Steps[i].sends

\* max(self.cursor, 1)
Begin(index) == IF index > 1 THEN index ELSE 1

Window(from) == {i \in 1..N : from <= i /\ i <= from + ScanAhead}

\* Mutant: the workflow is searched from its end.
IsFirstFromTheEnd(i, here, from, c) == Accepts(i, c) /\ \A j \in 1..N : Accepts(j, c) => j <= i

\* The candidates in order: the current step, then the window from `from`.
IsFirst(i, here, from, c) ==
    \/ i = here /\ Accepts(i, c)
    \/ /\ ~Accepts(here, c)
       /\ i \in Window(from) /\ Accepts(i, c)
       /\ \A j \in Window(from) : Accepts(j, c) => i <= j

NoneAccepts(here, from, c) ==
    /\ ~Accepts(here, c)
    /\ \A j \in Window(from) : ~Accepts(j, c)
================================================================================
