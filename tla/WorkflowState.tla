------------------------------ MODULE WorkflowState ------------------------------
(***************************************************************************)
(* WorkflowState of workflow.py: one cursor over the flattened steps of a  *)
(* workflow, advanced by the commands of every SSH session.                *)
(*                                                                         *)
(* Each session runs in a thread of its own and match takes no lock, so a  *)
(* call is cut where it reads or writes the shared cursor and counters.    *)
(* Its outputs are in RunWorkflow; the log is left out.                    *)
(***************************************************************************)
EXTENDS WorkflowIndex

CONSTANTS
    Sessions,    \* threads serving an SSH connection
    FailAt       \* the steps the --fail selectors hit

ASSUME FailAtAssumption == FailAt \subseteq 1..N

VARIABLES
    cursor,         \* last matched index (0 = none yet)
    match_counts,   \* step -> number of matches
    pc,             \* session -> where its call of match is
    cmd,            \* session -> the command it is matching
    start,          \* session -> first index of the scan
    at,             \* session -> the step found, 0 while there is none
    seen,           \* session -> the counter as it was read
    answer,         \* session -> [step, fail] of its last finished call; step 0: None
    hits            \* history: step -> number of calls that found it

shared  == <<cursor, match_counts>>
local   == <<pc, cmd, start, at, seen>>
history == <<answer, hits>>
stateVars == <<shared, local, history>>

None == [step |-> 0, fail |-> FALSE]

StateInit ==
    /\ cursor = 0
    /\ match_counts = [i \in 1..N |-> 0]
    /\ pc = [s \in Sessions |-> "idle"]
    /\ cmd = [s \in Sessions |-> CHOOSE c \in Commands : TRUE]
    /\ start = [s \in Sessions |-> 1]
    /\ at = [s \in Sessions |-> 0]
    /\ seen = [s \in Sessions |-> 0]
    /\ answer = [s \in Sessions |-> None]
    /\ hits = [i \in 1..N |-> 0]

StateTypeOK ==
    /\ cursor \in 0..N
    /\ match_counts \in [1..N -> Nat]
    /\ pc \in [Sessions -> {"idle", "start", "scan", "test", "advance", "count", "store"}]
    /\ cmd \in [Sessions -> Commands]
    /\ start \in [Sessions -> 1..(N + 1)]
    /\ at \in [Sessions -> 0..N]
    /\ seen \in [Sessions -> Nat]
    /\ answer \in [Sessions -> [step : 0..N, fail : BOOLEAN]]
    /\ hits \in [1..N -> Nat]
    /\ \A s \in Sessions : pc[s] \in {"test", "advance", "count", "store"} => at[s] # 0

--------------------------------------------------------------------------------
Idle == \A s \in Sessions : pc[s] = "idle"

\* engine.handle calls match; a workflow without steps answers at once.
Enter(s, c) ==
    /\ pc[s] = "idle" /\ N > 0
    /\ pc' = [pc EXCEPT ![s] = "start"]
    /\ cmd' = [cmd EXCEPT ![s] = c]
    /\ UNCHANGED <<shared, start, at, seen, history>>

\* start = max(self.cursor, 1)
ReadStart(s) ==
    /\ pc[s] = "start"
    /\ start' = [start EXCEPT ![s] = Begin(cursor)]
    /\ pc' = [pc EXCEPT ![s] = "scan"]
    /\ UNCHANGED <<shared, cmd, at, seen, history>>

\* The cursor is read again for the first candidate; then the steps are tried in order.
Find(s) ==
    /\ pc[s] = "scan"
    /\ \E i \in 1..N :
        /\ IsFirst(i, cursor, start[s], cmd[s])
        /\ at' = [at EXCEPT ![s] = i]
        /\ hits' = [hits EXCEPT ![i] = @ + 1]
    /\ pc' = [pc EXCEPT ![s] = "test"]
    /\ UNCHANGED <<shared, cmd, start, seen, answer>>

Miss(s) ==
    /\ pc[s] = "scan" /\ NoneAccepts(cursor, start[s], cmd[s])
    /\ answer' = [answer EXCEPT ![s] = None]
    /\ pc' = [pc EXCEPT ![s] = "idle"]
    /\ UNCHANGED <<shared, cmd, start, at, seen, hits>>

\* Mutant: the cursor is left to the next call.
TestSkipped(s) ==
    /\ pc[s] = "test"
    /\ pc' = [pc EXCEPT ![s] = "count"]
    /\ UNCHANGED <<shared, cmd, start, at, seen, history>>

\* if i > self.cursor
Test(s) ==
    /\ pc[s] = "test"
    /\ pc' = [pc EXCEPT ![s] = IF at[s] > cursor THEN "advance" ELSE "count"]
    /\ UNCHANGED <<shared, cmd, start, at, seen, history>>

\* Mutant: the cursor goes behind the step found.
AdvancePast(s) ==
    /\ pc[s] = "advance"
    /\ cursor' = at[s] + 1
    /\ pc' = [pc EXCEPT ![s] = "count"]
    /\ UNCHANGED <<match_counts, cmd, start, at, seen, history>>

Advance(s) ==
    /\ pc[s] = "advance"
    /\ cursor' = at[s]
    /\ pc' = [pc EXCEPT ![s] = "count"]
    /\ UNCHANGED <<match_counts, cmd, start, at, seen, history>>

\* Mutant: the count is not read again for the second match of a step.
ReadCountStale(s) ==
    /\ pc[s] = "count"
    /\ pc' = [pc EXCEPT ![s] = "store"]
    /\ UNCHANGED <<shared, cmd, start, at, seen, history>>

\* match_counts.get(...)
ReadCount(s) ==
    /\ pc[s] = "count"
    /\ seen' = [seen EXCEPT ![s] = match_counts[at[s]]]
    /\ pc' = [pc EXCEPT ![s] = "store"]
    /\ UNCHANGED <<shared, cmd, start, at, history>>

\* match_counts[...] = ... + 1, and return the step with its fail flag
StoreCount(s) ==
    /\ pc[s] = "store"
    /\ match_counts' = [match_counts EXCEPT ![at[s]] = seen[s] + 1]
    /\ answer' = [answer EXCEPT ![s] = [step |-> at[s], fail |-> at[s] \in FailAt]]
    /\ pc' = [pc EXCEPT ![s] = "idle"]
    /\ UNCHANGED <<cursor, cmd, start, at, seen, hits>>

MatchStep(s) ==
    ReadStart(s) \/ Find(s) \/ Miss(s) \/ Test(s) \/ Advance(s) \/ ReadCount(s) \/ StoreCount(s)
================================================================================
