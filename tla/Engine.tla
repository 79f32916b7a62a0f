--------------------------------- MODULE Engine ---------------------------------
(***************************************************************************)
(* CommandEngine.handle over several connections: a command line is first  *)
(* looked up in the workflow, and only if no step in reach matches does    *)
(* the scenario's list of rules see it.  Each connection has an engine of  *)
(* its own in a thread of its own; the workflow state and the scenario     *)
(* are shared by all of them, without a lock.                              *)
(*                                                                         *)
(* Any connection may send any command at any time, at most MaxCalls in    *)
(* all (a bound of the model).                                             *)
(***************************************************************************)
EXTENDS WorkflowState

CONSTANTS
    Profile, Checksums, Rules, ForceMismatch,     \* as in ScenarioRules
    Loaded,                                       \* whether --workflow may be given, or not
    MaxCalls

VARIABLES
    loaded,                               \* self.workflow_state is not None
    counts, rpc, rule, count, result,     \* Scenario.match and what the engine answers
    reached, turn, applied, digests,      \* its history
    calls,                                \* commands handled so far
    overlapped                            \* history: two commands were handled at once

Sc == INSTANCE ScenarioRules WITH pc <- rpc, at <- rule, seen <- count, answer <- result

ASSUME ProfileAssumption == Profile \in [Sessions -> Sc!Profiles]
ASSUME FaultAssumption == Checksums \subseteq Commands /\ ForceMismatch \subseteq Checksums
ASSUME RulesAssumption ==
    Rules \in Seq([profile : Sc!Profiles \cup {"any"}, sends : SUBSET Commands,
                   occurrences : SUBSET Nat, corrupt : BOOLEAN])
ASSUME LoadedAssumption == Loaded \subseteq BOOLEAN

scVars == <<counts, rpc, rule, count, result, reached, turn, applied, digests>>
vars == <<stateVars, scVars, loaded, calls, overlapped>>

Busy(s) == pc[s] # "idle" \/ rpc[s] # "idle"

Init ==
    /\ StateInit /\ Sc!RulesInit
    /\ loaded \in Loaded
    /\ calls = 0 /\ overlapped = FALSE

--------------------------------------------------------------------------------
\* A command arrives; without a workflow, or steps in it, the rules are tried at once.
Handle(s, c) ==
    /\ ~Busy(s)
    /\ calls < MaxCalls /\ calls' = calls + 1
    /\ overlapped' = (overlapped \/ \E t \in Sessions : Busy(t))
    /\ UNCHANGED loaded
    /\ \/ loaded /\ Enter(s, c) /\ UNCHANGED scVars
       \/ /\ ~loaded \/ N = 0
          /\ Sc!Enter(s, c)
          /\ UNCHANGED <<shared, pc, start, at, seen, history>>

\* match returned None: the rules are next.
FallThrough(s) ==
    /\ Miss(s) /\ Sc!Enter(s, cmd[s])
    /\ UNCHANGED <<loaded, calls, overlapped>>

Match(s) ==
    /\ ReadStart(s) \/ Find(s) \/ Test(s) \/ Advance(s) \/ ReadCount(s) \/ StoreCount(s)
    /\ UNCHANGED <<scVars, loaded, calls, overlapped>>

TryRules(s) ==
    /\ Sc!RuleStep(s)
    /\ UNCHANGED <<shared, pc, start, at, seen, history, loaded, calls, overlapped>>

Next ==
    \E s \in Sessions :
        \/ \E c \in Commands : Handle(s, c)
        \/ Match(s) \/ FallThrough(s) \/ TryRules(s)

Spec == Init /\ [][Next]_vars

--------------------------------------------------------------------------------
\* The cursor names a step that some call really found (or no step yet), and no
\* call that finished leaves it at 0: self.cursor is assigned at one place, from
\* an index whose template matched, whatever the other sessions do in between.
CursorWasFound ==
    /\ cursor # 0 => hits[cursor] > 0
    /\ Idle /\ (\E i \in 1..N : hits[i] > 0) => cursor # 0

\* As long as no two commands were handled at once, a rule applies to exactly the
\* occurrences it lists, counted over the commands that got past the workflow and
\* the earlier rules.  When calls overlap an occurrence may come late, never early: no
\* rule's count runs ahead of the commands that got to the rule.
OccurrencesExact ==
    /\ Sc!CountsNeverAhead
    /\ ~overlapped => Sc!OccurrencesExact

\* The only faults are rules for the first occurrence, and none of their commands can be
\* taken by an earlier rule.
OnlyFirstFaults ==
    /\ ForceMismatch = {}
    /\ \A r \in Sc!RuleIds : Rules[r].corrupt =>
         /\ Rules[r].occurrences = {1}
         /\ \A q \in 1..(r - 1) : Rules[q].profile \in {"any", "sbc"} =>
              Rules[q].sends \cap Rules[r].sends \cap Checksums = {}

\* As long as no two commands were handled at once, a node that asks for a checksum
\* again is given the right one, when these are the only faults.  (A rule before the
\* faulty one would only postpone the fault to the retry.)
RetryIsRight == OnlyFirstFaults /\ ~overlapped => Sc!RetryIsRight

\* The first match wins, whatever the other connections do (Scenario.match): a command that a rule
\* without occurrences matches is never answered by a later rule, nor by none.
FirstMatchWins == [][\A s \in Sessions : Sc!FirstMatch(s)]_vars

================================================================================
