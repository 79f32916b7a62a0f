------------------------------- MODULE WorkflowRun -------------------------------
(***************************************************************************)
(* WorkflowState driven by an engine that plays the workflow: one command  *)
(* at a time, in the order of the steps, over the sessions of the nodes.   *)
(* The engine skips steps whose `when` is false, the local steps and the   *)
(* sftp steps, and goes back to the first sub-steps of a loop for the next *)
(* item.  It is the Java engine, or run_workflow of mop_runner.py, which   *)
(* takes every loop once.                                                  *)
(***************************************************************************)
EXTENDS WorkflowState

CONSTANTS
    Loops,       \* the loops of the workflow: sets of consecutive steps
    MaxCalls     \* a bound of the model on the commands played

ASSUME LoopsAssumption == Loops \subseteq SUBSET (1..N)

VARIABLES
    playing,    \* the step whose command was sent last, 0 before the first
    who,        \* the session it was sent on
    calls       \* commands played

vars == <<stateVars, playing, who, calls>>

Init ==
    /\ StateInit
    /\ playing = 0 /\ who \in Sessions /\ calls = 0

\* The steps the engine may go to: later ones in reach of the look-ahead, or any
\* step of a loop it is in.
Following ==
    {k \in 1..N : \/ playing < k /\ k \in Window(Begin(playing))
                  \/ \E l \in Loops : playing \in l /\ k \in l}

Play(s, k, c) ==
    /\ Idle /\ calls < MaxCalls
    /\ k \in Following /\ Accepts(k, c)
    /\ Enter(s, c)
    /\ playing' = k /\ who' = s /\ calls' = calls + 1

Next ==
    \/ \E s \in Sessions, k \in 1..N, c \in Commands : Play(s, k, c)
    \/ \E s \in Sessions : MatchStep(s) /\ UNCHANGED <<playing, who, calls>>

Spec == Init /\ [][Next]_vars

\* The variables keep their types, and only the session the engine is waiting for is
\* in a call of match.
TypeOK ==
    /\ StateTypeOK
    /\ playing \in 0..N /\ who \in Sessions /\ calls \in Nat
    /\ \A s \in Sessions : pc[s] # "idle" => s = who

--------------------------------------------------------------------------------
\* No two steps in reach of one look-ahead have a command line in common.
Unambiguous ==
    \A i, k \in 1..N : \A c \in Commands :
        i < k /\ k <= i + ScanAhead /\ Accepts(i, c) => ~Accepts(k, c)

\* No loop has two sub-steps that are sent.
OneStepLoops ==
    \A l \in Loops : \A i, k \in l : \A c, d \in Commands : Accepts(i, c) /\ Accepts(k, d) => i = k

\* The simulator stays in step with the engine: when the answer to a command is
\* there, it is the answer of the step that was played, with the failure the
\* --fail selector asks for at that step, and the cursor is on that step.  The
\* module's docstring (workflow.py:15-17) promises it for loops as well: "a run can
\* match the same sub-step many times (... we just accept repeated matches)".
OwnStep ==
    Idle /\ playing # 0 =>
        /\ answer[who] = [step |-> playing, fail |-> playing \in FailAt]
        /\ cursor = playing

\* The cursor only moves forward, one assignment per command (workflow.py:411), and
\* never jumps over more than the look-ahead.
MovesForward == [][cursor' >= cursor /\ cursor' <= cursor + ScanAhead + 1]_vars

\* With one command at a time no counter is lost: each step's counter is the
\* number of calls that found it.
CountsAreExact == Idle => match_counts = hits

--------------------------------------------------------------------------------
(* The inductive invariant of OwnStep: where the one call in flight stands. *)

\* Between commands the cursor is on the step played last.
AtRest == Idle => cursor = playing /\ match_counts = hits

\* Before the search the step being played is the cursor's or in its look-ahead.
Ahead == cursor <= playing /\ playing <= cursor + ScanAhead + 1

Searching ==
    pc[who] = "start" \/ pc[who] = "scan" =>
        /\ Accepts(playing, cmd[who])
        /\ playing = cursor \/ (cursor < playing /\ playing \in Window(Begin(cursor)))
        /\ match_counts = hits
        /\ pc[who] = "scan" => start[who] = Begin(cursor)

Counted == hits = [match_counts EXCEPT ![playing] = @ + 1]

\* After it the step found is the one played; the counter lags by this call.
Found ==
    /\ pc[who] = "test" => at[who] = playing /\ Ahead /\ Counted
    /\ pc[who] = "advance" => at[who] = playing /\ Ahead /\ Counted
    /\ pc[who] = "count" => at[who] = playing /\ cursor = playing /\ Counted
    /\ pc[who] = "store" =>
         at[who] = playing /\ cursor = playing /\ Counted /\ seen[who] = match_counts[playing]

\* While an engine plays the workflow, WorkflowState.match is in one of the shapes
\* above: the inductive invariant of OwnStep, CountsAreExact and MovesForward.
RunInv ==
    /\ TypeOK
    /\ OwnStep /\ AtRest /\ Searching /\ Found
    /\ ~Idle => playing # 0
    /\ playing # 0 => \E c \in Commands : Accepts(playing, c)
================================================================================
