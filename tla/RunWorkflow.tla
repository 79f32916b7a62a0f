------------------------------- MODULE RunWorkflow -------------------------------
(***************************************************************************)
(* run_workflow of mop_runner.py plays a workflow against the simulator,   *)
(* which answers each command from its own index of the same file          *)
(* (WorkflowState.match, synthesize_output) with success or, where --fail  *)
(* says so, with failure.                                                  *)
(*                                                                         *)
(* The runner waits for each answer, so match is one step here; how the    *)
(* bytes travel is in ShellSession.  A command is its send template and    *)
(* whether a variable in it was filled in with nothing, in which case the  *)
(* template's `.+?` does not find it.  An output is its lines; a regex is  *)
(* the set of lines it finds, and a register regex has one group, bound to *)
(* the line.  run returns exit code 0 for every command.                   *)
(***************************************************************************)
EXTENDS Conditions, SequencesExt, WorkflowTree

CONSTANTS
    Workflows,
    FailSelectors,  \* what --fail and --fail-global may be
    Given,          \* Vars -> value or Absent: --var and the defaults
    Shells,         \* the nodes of type remote
    NodeKind,       \* node -> _node_kind
    NoSend,         \* no `send`
    ScanAhead,
    Negative,       \* variables whose presence means failure
    Sample          \* Vars -> _negative_sample or _sample_for_named_group

ASSUME NodesAssumption == Shells \subseteq DOMAIN NodeKind
ASSUME SelectorsAssumption == FailSelectors \subseteq Selectors
ASSUME SamplesAssumption ==
    /\ Given \in [Vars -> Known \cup {Absent}]
    /\ Negative \subseteq Vars /\ Sample \in [Vars -> Vals \ {Empty}]

VARIABLES
    wf, fail,       \* the workflow and the selectors, as both read them at their start
    cursor,         \* WorkflowState.cursor
    gone,           \* nodes whose shell the simulator has given up
    pc, ph, queue,  \* where run_workflow is: its phase, and what is left of flatten_phase_steps
    bindings,
    output,         \* the lines of the last answer
    counts,         \* pass_count, fail_count, skip_count
    place,          \* history: the number of the step at hand, counted along the runner's order
    begun,          \* history: `place` where the phase began
    taken,          \* history: the steps the runner got to, by phase and place in it
    failed,         \* history: those that failed, and how: their "check", or "error"
    shut,           \* history: phases whose gate was closed
    before,         \* history: the bindings when the last command was sent
    inReach         \* history: each command could only be found where it belongs

settings == <<wf, fail>>
runner == <<pc, ph, queue, bindings, output, counts>>
history == <<place, begun, taken, failed, shut, before, inReach>>
vars == <<settings, cursor, gone, runner, history>>

Cur == Head(queue)
Phase == wf[ph]

Init ==
    /\ wf \in Workflows /\ fail \in FailSelectors
    /\ cursor = 0 /\ gone = {}
    /\ pc = "phase" /\ ph = 1 /\ queue = <<>>
    /\ bindings = Given /\ output = <<>>
    /\ counts = [pass |-> 0, fail |-> 0, skip |-> 0]
    /\ place = 0 /\ begun = 0 /\ before = Given /\ inReach = TRUE
    /\ taken = {} /\ failed = {} /\ shut = {}

--------------------------------------------------------------------------------
(* Substitution and conditions. *)

\* subst: an unbound variable stays in the text.
Filled(t, b) == IF t.k = "lit" THEN t.x ELSE IF b[t.x] = Absent THEN Text ELSE b[t.x]

Met(e, b) == HoldsInPython(e, [v \in Vars |-> IF b[v] = Absent THEN Empty ELSE b[v]])

Command(step, b) == [send |-> step.send, blank |-> \E v \in step.uses : b[v] = Empty]

\* `vars` of a validation branch, one after the other.
Assigned(branch, b) == FoldLeft(LAMBDA acc, set : [acc EXCEPT ![set.name] = Filled(set.value, acc)], b, branch)

--------------------------------------------------------------------------------
(* The simulator. *)

Sent(entry) ==
    [kind |-> NodeKind[entry.step.node],
     sends |-> IF entry.step.send = NoSend THEN {} ELSE {[send |-> entry.step.send, blank |-> FALSE]}]

Index == IndexOf(wf)

Search == INSTANCE WorkflowIndex WITH
    Steps <- [i \in DOMAIN Index |-> Sent(Index[i])],
    Commands <- {Command(Index[i].step, bindings) : i \in DOMAIN Index}

IsRegex(reg) == reg.k = "regex"
Groups(step) == SelectSeq(step.register, IsRegex)

\* Mutant: the text of a negative group is part of every answer.
SynthesizeAlarming(step, failing) ==
    LET said == SelectSeq(Groups(step), LAMBDA reg : reg.name \in Negative \/ ~failing)
    IN  [i \in DOMAIN said |-> Sample[said[i].name]]

\* synthesize_output: the literal of criteria.regex and the positive groups, or the
\* negative groups only.
Synthesize(step, failing) ==
    LET said == SelectSeq(Groups(step), LAMBDA reg : (reg.name \in Negative) = failing)
    IN  (IF step.check.k = "regex" /\ ~failing THEN <<step.check.token>> ELSE <<>>)
        \o [i \in DOMAIN said |-> Sample[said[i].name]]

\* The answer to a command: that of the step it is found to be; what the rest of the
\* engine says to others is not known here.
Answers(c, lines) ==
    \/ \E i \in DOMAIN Index :
        /\ Search!IsFirst(i, cursor, Search!Begin(cursor), c)
        /\ cursor' = IF i > cursor THEN i ELSE cursor
        /\ lines = Synthesize(Index[i].step, Hits(fail, Index[i]))
    \/ /\ Search!NoneAccepts(cursor, Search!Begin(cursor), c)
       /\ lines \in {<<>>} \cup {<<v>> : v \in Vals}
       /\ UNCHANGED cursor

\* A shell that was idle for 600 s, while the runner was busy on another node.
GiveUp(n) ==
    /\ n \notin gone /\ pc = "step"
    /\ gone' = gone \cup {n}
    /\ UNCHANGED <<settings, cursor, runner, history>>

--------------------------------------------------------------------------------
(* The runner. *)

Count(what) == counts' = [counts EXCEPT ![what] = @ + 1]
Drop(n) == place' = place + n
Advance == queue' = Tail(queue) /\ Drop(1) /\ pc' = "step"

\* Bookkeeping: the runner is done with the step at hand.
Here == <<ph, place - begun + 1>>
Taken == taken' = taken \cup {Here}
Failed(how) == failed' = failed \cup {Here \o <<how>>}

SkipPhase ==
    /\ pc = "phase" /\ ph <= Len(wf) /\ ~Met(Phase.when, bindings)
    /\ ph' = ph + 1 /\ Drop(Len(Walk(Phase.steps))) /\ shut' = shut \cup {ph}
    /\ UNCHANGED <<settings, cursor, gone, pc, queue, bindings, output, counts,
                   begun, taken, failed, before, inReach>>

EnterPhase ==
    /\ pc = "phase" /\ ph <= Len(wf) /\ Met(Phase.when, bindings)
    /\ queue' = Walk(Phase.steps) /\ begun' = place /\ pc' = "step"
    /\ UNCHANGED <<settings, cursor, gone, ph, bindings, output, counts,
                   place, taken, failed, shut, before, inReach>>

\* The gate is false, the step is local, its node is not connected, or it is for SFTP.
Skipped(step) ==
    ~Met(step.when, bindings) \/ step.node \notin Shells \/ step.send = NoSend

SkipStep ==
    /\ pc = "step" /\ queue # <<>> /\ Skipped(Cur)
    /\ Advance /\ Count("skip") /\ Taken
    /\ UNCHANGED <<settings, cursor, gone, ph, bindings, output,
                   begun, failed, shut, before, inReach>>

\* Mutant: the rest of the loop's body is left out only.
BreakOne == queue' = Tail(queue) /\ Drop(1) /\ pc' = "step"

\* break: the rest of the phase is not taken.
Break == queue' = <<>> /\ Drop(Len(queue)) /\ pc' = "step"

\* EXEC-ERROR: a warning does not keep the phase going here.
SendFails ==
    /\ pc = "step" /\ queue # <<>> /\ ~Skipped(Cur) /\ Cur.node \in gone
    /\ Count("fail") /\ Taken /\ Failed("error")
    /\ IF Cur.onFailure = "stop" THEN Break ELSE Advance
    /\ UNCHANGED <<settings, cursor, gone, ph, bindings, output, begun, shut, before, inReach>>

\* No step between the last one found and this one has the same template, and this one
\* is within the look-ahead.
Clear(c) ==
    /\ place + 1 <= Search!Begin(cursor) + ScanAhead
    /\ \A j \in cursor..place : ~Search!Accepts(j, c)
    /\ ~c.blank

Run ==
    /\ pc = "step" /\ queue # <<>> /\ ~Skipped(Cur) /\ Cur.node \notin gone
    /\ \E c \in {Command(Cur, bindings)} :
        /\ inReach' = (inReach /\ Clear(c))
        /\ Answers(c, output')
    /\ pc' = "answered"
    /\ before' = bindings
    /\ UNCHANGED <<settings, gone, ph, queue, bindings, counts, place, begun, taken, failed, shut>>

\* One entry of resolve_register: the group of a regex keeps its old value if nothing
\* matches.
Register1(b, reg, lines) ==
    CASE reg.k = "regex" ->
            LET i == SelectInSeq(lines, LAMBDA l : l \in reg.finds)
            IN  IF i = 0 THEN b ELSE [b EXCEPT ![reg.name] = lines[i]]
      [] reg.k = "value" ->
            IF Met(reg.when, b) THEN [b EXCEPT ![reg.name] = Filled(reg.value, b)] ELSE b

Registers(step, b, lines) ==
    FoldLeft(LAMBDA acc, reg : Register1(acc, reg, lines), b, step.register)

Resolve1 ==
    /\ pc = "answered"
    /\ bindings' = Registers(Cur, bindings, output)
    /\ pc' = "check"
    /\ UNCHANGED <<settings, cursor, gone, ph, queue, output, counts, history>>

\* criteria: expr, regex, or the exit code.
Succeeds(check) ==
    CASE check.k = "expr"  -> Met(check.expr, bindings)
      [] check.k = "regex" -> \E i \in DOMAIN output : output[i] \in check.finds
      [] OTHER             -> TRUE

Passes ==
    /\ pc = "check" /\ (Cur.check.k = "off" \/ Succeeds(Cur.check))
    /\ Count("pass") /\ Advance /\ Taken
    /\ bindings' = IF Cur.check.k = "off" THEN bindings ELSE Assigned(Cur.success, bindings)
    /\ UNCHANGED <<settings, cursor, gone, ph, output, begun, failed, shut, before, inReach>>

\* A failure with a warning goes on, whatever on_failure says.
Fails ==
    /\ pc = "check" /\ Cur.check.k # "off" /\ ~Succeeds(Cur.check)
    /\ Count("fail") /\ Taken /\ Failed("check")
    /\ bindings' = Assigned(Cur.warning, bindings)
    /\ IF Cur.onFailure = "stop" /\ ~Cur.warns THEN Break ELSE Advance
    /\ UNCHANGED <<settings, cursor, gone, ph, output, begun, shut, before, inReach>>

EndPhase ==
    /\ pc = "step" /\ queue = <<>>
    /\ ph' = ph + 1 /\ pc' = "phase"
    /\ UNCHANGED <<settings, cursor, gone, queue, bindings, output, counts, history>>

Next ==
    \/ SkipPhase \/ EnterPhase \/ SkipStep \/ SendFails \/ Run \/ Resolve1
    \/ Passes \/ Fails \/ EndPhase
    \/ \E n \in Shells : GiveUp(n)

Spec == Init /\ [][Next]_vars

--------------------------------------------------------------------------------
\* What a user means by --fail: the n-th step of the phase, "1-based" and counting
\* "every step in that phase's flattened list" (workflow.py:19-21), or of the workflow.
Selected(n) ==
    \/ n \in fail.globals
    \/ \E p \in {Phase.key, Phase.name} : <<p, n - begun>> \in fail.by_phase

\* The variables a step binds from its own output, by a regex that finds the sample made
\* for it and nothing else.
Own(step) ==
    LET regs == {step.register[i] : i \in DOMAIN step.register}
    IN  {v \in Vars : \A reg \in regs :
            IF reg.name = v THEN reg.k = "regex" /\ reg.finds = {Sample[v]}
            ELSE reg.k = "regex" /\ Sample[reg.name] = Sample[v] =>
                    (reg.name \in Negative <=> v \in Negative)}
        \cap {reg.name : reg \in regs}

\* The usual tests: the alarm is not there, the value is there, or is the sample.
Tests(v) ==
    IF v \in Negative THEN {[l |-> Var(v), op |-> "==", r |-> Lit(Empty)]}
    ELSE {[l |-> Var(v), op |-> "!=", r |-> Lit(Empty)], [l |-> Var(v), op |-> "==", r |-> Lit(Sample[v])]}

\* A validation that is one conjunction of such tests of the step's own output.
Atoms(step) == UNION step.check.expr
Usual(step) ==
    /\ step.check.k = "expr" /\ Cardinality(step.check.expr) = 1 /\ Atoms(step) # {}
    /\ \A a \in Atoms(step) : \E v \in Own(step) : a \in Tests(v)

IsAlarm(a) == a.l.x \in Negative
HeldBefore(a) == Met({{a}}, before)
Judging == pc = "check" /\ inReach /\ Usual(Cur)

\* "validation.success.criteria.expr evaluates true (or false when fail=True)"
\* (workflow.py:11).  A step that --fail selects, in the numbering of the user, fails; but
\* the runner keeps the value of a variable whose regex finds nothing (mop_runner.py:233),
\* so it passes if it tests values only that earlier steps have left.
InjectionSeen ==
    [][Judging /\ Selected(place + 1) =>
         (counts'.fail = counts.fail + 1 <=>
            \E a \in Atoms(Cur) : IsAlarm(a) \/ ~HeldBefore(a))]_vars

\* A step that is not selected passes, unless an earlier failure has bound the alarm it
\* tests, which nothing clears (mop_runner.py:353).
NoFalseAlarm ==
    [][Judging /\ ~Selected(place + 1) =>
         (counts'.pass = counts.pass + 1 <=>
            \A a \in Atoms(Cur) : IsAlarm(a) => HeldBefore(a))]_vars

\* on_failure: stop ends its phase, whatever failed (mop_runner.py:349, 383), and only
\* its phase: the docstring's "aborting the run" (mop_runner.py:16) is not what it does.
\* The runner gets to a step, sent or skipped, just if the gate of its phase was open and
\* no step before it in the phase was one to stop at: one that could not be sent, or one
\* that failed its check and has no warning.
StopsAt(p, i) ==
    LET step == Walk(wf[p].steps)[i]
    IN  /\ step.onFailure = "stop"
        /\ <<p, i, "error">> \in failed \/ (<<p, i, "check">> \in failed /\ ~step.warns)

StopEndsPhase ==
    \A p \in DOMAIN wf : \A i \in DOMAIN Walk(wf[p].steps) :
        LET due == p \notin shut /\ \A j \in 1..(i - 1) : ~StopsAt(p, j)
        IN  /\ <<p, i>> \in taken => due
            /\ p < ph /\ due => <<p, i>> \in taken
================================================================================
