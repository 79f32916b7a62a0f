------------------------------ MODULE RollbackPlan ------------------------------
(***************************************************************************)
(* The auto-rollback explorer of gen_command_diagram.py: which steps of    *)
(* the rollback phase run after ACTIVITY failed at a given step, computed  *)
(* from the workflow alone (simulate, rollback_plan).  Beside it runs an   *)
(* engine that really executes the workflow, with values of its own for    *)
(* everything the planner cannot know: what the node prints, and what any  *)
(* name is bound to at the start (--var, and the defaults, of run_workflow *)
(* of mop_runner.py), whether the planner takes it for supplied or not.    *)
(* The two take each step together, one register at a time, so that what   *)
(* the planner believes of a variable can be held against its value.       *)
(* The engine meant is the one the workflows are written for: it has       *)
(* skip_when, gates of loops and the word "contains", which mop_runner.py  *)
(* has not.                                                                *)
(*                                                                         *)
(* The planner is wrong in places, some of them disclosed in its comments. *)
(* `causes` records what happened in a run that it does not account for,   *)
(* and Odd the values it did not expect: what is claimed is that a wrong   *)
(* belief or verdict has one of these causes, and no other.                *)
(*                                                                         *)
(* Phases whose steps succeed, then the activity phase, which fails at the *)
(* step chosen; a loop is taken once.                                      *)
(***************************************************************************)
EXTENDS Conditions

CONSTANTS
    Flag,         \* ROLLBACK_REQUIRED
    Yes,          \* "true"
    Workflows

Keep == [k |-> "keep", x |-> Empty]

\* A register entry stores a value, or what its regex captured.
Register == [k : {"value", "capture"}, name : Vars, when : Condition, value : Operand]

\* `vars` of a validation branch: a string, a variable alone, or one within a text.
Mixed == Lit(Text)
Branch == [Vars -> Operand \cup {Keep, Mixed}]

\* `uses`: the names its command text interpolates; `loop`: 0 outside loops; `outer`: the
\* loop that is nested in.
Step == [when : Condition, skip : Condition,
         loop : Nat, loopWhen : Condition, loopSkip : Condition,
         outer : Nat, outerWhen : Condition, outerSkip : Condition,
         uses : SUBSET Vars, register : Seq(Register),
         success : Branch, failure : Branch, onFailure : {"stop", "continue"}]

Phase == [when : Condition, rows : Seq(Step)]

\* The last of `phases` is ACTIVITY.
Workflow == [globals : [Vars -> Known \cup {Absent}], phases : Seq(Phase), back : Seq(Step)]

ASSUME WorkflowsAssumption ==
    /\ Flag \in Vars /\ Yes \in Vals
    /\ \A w \in Workflows : w \in Workflow /\ w.phases # <<>> /\ w.back # <<>>
    /\ \A w \in Workflows : \A i \in DOMAIN w.phases : w.phases[i].rows # <<>>

VARIABLES
    wf,         \* the workflow
    names,      \* WRITTEN, EXTERNAL, NOT_EQ and KNOWN of it
    given,      \* history: what each name was bound to at the start
    failAt,     \* the step of ACTIVITY that fails
    ph, row,    \* the phase and the step both are at; row 0: before the phase
    reg,        \* its next register; 0: before its gates
    b,          \* the engine's bindings
    st,         \* the planner's state
    runs,       \* the engine runs this step
    plan,       \* the planner's verdict: "yes" RUN, "no" SKIP, "unknown" DEPENDS
    inLoop,     \* the engine entered the loop it is in ...
    inOuter,    \* ... and the one around it
    causes      \* history: what has happened that the planner does not account for

vars == <<wf, names, given, failAt, ph, row, reg, b, st, runs, plan, inLoop, inOuter, causes>>
loops == <<inLoop, inOuter>>
fixed == <<wf, names, given, failAt>>

Causes == {"guess", "outer", "loop", "copy", "flag"}

Activity == Len(wf.phases)
Rollback == Len(wf.phases) + 1
InRollback == ph = Rollback
Rows == IF ph <= Activity THEN wf.phases[ph].rows ELSE wf.back
Cur  == Rows[row]
Fails == ph = Activity /\ row = failAt

--------------------------------------------------------------------------------
RowsOf(w) == {w.phases[i].rows : i \in DOMAIN w.phases} \cup {w.back}
StepsOf(w) == UNION {{rows[i] : i \in DOMAIN rows} : rows \in RowsOf(w)}

Writes(s) ==
    {s.register[i].name : i \in DOMAIN s.register}
        \cup {v \in Vars : s.success[v] # Keep \/ s.failure[v] # Keep}

\* phase_facts: the gate of a phase that is one clause, without parentheses.
OneClause(e) == ~Uses(e, "(==)") /\ \E c \in e : e = {c}

\* collect_written, collect_external, phase_facts.
Written(w)  == {v \in Vars : w.globals[v] # Absent} \cup UNION {Writes(s) : s \in StepsOf(w)}
Interpolated(w) == UNION {s.uses : s \in StepsOf(w)}
External(w) == Interpolated(w) \ Written(w)
Facts(w) ==
    LET gates == {w.phases[i].when : i \in {j \in DOMAIN w.phases : OneClause(w.phases[j].when)}}
    IN  {a \in UNION UNION gates : a.l.k = "var" /\ a.r.k = "lit" /\ a.op \in {"==", "!="}}

NamesOf(w) == [written |-> Written(w), external |-> External(w), facts |-> Facts(w)]

Eval3(e) == Eval(e, st, names)

\* Mutant: the gates of the loop are not carried down to its steps.
VerdictNoLoop(s) ==
    LET w  == Eval3(s.when)
        sk == Eval3(s.skip)
    IN  IF w = "no" \/ sk = "yes" THEN "no"
        ELSE IF w = "unknown" \/ sk = "unknown" THEN "unknown" ELSE "yes"

\* gate_of, and what rollback_plan makes of it.
Verdict(s) ==
    LET w  == And3(Eval3(s.when), Eval3(s.loopWhen))
        sk == Or3(Eval3(s.skip), Eval3(s.loopSkip))
    IN  IF w = "no" \/ sk = "yes" THEN "no"
        ELSE IF w = "unknown" \/ sk = "unknown" THEN "unknown" ELSE "yes"

--------------------------------------------------------------------------------
\* Any name may be bound to anything at the start, but the globals are what the workflow says.
Init ==
    /\ wf \in Workflows /\ names = NamesOf(wf)
    /\ failAt \in {i \in DOMAIN wf.phases[Activity].rows :
                     wf.phases[Activity].rows[i].failure[Flag] = Lit(Yes)}
    /\ given \in [Vars -> Known]
    /\ \A v \in Vars : IF wf.globals[v] # Absent THEN given[v] = wf.globals[v] ELSE given[v] \in Vals
    /\ b = given
    /\ st = wf.globals
    /\ ph = 1 /\ row = 0 /\ reg = 0
    /\ runs = FALSE /\ plan = "no" /\ inLoop = FALSE /\ inOuter = TRUE /\ causes = {}

\* The phases before the rollback ran, so their gates held; the rollback is entered
\* because of the flag.
EnterPhase ==
    /\ ph <= Rollback /\ row = 0
    /\ IF InRollback THEN b[Flag] = Yes ELSE Holds(wf.phases[ph].when, b)
    /\ st' = IF InRollback THEN [st EXCEPT ![Flag] = Yes] ELSE st
    /\ row' = 1 /\ reg' = 0
    /\ UNCHANGED <<fixed, ph, b, runs, plan, loops, causes>>

\* The engine decides on a loop when it gets to its first step.
Open(when, skip) == Holds(when, b) /\ ~Holds(skip, b)

SameLoop == Cur.loop # 0 /\ row > 1 /\ Rows[row - 1].loop = Cur.loop
LoopGate == IF SameLoop THEN inLoop ELSE Open(Cur.loopWhen, Cur.loopSkip)

SameOuter == Cur.outer # 0 /\ row > 1 /\ Rows[row - 1].outer = Cur.outer
OuterGate == IF SameOuter THEN inOuter ELSE Open(Cur.outerWhen, Cur.outerSkip)

\* What the planner does not account for here: a step it had to guess of did not run; the gate of
\* the outer of two loops alone kept the step from running; the gate of its loop, asked again, no
\* longer is what the engine found when it entered.
Missed ==
    (IF ~InRollback /\ ~Fails /\ Verdict(Cur) = "unknown" /\ ~runs' THEN {"guess"} ELSE {})
    \cup (IF LoopGate /\ Open(Cur.when, Cur.skip) /\ ~OuterGate THEN {"outer"} ELSE {})
    \cup (IF LoopGate # Open(Cur.loopWhen, Cur.loopSkip) THEN {"loop"} ELSE {})

\* simulate treats a step as run unless it is certain that it does not; the failing step
\* ran, so its gates held.
Decide ==
    /\ row \in DOMAIN Rows /\ reg = 0
    /\ inLoop' = LoopGate /\ inOuter' = OuterGate
    /\ runs' = (OuterGate /\ LoopGate /\ Open(Cur.when, Cur.skip))
    /\ Fails => runs'
    /\ plan' = IF InRollback THEN Verdict(Cur)
               ELSE IF Fails THEN "yes" ELSE Three(Verdict(Cur) # "no")
    /\ causes' = causes \cup Missed
    /\ reg' = 1
    /\ UNCHANGED <<fixed, ph, row, b, st>>

\* _subst of a register value: a variable without a known value spoils it.
Substituted(t) ==
    IF t.k = "lit" THEN t.x
    ELSE IF st[t.x] \in {None, Absent} THEN None ELSE st[t.x]

\* Mutant: the value of a step that may not have run is taken for certain.
PlannedRegisterCertain(r) ==
    IF r.k = "capture"                  THEN None
    ELSE IF Eval3(r.when) = "yes"       THEN Substituted(r.value)
    ELSE IF Eval3(r.when) = "unknown"   THEN None ELSE st[r.name]

\* apply_step, one register: what the planner takes the variable to be.
PlannedRegister(r) ==
    IF r.k = "capture" \/ plan = "unknown" THEN None
    ELSE IF Eval3(r.when) = "yes"          THEN Substituted(r.value)
    ELSE IF Eval3(r.when) = "unknown"      THEN None ELSE st[r.name]

\* resolve_register, one entry: a regex may find anything, or nothing.
RegisterTo(r) ==
    IF ~runs THEN {b[r.name]}
    ELSE IF r.k = "capture" THEN Vals \cup {b[r.name]}
    ELSE IF Holds(r.when, b) THEN {Bound(r.value, b)} ELSE {b[r.name]}

DoRegister ==
    /\ row \in DOMAIN Rows /\ reg \in DOMAIN Cur.register
    /\ LET r == Cur.register[reg]
       IN  /\ \E v \in RegisterTo(r) : b' = [b EXCEPT ![r.name] = v]
           /\ st' = IF plan = "no" THEN st ELSE [st EXCEPT ![r.name] = PlannedRegister(r)]
    /\ reg' = reg + 1
    /\ UNCHANGED <<fixed, ph, row, runs, plan, loops, causes>>

--------------------------------------------------------------------------------
TheBranch == IF Fails THEN Cur.failure ELSE Cur.success

\* The vars of a branch: the engine fills in variables, apply_step stores the text.
Assigned(br) == [v \in Vars |-> IF ~runs \/ br[v] = Keep THEN b[v] ELSE Bound(br[v], b)]
Planned(br) ==
    [v \in Vars |-> IF plan = "no" \/ br[v] = Keep THEN st[v]
                    ELSE IF plan = "unknown" THEN None
                    ELSE IF br[v].k = "lit" THEN br[v].x ELSE Text]

\* What the planner does not account for here: the step stored a variable alone, whose name is the
\* string apply_step stores; the rollback put its own flag down.
Overlooked ==
    (IF runs /\ \E v \in Vars : TheBranch[v].k = "var" THEN {"copy"} ELSE {})
    \cup (IF InRollback /\ b'[Flag] # Yes THEN {"flag"} ELSE {})

\* rollback_plan puts the flag back after every step.
Branched ==
    /\ b' = Assigned(TheBranch)
    /\ st' = IF InRollback THEN [Planned(TheBranch) EXCEPT ![Flag] = Yes]
             ELSE Planned(TheBranch)
    /\ causes' = causes \cup Overlooked

\* Mutant: one row too many.
FinishLate ==
    /\ row \in DOMAIN Rows /\ reg = Len(Cur.register) + 1
    /\ Branched
    /\ IF (Fails /\ Cur.onFailure = "stop") \/ row > Len(Rows)
       THEN ph' = ph + 1 /\ row' = 0
       ELSE row' = row + 1 /\ UNCHANGED ph
    /\ reg' = 0
    /\ UNCHANGED <<fixed, runs, plan, loops>>

Finish ==
    /\ row \in DOMAIN Rows /\ reg = Len(Cur.register) + 1
    /\ Branched
    /\ IF (Fails /\ Cur.onFailure = "stop") \/ row = Len(Rows)
       THEN ph' = ph + 1 /\ row' = 0
       ELSE row' = row + 1 /\ UNCHANGED ph
    /\ reg' = 0
    /\ UNCHANGED <<fixed, runs, plan, loops>>

Next == EnterPhase \/ Decide \/ DoRegister \/ Finish

Spec == Init /\ [][Next]_vars

--------------------------------------------------------------------------------
\* The variables keep their types.
TypeOK ==
    /\ failAt \in Nat \ {0} /\ given \in [Vars -> Known]
    /\ ph \in 1..Rollback + 1 /\ row \in 0..Len(Rows) /\ reg \in Nat
    /\ row = 0 => reg = 0
    /\ ph > Rollback => row = 0
    /\ row > 0 => reg <= Len(Cur.register) + 1
    /\ b \in [Vars -> Known] /\ st \in [Vars -> Known \cup {None, Absent}]
    /\ runs \in BOOLEAN /\ plan \in Verdicts /\ inLoop \in BOOLEAN /\ inOuter \in BOOLEAN
    /\ causes \subseteq Causes

\* The comparisons the planner evaluates.
GatesOf(s) ==
    {s.when, s.skip, s.loopWhen, s.loopSkip} \cup {s.register[i].when : i \in DOMAIN s.register}
Compared == {a \in UNION UNION UNION {GatesOf(s) : s \in StepsOf(wf)} : a.op \in {"==", "!="}}

\* A comparison of v comes out, before anything was stored, as the planner says, if it says so.
Unseen == [v \in Vars |-> Absent]
Expected(v, a) ==
    /\ a.l = Var(v) /\ a.r.k = "lit" => EvalAtom(a, Unseen, names) \in {"unknown", Three(AtomHolds(a, given))}
    /\ a.l = Var(v) /\ a.r.k = "var" => ResolveVar(v, Unseen, names) \in {None, given[v]}
    /\ a.r = Var(v)                  => ResolveVar(v, Unseen, names) \in {None, given[v]}

\* The names, other than the globals, that were given a value the planner is wrong about.
Odd == {v \in Vars : wf.globals[v] = Absent /\ ~\A a \in Compared : Expected(v, a)}

\* What the planner's state says of a variable is so: a value it holds is the value the
\* engine has bound, and a name it does not hold has the value it was given.
Tracks == \A v \in Vars :
    /\ st[v] \in Known => b[v] = st[v]
    /\ st[v] = Absent => b[v] = given[v]

\* simulate and apply_step: the state they build is true of every run of the engine, whatever
\* the node printed and whatever the names were given, unless one of the causes occurred.
StateTracks == ~Tracks => causes # {} \/ Odd # {}

Right == InRollback /\ reg > 0 => (plan = "yes" => runs) /\ (plan = "no" => ~runs)

\* rollback_plan: a step it announces as RUN is run, one it announces as SKIP is not, unless one
\* of the causes occurred.
VerdictRight == ~Right => causes # {} \/ Odd # {}

\* Where nothing is captured or supplied from outside, no register copies a variable, and all
\* conditions parse, nothing depends: every gate is decided.
Parsed(e) == ~Uses(e, "contains") /\ ~Uses(e, "(==)")
NothingUnknown ==
    /\ names.external = {}
    /\ \A s \in StepsOf(wf) :
        /\ \A e \in GatesOf(s) : Parsed(e)
        /\ \A i \in DOMAIN s.register : s.register[i].k = "value" /\ s.register[i].value.k = "lit"
DependsForAReason ==
    NothingUnknown => plan # "unknown" /\ (row \in DOMAIN Rows => Verdict(Cur) # "unknown")

--------------------------------------------------------------------------------
(* What the comments of the planner say of the causes. *)

\* What depends on a value only the node can produce "is reported as "depends", never guessed"
\* (gen_command_diagram.py:325-326).
NeverGuessed == ~Right => Odd # {} \/ ~causes \subseteq {"guess"}

\* flatten carries "the LOOP's own when / skip_when down onto its sub-steps"
\* (gen_command_diagram.py:85-86).
GatesCarriedDown == ~Right => Odd # {} \/ ~causes \subseteq {"outer"}

\* The facts a gate states of a name are false of what it was given.
Belied == {v \in Vars : \E a \in names.facts : a.l.x = v /\ ~AtomHolds(a, given)}

\* A name that is "assigned somewhere, just not on this path" is empty, and so is one that is
\* "neither written nor used in any command" (gen_command_diagram.py:345-348, 433-437).
EmptyUnlessSet == ~Right => Odd \cap Belied # {} \/ causes # {}

\* The gates of the phases that ran state facts, "enough to settle any test"
\* (gen_command_diagram.py:338-342).
GatesAreFacts == ~Right => ~Odd \subseteq Belied \/ causes # {}
================================================================================
