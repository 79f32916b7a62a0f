-------------------------- MODULE RollbackPlan_proofs --------------------------
(***************************************************************************)
(* The planner is right about every run of the engine, for every workflow  *)
(* and every value it cannot know, unless something happened that it does  *)
(* not account for, or a name was given a value it did not expect; and     *)
(* what it cannot decide depends on something it says.                     *)
(***************************************************************************)
EXTENDS RollbackPlan, SequenceTheorems, TLAPS

\* The workflow and its names stay what Init made them.
Base == TypeOK /\ wf \in Workflows /\ names = NamesOf(wf)

\* The step both are at is a step of the workflow.
LEMMA CurIsStep ==
    ASSUME Base
    PROVE  /\ Activity \in Nat \ {0} /\ Rollback = Activity + 1
           /\ Rows \in Seq(Step) /\ Rows # <<>> /\ Len(Rows) \in Nat \ {0}
           /\ ph <= Rollback => Rows \in RowsOf(wf)
           /\ row \in DOMAIN Rows <=> row > 0
           /\ row > 0 => Cur \in Step /\ ph <= Rollback
<1>1. wf \in Workflow /\ wf.phases # <<>> /\ wf.back # <<>>
      /\ \A i \in DOMAIN wf.phases : wf.phases[i].rows # <<>>
  BY WorkflowsAssumption DEF Base
<1>2. wf.phases \in Seq(Phase) /\ wf.back \in Seq(Step)
  BY <1>1 DEF Workflow
<1>3. Activity \in Nat \ {0} /\ Rollback = Activity + 1
  BY <1>1, <1>2, LenProperties, EmptySeq DEF Activity, Rollback
<1>4. ph \in 1..Rollback + 1 /\ row \in 0..Len(Rows) /\ (ph > Rollback => row = 0)
  BY DEF Base, TypeOK
<1>5. Rows \in Seq(Step) /\ Rows # <<>> /\ (ph <= Rollback => Rows \in RowsOf(wf))
  <2>1. CASE ph <= Activity
    <3>1. ph \in DOMAIN wf.phases
      BY <1>2, <1>3, <1>4, <2>1, LenProperties DEF Activity
    <3>2. wf.phases[ph] \in Phase
      BY <1>2, <3>1, ElementOfSeq, LenProperties
    <3>3. QED BY <1>1, <2>1, <3>1, <3>2 DEF Rows, RowsOf, Phase
  <2>2. CASE ~(ph <= Activity)
    BY <1>1, <1>2, <2>2 DEF Rows, RowsOf
  <2>3. QED BY <2>1, <2>2
<1>6. Len(Rows) \in Nat \ {0} /\ DOMAIN Rows = 1..Len(Rows)
  BY <1>5, LenProperties, EmptySeq
<1>7. row \in DOMAIN Rows <=> row > 0
  BY <1>4, <1>6
<1>8. row > 0 => Cur \in Step /\ ph <= Rollback
  BY <1>3, <1>4, <1>5, <1>6, <1>7, ElementOfSeq DEF Cur
<1>9. QED BY <1>3, <1>5, <1>6, <1>7, <1>8

\* What a step is made of.
LEMMA StepTypes ==
    ASSUME NEW s \in Step
    PROVE  /\ s.when \in Condition /\ s.skip \in Condition /\ s.loop \in Nat
           /\ s.loopWhen \in Condition /\ s.loopSkip \in Condition
           /\ s.register \in Seq(Register) /\ Len(s.register) \in Nat
           /\ DOMAIN s.register = 1..Len(s.register)
           /\ \A i \in DOMAIN s.register : s.register[i] \in Register
           /\ s.success \in Branch /\ s.failure \in Branch
<1>1. s.register \in Seq(Register)
  BY DEF Step
<1>2. Len(s.register) \in Nat /\ DOMAIN s.register = 1..Len(s.register)
      /\ \A i \in DOMAIN s.register : s.register[i] \in Register
  BY <1>1, LenProperties, ElementOfSeq
<1>3. QED BY <1>1, <1>2 DEF Step

\* An operand has a value in the engine.
LEMMA BoundType ==
    ASSUME NEW t \in Operand \cup {Mixed}, NEW bb \in [Vars -> Known]
    PROVE  Bound(t, bb) \in Known
BY DEF Operand, Mixed, Lit, Var, Bound, Known

\* One register leaves bindings and state well typed.
LEMMA RegisterType ==
    ASSUME Base, DoRegister
    PROVE  b' \in [Vars -> Known] /\ st' \in [Vars -> Known \cup {None, Absent}]
<1> DEFINE r == Cur.register[reg]
<1>1. b \in [Vars -> Known] /\ st \in [Vars -> Known \cup {None, Absent}]
  BY DEF Base, TypeOK
<1>2. Cur \in Step /\ reg \in DOMAIN Cur.register
  BY CurIsStep DEF DoRegister
<1>3. r \in Register
  BY <1>2, StepTypes
<1>4. r.name \in Vars /\ r.value \in Operand
  BY <1>3 DEF Register
<1>5. /\ \E v \in RegisterTo(r) : b' = [b EXCEPT ![r.name] = v]
      /\ st' = IF plan = "no" THEN st ELSE [st EXCEPT ![r.name] = PlannedRegister(r)]
  BY DEF DoRegister
<1> HIDE DEF r
<1>6. RegisterTo(r) \subseteq Known
  <2>1. Bound(r.value, b) \in Known
    BY <1>1, <1>4, BoundType
  <2>2. QED BY <1>1, <1>4, <2>1 DEF RegisterTo, Known
<1>7. Substituted(r.value) \in Known \cup {None, Absent}
  BY <1>1, <1>4 DEF Substituted, Operand, Lit, Var, Known
<1>8. PlannedRegister(r) \in Known \cup {None, Absent}
  BY <1>1, <1>4, <1>7 DEF PlannedRegister
<1>9. QED BY <1>1, <1>4, <1>5, <1>6, <1>8

\* The branch of a validation leaves bindings and state well typed.
LEMMA BranchType ==
    ASSUME Base, row \in DOMAIN Rows, Branched
    PROVE  b' \in [Vars -> Known] /\ st' \in [Vars -> Known \cup {None, Absent}]
<1>1. b \in [Vars -> Known] /\ st \in [Vars -> Known \cup {None, Absent}]
  BY DEF Base, TypeOK
<1>2. TheBranch \in Branch
  BY CurIsStep, StepTypes DEF TheBranch
<1>3. \A v \in Vars : TheBranch[v] = Keep \/ TheBranch[v] \in Operand \cup {Mixed}
  BY <1>2 DEF Branch
<1>4. Assigned(TheBranch) \in [Vars -> Known]
  BY <1>1, <1>3, BoundType DEF Assigned
<1>5. \A v \in Vars : TheBranch[v] # Keep /\ TheBranch[v].k = "lit" => TheBranch[v].x \in Known
  BY <1>3 DEF Operand, Mixed, Lit, Var, Known
<1>6. Planned(TheBranch) \in [Vars -> Known \cup {None, Absent}]
  BY <1>1, <1>5 DEF Planned, Known
<1>7. Yes \in Known /\ Flag \in Vars
  BY WorkflowsAssumption DEF Known
<1>8. QED BY <1>4, <1>6, <1>7 DEF Branched

\* Whatever phase comes next has a number of rows.
LEMMA RowsLen ==
    ASSUME NEW w \in Workflows, NEW n \in Nat, n >= 1
    PROVE  Len(IF n <= Len(w.phases) THEN w.phases[n].rows ELSE w.back) \in Nat
<1>1. w.phases \in Seq(Phase) /\ w.back \in Seq(Step)
  BY WorkflowsAssumption DEF Workflow
<1>2. CASE n <= Len(w.phases)
  <2>1. w.phases[n] \in Phase
    BY <1>1, <1>2, ElementOfSeq, LenProperties
  <2>2. QED BY <1>2, <2>1, LenProperties DEF Phase
<1>3. CASE ~(n <= Len(w.phases))
  BY <1>1, <1>3, LenProperties
<1>4. QED BY <1>2, <1>3

\* The types hold at the start.
LEMMA TypeInit == Init => Base
<1> SUFFICES ASSUME Init PROVE Base
  OBVIOUS
<1>1. wf \in Workflow /\ wf.phases # <<>> /\ wf \in Workflows
  BY WorkflowsAssumption DEF Init
<1>2. wf.phases \in Seq(Phase) /\ wf.globals \in [Vars -> Known \cup {Absent}] /\ wf.back \in Seq(Step)
  BY <1>1 DEF Workflow
<1>3. Activity \in Nat \ {0} /\ Activity \in DOMAIN wf.phases
  BY <1>1, <1>2, LenProperties, EmptySeq DEF Activity
<1>4. wf.phases[Activity].rows \in Seq(Step) /\ wf.phases[1].rows \in Seq(Step)
  <2>1. wf.phases[Activity] \in Phase /\ wf.phases[1] \in Phase
    BY <1>2, <1>3, ElementOfSeq, LenProperties DEF Activity
  <2>2. QED BY <2>1 DEF Phase
<1>5. failAt \in Nat \ {0}
  BY <1>4, LenProperties DEF Init
<1>6. Rows = wf.phases[1].rows /\ Len(Rows) \in Nat
  BY <1>3, <1>4, LenProperties DEF Init, Rows
<1>7. st \in [Vars -> Known \cup {None, Absent}]
  BY <1>2 DEF Init, Known
<1>8. ph \in 1..Rollback + 1 /\ row \in 0..Len(Rows) /\ ~(ph > Rollback)
  BY <1>3, <1>6 DEF Init, Rollback, Activity
<1>9. TypeOK
  <2>1. /\ b \in [Vars -> Known] /\ row = 0 /\ reg = 0
        /\ runs \in BOOLEAN /\ plan \in Verdicts /\ inLoop \in BOOLEAN /\ inOuter \in BOOLEAN
        /\ given \in [Vars -> Known] /\ causes \subseteq Causes
    BY DEF Init, Verdicts
  <2>2. QED BY <1>5, <1>7, <1>8, <2>1 DEF TypeOK
<1>10. QED BY <1>1, <1>9 DEF Init, Base

\* Every step keeps them.
LEMMA TypeStep == Base /\ [Next]_vars => Base'
<1> SUFFICES ASSUME Base, [Next]_vars PROVE Base'
  OBVIOUS
<1>1. /\ Activity \in Nat \ {0} /\ Rollback = Activity + 1 /\ Len(Rows) \in Nat \ {0}
      /\ row \in DOMAIN Rows <=> row > 0
      /\ row > 0 => ph <= Rollback
  BY CurIsStep
<1>2. UNCHANGED fixed => wf' \in Workflows /\ names' = NamesOf(wf') /\ failAt' \in Nat \ {0}
                         /\ given' \in [Vars -> Known]
                         /\ Rollback' = Rollback /\ Activity' = Activity
  BY DEF fixed, Base, TypeOK, Rollback, Activity
<1>3. UNCHANGED <<fixed, ph>> => Rows' = Rows
  BY DEF fixed, Rows, Activity
<1>4. CASE EnterPhase
  <2>1. st' \in [Vars -> Known \cup {None, Absent}]
    BY <1>4, WorkflowsAssumption DEF EnterPhase, Base, TypeOK, Known
  <2>2. reg' <= Len(Cur'.register) + 1
    <3>1. UNCHANGED <<fixed, ph>> /\ row' = 1 /\ reg' = 0
      BY <1>4 DEF EnterPhase
    <3>2. Cur' \in Step
      <4>1. Rows \in Seq(Step) /\ Rows # <<>>
        BY CurIsStep
      <4>2. Rows[1] \in Step
        BY <1>1, <4>1, ElementOfSeq
      <4>3. QED BY <1>3, <3>1, <4>2 DEF Cur
    <3>3. QED BY <3>1, <3>2, StepTypes
  <2>3. QED BY <1>1, <1>2, <1>3, <1>4, <2>1, <2>2 DEF EnterPhase, Base, TypeOK, loops
<1>5. CASE Decide
  <2>1. Cur' = Cur /\ Cur \in Step /\ reg' = 1 /\ row' = row /\ row > 0 /\ ph' = ph
    BY <1>1, <1>3, <1>5, CurIsStep DEF Decide, Cur
  <2>2. reg' <= Len(Cur'.register) + 1
    BY <2>1, StepTypes
  <2>3. inLoop' \in BOOLEAN /\ inOuter' \in BOOLEAN /\ runs' \in BOOLEAN
        /\ causes' \subseteq Causes
    <3>1. LoopGate \in BOOLEAN /\ OuterGate \in BOOLEAN
      BY DEF LoopGate, OuterGate, Open, Base, TypeOK
    <3>2. Missed \subseteq Causes
      BY DEF Missed, Causes
    <3>3. causes' \subseteq Causes
      BY <1>5, <3>2 DEF Decide, Base, TypeOK
    <3>4. QED BY <1>5, <3>1, <3>3 DEF Decide, Base, TypeOK
  <2>4. plan' \in Verdicts
    BY <1>5 DEF Decide, Verdict, Verdicts, Three
  <2>5. QED BY <1>1, <1>2, <1>3, <1>5, <2>1, <2>2, <2>3, <2>4 DEF Decide, Base, TypeOK
<1>6. CASE DoRegister
  <2>1. b' \in [Vars -> Known] /\ st' \in [Vars -> Known \cup {None, Absent}]
    BY <1>6, RegisterType
  <2>2. Cur' = Cur /\ Cur \in Step /\ reg' = reg + 1 /\ row' = row /\ row > 0 /\ ph' = ph
    BY <1>1, <1>3, <1>6, CurIsStep DEF DoRegister, Cur
  <2>3. reg' \in Nat /\ reg' <= Len(Cur'.register) + 1
    BY <1>6, <2>2, StepTypes DEF DoRegister
  <2>4. QED BY <1>1, <1>2, <1>3, <1>6, <2>1, <2>2, <2>3 DEF DoRegister, Base, TypeOK, loops
<1>7. CASE Finish
  <2>1. b' \in [Vars -> Known] /\ st' \in [Vars -> Known \cup {None, Absent}]
    BY <1>7, BranchType DEF Finish
  <2>2. UNCHANGED <<fixed, runs, plan, loops>> /\ reg' = 0 /\ row > 0
        /\ row \in Nat /\ ph \in Nat /\ ph >= 1
    BY <1>1, <1>7 DEF Finish, Base, TypeOK
  <2>c. causes' \subseteq Causes
    <3>1. Overlooked \subseteq Causes
      BY DEF Overlooked, Causes
    <3>2. QED BY <1>7, <3>1 DEF Finish, Branched, Base, TypeOK
  <2>3. CASE ph' = ph + 1 /\ row' = 0
    <3>1. Len(Rows') \in Nat
      BY <1>2, <2>2, <2>3, RowsLen DEF Rows, Activity
    <3>2. ph' \in 1..Rollback' + 1
      BY <1>1, <1>2, <2>2, <2>3
    <3>3. QED BY <1>1, <1>2, <2>1, <2>2, <2>c, <2>3, <3>1, <3>2 DEF Base, TypeOK, loops
  <2>4. CASE row' = row + 1 /\ UNCHANGED ph /\ row # Len(Rows)
    <3>1. Rows' = Rows /\ row' \in 0..Len(Rows) /\ row' \in DOMAIN Rows /\ row' > 0
      <4>1. DOMAIN Rows = 1..Len(Rows) /\ row \in 0..Len(Rows)
        BY CurIsStep, LenProperties DEF Base, TypeOK
      <4>2. Rows' = Rows
        BY <1>3, <2>2, <2>4
      <4>3. row' \in 1..Len(Rows)
        <5>1. Len(Rows) \in Nat /\ row \in 0..Len(Rows) /\ row # Len(Rows) /\ row' = row + 1
          BY <1>1, <2>4, <4>1
        <5>2. QED BY ONLY <5>1
      <4>4. QED BY <1>1, <4>1, <4>2, <4>3
    <3>2. Cur' \in Step
      BY <3>1, CurIsStep, ElementOfSeq, LenProperties DEF Cur
    <3>3. reg' <= Len(Cur'.register) + 1
      BY <2>2, <3>2, StepTypes
    <3>4. QED BY <1>1, <1>2, <2>1, <2>2, <2>c, <2>4, <3>1, <3>3 DEF Base, TypeOK, loops
  <2>5. QED BY <1>7, <2>3, <2>4 DEF Finish
<1>8. CASE UNCHANGED vars
  BY <1>8 DEF vars, Base, TypeOK, Rows, Cur, Activity, Rollback
<1>9. QED BY <1>4, <1>5, <1>6, <1>7, <1>8 DEF Next

\* The variables of RollbackPlan keep their types.
THEOREM PlanTypes == Spec => []TypeOK
<1>1. Spec => []Base
  BY TypeInit, TypeStep, PTL DEF Spec
<1>2. Base => TypeOK
  BY DEF Base
<1>3. QED BY <1>1, <1>2, PTL

--------------------------------------------------------------------------------
(* A condition the planner decides comes out so. *)

\* The planner's state says of every variable what it is bound to, or that it was not stored yet.
Agrees(s, bb) ==
    /\ bb \in [Vars -> Known] /\ s \in [Vars -> Known \cup {None, Absent}]
    /\ \A v \in Vars : /\ s[v] \in Known => bb[v] = s[v]
                       /\ s[v] = Absent => bb[v] = given[v]
                       /\ wf.globals[v] # Absent => s[v] # Absent

\* A variable that is not in the state resolves as at the start.
LEMMA ResolveUnseen ==
    ASSUME NEW s, NEW v \in Vars, s[v] = Absent
    PROVE  ResolveVar(v, s, names) = ResolveVar(v, Unseen, names)
BY DEF ResolveVar, Unseen

\* One that is in the state resolves to its value.
LEMMA ResolveSeen ==
    ASSUME NEW s, NEW bb, Agrees(s, bb), NEW v \in Vars, s[v] # Absent,
           ResolveVar(v, s, names) # None
    PROVE  ResolveVar(v, s, names) = bb[v]
<1>1. ResolveVar(v, s, names) = s[v]
  BY DEF ResolveVar
<1>2. s[v] \in Known
  BY <1>1 DEF Agrees
<1>3. QED BY <1>1, <1>2 DEF Agrees

\* A comparison of a variable that was not stored yet with a text comes out as expected.
LEMMA AtomUnseen ==
    ASSUME NEW s, NEW bb, Agrees(s, bb), Odd = {},
           NEW a \in Compared, a.l \in Operand, a.r \in Operand,
           a.l.k = "var", s[a.l.x] = Absent, a.r.k = "lit"
    PROVE  EvalAtom(a, s, names) \in {"unknown", Three(AtomHolds(a, bb))}
<1> DEFINE v == a.l.x
<1>1. v \in Vars /\ a.l = Var(v) /\ wf.globals[v] = Absent /\ bb[v] = given[v]
  BY DEF Operand, Lit, Var, Agrees
<1>2. Expected(v, a)
  BY <1>1 DEF Odd
<1>3. EvalAtom(a, Unseen, names) \in {"unknown", Three(AtomHolds(a, given))}
  BY <1>1, <1>2 DEF Expected
<1>4. AtomHolds(a, given) = AtomHolds(a, bb)
  BY <1>1 DEF AtomHolds, Bound
<1>5. EvalAtom(a, s, names) = EvalAtom(a, Unseen, names)
  <2>1. Settled(a, s, names) = Settled(a, Unseen, names)
    BY <1>1 DEF Settled, Unseen
  <2>2. Resolve(a.l, s, names) = Resolve(a.l, Unseen, names)
    BY <1>1, ResolveUnseen DEF Resolve
  <2>3. Resolve(a.r, s, names) = Resolve(a.r, Unseen, names)
    BY DEF Resolve
  <2>4. QED BY <2>1, <2>2, <2>3 DEF EvalAtom
<1>6. QED BY <1>3, <1>4, <1>5

\* In any other comparison, a side the planner resolves has that value.
LEMMA OperandRight ==
    ASSUME NEW s, NEW bb, Agrees(s, bb), Odd = {},
           NEW a \in Compared, a.l \in Operand, a.r \in Operand,
           ~(a.l.k = "var" /\ s[a.l.x] = Absent /\ a.r.k = "lit"),
           NEW t \in {a.l, a.r}, Resolve(t, s, names) # None
    PROVE  Bound(t, bb) = Resolve(t, s, names)
<1>1. CASE t.k = "lit"
  BY <1>1 DEF Bound, Resolve
<1>2. CASE t.k # "lit"
  <2> DEFINE v == t.x
  <2>1. v \in Vars /\ t = Var(v)
    BY <1>2 DEF Operand, Lit, Var
  <2>2. Resolve(t, s, names) = ResolveVar(v, s, names) /\ Bound(t, bb) = bb[v]
    BY <1>2 DEF Resolve, Bound
  <2>3. CASE s[v] # Absent
    BY <2>1, <2>2, <2>3, ResolveSeen
  <2>4. CASE s[v] = Absent
    <3>1. wf.globals[v] = Absent /\ bb[v] = given[v]
      BY <2>1, <2>4 DEF Agrees
    <3>2. Expected(v, a)
      BY <2>1, <3>1 DEF Odd
    <3>3. a.r = Var(v) \/ (a.l = Var(v) /\ a.r.k = "var")
      BY <2>1, <2>4 DEF Operand, Lit, Var
    <3>4. ResolveVar(v, Unseen, names) \in {None, given[v]}
      BY <3>2, <3>3 DEF Expected
    <3>5. QED BY <2>1, <2>2, <2>4, <3>1, <3>4, ResolveUnseen
  <2>5. QED BY <2>3, <2>4
<1>3. QED BY <1>1, <1>2

\* A comparison the planner decides comes out the same in the engine.
LEMMA AtomRight ==
    ASSUME NEW s, NEW bb, Agrees(s, bb), Odd = {},
           NEW a \in Compared, a \in Compare
    PROVE  /\ EvalAtom(a, s, names) = "yes" => AtomHolds(a, bb)
           /\ EvalAtom(a, s, names) = "no" => ~AtomHolds(a, bb)
<1>1. a.l \in Operand /\ a.r \in Operand /\ a.op \in {"==", "!="}
  BY DEF Compare, Compared
<1>2. CASE a.l.k = "var" /\ s[a.l.x] = Absent /\ a.r.k = "lit"
  <2>1. EvalAtom(a, s, names) \in {"unknown", Three(AtomHolds(a, bb))}
    BY <1>1, <1>2, AtomUnseen
  <2>2. QED BY <2>1 DEF Three
<1>3. CASE ~(a.l.k = "var" /\ s[a.l.x] = Absent /\ a.r.k = "lit")
  <2> DEFINE l == Resolve(a.l, s, names)
             r == Resolve(a.r, s, names)
  <2>1. ~Settled(a, s, names)
    BY <1>3 DEF Settled
  <2>2. CASE l = None \/ r = None
    <3>1. EvalAtom(a, s, names) = "unknown"
      BY <1>1, <2>1, <2>2 DEF EvalAtom
    <3>2. QED BY <3>1
  <2>3. CASE l # None /\ r # None
    <3>1. Bound(a.l, bb) = l /\ Bound(a.r, bb) = r
      BY <1>1, <1>3, <2>3, OperandRight
    <3>2. EvalAtom(a, s, names) = Three((l = r) <=> (a.op # "!="))
      BY <1>1, <2>1, <2>3 DEF EvalAtom
    <3>3. AtomHolds(a, bb) <=> ((l = r) <=> (a.op # "!="))
      BY <1>1, <3>1 DEF AtomHolds
    <3> HIDE DEF l, r
    <3>4. QED BY <3>2, <3>3 DEF Three
  <2>4. QED BY <2>2, <2>3
<1>4. QED BY <1>2, <1>3

\* The gates of a step are conditions.
LEMMA GateTypes ==
    ASSUME NEW s \in Step, NEW e \in GatesOf(s)
    PROVE  e \in Condition
<1>1. \A i \in DOMAIN s.register : s.register[i].when \in Condition
  BY StepTypes DEF Register
<1>2. QED BY <1>1, StepTypes DEF GatesOf

\* A condition the planner decides comes out the same in the engine.
LEMMA EvalRight ==
    ASSUME NEW s, NEW bb, Agrees(s, bb), Odd = {},
           NEW p \in StepsOf(wf), p \in Step, NEW e \in GatesOf(p)
    PROVE  /\ Eval(e, s, names) \in Verdicts
           /\ Eval(e, s, names) = "yes" => Holds(e, bb)
           /\ Eval(e, s, names) = "no" => ~Holds(e, bb)
<1>1. \A c \in e : \A a \in c : a \in Compare
  BY GateTypes DEF Condition
<1>2. \A c \in e : \A a \in c : a.op \in {"==", "!="} => a \in Compared
  BY <1>1 DEF Compared
<1>3. CASE Uses(e, "(==)")
  BY <1>3 DEF Eval, Verdicts
<1>4. CASE ~Uses(e, "(==)")
  <2>1. \A c \in e : \A a \in c : /\ EvalAtom(a, s, names) = "yes" => AtomHolds(a, bb)
                                  /\ EvalAtom(a, s, names) = "no" => ~AtomHolds(a, bb)
    <3> SUFFICES ASSUME NEW c \in e, NEW a \in c
                 PROVE  /\ EvalAtom(a, s, names) = "yes" => AtomHolds(a, bb)
                        /\ EvalAtom(a, s, names) = "no" => ~AtomHolds(a, bb)
      OBVIOUS
    <3>1. a \in Compare /\ a.op # "(==)"
      BY <1>1, <1>4 DEF Uses
    <3>2. CASE a.op = "contains"
      BY <3>2 DEF EvalAtom
    <3>3. CASE a.op # "contains"
      <4>1. a \in Compared
        BY <1>2, <3>1, <3>3 DEF Compare
      <4>2. QED BY <3>1, <4>1, AtomRight
    <3>4. QED BY <3>2, <3>3
  <2>2. CASE \E c \in e : \A a \in c : EvalAtom(a, s, names) = "yes"
    <3>1. Eval(e, s, names) = "yes"
      BY <1>4, <2>2 DEF Eval
    <3>2. Holds(e, bb)
      BY <2>1, <2>2 DEF Holds
    <3>3. QED BY <3>1, <3>2 DEF Verdicts
  <2>3. CASE /\ ~\E c \in e : \A a \in c : EvalAtom(a, s, names) = "yes"
             /\ \E c \in e : \A a \in c : EvalAtom(a, s, names) # "no"
    <3>1. Eval(e, s, names) = "unknown"
      BY <1>4, <2>3 DEF Eval
    <3>2. QED BY <3>1 DEF Verdicts
  <2>4. CASE /\ ~\E c \in e : \A a \in c : EvalAtom(a, s, names) = "yes"
             /\ ~\E c \in e : \A a \in c : EvalAtom(a, s, names) # "no"
    <3>1. Eval(e, s, names) = "no"
      BY <1>4, <2>4 DEF Eval
    <3>2. ~Holds(e, bb)
      BY <2>1, <2>4 DEF Holds
    <3>3. QED BY <3>1, <3>2 DEF Verdicts
  <2>5. QED BY <2>2, <2>3, <2>4
<1>5. QED BY <1>3, <1>4

--------------------------------------------------------------------------------
\* Why the planner is right: its state agrees with the bindings, and its verdict with what the
\* engine did.
Knows ==
    /\ Agrees(st, b)
    /\ reg > 0 => (plan = "yes" => runs) /\ (plan = "no" => ~runs)

\* It knows as long as nothing happened that it does not account for.
Inv == Base /\ (causes = {} /\ Odd = {} => Knows)

\* The step both are at is one whose comparisons the planner evaluates.
LEMMA CurGates ==
    ASSUME Base, row > 0
    PROVE  Cur \in StepsOf(wf) /\ Cur \in Step
BY CurIsStep DEF StepsOf, Cur

\* What the planner knows at the start is true.
LEMMA KnowsInit == Init => Knows
<1> SUFFICES ASSUME Init PROVE Knows
  OBVIOUS
<1>1. Base
  BY TypeInit
<1>2. b \in [Vars -> Known] /\ st \in [Vars -> Known \cup {None, Absent}]
  BY <1>1 DEF Base, TypeOK
<1>3. wf.globals \in [Vars -> Known \cup {Absent}]
  BY <1>1, WorkflowsAssumption DEF Base, Workflow
<1>4. \A v \in Vars : /\ st[v] \in Known => b[v] = st[v]
                      /\ st[v] = Absent => b[v] = given[v]
                      /\ wf.globals[v] # Absent => st[v] # Absent
  BY <1>3, ValuesAssumption DEF Init, Known
<1>5. QED BY <1>2, <1>4 DEF Init, Knows, Agrees

\* What it knows when a phase begins.
LEMMA KnowsEnter == Base /\ Knows /\ EnterPhase => Knows'
<1> SUFFICES ASSUME Base, Knows, EnterPhase PROVE Knows'
  OBVIOUS
<1>1. UNCHANGED <<fixed, b>> /\ reg' = 0 /\ (InRollback => b[Flag] = Yes)
  BY DEF EnterPhase
<1>2. Flag \in Vars /\ Yes \in Known /\ Yes # Absent
  BY WorkflowsAssumption, ValuesAssumption DEF Known
<1>3. Agrees(st, b)
  BY DEF Knows
<1>4. Agrees(st, b)'
  <2>1. CASE InRollback
    <3>1. st' = [st EXCEPT ![Flag] = Yes] /\ b[Flag] = Yes
      BY <2>1 DEF EnterPhase
    <3>2. QED BY <1>1, <1>2, <1>3, <3>1 DEF Agrees, fixed
  <2>2. CASE ~InRollback
    BY <1>1, <1>3, <2>2 DEF EnterPhase, Agrees, fixed
  <2>3. QED BY <2>1, <2>2
<1>5. QED BY <1>1, <1>4 DEF Knows

\* What the two gates and the two skips combine to.
LEMMA GatesCombine ==
    ASSUME NEW p \in Verdicts, NEW q \in Verdicts, NEW r \in Verdicts, NEW s \in Verdicts
    PROVE  /\ And3(p, q) # "no" /\ And3(p, q) # "unknown" => p = "yes" /\ q = "yes"
           /\ And3(p, q) = "no" => p = "no" \/ q = "no"
           /\ Or3(r, s) # "yes" /\ Or3(r, s) # "unknown" => r = "no" /\ s = "no"
           /\ Or3(r, s) = "yes" => r = "yes" \/ s = "yes"
<1>1. \A t \in Verdicts : t = "yes" \/ t = "no" \/ t = "unknown"
  BY DEF Verdicts
<1>2. QED BY <1>1 DEF And3, Or3

\* The planner's verdict on a step agrees with what the gates of the step and of its loop say.
LEMMA VerdictSound ==
    ASSUME Base, Knows, Odd = {}, row > 0,
           NEW go \in BOOLEAN,
           go = (Open(Cur.loopWhen, Cur.loopSkip) /\ Open(Cur.when, Cur.skip))
    PROVE  /\ Verdict(Cur) \in Verdicts
           /\ Verdict(Cur) = "yes" => go
           /\ Verdict(Cur) = "no" => ~go
<1>1. Cur \in Step /\ Cur \in StepsOf(wf) /\ Agrees(st, b)
  BY CurGates DEF Knows
<1> DEFINE e1 == Cur.when
           e2 == Cur.loopWhen
           e3 == Cur.skip
           e4 == Cur.loopSkip
<1>2. e1 \in GatesOf(Cur) /\ e2 \in GatesOf(Cur) /\ e3 \in GatesOf(Cur) /\ e4 \in GatesOf(Cur)
  BY DEF GatesOf
<1>3. go = (Holds(e2, b) /\ ~Holds(e4, b) /\ Holds(e1, b) /\ ~Holds(e3, b))
  BY DEF Open
<1> HIDE DEF e1, e2, e3, e4
<1>4. \A e \in GatesOf(Cur) : /\ Eval3(e) \in Verdicts
                              /\ Eval3(e) = "yes" => Holds(e, b)
                              /\ Eval3(e) = "no" => ~Holds(e, b)
  BY <1>1, EvalRight DEF Eval3
<1> DEFINE w  == And3(Eval3(e1), Eval3(e2))
           sk == Or3(Eval3(e3), Eval3(e4))
<1>5. Verdict(Cur) = IF w = "no" \/ sk = "yes" THEN "no"
                     ELSE IF w = "unknown" \/ sk = "unknown" THEN "unknown" ELSE "yes"
  BY DEF Verdict, e1, e2, e3, e4
<1>6. /\ w # "no" /\ w # "unknown" => Eval3(e1) = "yes" /\ Eval3(e2) = "yes"
      /\ w = "no" => Eval3(e1) = "no" \/ Eval3(e2) = "no"
      /\ sk # "yes" /\ sk # "unknown" => Eval3(e3) = "no" /\ Eval3(e4) = "no"
      /\ sk = "yes" => Eval3(e3) = "yes" \/ Eval3(e4) = "yes"
  <2>1. /\ Eval3(e1) \in Verdicts /\ Eval3(e2) \in Verdicts
        /\ Eval3(e3) \in Verdicts /\ Eval3(e4) \in Verdicts
    BY <1>2, <1>4
  <2>2. QED BY <2>1, GatesCombine
<1> HIDE DEF w, sk
<1>7. Verdict(Cur) = "yes" => /\ Eval3(e1) = "yes" /\ Eval3(e2) = "yes"
                              /\ Eval3(e3) = "no" /\ Eval3(e4) = "no"
  BY <1>5, <1>6
<1>8. Verdict(Cur) = "no" => \/ Eval3(e1) = "no" \/ Eval3(e2) = "no"
                             \/ Eval3(e3) = "yes" \/ Eval3(e4) = "yes"
  BY <1>5, <1>6
<1>9. Verdict(Cur) \in Verdicts
  BY DEF Verdict, Verdicts
<1>10. Verdict(Cur) = "yes" => go
  BY <1>2, <1>3, <1>4, <1>7
<1>11. Verdict(Cur) = "no" => ~go
  BY <1>2, <1>3, <1>4, <1>8
<1>12. QED BY <1>9, <1>10, <1>11

\* What it knows when the gates of a step are decided.
LEMMA KnowsDecide == Base /\ Knows /\ Decide /\ causes' = {} /\ Odd = {} => Knows'
<1> SUFFICES ASSUME Base, Knows, Decide, causes' = {}, Odd = {} PROVE Knows'
  OBVIOUS
<1>1. UNCHANGED <<fixed, b, st>> /\ row > 0 /\ Missed = {}
  BY CurIsStep DEF Decide
<1> DEFINE inner == Open(Cur.when, Cur.skip)
           go == Open(Cur.loopWhen, Cur.loopSkip) /\ inner
<1>2. go \in BOOLEAN
  BY DEF Open
<1>3. runs' = (OuterGate /\ LoopGate /\ inner)
  BY DEF Decide
<1>4. /\ ~(~InRollback /\ ~Fails /\ Verdict(Cur) = "unknown" /\ ~runs')
      /\ ~(LoopGate /\ inner /\ ~OuterGate)
      /\ LoopGate = Open(Cur.loopWhen, Cur.loopSkip)
  BY <1>1 DEF Missed
<1>5. runs' <=> go
  BY <1>3, <1>4
<1>6. /\ Verdict(Cur) \in Verdicts
      /\ Verdict(Cur) = "yes" => go
      /\ Verdict(Cur) = "no" => ~go
  BY <1>1, <1>2, VerdictSound
<1> HIDE DEF go, inner
<1>7. (plan' = "yes" => runs') /\ (plan' = "no" => ~runs')
  <2>1. CASE InRollback
    <3>1. plan' = Verdict(Cur)
      BY <2>1 DEF Decide
    <3>2. QED BY <1>5, <1>6, <3>1
  <2>2. CASE ~InRollback /\ Fails
    <3>1. plan' = "yes" /\ runs'
      BY <2>2 DEF Decide
    <3>2. QED BY <3>1
  <2>3. CASE ~InRollback /\ ~Fails
    <3>1. plan' = Three(Verdict(Cur) # "no")
      BY <2>3 DEF Decide
    <3>2. CASE Verdict(Cur) = "no"
      BY <1>5, <1>6, <3>1, <3>2 DEF Three
    <3>3. CASE Verdict(Cur) # "no"
      <4>1. runs'
        BY <1>4, <1>5, <1>6, <2>3, <3>3 DEF Verdicts
      <4>2. QED BY <3>1, <3>3, <4>1 DEF Three
    <3>4. QED BY <3>2, <3>3
  <2>4. QED BY <2>1, <2>2, <2>3
<1>8. Agrees(st, b)'
  BY <1>1 DEF Knows, Agrees, fixed
<1>9. QED BY <1>7, <1>8 DEF Knows

\* What it knows after one register of a step.
LEMMA KnowsRegister == Base /\ Knows /\ Odd = {} /\ DoRegister => Knows'
<1> SUFFICES ASSUME Base, Knows, Odd = {}, DoRegister PROVE Knows'
  OBVIOUS
<1> DEFINE r == Cur.register[reg]
<1>1. /\ UNCHANGED <<fixed, runs, plan>> /\ reg' = reg + 1
      /\ row > 0 /\ reg \in DOMAIN Cur.register /\ Cur \in Step /\ Cur \in StepsOf(wf)
      /\ \E v \in RegisterTo(r) : b' = [b EXCEPT ![r.name] = v]
      /\ st' = IF plan = "no" THEN st ELSE [st EXCEPT ![r.name] = PlannedRegister(r)]
  BY CurIsStep, CurGates DEF DoRegister
<1>2. r \in Register /\ reg > 0 /\ reg \in Nat
  BY <1>1, StepTypes
<1>3. r.name \in Vars /\ r.value \in Operand /\ r.when \in GatesOf(Cur)
  BY <1>1, <1>2 DEF Register, GatesOf
<1> HIDE DEF r
<1>5. PICK v \in RegisterTo(r) : b' = [b EXCEPT ![r.name] = v]
  BY <1>1
<1>6. b' \in [Vars -> Known] /\ st' \in [Vars -> Known \cup {None, Absent}]
  BY RegisterType
<1>7. Agrees(st, b) /\ (plan = "yes" => runs) /\ (plan = "no" => ~runs)
  BY <1>2 DEF Knows
<1>e. /\ Eval3(r.when) \in Verdicts
      /\ Eval3(r.when) = "yes" => Holds(r.when, b)
      /\ Eval3(r.when) = "no" => ~Holds(r.when, b)
  BY <1>1, <1>3, <1>7, EvalRight DEF Eval3
<1>8. ASSUME NEW x \in Vars
      PROVE  /\ st'[x] \in Known => b'[x] = st'[x]
             /\ st'[x] = Absent => b'[x] = given[x]
             /\ wf.globals[x] # Absent => st'[x] # Absent
  <2>1. b \in [Vars -> Known] /\ st \in [Vars -> Known \cup {None, Absent}]
        /\ (st[x] \in Known => b[x] = st[x]) /\ (st[x] = Absent => b[x] = given[x])
        /\ (wf.globals[x] # Absent => st[x] # Absent)
    BY <1>7 DEF Agrees
  <2>2. CASE x # r.name
    <3>1. b'[x] = b[x] /\ st'[x] = st[x]
      BY <1>1, <1>3, <1>5, <2>1, <2>2
    <3>2. QED BY <2>1, <3>1
  <2>3. CASE x = r.name
    <3>1. b'[x] = v /\ (plan = "no" => st'[x] = st[x]) /\ (plan # "no" => st'[x] = PlannedRegister(r))
      BY <1>1, <1>3, <1>5, <2>1, <2>3
    <3>2. CASE plan = "no"
      <4>1. v = b[x]
        BY <1>5, <1>7, <2>3, <3>2 DEF RegisterTo
      <4>2. QED BY <2>1, <3>1, <3>2, <4>1
    <3>3. CASE plan # "no" /\ PlannedRegister(r) = None
      <4>1. None \notin Known /\ None # Absent
        BY ValuesAssumption DEF Known
      <4>2. QED BY <3>1, <3>3, <4>1
    <3>4. CASE plan # "no" /\ PlannedRegister(r) # None
      <4>1. r.k # "capture" /\ plan # "unknown"
        BY <3>4 DEF PlannedRegister
      <4>2. Eval3(r.when) # "unknown" /\ plan = "yes" /\ runs
        BY <1>7, <3>4, <4>1 DEF PlannedRegister, Base, TypeOK, Verdicts
      <4>3. CASE Eval3(r.when) = "yes"
        <5>1. v = Bound(r.value, b)
          BY <1>5, <1>e, <4>1, <4>2, <4>3 DEF RegisterTo
        <5>2. PlannedRegister(r) = Substituted(r.value)
          BY <4>1, <4>2, <4>3 DEF PlannedRegister
        <5>3. Substituted(r.value) = Bound(r.value, b)
          <6>1. CASE r.value.k = "lit"
            BY <6>1 DEF Substituted, Bound
          <6>2. CASE r.value.k # "lit"
            <7>1. r.value.x \in Vars
              BY <1>3, <6>2 DEF Operand, Lit, Var
            <7>2. st[r.value.x] \notin {None, Absent} /\ Substituted(r.value) = st[r.value.x]
              BY <3>4, <5>2, <6>2 DEF Substituted
            <7>3. st[r.value.x] = b[r.value.x]
              BY <1>7, <2>1, <7>1, <7>2 DEF Agrees
            <7>4. QED BY <6>2, <7>2, <7>3 DEF Bound
          <6>3. QED BY <6>1, <6>2
        <5>4. v \in Known /\ Absent \notin Known
          BY <1>3, <2>1, <5>1, BoundType, ValuesAssumption DEF Known
        <5>5. st'[x] = b'[x] /\ st'[x] \in Known
          BY <3>1, <3>4, <5>1, <5>2, <5>3, <5>4
        <5>6. QED BY <5>4, <5>5
      <4>4. CASE Eval3(r.when) = "no"
        <5>1. v = b[x]
          BY <1>5, <1>e, <2>3, <4>1, <4>2, <4>4 DEF RegisterTo
        <5>2. PlannedRegister(r) = st[x]
          BY <2>3, <4>1, <4>2, <4>4 DEF PlannedRegister
        <5>3. QED BY <2>1, <3>1, <3>4, <5>1, <5>2
      <4>5. QED BY <1>e, <4>2, <4>3, <4>4 DEF Verdicts
    <3>5. QED BY <3>2, <3>3, <3>4
  <2>4. QED BY <2>2, <2>3
<1>9. Agrees(st, b)'
  BY <1>1, <1>6, <1>8 DEF Agrees, fixed
<1>10. QED BY <1>1, <1>7, <1>9 DEF Knows

\* What it knows after the branch of a validation.
LEMMA KnowsFinish == Base /\ Knows /\ Finish /\ causes' = {} => Knows'
<1> SUFFICES ASSUME Base, Knows, Finish, causes' = {} PROVE Knows'
  OBVIOUS
<1>1. /\ UNCHANGED fixed /\ reg' = 0 /\ row \in DOMAIN Rows /\ row > 0
      /\ Cur \in Step /\ reg = Len(Cur.register) + 1 /\ Branched /\ Overlooked = {}
  BY CurIsStep DEF Finish, Branched
<1>2. reg > 0
  BY <1>1, StepTypes
<1> DEFINE br == TheBranch
<1>3. br \in Branch
  BY <1>1, StepTypes DEF TheBranch
<1>4. \A x \in Vars : br[x] = Keep \/ br[x] \in Operand \cup {Mixed}
  BY <1>3 DEF Branch
<1>5. /\ runs => \A x \in Vars : br[x].k # "var"
      /\ InRollback => b'[Flag] = Yes
  BY <1>1 DEF Overlooked
<1>6. /\ b' = Assigned(br)
      /\ st' = IF InRollback THEN [Planned(br) EXCEPT ![Flag] = Yes] ELSE Planned(br)
  BY <1>1 DEF Branched
<1> HIDE DEF br
<1>7. /\ Agrees(st, b) /\ b \in [Vars -> Known] /\ plan \in Verdicts
      /\ (plan = "yes" => runs) /\ (plan = "no" => ~runs)
  BY <1>2 DEF Knows, Agrees, Base, TypeOK
<1>8. \A x \in Vars : b'[x] = IF ~runs \/ br[x] = Keep THEN b[x] ELSE Bound(br[x], b)
  BY <1>6 DEF Assigned
<1>9. ASSUME NEW x \in Vars
      PROVE  /\ Planned(br)[x] \in Known => b'[x] = Planned(br)[x]
             /\ Planned(br)[x] = Absent => b'[x] = given[x]
             /\ wf.globals[x] # Absent => Planned(br)[x] # Absent
  <2>1. Planned(br)[x] = IF plan = "no" \/ br[x] = Keep THEN st[x]
                         ELSE IF plan = "unknown" THEN None
                         ELSE IF br[x].k = "lit" THEN br[x].x ELSE Text
    BY DEF Planned
  <2>2. CASE plan = "no" \/ br[x] = Keep
    <3>1. Planned(br)[x] = st[x] /\ b'[x] = b[x]
      BY <1>7, <1>8, <2>1, <2>2
    <3>2. QED BY <1>7, <3>1 DEF Agrees
  <2>3. CASE ~(plan = "no" \/ br[x] = Keep) /\ plan = "unknown"
    <3>1. Planned(br)[x] = None
      BY <2>1, <2>3
    <3>2. QED BY <3>1, ValuesAssumption DEF Known
  <2>4. CASE ~(plan = "no" \/ br[x] = Keep) /\ plan = "yes"
    <3>1. br[x] \in Operand \cup {Mixed} /\ br[x].k = "lit"
      BY <1>4, <1>5, <1>7, <2>4 DEF Operand, Mixed, Lit, Var
    <3>2. Planned(br)[x] = br[x].x /\ br[x].x \in Known
      BY <2>1, <2>4, <3>1 DEF Operand, Mixed, Lit, Var, Known
    <3>3. b'[x] = br[x].x
      BY <1>7, <1>8, <2>4, <3>1 DEF Bound
    <3>4. QED BY <3>2, <3>3, ValuesAssumption DEF Known
  <2>5. QED BY <1>7, <2>2, <2>3, <2>4 DEF Verdicts
<1>10. ASSUME NEW x \in Vars
       PROVE  /\ st'[x] \in Known => b'[x] = st'[x]
              /\ st'[x] = Absent => b'[x] = given[x]
              /\ wf.globals[x] # Absent => st'[x] # Absent
  <2>1. CASE InRollback /\ x = Flag
    <3>1. st'[x] = Yes
      BY <1>6, <2>1 DEF Planned
    <3>2. QED BY <1>5, <2>1, <3>1, WorkflowsAssumption, ValuesAssumption
  <2>2. CASE ~(InRollback /\ x = Flag)
    <3>1. st'[x] = Planned(br)[x]
      BY <1>6, <2>2 DEF Planned
    <3>2. QED BY <1>9, <3>1
  <2>3. QED BY <2>1, <2>2
<1>11. b' \in [Vars -> Known] /\ st' \in [Vars -> Known \cup {None, Absent}]
  BY <1>1, BranchType
<1>12. Agrees(st, b)'
  BY <1>1, <1>10, <1>11 DEF Agrees, fixed
<1>13. QED BY <1>1, <1>12 DEF Knows

--------------------------------------------------------------------------------
\* What was odd stays odd.
LEMMA OddStays == UNCHANGED fixed => Odd' = Odd
BY DEF fixed, Odd, Expected, Compared

\* Every step preserves the invariant.
LEMMA InvStep == Inv /\ [Next]_vars => Inv'
<1> SUFFICES ASSUME Inv, [Next]_vars PROVE Inv'
  OBVIOUS
<1>1. Base /\ Base'
  BY TypeStep DEF Inv
<1>2. CASE UNCHANGED vars
  <2>1. Odd' = Odd
    BY <1>2, OddStays DEF vars, fixed
  <2>2. QED BY <1>1, <1>2, <2>1 DEF vars, Inv, Knows, Agrees
<1>3. CASE Next
  <2> SUFFICES ASSUME causes' = {}, Odd' = {} PROVE Knows'
    BY <1>1 DEF Inv
  <2>1. UNCHANGED fixed
    BY <1>3 DEF Next, EnterPhase, Decide, DoRegister, Finish
  <2>2. Odd = {}
    BY <2>1, OddStays
  <2>3. causes = {}
    BY <1>3 DEF Next, EnterPhase, Decide, DoRegister, Finish, Branched
  <2>4. Knows
    BY <2>2, <2>3 DEF Inv
  <2>5. QED
    BY <1>1, <1>3, <2>2, <2>4, KnowsEnter, KnowsDecide, KnowsRegister, KnowsFinish DEF Next
<1>4. QED BY <1>2, <1>3

\* The invariant holds in every state.
LEMMA PlanInvariant == Spec => []Inv
<1>1. Init => Inv
  BY TypeInit, KnowsInit DEF Inv
<1>2. QED BY <1>1, InvStep, PTL DEF Spec

\* simulate, apply_step: what the planner's state says of a variable is so in every run of every
\* workflow, unless something happened that the planner does not account for, or a name was given
\* a value it did not expect.
THEOREM StatesTrack == Spec => []StateTracks
<1>1. Inv => StateTracks
  BY DEF Inv, Knows, Agrees, StateTracks, Tracks
<1>2. QED BY <1>1, PlanInvariant, PTL

\* rollback_plan: what it announces as RUN is run, and what it announces as SKIP is not, whatever
\* the node prints, with the same exceptions.
THEOREM VerdictsRight == Spec => []VerdictRight
<1>1. Inv => VerdictRight
  BY DEF Inv, Knows, VerdictRight, Right
<1>2. QED BY <1>1, PlanInvariant, PTL

--------------------------------------------------------------------------------
(* Where nothing is captured, copied or supplied from outside, and all conditions parse, *)
(* the planner knows every variable, and so decides every gate.                          *)

\* The planner's state has a value, or nothing was ever written.
NoNone(s) == \A v \in Vars : s[v] # None

\* It has resolved every variable and decided every step.
Decided == NothingUnknown => plan # "unknown" /\ NoNone(st)

\* The facts of a workflow compare a variable with a text.
GoodNames(nm) == \A a \in nm.facts : a \in Compare /\ a.r.k = "lit"

\* NamesOf makes such facts.
LEMMA NamesGood ==
    ASSUME Base
    PROVE  GoodNames(names)
<1>1. names.facts = Facts(wf)
  BY DEF Base, NamesOf
<1>2. wf.phases \in Seq(Phase)
  BY WorkflowsAssumption DEF Base, Workflow
<1>3. \A i \in DOMAIN wf.phases : wf.phases[i].when \in Condition
  <2>1. \A i \in DOMAIN wf.phases : wf.phases[i] \in Phase
    BY <1>2, ElementOfSeq, LenProperties
  <2>2. QED BY <2>1 DEF Phase
<1>4. \A i \in DOMAIN wf.phases : \A c \in wf.phases[i].when : \A a \in c : a \in Compare
  BY <1>3 DEF Condition
<1>5. \A a \in Facts(wf) : a \in Compare /\ a.r.k = "lit"
  BY <1>4 DEF Facts
<1>6. QED BY <1>1, <1>5 DEF GoodNames

\* A variable resolves to a value.
LEMMA ResolveKnown ==
    ASSUME NEW s, NEW nm, NoNone(s), GoodNames(nm), nm.external = {}, NEW t \in Operand
    PROVE  Resolve(t, s, nm) # None
<1>1. CASE t.k = "lit"
  <2>1. t.x \in Vals
    BY <1>1 DEF Operand, Lit, Var
  <2>2. QED BY <1>1, <2>1, ValuesAssumption DEF Resolve
<1>2. CASE t.k # "lit"
  <2>1. t.x \in Vars
    BY <1>2 DEF Operand, Lit, Var
  <2>2. Resolve(t, s, nm) = ResolveVar(t.x, s, nm)
    BY <1>2 DEF Resolve
  <2>3. CASE s[t.x] # Absent
    BY <2>1, <2>2, <2>3 DEF ResolveVar, NoNone
  <2>4. CASE s[t.x] = Absent /\ Equal(t.x, nm) # {}
    <3>1. \A y \in Equal(t.x, nm) : y \in Vals
      <4> SUFFICES ASSUME NEW a \in nm.facts PROVE a.r.x \in Vals
        BY DEF Equal
      <4>1. a.r \in Operand /\ a.r.k = "lit"
        BY DEF GoodNames, Compare
      <4>2. QED BY <4>1 DEF Operand, Lit, Var
    <3>2. (CHOOSE y \in Equal(t.x, nm) : TRUE) \in Equal(t.x, nm)
      BY <2>4
    <3>3. QED BY <2>2, <2>4, <3>1, <3>2, ValuesAssumption DEF ResolveVar
  <2>5. CASE s[t.x] = Absent /\ Equal(t.x, nm) = {}
    <3>1. ResolveVar(t.x, s, nm) = Empty
      BY <2>5 DEF ResolveVar
    <3>2. QED BY <2>2, <3>1, ValuesAssumption
  <2>6. QED BY <2>3, <2>4, <2>5
<1>3. QED BY <1>1, <1>2

\* A comparison of resolved operands is decided, and so is a condition made of such.
LEMMA EvalDecided ==
    ASSUME NEW s, NEW nm, NoNone(s), GoodNames(nm), nm.external = {}, NEW e \in Condition, Parsed(e)
    PROVE  Eval(e, s, nm) \in {"yes", "no"}
<1>1. ASSUME NEW c \in e, NEW a \in c
      PROVE  EvalAtom(a, s, nm) \in {"yes", "no"}
  <2>1. a.l \in Operand /\ a.r \in Operand /\ a.op # "contains"
    BY <1>1 DEF Condition, Compare, Parsed, Uses
  <2>2. Resolve(a.l, s, nm) # None /\ Resolve(a.r, s, nm) # None
    BY <2>1, ResolveKnown
  <2>3. EvalAtom(a, s, nm) = Three(a.op = "!=")
        \/ EvalAtom(a, s, nm) = Three((Resolve(a.l, s, nm) = Resolve(a.r, s, nm)) <=> (a.op # "!="))
    BY <2>1, <2>2 DEF EvalAtom
  <2>4. QED BY <2>3 DEF Three
<1>2. \A c \in e : \A a \in c : EvalAtom(a, s, nm) # "no" => EvalAtom(a, s, nm) = "yes"
  BY <1>1
<1>3. (\E c \in e : \A a \in c : EvalAtom(a, s, nm) # "no")
        => \E c \in e : \A a \in c : EvalAtom(a, s, nm) = "yes"
  BY <1>2
<1>4. ~Uses(e, "(==)")
  BY DEF Parsed
<1>5. QED BY <1>3, <1>4 DEF Eval

\* So is a step.
LEMMA VerdictDecided ==
    ASSUME Base, NothingUnknown, NoNone(st), row > 0
    PROVE  Verdict(Cur) \in {"yes", "no"}
<1>1. Cur \in Step /\ Cur \in StepsOf(wf)
  BY CurGates
<1>2. GoodNames(names) /\ names.external = {} /\ \A e \in GatesOf(Cur) : Parsed(e)
  BY <1>1, NamesGood DEF NothingUnknown
<1>3. \A e \in GatesOf(Cur) : Eval3(e) \in {"yes", "no"}
  BY <1>1, <1>2, GateTypes, EvalDecided DEF Eval3
<1>4. /\ Eval3(Cur.when) \in {"yes", "no"} /\ Eval3(Cur.loopWhen) \in {"yes", "no"}
      /\ Eval3(Cur.skip) \in {"yes", "no"} /\ Eval3(Cur.loopSkip) \in {"yes", "no"}
  BY <1>3 DEF GatesOf
<1>5. /\ And3(Eval3(Cur.when), Eval3(Cur.loopWhen)) \in {"yes", "no"}
      /\ Or3(Eval3(Cur.skip), Eval3(Cur.loopSkip)) \in {"yes", "no"}
  BY <1>4 DEF And3, Or3
<1>6. QED BY <1>5 DEF Verdict

\* A register entry of such a workflow stores a text, or leaves the variable as it was.
LEMMA RegisterDecided ==
    ASSUME Base, NothingUnknown, NoNone(st), plan # "unknown", DoRegister
    PROVE  NoNone(st')
<1> DEFINE r == Cur.register[reg]
<1>1. /\ row \in DOMAIN Rows /\ reg \in DOMAIN Cur.register
      /\ st' = IF plan = "no" THEN st ELSE [st EXCEPT ![r.name] = PlannedRegister(r)]
  BY DEF DoRegister
<1>2. Cur \in Step /\ row > 0 /\ Rows \in RowsOf(wf)
  BY <1>1, CurIsStep
<1>3. r \in Register
  BY <1>1, <1>2, StepTypes
<1>4. r.k = "value" /\ r.value.k = "lit" /\ Parsed(r.when)
  <2>1. Cur \in StepsOf(wf)
    BY <1>2, CurGates
  <2>2. r.when \in GatesOf(Cur)
    BY <1>1 DEF GatesOf
  <2>3. QED BY <1>1, <2>1, <2>2 DEF NothingUnknown
<1> HIDE DEF r
<1>5. r.value.x \in Vals /\ r.name \in Vars /\ r.when \in Condition
  BY <1>3, <1>4 DEF Register, Operand, Lit, Var
<1>6. PlannedRegister(r) \in {r.value.x, st[r.name]}
  <2>1. GoodNames(names) /\ names.external = {}
    BY NamesGood DEF NothingUnknown
  <2>2. Eval3(r.when) \in {"yes", "no"}
    BY <1>4, <1>5, <2>1, EvalDecided DEF Eval3
  <2>3. QED BY <1>4, <2>2 DEF PlannedRegister, Substituted
<1>7. PlannedRegister(r) # None
  BY <1>5, <1>6, ValuesAssumption DEF NoNone
<1>8. st \in [Vars -> Known \cup {None, Absent}]
  BY DEF Base, TypeOK
<1>9. QED BY <1>1, <1>5, <1>7, <1>8 DEF NoNone

\* A branch stores its text.
LEMMA BranchDecided ==
    ASSUME Base, NothingUnknown, NoNone(st), plan # "unknown", row \in DOMAIN Rows, Branched
    PROVE  NoNone(st')
<1>1. TheBranch \in Branch
  BY CurIsStep, StepTypes DEF TheBranch
<1>2. \A v \in Vars : TheBranch[v] = Keep \/ TheBranch[v] \in Operand \cup {Mixed}
  BY <1>1 DEF Branch
<1>3. ASSUME NEW v \in Vars PROVE Planned(TheBranch)[v] # None
  <2>1. \/ Planned(TheBranch)[v] = st[v]
        \/ TheBranch[v] # Keep /\ TheBranch[v].k = "lit" /\ Planned(TheBranch)[v] = TheBranch[v].x
        \/ Planned(TheBranch)[v] = Text
    BY DEF Planned
  <2>2. CASE Planned(TheBranch)[v] = st[v]
    BY <2>2 DEF NoNone
  <2>3. CASE TheBranch[v] # Keep /\ TheBranch[v].k = "lit" /\ Planned(TheBranch)[v] = TheBranch[v].x
    <3>1. TheBranch[v].x \in Vals \cup {Text}
      BY <1>2, <2>3 DEF Operand, Mixed, Lit, Var
    <3>2. QED BY <2>3, <3>1, ValuesAssumption
  <2>4. CASE Planned(TheBranch)[v] = Text
    BY <2>4, ValuesAssumption
  <2>5. QED BY <2>1, <2>2, <2>3, <2>4
<1>4. \/ st' = Planned(TheBranch)
      \/ st' = [Planned(TheBranch) EXCEPT ![Flag] = Yes]
  BY DEF Branched
<1>5. Yes # None /\ Flag \in Vars
  BY WorkflowsAssumption, ValuesAssumption
<1>6. CASE st' = Planned(TheBranch)
  BY <1>3, <1>6 DEF NoNone
<1>7. CASE st' = [Planned(TheBranch) EXCEPT ![Flag] = Yes]
  <2>1. \A v \in Vars : st'[v] = IF v = Flag THEN Yes ELSE Planned(TheBranch)[v]
    BY <1>5, <1>7 DEF Planned
  <2>2. QED BY <1>3, <1>5, <2>1 DEF NoNone
<1>8. QED BY <1>4, <1>6, <1>7

\* Everything is decided at the start.
LEMMA DecidedInit == Init => Decided
<1> SUFFICES ASSUME Init PROVE Decided
  OBVIOUS
<1>1. st \in [Vars -> Known \cup {Absent}] /\ plan = "no"
  BY WorkflowsAssumption DEF Init, Workflow
<1>2. None \notin Known \cup {Absent}
  BY ValuesAssumption DEF Known
<1>3. QED BY <1>1, <1>2 DEF Decided, NoNone

\* Every step leaves everything decided.
LEMMA DecidedStep == Base /\ Decided /\ [Next]_vars => Decided'
<1> SUFFICES ASSUME Base, Decided, [Next]_vars, NothingUnknown'
             PROVE  plan' # "unknown" /\ NoNone(st')
  BY DEF Decided
<1>1. NothingUnknown
  <2>1. wf' = wf /\ names' = names
    BY DEF Next, EnterPhase, Decide, DoRegister, Finish, fixed, vars
  <2>2. QED BY <2>1 DEF NothingUnknown
<1>2. plan # "unknown" /\ NoNone(st)
  BY <1>1 DEF Decided
<1>3. CASE UNCHANGED vars
  BY <1>2, <1>3 DEF vars, NoNone
<1>4. CASE EnterPhase
  <2>1. UNCHANGED plan /\ (st' = st \/ st' = [st EXCEPT ![Flag] = Yes])
    BY <1>4 DEF EnterPhase
  <2>2. NoNone(st')
    BY <1>2, <2>1, WorkflowsAssumption, ValuesAssumption DEF NoNone, Base, TypeOK
  <2>3. QED BY <1>2, <2>1, <2>2
<1>5. CASE Decide
  <2>1. row \in DOMAIN Rows /\ row > 0 /\ st' = st
    BY <1>5, CurIsStep DEF Decide
  <2>2. Verdict(Cur) \in {"yes", "no"}
    BY <1>1, <1>2, <2>1, VerdictDecided
  <2>3. plan' # "unknown"
    BY <1>2, <1>5, <2>2 DEF Decide, Three
  <2>4. QED BY <1>2, <2>1, <2>3
<1>6. CASE DoRegister
  BY <1>1, <1>2, <1>6, RegisterDecided DEF DoRegister
<1>7. CASE Finish
  <2>1. row \in DOMAIN Rows /\ Branched /\ UNCHANGED plan
    BY <1>7 DEF Finish
  <2>2. QED BY <1>1, <1>2, <2>1, BranchDecided
<1>8. QED BY <1>3, <1>4, <1>5, <1>6, <1>7 DEF Next

\* rollback_plan: a step whose verdict is DEPENDS depends on something the workflow cannot
\* know, a captured value, a copied variable, one supplied from outside or a condition that
\* does not parse; in a workflow without these every step is RUN or SKIP.
THEOREM Reasons == Spec => []DependsForAReason
<1>1. Base /\ [Next]_vars => Base'
  BY TypeStep
<1>2. Init => Base /\ Decided
  BY TypeInit, DecidedInit
<1>3. Base /\ Decided => DependsForAReason
  <2> SUFFICES ASSUME Base, Decided, NothingUnknown
               PROVE  plan # "unknown" /\ (row \in DOMAIN Rows => Verdict(Cur) # "unknown")
    BY DEF DependsForAReason
  <2>1. plan # "unknown" /\ NoNone(st)
    BY DEF Decided
  <2>2. ASSUME row \in DOMAIN Rows PROVE Verdict(Cur) # "unknown"
    <3>1. row > 0
      BY <2>2, CurIsStep
    <3>2. Verdict(Cur) \in {"yes", "no"}
      BY <2>1, <3>1, VerdictDecided
    <3>3. QED BY <3>2
  <2>3. QED BY <2>1, <2>2
<1>4. QED BY <1>1, <1>2, <1>3, DecidedStep, PTL DEF Spec
================================================================================
