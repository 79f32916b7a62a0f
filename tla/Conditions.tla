------------------------------- MODULE Conditions -------------------------------
(***************************************************************************)
(* The conditions of a workflow, `${A == "x" && B != C || ...}`, as the    *)
(* engine evaluates them over its variables, and as gen_command_diagram.py *)
(* does over what it knows of these variables without a run.               *)
(*                                                                         *)
(* A condition is a set of clauses, one of which must hold; a clause is a  *)
(* set of comparisons, all of which must hold.  A comparison may be within *)
(* parentheses, "(==)", or use a word, "contains": the one is beyond what  *)
(* the planner parses, the other beyond mop_runner.py too.  Comparisons by *)
(* order do not occur in the workflows and are left out.                   *)
(***************************************************************************)
EXTENDS Naturals, Sequences

CONSTANTS
    Vars,       \* variable names
    Vals,       \* strings a variable can hold
    Empty,      \* "", what an unset variable is to the engine
    None,       \* known to be written, value not known
    Absent,     \* not in the planner's state
    Text,       \* a text with variables in it, equal to no string in Vals: the template to
                \* the planner, what it fills in to the engine
    Containing  \* pairs of strings of which the first contains the second

ASSUME ValuesAssumption ==
    /\ Empty \in Vals
    /\ None \notin Vals /\ Absent \notin Vals /\ Text \notin Vals
    /\ None # Absent /\ None # Text /\ Absent # Text

Known == Vals \cup {Text}
Lit(x) == [k |-> "lit", x |-> x]
Var(x) == [k |-> "var", x |-> x]
Operand == {Lit(x) : x \in Vals} \cup {Var(x) : x \in Vars}
Compare == [l : Operand, op : {"==", "!=", "(==)", "contains"}, r : Operand]
Condition == SUBSET (SUBSET Compare)

Always == {{}}     \* no `when`
Never  == {}       \* no `skip_when`

Verdicts == {"yes", "no", "unknown"}

--------------------------------------------------------------------------------
\* A run: every variable has a value, the empty string if unset.
Bound(t, b) == IF t.k = "lit" THEN t.x ELSE b[t.x]

AtomHolds(a, b) ==
    IF a.op = "contains" THEN <<Bound(a.l, b), Bound(a.r, b)>> \in Containing
    ELSE (Bound(a.l, b) = Bound(a.r, b)) <=> (a.op # "!=")

Holds(e, b) == \E c \in e : \A a \in c : AtomHolds(a, b)

\* eval_expr of mop_runner.py takes a condition that is no Python for false.
Uses(e, op) == \E c \in e : \E a \in c : a.op = op
HoldsInPython(e, b) == ~Uses(e, "contains") /\ Holds(e, b)

--------------------------------------------------------------------------------
\* What the planner derives from the workflow before it evaluates anything: the names
\* some step writes, the names supplied from outside, and the single facts in the gates
\* of the phases that ran.
Names == [written : SUBSET Vars, external : SUBSET Vars, facts : SUBSET Compare]

NotEq(x, nm) == {a.r.x : a \in {f \in nm.facts : f.op = "!=" /\ f.l.x = x}}
Equal(x, nm) == {a.r.x : a \in {f \in nm.facts : f.op = "==" /\ f.l.x = x}}

\* Mutant: a name that is written elsewhere counts as not known.
ResolveVarUnwritten(x, st, nm) ==
    IF st[x] # Absent       THEN st[x]
    ELSE IF Equal(x, nm) # {} THEN CHOOSE v \in Equal(x, nm) : TRUE
    ELSE IF x \in nm.written \/ x \in nm.external THEN None ELSE Empty

\* _resolve of a variable.
ResolveVar(x, st, nm) ==
    IF st[x] # Absent         THEN st[x]
    ELSE IF Equal(x, nm) # {} THEN CHOOSE v \in Equal(x, nm) : TRUE
    ELSE IF x \in nm.written \/ x \notin nm.external THEN Empty ELSE None

Resolve(t, st, nm) == IF t.k = "lit" THEN t.x ELSE ResolveVar(t.x, st, nm)

\* A fact that settles the comparison although the value is not known.
Settled(a, st, nm) ==
    /\ a.l.k = "var" /\ st[a.l.x] = Absent
    /\ a.r.k = "lit" /\ a.r.x \in NotEq(a.l.x, nm)

Three(p) == IF p THEN "yes" ELSE "no"

\* A comparison by a word does not parse.
EvalAtom(a, st, nm) ==
    LET l == Resolve(a.l, st, nm)
        r == Resolve(a.r, st, nm)
    IN  IF a.op = "contains"           THEN "unknown"
        ELSE IF Settled(a, st, nm)     THEN Three(a.op = "!=")
        ELSE IF l = None \/ r = None   THEN "unknown"
        ELSE Three((l = r) <=> (a.op # "!="))

\* eval_expr of gen_command_diagram.py; nothing is known of a condition with parentheses.
Eval(e, st, nm) ==
    IF Uses(e, "(==)")                                            THEN "unknown"
    ELSE IF \E c \in e : \A a \in c : EvalAtom(a, st, nm) = "yes"      THEN "yes"
    ELSE IF \E c \in e : \A a \in c : EvalAtom(a, st, nm) # "no"  THEN "unknown"
    ELSE "no"

And3(p, q) == IF p = "no" \/ q = "no" THEN "no"
              ELSE IF p = "unknown" \/ q = "unknown" THEN "unknown" ELSE "yes"
Or3(p, q)  == IF p = "yes" \/ q = "yes" THEN "yes"
              ELSE IF p = "unknown" \/ q = "unknown" THEN "unknown" ELSE "no"
================================================================================
