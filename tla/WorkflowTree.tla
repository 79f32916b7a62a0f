------------------------------ MODULE WorkflowTree ------------------------------
(***************************************************************************)
(* A workflow as its YAML file nests it, and what is made of it: the       *)
(* numbered index of the simulator (_flatten_steps, Workflow.__init__),    *)
(* the --fail selectors that name steps by these numbers, and the order in *)
(* which mop_runner.py takes the steps of a phase (flatten_phase_steps).   *)
(*                                                                         *)
(* A workflow is a sequence of phases [key, name, when, steps]; an item of *)
(* `steps` is a step or a loop, with steps of its own.  The definitions    *)
(* recurse over the nesting.                                               *)
(***************************************************************************)
EXTENDS Naturals, Sequences

Indexed(step, phase, si, gi) ==
    <<[step |-> step, phase |-> phase, step_idx |-> si, global_idx |-> gi]>>

\* Mutant: the steps of a loop are numbered from 1.
RECURSIVE FlattenAnew(_, _, _, _)
FlattenAnew(items, phase, si, gi) ==
    IF items = <<>> THEN <<>>
    ELSE LET it == Head(items)
             first == IF it.type = "loop" THEN FlattenAnew(it.steps, phase, 1, gi)
                      ELSE Indexed(it, phase, si, gi)
         IN  first \o FlattenAnew(Tail(items), phase, si + Len(first), gi + Len(first))

\* _flatten_steps: the steps of a loop take the numbers where the loop stands.
RECURSIVE Flatten(_, _, _, _)
Flatten(items, phase, si, gi) ==
    IF items = <<>> THEN <<>>
    ELSE LET it == Head(items)
             first == IF it.type = "loop" THEN Flatten(it.steps, phase, si, gi)
                      ELSE Indexed(it, phase, si, gi)
         IN  first \o Flatten(Tail(items), phase, si + Len(first), gi + Len(first))

\* Workflow.__init__: the index of phase i and those behind it.
RECURSIVE IndexFrom(_, _, _)
IndexFrom(w, i, gi) ==
    IF i > Len(w) THEN <<>>
    ELSE LET flat == Flatten(w[i].steps, w[i], 1, gi)
         IN  flat \o IndexFrom(w, i + 1, gi + Len(flat))

IndexOf(w) == IndexFrom(w, 1, 1)

\* flatten_phase_steps
RECURSIVE Walk(_)
Walk(items) ==
    IF items = <<>> THEN <<>>
    ELSE (IF Head(items).type = "loop" THEN Walk(Head(items).steps) ELSE <<Head(items)>>)
         \o Walk(Tail(items))

--------------------------------------------------------------------------------
\* FailSelector.parse: --fail 'PHASE:n' and --fail-global n.
Selectors == [by_phase : SUBSET (STRING \X Nat), globals : SUBSET Nat]

\* FailSelector.hits; names are compared without regard to case.
Hits(fail, entry) ==
    \/ entry.global_idx \in fail.globals
    \/ \E p \in {entry.phase.key, entry.phase.name} : <<p, entry.step_idx>> \in fail.by_phase
================================================================================
