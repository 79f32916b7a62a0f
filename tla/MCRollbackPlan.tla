----------------------------- MODULE MCRollbackPlan -----------------------------
(***************************************************************************)
(* Workflows of a phase that prepares, an activity phase of two steps and  *)
(* a rollback of two.  X and Y are written by steps, F is the flag; E is   *)
(* written by none, and in some of the workflows no command uses it, only  *)
(* conditions do.                                                          *)
(***************************************************************************)
EXTENDS RollbackPlan

CONSTANTS X, Y, E, F, A

MCVars == {X, Y, E, F}
MCVals == {Empty, Yes, A}

MCContaining == {<<x, x>> : x \in MCVals} \cup {<<x, Empty>> : x \in MCVals}

Is(v, t)    == [l |-> Var(v), op |-> "==", r |-> t]
IsNot(v, t) == [l |-> Var(v), op |-> "!=", r |-> t]
None4 == [v \in MCVars |-> Keep]

Plain == [when |-> Always, skip |-> Never, loop |-> 0, loopWhen |-> Always, loopSkip |-> Never,
          outer |-> 0, outerWhen |-> Always, outerSkip |-> Never,
          uses |-> {}, register |-> <<>>, success |-> None4, failure |-> None4,
          onFailure |-> "stop"]

Value(v, c, t) == [k |-> "value", name |-> v, when |-> c, value |-> t]
Capture(v) == [k |-> "capture", name |-> v, when |-> Always, value |-> Lit(Empty)]

Prepares ==
    { <<[Plain EXCEPT !.register = <<Capture(X)>>, !.success = [None4 EXCEPT ![Y] = Lit(Yes)]]>>,
      <<[Plain EXCEPT !.when = {{Is(E, Lit(A))}}, !.register = <<Value(X, Always, Lit(A))>>]>>,
      <<[Plain EXCEPT !.when = {{Is(E, Lit(A))}}, !.uses = {E},
                      !.register = <<Value(X, Always, Lit(A))>>]>>,
      <<[Plain EXCEPT !.uses = {E}, !.register = <<Value(X, {{Is(E, Lit(A))}}, Lit(A))>>]>>,
      <<[Plain EXCEPT !.uses = {E}, !.success = [None4 EXCEPT ![Y] = Var(E)]]>>,
      <<[Plain EXCEPT !.when = {{Is(X, Lit(A))}}, !.success = [None4 EXCEPT ![Y] = Lit(Yes)]],
        [Plain EXCEPT !.uses = {E}, !.register = <<Value(X, Always, Lit(A))>>]>> }

Acts ==
    { [Plain EXCEPT !.register = <<Value(Y, {{Is(X, Lit(A))}, {Is(X, Lit(Yes))}}, Var(X))>>],
      [Plain EXCEPT !.when = {{Is(X, Lit(A)), IsNot(Y, Lit(Yes))}},
                    !.success = [None4 EXCEPT ![Y] = Lit(A)]],
      [Plain EXCEPT !.success = [None4 EXCEPT ![X] = Mixed]] }

Arming(on, y, s) ==
    [s EXCEPT !.failure = [None4 EXCEPT ![F] = Lit(Yes), ![Y] = y], !.onFailure = on]

Activities ==
    LET both == {<<s, t>> \in Acts \X Acts : s # t}
    IN  {<<p[1], Arming("stop", Lit(Empty), p[2])>> : p \in both}
            \cup {<<Arming("continue", Keep, p[1]), p[2]>> : p \in both}

Looped(w, sk, s) == [s EXCEPT !.loop = 1, !.loopWhen = w, !.loopSkip = sk]

Within(sk, s) == [s EXCEPT !.outer = 2, !.outerSkip = sk]

Backs ==
    { <<[Plain EXCEPT !.when = {{Is(X, Lit(A))}}, !.success = [None4 EXCEPT ![Y] = Lit(A)]],
        [Plain EXCEPT !.skip = {{Is(Y, Lit(A))}, {Is(E, Lit(Yes))}}]>>,
      <<[Plain EXCEPT !.when = {{Is(X, Var(Y))}}, !.register = <<Value(X, Always, Lit(A))>>],
        [Plain EXCEPT !.when = {{IsNot(X, Lit(A)), IsNot(F, Lit(Empty))}}]>>,
      <<Within(Never, Looped({{IsNot(X, Lit(A))}}, Never,
               [Plain EXCEPT !.success = [None4 EXCEPT ![Y] = Lit(Empty)]])),
        Within(Never, Looped({{IsNot(X, Lit(A))}}, Never,
               [Plain EXCEPT !.skip = {{Is(Y, Lit(Yes))}}, !.success = [None4 EXCEPT ![X] = Lit(A)]]))>>,
      <<Looped(Always, {{Is(Y, Lit(Yes))}},
               [Plain EXCEPT !.when = {{IsNot(E, Lit(A))}},
                             !.register = <<Value(Y, {{Is(X, Lit(A))}}, Lit(Yes))>>]),
        Looped(Always, {{Is(Y, Lit(Yes))}}, Plain)>>,
      <<[Plain EXCEPT !.when = {{Is(E, Lit(Yes))}}, !.register = <<Value(Y, Always, Var(X))>>],
        [Plain EXCEPT !.when = {{Is(X, Var(Y))}, {IsNot(E, Lit(Empty))}}]>>,
      <<Within({{Is(X, Lit(Empty)), IsNot(E, Lit(Yes))}},
               Looped(Always, Never, [Plain EXCEPT !.success = [None4 EXCEPT ![F] = Lit(Yes)]])),
        Within({{Is(X, Lit(Empty)), IsNot(E, Lit(Yes))}},
               [Plain EXCEPT !.when = {{IsNot(Y, Lit(A))}}])>>,
      <<[Plain EXCEPT !.success = [None4 EXCEPT ![F] = Lit(Empty)]],
        [Plain EXCEPT !.when = {{Is(F, Lit(Yes))}}]>>,
      <<Looped({{Is(E, Lit(Yes))}, {[Is(Y, Var(X)) EXCEPT !.op = "contains"]}}, Never,
               [Plain EXCEPT !.success = [None4 EXCEPT ![X] = Lit(Yes)]]),
        [Plain EXCEPT !.when = {{[IsNot(X, Lit(A)) EXCEPT !.op = "(==)"]}}]>> }

Gates == {Always, {{IsNot(E, Lit(A))}}, {{Is(E, Lit(Yes))}}, {{Is(X, Lit(A))}},
          {{[Is(X, Lit(Empty)) EXCEPT !.op = "(==)"], IsNot(Y, Lit(A))}}}

MCWorkflows ==
    {[globals |-> [v \in MCVars |-> IF v = F THEN Empty ELSE Absent],
      phases |-> <<[when |-> Always, rows |-> p], [when |-> g, rows |-> a]>>,
      back |-> r] :
        p \in Prepares, g \in Gates, a \in Activities, r \in Backs}
================================================================================
