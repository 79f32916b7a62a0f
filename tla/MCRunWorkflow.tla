------------------------------ MODULE MCRunWorkflow ------------------------------
(***************************************************************************)
(* Three workflows, with the failures a user may ask for.                  *)
(***************************************************************************)
EXTENDS RunWorkflow

MCVars == {"COPIED", "ERRORMSG", "READY"}
MCVals == {"", "true", "100%", "cannot create", "OK", "WRITE_OK"}
MCGiven == [v \in MCVars |-> "absent"]
MCSample == "COPIED" :> "100%" @@ "ERRORMSG" :> "cannot create" @@ "READY" :> "OK"
MCNodeKind == "sbc" :> "sbc" @@ "repo" :> "repo" @@ "local" :> "local" @@ "lost" :> "sbc"

Eq(v, x) == {[l |-> Var(v), op |-> "==", r |-> Lit(x)]}
Set(v) == {[l |-> Var(v), op |-> "!=", r |-> Lit("")]}

Off == [k |-> "off"]
Expr(e) == [k |-> "expr", expr |-> {e}]
Token(t) == [k |-> "regex", token |-> t, finds |-> {t}]
Regex(v) == [k |-> "regex", name |-> v, finds |-> {MCSample[v]}]
To(v, x) == [name |-> v, value |-> x]
Value(v, e, x) == [k |-> "value", name |-> v, when |-> {e}, value |-> x]

\* A step that is sent; the EXCEPTs below say what is special about one.
Plain(node, send) ==
    [type |-> "step", node |-> node, send |-> send, uses |-> {}, when |-> Always,
     register |-> <<>>, check |-> Off, success |-> <<>>, warns |-> FALSE, warning |-> <<>>,
     onFailure |-> "stop"]
Tested(node, send, vs, e) ==
    [Plain(node, send) EXCEPT !.register = [i \in DOMAIN vs |-> Regex(vs[i])], !.check = Expr(e)]
Loop(items) == [type |-> "loop", steps |-> items]
APhase(key, when, items) == [key |-> key, name |-> key \o "_NAME", when |-> when, steps |-> items]

\* A loop within a loop between the steps of a phase, whose failure makes the next phase
\* run; that one tests the same variables again.
Nested ==
    <<APhase("pre", Always,
        <<Tested("sbc", "a", <<"COPIED">>, Set("COPIED")),
          Loop(<<Plain("local", "none"),
                 [Tested("repo", "b", <<"ERRORMSG">>, Eq("ERRORMSG", "")) EXCEPT
                    !.warns = TRUE, !.warning = <<To("READY", Lit("true"))>>],
                 Loop(<<[Plain("sbc", "c") EXCEPT !.check = Token("WRITE_OK")]>>)>>),
          [Tested("sbc", "d", <<"COPIED", "ERRORMSG">>,
                  Eq("COPIED", "100%") \cup Eq("ERRORMSG", "")) EXCEPT !.uses = {"COPIED"}]>>),
      APhase("back", {Eq("READY", "true")},
        <<[Tested("repo", "e", <<"ERRORMSG">>, Eq("ERRORMSG", "")) EXCEPT !.onFailure = "continue"],
          [Tested("sbc", "f", <<"COPIED">>, Set("COPIED")) EXCEPT !.onFailure = "continue"],
          [Plain("sbc", "g") EXCEPT !.check = [k |-> "exit"]]>>)>>

\* Gates that become true by what is registered, steps for nodes that are not there, and
\* more steps skipped at once than the look-ahead.
Gated ==
    <<APhase("pre", Always,
        <<[Plain("sbc", "a") EXCEPT
             !.register = <<Regex("READY"), Value("COPIED", Set("READY"), Var("READY")),
                            Value("ERRORMSG", Eq("READY", ""), Var("COPIED"))>>,
             !.check = Expr(Set("READY")), !.success = <<To("ERRORMSG", Lit("")), To("COPIED", Var("ERRORMSG"))>>],
          [Plain("sbc", "b") EXCEPT !.when = {Set("COPIED")}],
          Plain("lost", "c"), Plain("repo", "none"),
          Tested("repo", "d", <<"READY">>, Set("READY")),
          [Plain("sbc", "e") EXCEPT !.uses = {"COPIED"}]>>),
      APhase("act", Always,
        <<Tested("sbc", "f", <<"COPIED">>, Set("COPIED")), Plain("sbc", "g")>>)>>

\* The same template twice.
Twice ==
    <<APhase("pre", Always,
        <<Tested("sbc", "a", <<"COPIED">>, Set("COPIED")), Plain("sbc", "b"),
          Tested("sbc", "a", <<"ERRORMSG">>, Eq("ERRORMSG", "")), Plain("repo", "c")>>)>>

MCWorkflows == {Nested, Gated, Twice}
MCFailSelectors ==
    {[by_phase |-> p, globals |-> g] :
        p \in {{}, {<<"pre", 1>>}, {<<"pre", 3>>}, {<<"pre_NAME", 5>>, <<"back", 2>>}, {<<"act", 1>>}},
        g \in {{}, {3}, {6}}}
================================================================================
