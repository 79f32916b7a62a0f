------------------------------- MODULE MCWorkflow -------------------------------
(***************************************************************************)
(* Workflows for TLC: the steps of a run, and of the overlapping calls.    *)
(***************************************************************************)
EXTENDS WorkflowRun

S(kind, sends) == [kind |-> kind, sends |-> sends]

\* A local and an sftp step; two steps with one template, too far apart to be
\* confused by a look-ahead of 2; a template that two command lines match.
PlainSteps ==
    <<S("sbc", {"a"}), S("local", {"a"}), S("repo", {"b", "c"}), S("sftp", {}),
      S("sbc", {"a"}), S("repo", {"d"})>>
PlainLoops == {{3}, {6}}

================================================================================
