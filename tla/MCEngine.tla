-------------------------------- MODULE MCEngine --------------------------------
(***************************************************************************)
(* A workflow and a scenario for TLC.                                      *)
(***************************************************************************)
EXTENDS Engine

S(kind, sends) == [kind |-> kind, sends |-> sends]
R(profile, sends, occ, corrupt) ==
    [profile |-> profile, sends |-> sends, occurrences |-> occ, corrupt |-> corrupt]

\* "sha" is sent by no step at first, by the last one when the cursor has come near.
RaceSteps == <<S("sbc", {"a"}), S("local", {"sha"}), S("repo", {"ls"}), S("sbc", {"a", "sha"})>>

NodeAndRepo == [s \in Sessions |-> IF s = "node" THEN "sbc" ELSE "repo"]

\* The transient checksum fault of the annotated scenario, a rule for the 2nd
\* match that shadows a rule for all, and a rule for the repo server.
MixedRules ==
    <<R("sbc", {"sha"}, {1}, TRUE), R("any", {"ls", "sha"}, {2}, FALSE),
      R("repo", {"ls"}, {}, FALSE), R("any", {"ls"}, {}, FALSE)>>
================================================================================
