----------------------------- MODULE MCShellSession -----------------------------
(* Instances of ShellSession for TLC. *)
EXTENDS ShellSession

PlainKinds == {"plain"}
AllKinds   == EngineKinds
================================================================================
