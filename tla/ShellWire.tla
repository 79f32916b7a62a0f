------------------------------- MODULE ShellWire -------------------------------
(***************************************************************************)
(* The two directions of one SSH shell channel between a client and the    *)
(* simulator, and what travels on them.                                    *)
(*                                                                         *)
(* Client to server: submitted lines (LineReader is modelled on its own).  *)
(* Server to client: what handle_shell sends, cut where the client's       *)
(* patterns cut it.  A result "__CMD_DONE__:0\n" is two tokens, because    *)
(* the client searches for "__CMD_DONE__:" and for "\n" separately.        *)
(***************************************************************************)
EXTENDS Naturals, Sequences

CONSTANT Exits        \* the exit codes a command may have

ASSUME ExitsAssumption == Exits \subseteq Nat /\ 0 \in Exits

VARIABLES
    up,      \* lines in flight, client -> server
    hungUp,  \* the client has closed the channel
    down     \* tokens sent by the server and not yet consumed by the client

wire == <<up, hungUp, down>>

\* What the simulated node does with a command: print and finish; print, ask for
\* a password and wait for it; finish without a prompt; sleep before finishing.
EngineKinds == {"plain", "ask", "mute", "hang"}
\* What handle_shell answers by itself.
ShellKinds  == {"blank", "stty", "exit"}

\* A submitted line.  `marker`: it carries "; echo __CMD_DONE__:$?".  `open`: it has
\* an odd number of quotes, so that the next line joins it.  n = 0: not a command
\* of the workflow.
Line == [n : Nat, kind : EngineKinds \cup ShellKinds, marker : BOOLEAN, open : BOOLEAN]

Token == [t : {"login", "out", "ask", "done", "code", "prompt", "more"}, n : Nat, v : Exits]

Say(t, n)  == [t |-> t, n |-> n, v |-> 0]
Code(n, x) == [t |-> "code", n |-> n, v |-> x]

WireInit(greeting) == up = <<>> /\ hungUp = FALSE /\ down = greeting

WireTypeOK == up \in Seq(Line) /\ hungUp \in BOOLEAN /\ down \in Seq(Token)
================================================================================
