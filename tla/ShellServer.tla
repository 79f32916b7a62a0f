------------------------------ MODULE ShellServer ------------------------------
(***************************************************************************)
(* handle_shell of clicr_sim.py: the server's end of one shell channel.    *)
(*                                                                         *)
(* The engine's answer to a command is abstracted to its kind (ShellWire)  *)
(* and to whether it printed anything; every send of one step is one       *)
(* append to `down`, which the client receives in pieces of any length.    *)
(* A send after the client hung up may raise: the except clause ends the   *)
(* session.                                                                *)
(***************************************************************************)
EXTENDS ShellWire

CONSTANTS
    NLogin,       \* len(profile.interactive)
    Interactive   \* an OpenSSH or PuTTY user, not the automation client

ASSUME NLoginAssumption == NLogin \in Nat
ASSUME InteractiveAssumption == Interactive \in BOOLEAN

VARIABLES
    spc,        \* where handle_shell is
    greeted,    \* login prompts answered so far
    current,    \* the command being joined, or being answered
    performed,  \* history: the commands given to engine.handle, with their exit codes
    swallowed   \* history: the lines consumed as the reply to a password prompt

serverVars == <<spc, greeted, current, performed, swallowed>>

NoLine == [n |-> 0, kind |-> "blank", marker |-> FALSE, open |-> FALSE]

Prompt(n) == Say("prompt", n)

\* An interactive user is not asked the login prompts.
ServerInit ==
    /\ spc = IF NLogin = 0 \/ Interactive THEN "read" ELSE "login"
    /\ greeted = 0 /\ current = NoLine
    /\ performed = <<>> /\ swallowed = <<>>

\* The first thing the server sends.
Greeting == IF spc = "login" THEN <<Say("login", 1)>> ELSE <<Prompt(0)>>

ServerTypeOK ==
    /\ spc \in {"login", "read", "cont", "ask", "hang", "closed"}
    /\ greeted \in 0..NLogin
    /\ current \in Line
    /\ performed \in Seq([n : Nat, kind : EngineKinds \cup ShellKinds, exit : Exits])
    /\ swallowed \in Seq(Nat)
    /\ spc = "login" => greeted < NLogin
    /\ spc \in {"ask", "hang"} => performed # <<>>

--------------------------------------------------------------------------------
\* Send `text` and go to `next`; on a channel the client closed the send is lost or raises.
Send(text, next) ==
    \/ ~hungUp /\ down' = down \o text /\ spc' = next
    \/ hungUp /\ UNCHANGED down /\ spc' \in {next, "closed"}

\* Mutant: the marker is cut off before the exit code.
MarkerNoCode(l, x) == IF l.marker THEN <<Say("done", l.n)>> ELSE <<>>

Marker(l, x) == IF l.marker THEN <<Say("done", l.n), Code(l.n, x)>> ELSE <<>>
Outputs(n)   == {<<>>, <<Say("out", n)>>}

\* Built-ins of the shell itself: an empty command, the echo switches.
Answered(l) ==
    /\ l.kind \in {"blank", "stty"}
    /\ Send(Marker(l, 0) \o <<Prompt(l.n)>>, "read")
    /\ UNCHANGED <<greeted, current, performed, swallowed>>

Leaves(l) ==
    /\ Interactive /\ l.kind = "exit"
    /\ Send(<<Say("out", l.n)>>, "closed")
    /\ UNCHANGED <<greeted, current, performed, swallowed>>

\* Mutant: the prompt is sent right after the password question.
PerformsPrompting(l) ==
    /\ l.kind \in EngineKinds \/ (l.kind = "exit" /\ ~Interactive)
    /\ \E x \in Exits :
        /\ performed' = Append(performed, [n |-> l.n, kind |-> l.kind, exit |-> x])
        /\ \/ l.kind = "ask"  /\ Send(<<Say("ask", l.n), Prompt(l.n)>>, "ask")
           \/ l.kind # "ask" /\ Send(Marker(l, x) \o <<Prompt(l.n)>>, "read")
    /\ current' = l
    /\ UNCHANGED <<greeted, swallowed>>

\* engine.handle, then its ops: everything up to the point where the server waits.
Performs(l) ==
    /\ l.kind \in EngineKinds \/ (l.kind = "exit" /\ ~Interactive)
    /\ \E x \in Exits, out \in Outputs(l.n) :
        /\ performed' = Append(performed, [n |-> l.n, kind |-> l.kind, exit |-> x])
        /\ \/ l.kind = "ask"  /\ Send(out \o <<Say("ask", l.n)>>, "ask")
           \/ l.kind = "mute" /\ Send(out, "read")
           \/ l.kind = "hang" /\ spc' = "hang" /\ UNCHANGED down
           \/ /\ l.kind \in {"plain", "exit"}
              /\ Send(out \o Marker(l, x) \o <<Prompt(l.n)>>, "read")
    /\ current' = IF l.kind \in {"ask", "hang"} THEN l ELSE current
    /\ UNCHANGED <<greeted, swallowed>>

Dispatch(l) == Answered(l) \/ Leaves(l) \/ Performs(l)

\* The continuation loop: a line with an open quote and no marker waits for more.
NeedsMore(l) == l.open /\ ~l.marker
Joined(l, m) == [l EXCEPT !.marker = l.marker \/ m.marker, !.open = (l.open # m.open)]

Joins(l) ==
    /\ NeedsMore(l)
    /\ current' = l
    /\ Send(IF Interactive THEN <<Say("more", l.n)>> ELSE <<>>, "cont")
    /\ UNCHANGED <<greeted, performed, swallowed>>

--------------------------------------------------------------------------------
\* read_line returned a line: the main loop and its continuation loop.
ReadCommand ==
    /\ spc \in {"read", "cont"} /\ up # <<>>
    /\ up' = Tail(up) /\ UNCHANGED hungUp
    /\ LET l == IF spc = "cont" THEN Joined(current, Head(up)) ELSE Head(up)
       IN  Joins(l) \/ (~NeedsMore(l) /\ Dispatch(l))

LoginReply ==
    /\ spc = "login" /\ up # <<>>
    /\ up' = Tail(up) /\ greeted' = greeted + 1
    /\ IF greeted' < NLogin THEN Send(<<Say("login", greeted' + 1)>>, "login")
                            ELSE Send(<<Prompt(0)>>, "read")
    /\ UNCHANGED <<hungUp, current, performed, swallowed>>

\* Mutant: the question is asked again after every answer.
FinishAskAgain(reply) ==
    /\ Send(<<Say("ask", current.n)>>, "ask")
    /\ swallowed' = swallowed \o reply
    /\ UNCHANGED <<hungUp, greeted, current, performed>>

\* The rest of a command that asked for a password, whether or not one came.
FinishAsk(reply) ==
    /\ \E out \in Outputs(current.n) :
        Send(out \o Marker(current, performed[Len(performed)].exit) \o <<Prompt(current.n)>>, "read")
    /\ swallowed' = swallowed \o reply
    /\ UNCHANGED <<hungUp, greeted, current, performed>>

\* Mutant: the reply is looked at, not taken out of the reader.
AskReplyPeeks ==
    /\ spc = "ask" /\ up # <<>>
    /\ UNCHANGED up /\ FinishAsk(<<Head(up).n>>)

AskReply ==
    /\ spc = "ask" /\ up # <<>>
    /\ up' = Tail(up) /\ FinishAsk(<<Head(up).n>>)

\* dpa_node's time.sleep(hang_sec) is over.
WakeUp ==
    /\ spc = "hang"
    /\ Send(Marker(current, performed[Len(performed)].exit) \o <<Prompt(current.n)>>, "read")
    /\ UNCHANGED <<up, hungUp, greeted, current, performed, swallowed>>

\* Mutant: None is taken for an empty line.
ReadNothingLoops ==
    /\ up = <<>> /\ UNCHANGED <<up, hungUp>>
    /\ \/ spc \in {"login", "read"} /\ UNCHANGED <<down, serverVars>>
       \/ spc = "cont" /\ Dispatch(current)

\* read_line returned None (its timeout, or the end of the channel).
ReadNothing ==
    /\ up = <<>> /\ UNCHANGED <<up, hungUp>>
    /\ \/ /\ spc \in {"login", "read"}
          /\ spc' = "closed" /\ UNCHANGED <<down, greeted, current, performed, swallowed>>
       \/ spc = "cont" /\ Dispatch(current)

AskNoReply == spc = "ask" /\ up = <<>> /\ UNCHANGED up /\ FinishAsk(<<>>)
================================================================================
