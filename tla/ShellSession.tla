----------------------------- MODULE ShellSession ------------------------------
(***************************************************************************)
(* One MOP runner talking to one simulated node: ShellClient and           *)
(* ShellServer over ShellWire, with what their clocks allow.               *)
(*                                                                         *)
(* Time.  A read of the client lasts 15 to 25 s and the three reads of one *)
(* run() together less than 80 s; the server's own reads last 120 s (a     *)
(* password), 300 s (login) or 600 s (a command).  So a deadline of the    *)
(* client passes only when nothing is left to arrive while the server      *)
(* sleeps, waits or has gone; and a deadline of the server passes only     *)
(* while the client is between two commands, busy with other nodes for     *)
(* longer than that (MayDawdle).                                           *)
(***************************************************************************)
EXTENDS ShellServer, ShellClient, FiniteSets

CONSTANT MayDawdle

ASSUME MayDawdleAssumption == MayDawdle \in BOOLEAN
ASSUME AutomationAssumption == ~Interactive /\ NPrompts = NLogin

vars == <<wire, serverVars, clientVars>>

Init == ServerInit /\ WireInit(Greeting) /\ ClientInit

\* Nothing in flight, and the server will not speak before the client does or before it wakes up.
Quiet == got = Len(down) /\ (up = <<>> \/ spc \in {"hang", "closed"})

ServerGivesUp == hungUp \/ (MayDawdle /\ cpc = "think")

ServerStep ==
    /\ \/ ReadCommand \/ LoginReply \/ AskReply \/ WakeUp
       \/ ServerGivesUp /\ (ReadNothing \/ AskNoReply)
    /\ UNCHANGED clientVars

ClientStep ==
    /\ \/ Receive
       \/ \E i \in Matches : Match(i)
       \/ Quiet /\ TimeOut
       \/ spc = "closed" /\ IssueFails
       \/ \E kind \in Kinds : Issue(kind)
       \/ HangUp
    /\ UNCHANGED serverVars

Done == cpc = "closed" /\ spc = "closed" /\ UNCHANGED vars

Next == ServerStep \/ ClientStep \/ Done

\* Both programs are single threads that keep running, every wait of theirs has a
\* deadline, and run_workflow leaves the loop over its steps.
Fairness == WF_vars(ServerStep) /\ WF_vars(ClientStep)

Spec == Init /\ [][Next]_vars
FairSpec == Spec /\ Fairness

\* The variables keep their types; `got` never runs past what was sent.
TypeOK == WireTypeOK /\ ServerTypeOK /\ ClientTypeOK

--------------------------------------------------------------------------------
InRun == cpc \in RunReads
Issued == IF InRun THEN Cur ELSE Len(answers)
Sent == {i \in 1..Issued : i > Len(answers) \/ answers[i].status = "ok"}
InFlight == {i \in DOMAIN up : up[i].n > 0}

\* Every command the client sent is in exactly one place: on the wire, given to the
\* engine, or consumed as a password reply; the engine gets them in order, each once,
\* and it takes one password prompt to consume one command (handle_shell's two read_line calls).
CommandsConserved ==
    /\ Sent = {up[i].n : i \in InFlight} \cup {performed[i].n : i \in DOMAIN performed}
                 \cup {swallowed[i] : i \in DOMAIN swallowed}
    /\ \A i, j \in DOMAIN performed : i < j => performed[i].n < performed[j].n
    /\ \A i \in DOMAIN swallowed, j \in DOMAIN performed : swallowed[i] # performed[j].n
    /\ Len(swallowed) <= Cardinality({i \in DOMAIN performed : performed[i].kind = "ask"})

\* A command that is never carried out was eaten by the password prompt of the command
\* just before it: no other path through handle_shell drops a line.
LostOnlyToPassword ==
    \A i \in DOMAIN swallowed :
        \E j \in DOMAIN performed :
            performed[j].n = swallowed[i] - 1 /\ performed[j].kind = "ask"

\* The engine has carried out no command but plain ones, and no other is on its way.
OnlyPlain ==
    /\ \A i \in DOMAIN performed : performed[i].kind = "plain"
    /\ \A i \in InFlight : up[i].kind = "plain"

EachItsOwn ==
    spc # "closed" =>
        \A i \in DOMAIN answers :
            /\ answers[i].from = {i} /\ answers[i].status = "ok"
            /\ \E j \in DOMAIN performed : performed[j].n = i

\* As long as commands are plain and the server has not given up, each run() returns
\* the output of its very command, which the engine has carried out.
OwnAnswer == OnlyPlain => EachItsOwn

\* A run() returns the output of an earlier command only when that command or one before
\* it slept past the client's deadlines or asked for a password, or when that command itself
\* ended without a prompt: its call has taken one line, and the others are still to be read.
\* It never returns the output of a later one, nor output older than the oldest that an
\* earlier run() returned.  (A run() may well return some that is older than the newest: what
\* a read returns after its deadline stays in the buffer.)
StaleOnlyAfterStall ==
    \A i \in DOMAIN answers : \A k \in answers[i].from :
        /\ k <= i
        /\ k < i => \E j \in DOMAIN performed :
                       \/ performed[j].n <= k /\ performed[j].kind \in {"ask", "hang"}
                       \/ performed[j].n = k /\ performed[j].kind = "mute"
        /\ \A h \in 1..i : answers[h].from # {} => \E m \in answers[h].from : m <= k

\* What the docstring of run() says of the marker: the exit code it returns with a
\* command's own output is the exit code of that command.
ExitCodeObserved ==
    \A i \in DOMAIN answers, j \in DOMAIN performed :
        answers[i].from = {i} /\ performed[j].n = i => answers[i].exit = performed[j].exit

\* A run() of the client never blocks for good, whatever the server does or leaves out.
EveryCallReturns == InRun ~> ~InRun

\* Both ends of the session come to an end.
SessionEnds == <>(cpc = "closed" /\ spc = "closed")

\* The commands of which there is output the client has not consumed.
Unread == {down[i].n : i \in {j \in DOMAIN down : down[j].t = "out"}}

\* The promise this session keeps until a command sleeps past the client's deadlines or asks for a
\* password.
Service == INSTANCE CommandService WITH
    issued <- Issued,
    carriedOut <- [i \in DOMAIN performed |->
                     [n |-> performed[i].n, silent |-> performed[i].kind = "mute"]],
    left <- (stdout \cup Unread) \ {Cur},
    returned <- [i \in DOMAIN answers |-> answers[i].from],
    stalled <- \E j \in DOMAIN performed : performed[j].kind \in {"ask", "hang"}

ServiceSpec == Service!Spec
================================================================================
