------------------------------ MODULE ShellClient ------------------------------
(***************************************************************************)
(* ShellClient of mop_runner.py: connect, then one run() per workflow step.*)
(* Each read loop of the code (_read_until, _read_until_prompt) is a value *)
(* of cpc; it ends when its pattern is in the receive buffer or when its   *)
(* deadline passes.  The buffer _buf is the first `got` tokens of `down`.  *)
(***************************************************************************)
EXTENDS ShellWire

CONSTANTS
    NCmds,         \* how many commands the workflow sends to this node
    Kinds,         \* what kinds of commands those are
    NPrompts       \* len(interactive_prompts) of the node

ASSUME NCmdsAssumption == NCmds \in Nat
ASSUME KindsAssumption == Kinds \subseteq EngineKinds
ASSUME NPromptsAssumption == NPrompts \in Nat

VARIABLES
    cpc,      \* the read the client is blocked in, "think" between two commands, "closed"
    got,      \* how much of `down` has been received into _buf
    hello,    \* login prompts the client has been through
    stdout,   \* what the current run() has collected: the commands it came from
    exit,     \* the exit code of the current run()
    answers   \* history: what each run() returned or raised

clientVars == <<cpc, got, hello, stdout, exit, answers>>

Cur == Len(answers) + 1      \* the command run() is working on
Buf == SubSeq(down, 1, got)

RunReads   == {"needle", "tail", "prompt"}
HelloReads == {"login", "first", "stty1", "stty2"}
Reads      == RunReads \cup HelloReads

Answer == [status : {"ok", "error"}, from : SUBSET Nat, exit : Exits]

ClientInit ==
    /\ cpc = IF NPrompts = 0 THEN "first" ELSE "login"
    /\ got = 0 /\ hello = 0 /\ stdout = {} /\ exit = 0 /\ answers = <<>>

ClientTypeOK ==
    /\ cpc \in Reads \cup {"think", "closed"}
    /\ got \in 0..Len(down)
    /\ hello \in 0..NPrompts
    /\ stdout \subseteq Nat /\ exit \in Exits
    /\ answers \in Seq(Answer)
    /\ cpc = "login" => hello < NPrompts

--------------------------------------------------------------------------------
\* Where the pattern of the current read ends in _buf: PROMPT_ANY is anchored at the
\* end of the buffer, the other patterns are searched from its start.
Matches ==
    IF cpc \in {"first", "stty1", "stty2", "prompt"}
    THEN {i \in 1..got : i = got /\ down[i].t = "prompt"}
    ELSE {i \in 1..got : \/ cpc = "needle" /\ down[i].t = "done"
                         \/ cpc = "tail"   /\ down[i].t \in {"out", "code"}
                         \/ cpc = "login"  /\ down[i].t = "login" /\ down[i].n = hello + 1}

SendLine(n, kind, marker) ==
    up' = Append(up, [n |-> n, kind |-> kind, marker |-> marker, open |-> FALSE])

\* The regex of run() over the tail: "__CMD_DONE__:" and the digits in one read.
ExitOf(text) ==
    IF Len(text) > 1 /\ text[Len(text)].t = "code" /\ text[Len(text) - 1].t = "done"
    THEN text[Len(text)].v ELSE 0

From(text) == {text[i].n : i \in 1..Len(text)}

\* Mutant: one login prompt too many is waited for.
HelloReturnsLate ==
    /\ \/ /\ cpc = "login" /\ SendLine(0, "blank", FALSE)
          /\ hello' = hello + 1
          /\ cpc' = IF hello' <= NPrompts THEN "login" ELSE "first"
       \/ cpc = "first" /\ SendLine(0, "stty", FALSE) /\ cpc' = "stty1" /\ UNCHANGED hello
       \/ cpc = "stty1" /\ cpc' = "stty2" /\ UNCHANGED <<up, hello>>
       \/ cpc = "stty2" /\ cpc' = "think" /\ UNCHANGED <<up, hello>>
    /\ UNCHANGED <<hungUp, stdout, exit, answers>>

\* A read loop of connect() returned.
HelloReturns ==
    /\ \/ /\ cpc = "login" /\ SendLine(0, "blank", FALSE)
          /\ hello' = hello + 1
          /\ cpc' = IF hello' < NPrompts THEN "login" ELSE "first"
       \/ cpc = "first" /\ SendLine(0, "stty", FALSE) /\ cpc' = "stty1" /\ UNCHANGED hello
       \/ cpc = "stty1" /\ cpc' = "stty2" /\ UNCHANGED <<up, hello>>
       \/ cpc = "stty2" /\ cpc' = "think" /\ UNCHANGED <<up, hello>>
    /\ UNCHANGED <<hungUp, stdout, exit, answers>>

\* Mutant: run() returns without waiting for the prompt.
RunReturnsEarly(text) ==
    /\ \/ /\ cpc = "needle" /\ cpc' = "tail"
          /\ stdout' = From(text) /\ exit' = 0 /\ UNCHANGED answers
       \/ /\ cpc = "tail" /\ cpc' = "think"
          /\ answers' = Append(answers, [status |-> "ok", from |-> stdout \cup From(text), exit |-> 0])
          /\ stdout' = {} /\ exit' = 0
    /\ UNCHANGED <<up, hungUp, hello>>

\* A read loop of run() returned `text`: the block up to the marker, the rest of that
\* line, the prompt.
RunReturns(text) ==
    /\ \/ /\ cpc = "needle" /\ cpc' = "tail"
          /\ stdout' = From(text) /\ exit' = 0 /\ UNCHANGED answers
       \/ /\ cpc = "tail" /\ cpc' = "prompt"
          /\ stdout' = stdout \cup From(text) /\ exit' = ExitOf(text) /\ UNCHANGED answers
       \/ /\ cpc = "prompt" /\ cpc' = "think"
          /\ answers' = Append(answers, [status |-> "ok", from |-> stdout, exit |-> exit])
          /\ stdout' = {} /\ exit' = 0
    /\ UNCHANGED <<up, hungUp, hello>>

Returns(text) == HelloReturns \/ RunReturns(text)

\* _read_more: recv hands over whatever part of the stream has arrived.
Receive ==
    /\ cpc \in Reads /\ Matches = {}
    /\ got' \in (got + 1)..Len(down)
    /\ UNCHANGED <<wire, cpc, hello, stdout, exit, answers>>

\* Where the buffer may be cut behind a match: the needle "\n" takes the first line of an
\* output, whose other lines, if it has more, stay in the buffer.
Cuts(i) == IF down[i].t = "out" THEN {i - 1, i} ELSE {i}

\* The pattern is in the buffer: the text up to its first match is consumed.
Match(i) ==
    /\ i \in Matches /\ \A j \in Matches : i <= j
    /\ Returns(SubSeq(down, 1, i))
    /\ \E cut \in Cuts(i) : down' = SubSeq(down, cut + 1, Len(down)) /\ got' = got - cut

\* Mutant: the deadline does not end a read loop of run().
TimeOutIgnored ==
    /\ cpc \in Reads \ RunReads /\ Matches = {}
    /\ Returns(Buf)
    /\ UNCHANGED <<down, got>>

\* The deadline passes: the buffered text is returned and stays in the buffer.
TimeOut ==
    /\ cpc \in Reads /\ Matches = {}
    /\ Returns(Buf)
    /\ UNCHANGED <<down, got>>

--------------------------------------------------------------------------------
\* run(): the command and its marker go out in one send.  A channel on which a send
\* raised stays closed.
Issue(kind) ==
    /\ cpc = "think" /\ Len(answers) < NCmds
    /\ \A i \in DOMAIN answers : answers[i].status = "ok"
    /\ SendLine(Cur, kind, TRUE)
    /\ cpc' = "needle"
    /\ UNCHANGED <<hungUp, down, got, hello, stdout, exit, answers>>

\* sendall raises on a channel the server has closed; run_workflow records EXEC-ERROR.
IssueFails ==
    /\ cpc = "think" /\ Len(answers) < NCmds
    /\ answers' = Append(answers, [status |-> "error", from |-> {}, exit |-> 0])
    /\ UNCHANGED <<wire, cpc, got, hello, stdout, exit>>

\* close(), after the last step or after a step that stopped the workflow.
HangUp ==
    /\ cpc = "think"
    /\ cpc' = "closed" /\ hungUp' = TRUE
    /\ UNCHANGED <<up, down, got, hello, stdout, exit, answers>>
================================================================================
