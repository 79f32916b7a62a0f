---------------------------- MODULE ShellAnyClient -----------------------------
(***************************************************************************)
(* ShellServer with a client of which nothing is assumed: a user at a      *)
(* terminal, the Java engine, a script that pipelines its lines.  It sends *)
(* lines when it likes, with or without the marker, never reads, and hangs *)
(* up when it likes; any read of the server may time out.  Nobody consumes *)
(* `down`, which is therefore the transcript of the session.               *)
(***************************************************************************)
EXTENDS ShellServer, FiniteSets

CONSTANT MaxLines    \* bound on the lines the client sends

ASSUME MaxLinesAssumption == MaxLines \in Nat

VARIABLE typed       \* lines sent so far; line i carries n = i

anyVars == <<wire, serverVars, typed>>

AnyInit == ServerInit /\ WireInit(Greeting) /\ typed = 0

\* Quotes are left open only in commands for the engine.
Types(l) ==
    /\ ~hungUp /\ typed < MaxLines
    /\ l.open => l.kind = "plain"
    /\ typed' = typed + 1 /\ up' = Append(up, l)
    /\ UNCHANGED <<hungUp, down, serverVars>>

HangsUp == ~hungUp /\ hungUp' = TRUE /\ UNCHANGED <<up, down, serverVars, typed>>

ServerStep ==
    /\ ReadCommand \/ LoginReply \/ AskReply \/ WakeUp \/ ReadNothing \/ AskNoReply
    /\ UNCHANGED typed

AnyNext ==
    \/ \E kind \in EngineKinds \cup ShellKinds, marker, open \in BOOLEAN :
          Types([n |-> typed + 1, kind |-> kind, marker |-> marker, open |-> open])
    \/ HangsUp
    \/ ServerStep
    \/ spc = "closed" /\ UNCHANGED anyVars

\* The thread of the connection keeps running; its reads and sleeps have deadlines.
AnySpec == AnyInit /\ [][AnyNext]_anyVars /\ WF_anyVars(ServerStep)

--------------------------------------------------------------------------------
Tok(i) == down[i].t

\* The server's half of the marker protocol, whatever the client does: the output of two
\* commands never interleaves, a marker is followed by its code and that by the prompt of
\* the same command, a command gets at most one marker and one prompt, and the prompt is
\* missing only where the command suppressed it: the server that reads commands again has
\* either just prompted or just muted one.
FramesWellFormed ==
    /\ \A i \in 1..(Len(down) - 1) : Tok(i) # "login" =>
        /\ down[i].n <= down[i + 1].n
        /\ Tok(i) = "done" <=> Tok(i + 1) = "code"
        /\ Tok(i) = "code" => Tok(i + 1) = "prompt" /\ down[i].n = down[i + 1].n
        /\ Tok(i) = "prompt" => down[i].n < down[i + 1].n
    /\ down # <<>> => Tok(Len(down)) \notin {"done", "code"}
    /\ ~hungUp /\ spc = "read" =>
        \/ Tok(Len(down)) = "prompt"
        \/ performed # <<>> /\ performed[Len(performed)].kind = "mute"

\* A prompt as the last thing received means that the server takes the next line as a
\* command (or is gone, or already busy with a line and silent so far); while it waits for
\* a password or for the rest of a command, the last thing it sent is not a prompt.
PromptMeansReady ==
    ~hungUp /\ Tok(Len(down)) = "prompt" =>
        \/ spc \in {"read", "closed", "hang"}
        \/ spc = "cont" /\ ~Interactive

\* A line taken as a password or as the rest of another command never reaches the
\* engine as a command of its own, and no line reaches it twice.
OneUsePerLine ==
    /\ \A i, j \in DOMAIN performed : i < j => performed[i].n < performed[j].n
    /\ \A i \in DOMAIN swallowed, j \in DOMAIN performed :
         swallowed[i] # performed[j].n

\* The thread of a session whose client has gone ends.
HangUpEndsSession == hungUp ~> spc = "closed"
================================================================================
