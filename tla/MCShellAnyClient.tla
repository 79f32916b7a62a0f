---------------------------- MODULE MCShellAnyClient ----------------------------
(***************************************************************************)
(* ShellAnyClient for TLC, for both kinds of clients: the automation       *)
(* client of the extended module, and a terminal user.                     *)
(***************************************************************************)
EXTENDS ShellAnyClient

VARIABLE atTerminal

Human == INSTANCE ShellAnyClient WITH Interactive <- TRUE

BothInit == (atTerminal = FALSE /\ AnyInit) \/ (atTerminal = TRUE /\ Human!AnyInit)
BothNext ==
    /\ UNCHANGED atTerminal
    /\ (~atTerminal /\ AnyNext) \/ (atTerminal /\ Human!AnyNext)

\* The thread of either connection keeps running; its reads and sleeps have deadlines.
BothSpec ==
    /\ BothInit /\ [][BothNext]_<<anyVars, atTerminal>>
    /\ WF_anyVars(~atTerminal /\ ServerStep) /\ WF_anyVars(atTerminal /\ Human!ServerStep)

\* A prompt as the last thing received means that the server takes the next line as a
\* command, for either kind of client: see PromptMeansReady of ShellAnyClient.
ReadyAtPrompt == IF atTerminal THEN Human!PromptMeansReady ELSE PromptMeansReady
================================================================================
