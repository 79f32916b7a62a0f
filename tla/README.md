# Verification of the CLI-CR simulator

The repository simulates the network elements of a maintenance procedure (MOP): an
SSH server (`clicr_sim.py`) behind which an engine (`command_engine.py`) invents the
answers to the commands a workflow engine sends. What it answers follows a loaded
workflow (`workflow.py`), a scenario of rules and faults, two stateful DPA nodes
(`dpa_node.py`), and built-in defaults. `mop_runner.py` is a small workflow engine of
the repository's own; the production one is a Java program that is not in it.

This directory holds TLA+ modules of the stateful core of that system, TLC
configurations that check them on small instances, and TLAPS proofs.

    tlc -workers 2 -config <run>.cfg <module>      # one run, see "Runs"
    tlapm <module>_proofs.tla                      # the proofs

## Inventory

| Part | State | Operations and interactions | What is hard | What makes it correct |
|---|---|---|---|---|
| `SimServer`, `serve_connection`, `main` (clicr_sim.py:101-178, 490-575, 632-721) | per connection: user, NE id, kind of request; a thread each | paramiko calls back; one `accept`, a wait of 10 s for the request; opens `FakeRepoFS` and a `CommandEngine` per connection, all sharing one scenario, one workflow state, one DPA world | callbacks against the waiting thread; a request that arrives late | a connection gets the profile of its NE id, and the service it asked for |
| `LineReader` (:186-303) | batched buffer, owed LF, typed line, mode | `read_line` from `handle_shell`; receives packets | packets cut anywhere, CR LF, switching of the mode, timeouts | lines depend on the bytes only |
| `handle_shell` (:344-446), `_needs_continuation` (:310-341) | login step, command being joined | reads lines, calls the engine, sends output, marker and prompt | password prompts that take the next line, suppressed prompts, hang-up, idle timeout | a command is carried out once; frames are well formed; a prompt means ready |
| `ShellClient` of mop_runner.py (104-211) | receive buffer, deadlines | `connect`, `run`, `close`: three read loops per `run` | late answers, deadlines, missing markers | a call returns the output of its own command, and returns |
| `Workflow`, `FailSelector`, `synthesize_output` (workflow.py:103-354) | none: the numbered index of a file | read once at the start; an answer per step | nested loops between numbered steps | the step a user selects is the one that fails |
| `WorkflowState` (:363-420) | cursor, match counters, shared by all sessions | `match` from every session's engine | no lock; look-ahead window; loops | the answer is that of the step the engine is at |
| `Scenario` (command_engine.py:132-166), checksums (:253-264) | occurrence counters, shared | `match`, `_sha256` | no lock; counters that decide retries | a rule applies to the occurrences it lists |
| `CommandEngine.handle` (:187-226) and its command families (:230-712) | none but the shared state above and the fake repository | workflow, then rules, then DPA world, then defaults | order of the stages under overlap | one stage answers |
| `DpaWorld` (dpa_node.py) | two nodes (installed version, phones.dat, /tmp, backups, loader's TAC count), repository files, fault budgets | `handle` for profiles node1, node2, repo | budgets shared by nodes; imports that fail half way; a hung command and its successor on one node | versions follow imports; faults are injected as declared |
| `FakeRepoFS`, `FakeSFTPServer` (sftp_backend.py) | files in a directory; a lock per connection | `put_bytes` from the transfers and decoding echoes of a shell or exec session; requests of SFTP sessions | locks that do not exclude each other; files renamed, removed and rewritten while they are open | an uploaded file is there, and a get returns it |
| `run_workflow` (mop_runner.py:262-390) | bindings, results, pools of shells | phases, `when`, registers, validations, `on_failure` | a stop that ends the phase only; sessions that idle out | steps run in order, failures stop what they should |
| auto-rollback explorer of gen_command_diagram.py (84-125, 315-620, 1076-1125) | three-valued variables, names written and supplied, facts | `eval_expr`, `simulate`, `apply_step`, `rollback_plan`: which rollback steps run after a failure, from the workflow alone | values only the node can give, steps that may or may not have run, loops | what it announces is what the engine does |
| linter, reference generator, HTML, summaries, batch scripts | none | one pass over a file | - | not modelled: no state or interaction |

## Modules

| Module | Models | Correspondence |
|---|---|---|
| `ShellWire` | the SSH channel between the two ends | `up`: lines on their way to the server; `down`: tokens the server sent; `got`: how many of these the client has received. A packet boundary may fall between any two tokens |
| `ShellServer` | `handle_shell` | `spc` is the blocking read (or sleep) the thread is in; one action per blocking point up to the next: `LoginReply`, `ReadCommand`, `AskReply`, `AskNoReply`, `ReadNothing`, `WakeUp` |
| `ShellClient` | `ShellClient` | `cpc` is the read loop it is in; `Receive`, `Match` (with `Cuts`: a read to the next line end takes one line of an output, or all if it has no more), `TimeOut`, and `Issue`, `IssueFails`, `HangUp` for the calls of `run_workflow` |
| `ShellSession` | the two composed over the wire | adds what the clocks of both sides allow |
| `CommandService` | abstract: commands one at a time, in order, at most once; a call that gets a prompt returns its own output, and before it what silent commands have left unread; until the node stalls | `ShellSession` implements it (`ServiceSpec`) |
| `ShellAnyClient`, `MCShellAnyClient` | `handle_shell` with a client nothing is assumed of | one instance for an automation client, one for a terminal |
| `LineReader`, `LineStream` | `LineReader`, with the bytes it keeps and does not echo (`TAB` stands for them), and what its lines should be (recursive functions of the bytes gone through) | one action per turn of the loops of `read_line` and `_read_line_echo` |
| `Connection` | `serve_connection` and the callbacks of `SimServer` | `tpc` is where the thread of `serve_connection` is; paramiko's thread runs the callbacks: `Request` sets a flag, `Signal` the event. The flags of `SimServer` are the shared state |
| `RepoFiles` | `put_bytes`, and the requests of `FakeSFTPServer` | one action per system call of `put_bytes` (`PutStarts`, `PutOpens`, `PutWrites`), one per SFTP request |
| `Repository` | several connections in one directory | any command or request at any time; histories of whose content was written to a file, and met by a read |
| `WorkflowIndex` | the index `match` searches, and its order of candidates | `Accepts`, `Window`, `IsFirst`: shared by `WorkflowState` and `RunWorkflow` |
| `WorkflowTree` | the nested steps of a workflow file, the numbers `_flatten_steps` gives them, `FailSelector`, `flatten_phase_steps` | operators that recurse over the nesting |
| `RunWorkflow` | `run_workflow` against the simulator's answers | `pc`: between phases, before a step, with its answer, before its validation. `match` and `synthesize_output` are one step, as the runner waits |
| `WorkflowState` | `WorkflowState.match` | cut at every read and write of the shared cursor and counters |
| `WorkflowRun` | the same, driven by an engine that plays the workflow in order | `Play`: send the command of the next step |
| `ScenarioRules` | `Scenario.match`, `_sha256` | cut at the reads and writes of the counters |
| `Engine` | `CommandEngine.handle` for several connections | composes `WorkflowState` and an instance of `ScenarioRules`; a miss of the first starts the second |
| `DpaWorld` | `DpaWorld` | `Inject`, `Consume`, `Count` are `_fault_for`; then one action per command family, two for those that store what they derived from other state (`Import`, `StartLoader`) |
| `Conditions` | the conditions of a workflow: `eval_expr` of mop_runner over the engine's variables, and the three-valued `eval_expr` of gen_command_diagram over what the planner knows | a condition is a set of clauses, a clause a set of comparisons; one may be in parentheses (`(==)`), or use the word `contains`, which the planner cannot parse and takes for unknown (gen_command_diagram.py:442-444, 480-481) |
| `RollbackPlan` | `simulate` and `rollback_plan`, in lockstep with an engine that executes the workflow | `st` is the planner's state, `b` the engine's bindings, `given` what these were at the start: any value for any name that is not a global. `EnterPhase`, `Decide` (gates: `gate_of`, `ran`), `DoRegister` (one register of `apply_step`), `Finish` (the branch's `vars`, and the next step). `causes` records what the planner does not account for (see below) |
| `DpaClients` | several sessions on the two nodes | any command at any time; history variables for the properties |

Data is abstracted to what the properties tell apart. A command's output is one token
that names the command; the engine's answers are four kinds (plain, prompt suppressed,
password prompt, hang); a command line in the workflow is a model value and a step's
template the set of the lines it matches; a file in `DpaWorld` is what its name says
(version and TAC count of a backup, the new input file, or neither). Quotes in a
command line are reduced to whether the line leaves one open. A text with variables in it (`Text`) is one value that no literal of a condition equals;
that is right as long as variables that hold one are compared with literals only, as in the
repository's workflow.

## Runs

Passing runs, each over all behaviours within its bounds:

* **session_all** (`ShellSession_all.cfg`). Four commands of every kind, two login prompts.
  Where each command ends up (`CommandsConserved`, `LostOnlyToPassword`), whose output a call
  can return (`OwnAnswer` while all commands are plain, `StaleOnlyAfterStall` always), that calls
  and session end (`EveryCallReturns`, `SessionEnds`), and that until a command sleeps or
  asks for a password the session implements `CommandService` (`ServiceSpec`): what muted
  commands have printed may be late, and the next call with a prompt returns the rest of it, line
  by line, before its own. Four commands: a plain one that comes after two that went wrong
  or were muted, and is followed by another; what only happens in longer sessions is covered
  by the theorems, which are about any number.
* **anyclient** (`ShellAnyClient.cfg`). A client that pipelines up to three lines of any
  kind, with or without marker, never reads, and hangs up at any time; as a program and
  at a terminal.
* **reader** (`LineReader.cfg`). All streams of up to five bytes of CR, LF and a letter,
  up to four bytes with the editing keys and a byte that is not echoed, up to five of such
  bytes, letters and Backspace, up to six with the two mode switches (four
  bytes with their line end make one switch), in packets of one or two bytes, with
  timeouts anywhere, in both modes. `ScreenShowsLine`: the screen is the line, as long as all
  of it was echoed, and with other bytes in it a part of the line, in order.
* **connections** (`Connection.cfg`). One connection whose client opens up to two channels
  and requests anything on them, or logs in as a user or for a node, and leaves at any
  time: it gets the profile of its node or user (`OwnPersonality`), the service it asked
  for (`ServedAsAsked`), an SFTP session is not broken off (`SftpUncut`), and the thread
  ends (`ThreadsEnd`). Connections share nothing here, so one is enough; the second
  channel is the one whose request comes at the wrong time, and the theorems are about any
  number of both.
* **repository** (`Repository.cfg`). Two connections that upload and one SFTP session, two
  paths, two files. The second file is there when the first has lost its name and is still
  open. Contents have two blocks, so that a read or an upload can be half done. The view in
  `MCRepository` leaves out what the properties do not look at.
* **mop_run** (`RunWorkflow.cfg`). Three workflows: loops within loops, gates that become
  true by what is registered with more steps skipped than the look-ahead has, and two
  steps with one template; fifteen choices of `--fail` and `--fail-global`, and nodes that
  idle out. `InjectionSeen` and `NoFalseAlarm` say exactly which validated steps fail, as
  long as each command could only be found where it belongs. `StopEndsPhase` says exactly which
  steps the runner gets to: those of a phase whose gate was open, up to the first that had to stop
  it, by a check that failed or a command that could not be sent, and none of this is carried
  over into the next phase.
* **workflow_run** (`Workflow_run.cfg`). Six steps, two with one template, a look-ahead of
  two, six commands on two sessions: each command is answered as the step that was played.
* **engine** (`Engine.cfg`). Two connections whose commands overlap, four commands, with
  and without a workflow, four rules with and without occurrences: what the races cannot
  spoil (`CursorWasFound`, `FirstMatchWins`, and that no rule counts more than its matches,
  in `OccurrencesExact`), and what holds until two commands overlap (`OccurrencesExact`,
  `RetryIsRight`, the latter where rules for the first occurrence are the only faults).
* **dpa_clients** (`DpaClients.cfg`). Three sessions, two of them on one node, three
  commands out of four menus, with each single fault and two lists of faults.
* **rollback_plan** (`RollbackPlan.cfg`). Workflows of a preparing phase of one or two steps, an
  activity phase of two, gated in five ways, and a rollback phase of two, with loops,
  nested loops, conditional registers, captures, copies of variables, a name no step writes
  (in some workflows no command uses it either), parentheses and `contains`; each failure that
  arms the rollback, each value a capture can have and each value each name can be given. Two
  steps per phase, so that the effects of one undecided step reach the gates of the next.
  `StateTracks` and `VerdictRight` have no premise on the workflow: a wrong belief or verdict must
  have one of five recorded `causes`, or a name with an `Odd` value:
  - `guess`: a step whose gates were unknown was simulated and did not run;
  - `outer`: the gates of the outer of two loops alone kept a step from running;
  - `loop`: the gate of a loop, asked again at a later sub-step, is no longer what the engine
    found when it entered;
  - `copy`: a branch stored a variable, whose name is the string the planner stores;
  - `flag`: the rollback put its own flag down, which the planner keeps up;
  - `Odd`: some comparison of the name comes out otherwise than the planner says it does
    before anything has been stored: it takes the name for empty, or a gate of a phase for a
    fact about it.
  The violations below show that `guess`, `outer` and both ways of being `Odd` do occur, each
  on its own, where the planner's comments say otherwise.

Runs that find a violation of a statement of the repository about itself:

* **session_exit**: `run()` returns exit code 0 whatever the marker carries
  (mop_runner.py:191 against :180-181).
* **plan_given**: a name that no step writes and no command uses "is simply empty at runtime"
  (gen_command_diagram.py:345-347, 437), but a run may be given it: mop_runner.py seeds
  `ROLLBACK_ONLY` and others (:272-281) and documents `--var ROLLBACK_ONLY=false` (:28). No fact
  from a gate is wrong here (`EmptyUnlessSet`).

Three more statements of the planner's comments are violated by one cause each, which TLC finds
with the configurations named:

* `RollbackPlan_guess.cfg`: `simulate` applies a step whose gates are unknown as if it had run
  (gen_command_diagram.py:574), although what cannot be known "is reported as "depends", never
  guessed" (:325-326): `NeverGuessed`.
* `RollbackPlan_nested.cfg`: the gates of the outer of two nested loops do not reach a step
  (gen_command_diagram.py:92 against :85-87), so it is announced as RUN and skipped:
  `GatesCarriedDown`. The rollback of
  `workflows/SBC_96_FIXED_LINE_CONFIGURATION_IN_SBC.yaml` is such a loop (:1917-1947): with
  no table executed yet the engine skips it, and the plan announces its first step.
* `RollbackPlan_facts.cfg`: the facts are collected from the gates of all phases before the
  first is simulated (gen_command_diagram.py:1102), and so used in phases before the one they
  come from, where the variable may have had another value; they are said to be "enough to
  settle any test" (:338-342). No value is odd but by such a fact: `GatesAreFacts`.

Other differences between the code and what is said of it, met while reading; the model
follows the code:

* The second item of a loop with two sub-steps finds no step, as the scan starts at the
  cursor (workflow.py:399 against :15-17). Such loops exist in
  `workflows/SBC_96_FIXED_LINE_CONFIGURATION_IN_SBC.yaml` (:811, :895). `OwnStep` is
  therefore about loops with one sub-step; without that TLC finds it violated.
* Two overlapping calls of `match` can rewind the cursor, which "never" rewinds
  (workflow.py:412 against :411). `CursorWasFound` only says that it stands where some
  call found a step.
* A variable whose regex finds nothing keeps its value, and nothing clears the bindings
  between steps (mop_runner.py:233, :353). A step whose failure is injected passes if an
  earlier one has bound what it tests, and a later one fails on an alarm left behind; the
  simulator's docstring says that the expression is false when `fail=True`
  (workflow.py:11). `InjectionSeen` and `NoFalseAlarm` name the bindings it takes.
* A transfer that could not store its file catches the exception and shows 100%
  (command_engine.py:363, :384). It also stores the file before the password is asked for.
* `sha256sum` answers from the name of a file, so a file written by a decoding echo has
  another checksum than the one announced, though it is written "so a subsequent
  `cat`/`sha256sum` of that file is consistent" (command_engine.py:560-562).
* The lock of `FakeRepoFS` belongs to one connection, whose commands come one at a time, so
  it excludes nobody (sftp_backend.py:33, :47).
* One file removed while a directory is listed makes the whole listing fail
  (sftp_backend.py:105).
* An exec request with an empty command opens a shell, and so does every request that comes
  10 s late; a late SFTP request on the accepted channel gets both a shell and the SFTP
  server (clicr_sim.py:543-568). The one channel that is accepted gets the service,
  whichever channel asked for it. A client that logs in with a password has no NE id,
  whatever node it means.
* In echo mode the bytes behind a line end in one packet are dropped (clicr_sim.py:228
  against :187, :192). `LinesAsTyped` therefore excludes them.
* Two overlapping commands can both get a fault declared for the first occurrence only
  (command_engine.py:162 against `_REFERENCE_annotated.yaml`:115). `OccurrencesExact` is
  therefore stated until two commands overlap.
* A CR LF pair that arrives in two packets yields an extra empty line, because
  `_skip_lf` is cleared before the packet with the LF is received (clicr_sim.py:264
  against :275). `LinesOfTheStream` therefore compares only the lines that are not empty
  where the stream has pairs.
* Lines that arrived in one packet with `stty echo` stay in the batched buffer (:420, :412).
* A key in `force_mismatch` is corrupted on every call, so the retry never succeeds; the
  comment promises the first occurrence only (command_engine.py:260-261). `RetryIsRight`
  is stated for scenarios without it. Nor is the retry right if an earlier rule takes the
  first command, or another faulty rule the second: both postpone a fault to the retry.
  `OnlyFirstFaults` names the scenarios in which it is.
* The second read of `run()` takes what is in the buffer up to the first line end
  (mop_runner.py:190). After a muted import, which prints many lines (dpa_node.py:315-326), the
  others stay and come with the answer to the next command. `OwnAnswer` therefore ends at the first muted command, and
  `StaleOnlyAfterStall` names it.
* Tabs, escapes and bytes that are not ASCII go into the line and are not echoed, and Backspace over
  one takes another character from the screen (clicr_sim.py:251-252, 229-234).
* What a read of `run()` returns after its deadline stays in the buffer, so a call can return
  output older than the newest an earlier call returned; it takes five commands.
  `StaleOnlyAfterStall` says that none is older than the oldest.
* Steps of another remote node are not excluded by `match`, only local ones
  (workflow.py:404-407).
* `stop` ends the phase, not the run (mop_runner.py:385 against :16): `StopEndsPhase`.
* Copying a file to phones.dat needs no staged file: `tmp` decides nothing
  (dpa_node.py:304); `self.repo`, "files present on the repo server" (:172), is written
  and never read, and the listing of the repository shows a node's backups, copied or not
  (:385); `loader_ran` is set from the start and never reset, so the test at :348 never
  fails.
* The checksum of a restored backup equals that of its source only if the name gives the
  TAC count of its version (:406-410): not for a name with `NA`, nor for the older backup
  the listing makes up with TAC 270771 (:277).
* `apply_step` stores a variable in the `vars` of a branch as the text `${X}` (gen_command_diagram.py:544),
  the runner fills it in (mop_runner.py:364): the cause `copy`.
* `run_workflow` never applies the `vars` of `failure` and ignores `skip_when` and the gates
  of loops (mop_runner.py:366-386, :247-259): `ROLLBACK_REQUIRED` is not armed by it.

## Time and fairness

Times appear as what their order allows. A read of the client lasts 15 to 25 s and the
three of one `run()` less than 80 s; the server's reads last 120, 300 and 600 s. So a
deadline of the client passes only when nothing is left to arrive (`Quiet`), and a
deadline of the server only while the client is between two commands (`MayDawdle`).

`FairSpec` of `ShellSession` is weakly fair to each side: both are threads whose every
wait has a deadline, and the loop of `run_workflow` over its steps is finite.
`ShellAnyClient` is fair to the server's thread alone. `LineReader` is fair to its own
steps and to the arrival of the bytes that were sent (a reader whose every receive times
out stays where it is). `FairSpec` of `Connection` is fair to the thread of each
connection: the waits for a channel and for a request have deadlines, and `handle_shell`
and `handle_exec` end by `ShellAnyClient` and without a wait; the wait of an idle thread
is for its client to leave, hence the form of `ThreadsEnd`. The other modules have no fairness: their properties are safety.

Every read-modify-write on state that sessions share is cut where another thread can run.
A step that touches only a thread's locals, or makes one access to shared state, is one
action; `_fault_for`, which reads the budgets of the faults one by one, tests them in one.

## Proofs

* `ShellSession_proofs`, for any numbers of commands and login prompts, any kinds of
  commands and exit codes: **TypeCorrect** (`TypeOK`), **Conservation**
  (`CommandsConserved`) and **Losses** (`LostOnlyToPassword`). `TypeOK` is inductive by
  itself, since it also ties what is in the buffers to where the two sides are. The other
  two rest on `StreamInv`: the lines in flight are numbered upwards and beyond all that the
  server has taken (`Numbered`); every command sent is in one of its three places, and at
  most as many are eaten as asked for a password, less one while a password is waited for
  (`Accounts`); and while the server lives no number is left out (`Alive`), so that the line
  a password prompt takes is the command after the one that asked.
  Under the same generality: **OwnAnswers** (`OwnAnswer`) and **StaleAnswers**
  (`StaleOnlyAfterStall`), and **ServiceImplemented**: the session implements `CommandService`, which promises nothing once
  a command has slept or asked for a password. `OwnAnswer` is not
  inductive, since it says nothing of the tokens a later call will read. `ShapeInv` does: as
  long as no command has slept or asked for a password (`Gentle`) exactly one of a few things
  is under way: a line to the server, the last tokens of the answer to one command, or nothing;
  before it the client may find the lines that muted commands have left, the oldest first
  (`Leftover`, `Behind`). From the first such command on,
  `LateInv` keeps an order instead: the server's text comes in the order of the commands,
  none of it but lines of a muted command is older than a command that stalled, and what is
  still to be returned is no older than the oldest that was. In the refinement the service's `left` is what the current call
  has collected and what is still unread of earlier commands (`Left`); a call that returns
  returns it with its own output (`Prompted`), or takes at most its oldest line away (`Unprompted`).
  Each step of the server or the client is one step of the service or a stutter (`ServerServes`,
  `ClientServes`).
* `WorkflowRun_proofs`: **InStep**, **CountsExact**, **CursorMovesForward**, for any
  workflow, look-ahead and number of sessions, under two assumptions on the workflow:
  `Unambiguous` (steps within one look-ahead share no command line) and `OneStepLoops`.
  Without the second the claim is false. The invariant `RunInv` says
  for each point of `match` where cursor, step found and counter stand.
* `LineReader_proofs`: **StreamLines** (`LinesOfTheStream`), **TypedLine** (`LinesAsTyped`)
  and **Screen** (`ScreenShowsLine`), for streams of any bytes and any length, in packets of
  any size, with timeouts anywhere. The reference is a recursive function of the bytes gone
  through (`After`, `CommandsAmong`); its equation, and all that is true of it at every length,
  is proved by induction in first-order form: the lengths where it is wrong would have a least
  one. The invariant has a place in the stream (`Gone`): what was sent and not received, and
  what was received and not gone through, are the next bytes behind it (`ArrivedInv`); the lines
  so far are those of the stream up to there, and the line being typed is what it has of the
  next one (`LinesInv`, `TypedInv`); and where the client sends one line at a time a line end is
  the last byte of what was received, which is why nothing is lost when the mode switches or a
  line end drops the rest of a packet (`EndsInv`). That the screen is a part of the line (`Part`) is
  kept by an embedding of its positions, which an echoed byte extends and an erasure restricts.
* `Connection_proofs`: **Personalities** (`OwnPersonality`), **SftpSessions** (`SftpUncut`)
  and **Services** (`ServedAsAsked`), for any number of connections and channels and any
  profiles, maps and clients that name their node interactively. What a thread has read of
  the flags is true for good, since requests set each flag in the step that records them
  (`FlagInv`) and no flag but `exec_cmd` is cleared; the invariants say what each place of
  the thread knows by the tests it has passed (`SftpInv`, `AskInv`), and that a transport
  is only up with the names of its login (`ThreadInv`).
  Then, for a client of which nothing is assumed, as a program and at a terminal, any
  number of lines and login prompts, and any exit codes: **WholeFrames** (`FramesWellFormed`),
  **LinesUsedOnce** (`OneUsePerLine`) and **PromptMeansCommand** (`ReadyAtPrompt`). Every
  handler is shown to take a step of one form (`Serves`): a line in hand, one whole frame
  about it, and a place to wait that the last token announces. The invariant adds to the
  properties that lines are read under the numbers they were sent (`InOrder`), that a command
  being joined has not been used and all that was used has been read (`UsedOnce`), and that
  what may still be said fits behind what has been (`Fits`). Without the last, a frame could be
  followed by one of an earlier line.
* `Repository_proofs`: **RepositoryTypes**, **Uploaded** (`UploadedIsThere`) and
  **RoundTrips** (`GetRoundTrips`), for any number of connections, SFTP sessions, paths and
  files. The invariant goes file by file (`FileInv`): those who write to a file since it was
  truncated are in its history, and a file with the content of one path is whole or has just been
  truncated by one who is about to write it. A read has met at least what its file is made of
  (`ReadInv`), and a transfer during which SFTP changed no name still finds its file
  (`AloneInv`). Nearly all steps touch one file in one of a few ways, so what a step does to a
  file is one lemma (`StepOfFile`) and each action an instance of it.
* `Engine_proofs`: **EngineTypes**, **FirstMatches** (`FirstMatchWins`, an action property),
  **Cursors** (`CursorWasFound`), **Occurrences** (`OccurrencesExact`) and **Retries**
  (`RetryIsRight`), for any workflow, rules, connections and commands, overlapping or not.
  `RuleInv` says that a session at a rule has not passed one without occurrences that its command
  matches, and has got to its rule more often than it has counted, so that a lost update
  makes an occurrence late and never early. Without overlap one command is handled at a time
  (`Alone`) and the counts are exact but for the one being counted (`CountInv`); a faulty
  checksum was its rule's first, so the next one is not (`FaultInv`).
* `DpaClients_proofs`: **DpaTypes**, **InstalledVersions** (`InstalledWasHeld`),
  **RestoredBackups** (`RestoredComparesEqual`), **TacCounts** (`TacOfInstalled`) and
  **FaultOrder** (`FaultsInOrder`), for any number of sessions on each node, any files and any
  lists of faults. What an import is about to store was held or made up when it was read, and
  `held` only grows (`VersionInv`). For the faults the invariant counts the sessions between
  test and increment (`Pending`): the budget used, plus these, is at most what was injected
  (`Budget`), so lost updates only make a budget larger and a later fault still waits for
  an earlier one (`Ordered`); without overlap the two are equal (`Exact`), so none is injected
  too often.
* `RollbackPlan_proofs`: **PlanTypes**, **StatesTrack**, **VerdictsRight**, for any set of
  workflows, any outputs and any values given. Verdicts are right because conditions are: if the
  planner's state agrees with the bindings (`Agrees`: a value it holds is bound, a name it does
  not hold has the value given) and each comparison that is made of a name it does not hold comes
  out as expected, then a definite value of `eval_expr` is the engine's (lemmas on `EvalAtom`
  and `Eval`; a condition that does not parse has none). The invariant is
  `causes = {} /\ Odd = {} => Knows`. `Knows` says that the two agree, and that the verdict on the
  step at hand is right, and is kept register by register, gate by gate, since each way of losing
  it is one of the causes: a verdict that is unknown and taken for run, an outer gate, a loop
  gate that has changed, a stored variable, a flag put down. **Reasons** (`DependsForAReason`) needs nothing of this: where nothing is
  captured, supplied or copied, and all conditions parse, every variable of the planner has a
  value (`Decided`), and so every gate.

The proofs assume the named ASSUMEs of the modules, which TLC evaluates in each run.

Only model-checked:

* the liveness properties (`EveryCallReturns`, `SessionEnds`, `HangUpEndsSession`, `EndReached`,
  `ThreadsEnd`): liveness under fairness is out of reach of the provers;
* `InjectionSeen`, `NoFalseAlarm` and `StopEndsPhase` of the runner, whose index is built by
  recursion over the nesting of a workflow.

## Not modelled

* The linter, the reference generator, HTML and SVG drawing, summaries and batch scripts:
  one pass over a file, without state or interaction.
* The command families of `CommandEngine` that only print text, and `_basic_shell`; the
  third stage of `handle` is `DpaWorld`, which is not composed with the other two.
* SFTP opens without truncation or for appending, and files in more than one directory. A
  put of JSch or paramiko truncates.
* In `RunWorkflow`: exit codes, since `run` returns 0 for each; regexes with several groups;
  what the engine answers to a command the workflow does not have, beyond that it may be
  anything. A template finds its own commands unless a variable in it was filled with the
  empty string.
* SSH negotiation, keys and `--map` parsing.
* The quote automaton of `_needs_continuation`, beyond the parity of quotes.

## Plan

1. Done: shell protocol, line reader, connections, workflow and its index, scenario rules,
   their composition, the fake repository, DPA world, the runner, rollback planner.
2. Next to model: the DPA world under the activity and rollback order the scenarios
   describe, composed as third stage of `Engine`; the password dialogue of a copy together
   with what the copy stores.
3. Next to prove: that the index and the runner's walk of a workflow agree at any depth, which
   `InjectionSeen` and `NoFalseAlarm` rest on.
