-------------------------- MODULE ShellSession_proofs --------------------------
(***************************************************************************)
(* Proofs about ShellSession, for every value of its constants.            *)
(*                                                                         *)
(* First, type correctness and where its commands get to.  Then what a     *)
(* run() returns: OwnAnswer, StaleOnlyAfterStall and that the session      *)
(* implements CommandService.                                              *)
(*                                                                         *)
(* As long as no command has slept or asked for a password, exactly one of *)
(* a few things is under way between the two ends (LoginShape, RunShape).  *)
(* From the first such command on, all there is to read comes from it or   *)
(* from a later command (LateInv).                                         *)
(***************************************************************************)
EXTENDS ShellSession, SequenceTheorems, FiniteSetTheorems, TLAPS

\* The first and the last element of a sequence belong to its element set.
LEMMA FirstAndLast ==
    ASSUME NEW S, NEW s \in Seq(S), s # <<>>
    PROVE  Head(s) \in S /\ Tail(s) \in Seq(S) /\ s[Len(s)] \in S
<1>1. Len(s) \in Nat /\ Len(s) # 0
  BY LenProperties, EmptySeq
<1>2. QED BY <1>1, HeadTailProperties, ElementOfSeq

\* What a step of the server may send is a sequence of tokens.
LEMMA TokenTypes ==
    ASSUME NEW n \in Nat, NEW x \in Exits
    PROVE  /\ \A t \in {"login", "out", "ask", "done", "prompt", "more"} : Say(t, n) \in Token
           /\ Code(n, x) \in Token /\ Prompt(n) \in Token
           /\ \A out \in Outputs(n) : out \in Seq(Token)
<1>1. \A t \in {"login", "out", "ask", "done", "prompt", "more"} : Say(t, n) \in Token
  BY ExitsAssumption DEF Say, Token
<1>2. Code(n, x) \in Token
  BY ExitsAssumption DEF Code, Token
<1>3. QED BY <1>1, <1>2 DEF Prompt, Outputs

\* The marker handle_shell echoes is a sequence of tokens.
LEMMA MarkerType ==
    ASSUME NEW l \in Line, NEW x \in Exits
    PROVE  Marker(l, x) \in Seq(Token) /\ Marker(l, x) \o <<Prompt(l.n)>> \in Seq(Token)
<1>1. l.n \in Nat
  BY DEF Line
<1>2. Say("done", l.n) \in Token /\ Code(l.n, x) \in Token /\ Prompt(l.n) \in Token
  BY <1>1, TokenTypes
<1>3. Marker(l, x) \in Seq(Token)
  BY <1>2 DEF Marker
<1>4. QED BY <1>2, <1>3

\* Sending only appends to `down`.
LEMMA SendType ==
    ASSUME TypeOK, NEW text \in Seq(Token), NEW next, Send(text, next)
    PROVE  down' \in Seq(Token) /\ Len(down') >= Len(down) /\ spc' \in {next, "closed"}
<1>1. down \in Seq(Token)
  BY DEF TypeOK, WireTypeOK
<1>2. CASE ~hungUp /\ down' = down \o text /\ spc' = next
  <2>1. Len(down \o text) = Len(down) + Len(text) /\ Len(text) \in Nat /\ Len(down) \in Nat
    BY <1>1, ConcatProperties, LenProperties
  <2>2. down \o text \in Seq(Token)
    BY <1>1, ConcatProperties
  <2>3. QED BY <1>2, <2>1, <2>2
<1>3. CASE hungUp /\ UNCHANGED down /\ spc' \in {next, "closed"}
  <2>1. Len(down) \in Nat
    BY <1>1, LenProperties
  <2>2. QED BY <1>1, <1>3, <2>1
<1>4. QED BY <1>2, <1>3 DEF Send

\* A line the server has read completely leaves every variable well typed.
LEMMA DispatchType ==
    ASSUME TypeOK, NEW l \in Line, Dispatch(l)
    PROVE  /\ ServerTypeOK' /\ down' \in Seq(Token) /\ Len(down') >= Len(down)
<1> USE DEF ServerTypeOK
<1>1. ServerTypeOK /\ down \in Seq(Token) /\ l.n \in Nat
  BY DEF TypeOK, WireTypeOK, Line
<1>2. CASE Answered(l)
  <2>1. Marker(l, 0) \o <<Prompt(l.n)>> \in Seq(Token)
    BY MarkerType, ExitsAssumption
  <2>2. down' \in Seq(Token) /\ Len(down') >= Len(down) /\ spc' \in {"read", "closed"}
    BY <1>2, <2>1, SendType DEF Answered
  <2>3. QED BY <1>1, <1>2, <2>2 DEF Answered
<1>3. CASE Leaves(l)
  <2>1. <<Say("out", l.n)>> \in Seq(Token)
    BY <1>1, TokenTypes, ExitsAssumption
  <2>2. down' \in Seq(Token) /\ Len(down') >= Len(down) /\ spc' \in {"closed"}
    BY <1>3, <2>1, SendType DEF Leaves
  <2>3. QED BY <1>1, <1>3, <2>2 DEF Leaves
<1>4. CASE Performs(l)
  <2>1. PICK x \in Exits, out \in Outputs(l.n) :
          /\ performed' = Append(performed, [n |-> l.n, kind |-> l.kind, exit |-> x])
          /\ \/ l.kind = "ask"  /\ Send(out \o <<Say("ask", l.n)>>, "ask")
             \/ l.kind = "mute" /\ Send(out, "read")
             \/ l.kind = "hang" /\ spc' = "hang" /\ UNCHANGED down
             \/ /\ l.kind \in {"plain", "exit"}
                /\ Send(out \o Marker(l, x) \o <<Prompt(l.n)>>, "read")
    BY <1>4 DEF Performs
  <2>2. out \in Seq(Token) /\ out \o <<Say("ask", l.n)>> \in Seq(Token)
    BY <1>1, TokenTypes
  <2>3. out \o Marker(l, x) \o <<Prompt(l.n)>> \in Seq(Token)
    <3>1. Prompt(l.n) \in Token
      BY <1>1, TokenTypes
    <3>2. QED BY <2>2, <3>1, MarkerType
  <2>4. /\ down' \in Seq(Token) /\ Len(down') >= Len(down)
        /\ spc' \in {"read", "ask", "hang", "closed"}
    <3>1. CASE l.kind = "hang"
      BY <1>1, <2>1, <3>1, LenProperties
    <3>2. CASE l.kind = "ask"
      BY <2>1, <2>2, <3>2, SendType
    <3>3. CASE l.kind = "mute"
      BY <2>1, <2>2, <3>3, SendType
    <3>4. CASE l.kind \in {"plain", "exit"}
      BY <2>1, <2>3, <3>4, SendType
    <3>5. QED BY <2>1, <3>1, <3>2, <3>3, <3>4
  <2>5. performed' \in Seq([n : Nat, kind : EngineKinds \cup ShellKinds, exit : Exits])
    BY <1>1, <2>1 DEF Line
  <2>6. performed' # <<>>
    BY <1>1, <2>1
  <2>7. current' \in Line /\ greeted' = greeted /\ swallowed' = swallowed
    BY <1>1, <1>4 DEF Performs
  <2>8. QED BY <1>1, <2>4, <2>5, <2>6, <2>7
<1>5. QED BY <1>2, <1>3, <1>4 DEF Dispatch

\* No step of handle_shell breaks a type: one case per action.
LEMMA ServerStepType ==
    ASSUME TypeOK, ServerStep
    PROVE  TypeOK'
<1>1. /\ WireTypeOK /\ ServerTypeOK /\ ClientTypeOK
      /\ up \in Seq(Line) /\ down \in Seq(Token) /\ Len(down) \in Nat
  BY LenProperties DEF TypeOK, WireTypeOK
<1>2. up # <<>> => Head(up) \in Line /\ Tail(up) \in Seq(Line) /\ Head(up).n \in Nat
  <2>1. ASSUME up # <<>>
        PROVE  Head(up) \in Line /\ Tail(up) \in Seq(Line)
    BY <1>1, <2>1, FirstAndLast
  <2>2. QED BY <2>1 DEF Line
<1>3. UNCHANGED clientVars
  BY DEF ServerStep
<1> SUFFICES /\ up' \in Seq(Line) /\ hungUp' \in BOOLEAN /\ down' \in Seq(Token)
             /\ ServerTypeOK' /\ Len(down') >= Len(down)
  <2>1. Len(down') \in Nat
    BY LenProperties
  <2>2. got \in 0..Len(down')
    BY <1>1, <2>1 DEF ClientTypeOK
  <2>3. ClientTypeOK'
    BY <1>1, <1>3, <2>2 DEF ClientTypeOK, clientVars
  <2>4. QED BY <2>3 DEF TypeOK, WireTypeOK
<1>4. CASE ReadCommand
  <2> DEFINE l == IF spc = "cont" THEN Joined(current, Head(up)) ELSE Head(up)
  <2>1. l \in Line
    BY <1>1, <1>2, <1>4 DEF ReadCommand, Joined, Line, ServerTypeOK
  <2>2. up' \in Seq(Line) /\ hungUp' \in BOOLEAN
    BY <1>1, <1>2, <1>4 DEF ReadCommand, WireTypeOK
  <2>3. CASE Joins(l)
    <3>1. <<Say("more", l.n)>> \in Seq(Token) /\ <<>> \in Seq(Token)
      BY <2>1, TokenTypes, ExitsAssumption DEF Line
    <3>2. /\ down' \in Seq(Token) /\ Len(down') >= Len(down) /\ spc' \in {"cont", "closed"}
      <4>1. CASE Interactive
        BY <2>3, <3>1, <4>1, SendType DEF Joins
      <4>2. CASE ~Interactive
        BY <2>3, <3>1, <4>2, SendType DEF Joins
      <4>3. QED BY <4>1, <4>2
    <3>3. ServerTypeOK'
      BY <1>1, <2>1, <2>3, <3>2 DEF Joins, ServerTypeOK
    <3>4. QED BY <2>2, <3>2, <3>3
  <2>4. CASE Dispatch(l)
    BY <2>1, <2>2, <2>4, DispatchType
  <2>5. QED BY <1>4, <2>3, <2>4 DEF ReadCommand
<1>5. CASE LoginReply
  <2>1. greeted + 1 \in Nat /\ greeted + 1 \in 0..NLogin
    BY <1>1, <1>5, NLoginAssumption DEF LoginReply, ServerTypeOK
  <2>2. <<Say("login", greeted' + 1)>> \in Seq(Token) /\ <<Prompt(0)>> \in Seq(Token)
    BY <1>5, <2>1, TokenTypes, ExitsAssumption DEF LoginReply
  <2>3. CASE greeted' < NLogin
    <3>1. Send(<<Say("login", greeted' + 1)>>, "login")
      BY <1>5, <2>3 DEF LoginReply
    <3>2. down' \in Seq(Token) /\ Len(down') >= Len(down) /\ spc' \in {"login", "closed"}
      BY <2>2, <3>1, SendType
    <3>3. QED BY <1>1, <1>2, <1>5, <2>1, <2>3, <3>2 DEF LoginReply, ServerTypeOK, WireTypeOK
  <2>4. CASE ~(greeted' < NLogin)
    <3>1. Send(<<Prompt(0)>>, "read")
      BY <1>5, <2>4 DEF LoginReply
    <3>2. down' \in Seq(Token) /\ Len(down') >= Len(down) /\ spc' \in {"read", "closed"}
      BY <2>2, <3>1, SendType
    <3>3. QED BY <1>1, <1>2, <1>5, <2>1, <3>2 DEF LoginReply, ServerTypeOK, WireTypeOK
  <2>5. QED BY <2>3, <2>4
<1>6. ASSUME spc \in {"ask", "hang"}
      PROVE  /\ current \in Line /\ performed[Len(performed)].exit \in Exits
             /\ Marker(current, performed[Len(performed)].exit) \o <<Prompt(current.n)>> \in Seq(Token)
  <2>1. /\ performed \in Seq([n : Nat, kind : EngineKinds \cup ShellKinds, exit : Exits])
        /\ performed # <<>> /\ current \in Line
    BY <1>1, <1>6 DEF ServerTypeOK
  <2>2. performed[Len(performed)].exit \in Exits
    <3>1. performed[Len(performed)] \in [n : Nat, kind : EngineKinds \cup ShellKinds, exit : Exits]
      BY ONLY <2>1, FirstAndLast
    <3>2. QED BY <3>1
  <2>3. QED BY <2>1, <2>2, MarkerType
<1>7. ASSUME NEW reply \in Seq(Nat), spc = "ask", FinishAsk(reply)
      PROVE  ServerTypeOK' /\ down' \in Seq(Token) /\ Len(down') >= Len(down) /\ hungUp' \in BOOLEAN
  <2> DEFINE m == Marker(current, performed[Len(performed)].exit)
  <2>1. PICK out \in Outputs(current.n) : Send(out \o m \o <<Prompt(current.n)>>, "read")
    BY <1>7 DEF FinishAsk
  <2>2. out \in Seq(Token) /\ m \in Seq(Token) /\ <<Prompt(current.n)>> \in Seq(Token)
    BY <1>6, <1>7, TokenTypes, MarkerType, ExitsAssumption DEF Line
  <2>3. out \o m \o <<Prompt(current.n)>> \in Seq(Token)
    BY <2>2
  <2>4. down' \in Seq(Token) /\ Len(down') >= Len(down) /\ spc' \in {"read", "closed"}
    BY <2>1, <2>3, SendType
  <2>5. swallowed' \in Seq(Nat)
    BY <1>1, <1>7 DEF FinishAsk, ServerTypeOK
  <2>6. QED BY <1>1, <1>7, <2>4, <2>5 DEF FinishAsk, ServerTypeOK, WireTypeOK
<1>8. CASE AskReply
  <2>1. <<Head(up).n>> \in Seq(Nat)
    BY <1>2, <1>8 DEF AskReply
  <2>2. QED BY <1>2, <1>7, <1>8, <2>1 DEF AskReply
<1>9. CASE AskNoReply
  <2>1. <<>> \in Seq(Nat)
    OBVIOUS
  <2>2. QED BY <1>1, <1>7, <1>9, <2>1 DEF AskNoReply
<1>10. CASE WakeUp
  <2>1. down' \in Seq(Token) /\ Len(down') >= Len(down) /\ spc' \in {"read", "closed"}
    BY <1>6, <1>10, SendType DEF WakeUp
  <2>2. QED BY <1>1, <1>10, <2>1 DEF WakeUp, ServerTypeOK, WireTypeOK
<1>11. CASE ReadNothing
  <2>1. CASE spc = "cont" /\ Dispatch(current)
    <3>1. current \in Line
      BY <1>1 DEF ServerTypeOK
    <3>2. QED BY <1>1, <1>11, <2>1, <3>1, DispatchType DEF ReadNothing, WireTypeOK
  <2>2. CASE spc' = "closed" /\ UNCHANGED <<down, greeted, current, performed, swallowed>>
    BY <1>1, <1>11, <2>2 DEF ReadNothing, ServerTypeOK, WireTypeOK
  <2>3. QED BY <1>11, <2>1, <2>2 DEF ReadNothing
<1>12. QED BY <1>4, <1>5, <1>8, <1>9, <1>10, <1>11 DEF ServerStep

\* What a run() makes of the text a read loop returned is well typed.
LEMMA TextType ==
    ASSUME NEW text \in Seq(Token)
    PROVE  From(text) \subseteq Nat /\ ExitOf(text) \in Exits
<1>1. \A i \in 1..Len(text) : text[i] \in Token
  BY ElementOfSeq
<1>2. Len(text) \in Nat
  BY LenProperties
<1>3. ExitOf(text) \in Exits
  <2>1. ASSUME Len(text) > 1
        PROVE  text[Len(text)].v \in Exits
    <3>1. text[Len(text)] \in Token
      BY <1>1, <1>2, <2>1
    <3>2. QED BY <3>1 DEF Token
  <2>2. QED BY <2>1, ExitsAssumption DEF ExitOf
<1>4. QED BY <1>1, <1>3 DEF From, Token

\* A read loop that returns well-typed text leaves the client well typed.
LEMMA ReturnsType ==
    ASSUME TypeOK, NEW text \in Seq(Token), Returns(text)
    PROVE  /\ up' \in Seq(Line) /\ hungUp' = hungUp
           /\ cpc' \in Reads \cup {"think"} /\ hello' \in 0..NPrompts
           /\ stdout' \subseteq Nat /\ exit' \in Exits /\ answers' \in Seq(Answer)
           /\ cpc' = "login" => hello' < NPrompts
<1>1. ClientTypeOK /\ up \in Seq(Line)
  BY DEF TypeOK, WireTypeOK
<1>2. CASE HelloReturns
  <2>1. ASSUME NEW kind \in ShellKinds
        PROVE  [n |-> 0, kind |-> kind, marker |-> FALSE, open |-> FALSE] \in Line
    BY DEF Line
  <2>2. "blank" \in ShellKinds /\ "stty" \in ShellKinds
    BY DEF ShellKinds
  <2>3. ASSUME NEW kind \in ShellKinds
        PROVE  Append(up, [n |-> 0, kind |-> kind, marker |-> FALSE, open |-> FALSE]) \in Seq(Line)
    BY <1>1, <2>1
  <2>4. up' \in Seq(Line)
    BY <1>1, <1>2, <2>2, <2>3 DEF HelloReturns, SendLine
  <2>5. QED BY <1>1, <1>2, <2>4, NPromptsAssumption
        DEF HelloReturns, SendLine, ClientTypeOK, Reads, HelloReads, RunReads
<1>3. CASE RunReturns(text)
  <2>1. [status |-> "ok", from |-> stdout, exit |-> exit] \in Answer
    BY <1>1 DEF ClientTypeOK, Answer
  <2>2. answers' \in Seq(Answer)
    <3>1. answers \in Seq(Answer)
      BY <1>1 DEF ClientTypeOK
    <3>2. Append(answers, [status |-> "ok", from |-> stdout, exit |-> exit]) \in Seq(Answer)
      BY <2>1, <3>1
    <3>3. QED BY <1>3, <3>1, <3>2 DEF RunReturns
  <2>3. From(text) \subseteq Nat /\ ExitOf(text) \in Exits
    BY TextType
  <2>4. QED BY <1>1, <1>3, <2>2, <2>3, ExitsAssumption
        DEF RunReturns, ClientTypeOK, Reads, HelloReads, RunReads
<1>4. QED BY <1>2, <1>3 DEF Returns

\* No step of ShellClient breaks a type: one case per action.
LEMMA ClientStepType ==
    ASSUME TypeOK, ClientStep
    PROVE  TypeOK'
<1>1. /\ WireTypeOK /\ ServerTypeOK /\ ClientTypeOK
      /\ up \in Seq(Line) /\ down \in Seq(Token) /\ Len(down) \in Nat /\ got \in 0..Len(down)
  BY LenProperties DEF TypeOK, WireTypeOK, ClientTypeOK
<1>2. UNCHANGED serverVars
  BY DEF ClientStep
<1>3. ServerTypeOK'
  BY <1>1, <1>2 DEF ServerTypeOK, serverVars
<1> SUFFICES WireTypeOK' /\ ClientTypeOK'
  BY <1>3 DEF TypeOK
<1>4. \A m \in 0..Len(down) : SubSeq(down, 1, m) \in Seq(Token)
  <2>1. \A i \in 1..Len(down) : down[i] \in Token
    BY <1>1, ElementOfSeq
  <2>2. QED BY <1>1, <2>1, SubSeqProperties
<1>5. CASE Receive
  BY <1>1, <1>5 DEF Receive, WireTypeOK, ClientTypeOK, wire
<1>6. ASSUME NEW i \in Matches, Match(i)
      PROVE  WireTypeOK' /\ ClientTypeOK'
  <2>1. i \in 1..got /\ i \in 0..Len(down)
    BY <1>1, <1>6 DEF Matches
  <2>2. Returns(SubSeq(down, 1, i)) /\ SubSeq(down, 1, i) \in Seq(Token)
    BY <1>4, <1>6, <2>1 DEF Match
  <2>3. PICK cut \in Cuts(i) : down' = SubSeq(down, cut + 1, Len(down)) /\ got' = got - cut
    BY <1>6 DEF Match
  <2>6. cut \in 0..got /\ cut \in 0..Len(down)
    BY <1>1, <2>1, <2>3 DEF Cuts
  <2>7. SubSeq(down, cut + 1, Len(down)) \in Seq(Token) /\ Len(SubSeq(down, cut + 1, Len(down))) = Len(down) - cut
    <3>1. \A j \in (cut + 1)..Len(down) : down[j] \in Token
      BY <1>1, <2>6, ElementOfSeq
    <3>2. SubSeq(down, cut + 1, Len(down)) \in Seq(Token)
      BY <1>1, <2>6, <3>1, SubSeqProperties
    <3>3. QED BY <1>1, <2>6, <3>2
  <2>4. down' \in Seq(Token) /\ got' \in 0..Len(down')
    BY <1>1, <2>3, <2>6, <2>7
  <2>5. QED BY <1>1, <2>2, <2>4, ReturnsType DEF WireTypeOK, ClientTypeOK
<1>7. CASE TimeOut
  <2>1. Returns(Buf) /\ Buf \in Seq(Token)
    BY <1>1, <1>4, <1>7 DEF TimeOut, Buf
  <2>2. QED BY <1>1, <1>7, <2>1, ReturnsType DEF TimeOut, WireTypeOK, ClientTypeOK
<1>8. CASE IssueFails
  <2>1. [status |-> "error", from |-> {}, exit |-> 0] \in Answer
    BY ExitsAssumption DEF Answer
  <2>2. QED BY <1>1, <1>8, <2>1 DEF IssueFails, WireTypeOK, ClientTypeOK, wire
<1>9. ASSUME NEW kind \in Kinds, Issue(kind)
      PROVE  WireTypeOK' /\ ClientTypeOK'
  <2>1. Cur \in Nat
    BY <1>1, LenProperties DEF Cur, ClientTypeOK
  <2>2. [n |-> Cur, kind |-> kind, marker |-> TRUE, open |-> FALSE] \in Line
    BY <2>1, KindsAssumption DEF Line
  <2>3. up' \in Seq(Line)
    BY <1>1, <1>9, <2>2 DEF Issue, SendLine
  <2>4. QED BY <1>1, <1>9, <2>3 DEF Issue, WireTypeOK, ClientTypeOK, Reads, RunReads
<1>10. CASE HangUp
  BY <1>1, <1>10 DEF HangUp, WireTypeOK, ClientTypeOK
<1>11. QED BY <1>5, <1>6, <1>7, <1>8, <1>9, <1>10 DEF ClientStep

\* The session starts with the right types.
LEMMA InitType == Init => TypeOK
<1> SUFFICES ASSUME Init PROVE TypeOK
  OBVIOUS
<1>1. Greeting \in Seq(Token)
  <2>1. Say("login", 1) \in Token /\ Prompt(0) \in Token
    BY TokenTypes, ExitsAssumption
  <2>2. QED BY <2>1 DEF Greeting
<1>2. WireTypeOK
  <2>1. <<>> \in Seq(Line)
    OBVIOUS
  <2>2. QED BY <1>1, <2>1 DEF Init, WireInit, WireTypeOK
<1>3. ServerTypeOK
  BY NLoginAssumption DEF Init, ServerInit, ServerTypeOK, NoLine, Line, ShellKinds
<1>4. ClientTypeOK
  <2>1. Len(down) \in Nat
    BY <1>2, LenProperties DEF WireTypeOK
  <2>2. QED BY <2>1, NPromptsAssumption, ExitsAssumption
        DEF Init, ClientInit, ClientTypeOK, Reads, HelloReads
<1>5. QED BY <1>2, <1>3, <1>4 DEF TypeOK

\* The variables of every session keep their types: whatever the commands do to the
\* dialogue, and however many login prompts, commands and exit codes there are.
THEOREM TypeCorrect == Spec => []TypeOK
<1>1. TypeOK /\ [Next]_vars => TypeOK'
  <2> SUFFICES ASSUME TypeOK, [Next]_vars PROVE TypeOK'
    OBVIOUS
  <2>1. CASE ServerStep
    BY <2>1, ServerStepType
  <2>2. CASE ClientStep
    BY <2>2, ClientStepType
  <2>3. CASE UNCHANGED vars
    BY <2>3 DEF TypeOK, WireTypeOK, ServerTypeOK, ClientTypeOK, vars, wire, serverVars, clientVars
  <2>4. QED BY <2>1, <2>2, <2>3 DEF Next, Done
<1>2. QED BY InitType, <1>1, PTL DEF Spec

--------------------------------------------------------------------------------
(* Where the commands get to: the inductive invariant. *)

\* A line of the automation client.
Automated(l) ==
    /\ l.open = FALSE
    /\ IF l.n = 0 THEN l.kind \in {"blank", "stty"} ELSE l.kind \in EngineKinds

\* The lines in flight are numbered upwards, and beyond all that the server has taken.
Numbered ==
    /\ \A i \in 1..Len(up) : Automated(up[i])
    /\ \A i, j \in 1..Len(up) : i < j => up[i].n < up[j].n \/ up[j].n = 0
    /\ \A i \in 1..Len(up) : /\ \A j \in 1..Len(performed) : performed[j].n < up[i].n
                             /\ \A j \in 1..Len(swallowed) : swallowed[j] < up[i].n

\* The commands that asked for a password.
Asks == {i \in DOMAIN performed : performed[i].kind = "ask"}

\* Command m was given to the engine, is in flight, or was taken for a password.
CarriedOut(m) == \E j \in DOMAIN performed : performed[j].n = m
Flying(m) == m # 0 /\ \E i \in 1..Len(up) : up[i].n = m
Eaten(m) == \E i \in 1..Len(swallowed) : swallowed[i] = m

\* Every command that was sent is in one of the three places.
Placed == \A m : m \in Sent <=> Flying(m) \/ CarriedOut(m) \/ Eaten(m)

\* The account of the commands: while a password is waited for, one of those that asked for one
\* has not had its line.
Accounts ==
    /\ Placed
    /\ \A i, j \in 1..Len(performed) : i < j => performed[i].n < performed[j].n
    /\ \A i \in 1..Len(swallowed), j \in 1..Len(performed) : swallowed[i] # performed[j].n
    /\ Len(swallowed) + (IF spc = "ask" THEN 1 ELSE 0) <= Cardinality(Asks)
    /\ \A i \in 1..Len(swallowed) : \E j \in 1..Len(performed) :
         performed[j].n = swallowed[i] - 1 /\ performed[j].kind = "ask"

\* While the server is alive no number is left out; it answers the login prompts with the lines
\* that are meant for them; and what asked for a password is the command before the next one.
Alive ==
    /\ \A i \in DOMAIN answers : answers[i].status = "ok"
    /\ \A i \in 1..Len(up) : up[i].n = IF Issued + i > Len(up) THEN Issued + i - Len(up) ELSE 0
    /\ spc # "cont"
    /\ spc = "login" => Len(up) + greeted >= Issued + IF cpc = "login" THEN hello ELSE NLogin
    /\ spc = "ask" => /\ performed[Len(performed)].kind = "ask"
                      /\ performed[Len(performed)].n + Len(up) = Issued

\* The inductive invariant of CommandsConserved and LostOnlyToPassword.
StreamInv ==
    /\ TypeOK /\ Numbered /\ Accounts
    /\ cpc \in HelloReads => answers = <<>>
    /\ spc # "closed" => Alive

--------------------------------------------------------------------------------
(* What the two ends do to the lines in flight and to the commands. *)

\* The server takes no line and waits for nothing.
Waits == spc' \in {"read", "closed"} /\ UNCHANGED <<up, performed, swallowed>>

\* The server takes the next line, which is no command.
Skips ==
    /\ up # <<>> /\ up' = Tail(up) /\ Head(up).n = 0 /\ UNCHANGED <<performed, swallowed>>
    /\ \/ spc = "login" /\ greeted' = greeted + 1 /\ spc' \in {"login", "read", "closed"}
       \/ spc = "read" /\ spc' \in {"read", "closed"}

\* It gives a command to the engine.
Carries ==
    /\ up # <<>> /\ up' = Tail(up) /\ Head(up).n # 0 /\ UNCHANGED swallowed
    /\ \E x \in Exits : performed' = Append(performed, [n |-> Head(up).n, kind |-> Head(up).kind, exit |-> x])
    /\ spc # "closed" /\ spc' \in {"read", "ask", "hang", "closed"}
    /\ spc' = "ask" => Head(up).kind = "ask"

\* It takes a line for a password.
Eats ==
    /\ up # <<>> /\ up' = Tail(up) /\ spc = "ask" /\ spc' \in {"read", "closed"}
    /\ swallowed' = Append(swallowed, Head(up).n) /\ UNCHANGED performed

\* The client sends nothing, and a command that returns has succeeded.
Goes ==
    /\ UNCHANGED up /\ Issued' = Issued
    /\ \A m : m \in Sent' <=> m \in Sent
    /\ (\A i \in DOMAIN answers : answers[i].status = "ok")
         => \A i \in DOMAIN answers' : answers'[i].status = "ok"
    /\ cpc' \in HelloReads => cpc \in HelloReads /\ answers' = answers
    /\ cpc' = "login" => cpc = "login" /\ hello' = hello
    /\ cpc = "login" => cpc' = "login"

\* It sends the reply to a login prompt, or a line that sets the terminal.
Greets ==
    /\ cpc \in HelloReads /\ cpc' \in HelloReads /\ UNCHANGED answers
    /\ \E kind \in {"blank", "stty"} :
         up' = Append(up, [n |-> 0, kind |-> kind, marker |-> FALSE, open |-> FALSE])
    /\ cpc = "login" => hello' = hello + 1 /\ (cpc' = "login" \/ hello' = NLogin)
    /\ cpc # "login" => cpc' # "login"

\* It sends the next command.
Issues ==
    /\ \E kind \in EngineKinds :
         up' = Append(up, [n |-> Cur, kind |-> kind, marker |-> TRUE, open |-> FALSE])
    /\ cpc = "think" /\ cpc' = "needle" /\ UNCHANGED answers

\* A command cannot be sent.
Errs ==
    /\ spc = "closed" /\ cpc = "think" /\ cpc' = "think" /\ UNCHANGED up
    /\ answers' = Append(answers, [status |-> "error", from |-> {}, exit |-> 0])

\* A send goes where it is told, or the session ends.
LEMMA SendEnds == ASSUME NEW text, NEW next, Send(text, next) PROVE spc' \in {next, "closed"}
  BY DEF Send

\* The first line in flight, and the others.
LEMMA FirstLine ==
    ASSUME TypeOK, up # <<>>
    PROVE  /\ Len(up) \in Nat \ {0} /\ Head(up) = up[1] /\ up[1] \in Line
           /\ Len(Tail(up)) = Len(up) - 1 /\ \A i \in 1..Len(up) - 1 : Tail(up)[i] = up[i + 1]
<1>1. up \in Seq(Line)
  BY DEF TypeOK, WireTypeOK
<1>2. QED BY <1>1

\* Every step of handle_shell, while it talks to the automation client, is one of these.
LEMMA ServerSteps ==
    ASSUME StreamInv, ServerStep
    PROVE  spc # "closed" /\ (Waits \/ Skips \/ Carries \/ Eats)
<1>0. TypeOK /\ ~Interactive
  BY AutomationAssumption DEF StreamInv
<1>1. up # <<>> => Head(up) = up[1] /\ up[1] \in Line /\ Automated(up[1]) /\ Len(up) \in Nat \ {0}
  BY <1>0, FirstLine DEF StreamInv, Numbered
<1>2. spc # "closed"
  BY DEF ServerStep, ReadCommand, LoginReply, AskReply, WakeUp, ReadNothing, AskNoReply
<1>3. spc # "cont" /\ Alive
  BY <1>2 DEF StreamInv, Alive
<1>4. CASE ReadCommand
  <2> DEFINE l == Head(up)
  <2>1. up # <<>> /\ up' = Tail(up) /\ spc = "read" /\ (Joins(l) \/ (~NeedsMore(l) /\ Dispatch(l)))
    BY <1>3, <1>4 DEF ReadCommand
  <2>2. ~Joins(l) /\ Automated(l)
    BY <1>1, <2>1 DEF Joins, NeedsMore, Automated
  <2>3. CASE Answered(l)
    <3>1. spc' \in {"read", "closed"} /\ UNCHANGED <<performed, swallowed>>
      BY <2>3, SendEnds DEF Answered
    <3>2. l.n = 0
      BY <2>2, <2>3 DEF Answered, Automated, EngineKinds
    <3>3. QED BY <1>2, <2>1, <3>1, <3>2 DEF Skips
  <2>4. CASE Performs(l)
    <3>1. l.n # 0 /\ l.kind \in EngineKinds
      BY <2>2, <2>4 DEF Performs, Automated, EngineKinds
    <3>2. PICK x \in Exits, out \in Outputs(l.n) :
            /\ performed' = Append(performed, [n |-> l.n, kind |-> l.kind, exit |-> x])
            /\ \/ l.kind = "ask"  /\ Send(out \o <<Say("ask", l.n)>>, "ask")
               \/ l.kind = "mute" /\ Send(out, "read")
               \/ l.kind = "hang" /\ spc' = "hang" /\ UNCHANGED down
               \/ /\ l.kind \in {"plain", "exit"}
                  /\ Send(out \o Marker(l, x) \o <<Prompt(l.n)>>, "read")
      BY <2>4 DEF Performs
    <3>3. /\ spc' \in {"read", "ask", "hang", "closed"}
          /\ spc' = "ask" => l.kind = "ask"
      BY <3>2, SendEnds
    <3>4. UNCHANGED swallowed
      BY <2>4 DEF Performs
    <3>5. QED BY <1>2, <2>1, <3>1, <3>2, <3>3, <3>4 DEF Carries
  <2>5. QED BY <1>0, <2>1, <2>2, <2>3, <2>4 DEF Dispatch, Leaves
<1>5. CASE LoginReply
  <2>1. /\ up # <<>> /\ up' = Tail(up) /\ greeted' = greeted + 1 /\ UNCHANGED <<performed, swallowed>>
        /\ spc = "login" /\ greeted \in Nat /\ greeted < NLogin
    BY <1>0, <1>5 DEF LoginReply, TypeOK, ServerTypeOK
  <2>2. spc' \in {"login", "read", "closed"}
    BY <1>5, SendEnds DEF LoginReply
  <2>3. Issued \in Nat /\ (cpc = "login" => Issued = 0)
    <3>1. Len(answers) \in Nat
      BY <1>0, LenProperties DEF TypeOK, ClientTypeOK
    <3>2. cpc = "login" => answers = <<>> /\ ~InRun
      BY DEF StreamInv, HelloReads, InRun, RunReads
    <3>3. QED BY <3>1, <3>2 DEF Issued, Cur
  <2>4. Len(up) >= Issued + 1
    BY <1>1, <1>3, <2>1, <2>3, NLoginAssumption DEF Alive
  <2>5. Head(up).n = 0
    BY <1>1, <1>3, <2>1, <2>3, <2>4 DEF Alive
  <2>6. QED BY <1>2, <2>1, <2>2, <2>5 DEF Skips
<1>6. CASE AskReply
  <2>1. spc' \in {"read", "closed"} /\ swallowed' = swallowed \o <<Head(up).n>>
    BY <1>6, SendEnds DEF AskReply, FinishAsk
  <2>2. swallowed \in Seq(Nat)
    BY <1>0 DEF TypeOK, ServerTypeOK
  <2>3. swallowed' = Append(swallowed, Head(up).n)
    BY <1>1, <1>6, <2>1, <2>2 DEF AskReply, Line
  <2>4. QED BY <1>2, <1>6, <2>1, <2>3 DEF AskReply, FinishAsk, Eats
<1>7. CASE AskNoReply
  <2>1. spc' \in {"read", "closed"} /\ swallowed' = swallowed \o <<>> /\ UNCHANGED <<up, performed>>
    BY <1>7, SendEnds DEF AskNoReply, FinishAsk
  <2>2. swallowed \in Seq(Nat)
    BY <1>0 DEF TypeOK, ServerTypeOK
  <2>3. QED BY <1>2, <2>1, <2>2 DEF Waits
<1>8. CASE WakeUp
  BY <1>2, <1>8, SendEnds DEF WakeUp, Waits
<1>9. CASE ReadNothing
  BY <1>2, <1>3, <1>9 DEF ReadNothing, Waits
<1>10. QED BY <1>4, <1>5, <1>6, <1>7, <1>8, <1>9 DEF ServerStep

\* Commands are counted from 1, and none is issued before the login is over.
LEMMA Counting ==
    ASSUME StreamInv
    PROVE  /\ answers \in Seq(Answer) /\ Len(answers) \in Nat /\ DOMAIN answers = 1..Len(answers)
           /\ Issued = (IF InRun THEN Len(answers) + 1 ELSE Len(answers)) /\ Cur = Len(answers) + 1
           /\ cpc \in HelloReads => Issued = 0 /\ ~InRun
<1>1. answers \in Seq(Answer)
  BY DEF StreamInv, TypeOK, ClientTypeOK
<1>2. cpc \in HelloReads => ~InRun /\ answers = <<>>
  BY DEF StreamInv, HelloReads, InRun, RunReads
<1>3. QED BY <1>1, <1>2 DEF Issued, Cur

\* Every step of ShellClient is one of these.
LEMMA ClientSteps ==
    ASSUME StreamInv, ClientStep
    PROVE  /\ UNCHANGED serverVars
           /\ Goes \/ Greets \/ Issues \/ Errs
<1>0. UNCHANGED serverVars
  BY DEF ClientStep
<1>1. /\ answers \in Seq(Answer) /\ Len(answers) \in Nat /\ DOMAIN answers = 1..Len(answers)
      /\ Issued = (IF InRun THEN Len(answers) + 1 ELSE Len(answers)) /\ Cur = Len(answers) + 1
  BY Counting
<1>2. ASSUME up' = up, answers' = answers, hello' = hello, InRun' = InRun,
             cpc' = "login" <=> cpc = "login", cpc' \in HelloReads => cpc \in HelloReads
      PROVE  Goes
  <2>1. Issued' = Issued
    BY <1>2 DEF Issued, Cur
  <2>2. \A m : m \in Sent' <=> m \in Sent
    BY <1>2, <2>1 DEF Sent
  <2>3. QED BY <1>2, <2>1, <2>2 DEF Goes
<1>3. ASSUME NEW text, Returns(text) PROVE Goes \/ Greets
  <2>1. CASE cpc = "login" /\ HelloReturns
    <3>1. hello \in Nat /\ hello < NPrompts
      BY <2>1 DEF StreamInv, TypeOK, ClientTypeOK
    <3>2. hello' = hello + 1 /\ cpc' = IF hello' < NPrompts THEN "login" ELSE "first"
      BY <2>1 DEF HelloReturns
    <3>3. cpc' = "login" \/ hello' = NLogin
      BY <3>1, <3>2, NPromptsAssumption, AutomationAssumption
    <3>4. QED BY <2>1, <3>2, <3>3 DEF HelloReturns, SendLine, Greets, HelloReads
  <2>2. CASE cpc = "first" /\ HelloReturns
    BY <2>2 DEF HelloReturns, SendLine, Greets, HelloReads
  <2>3. CASE cpc \in {"stty1", "stty2"} /\ HelloReturns
    <3>1. up' = up /\ answers' = answers /\ hello' = hello /\ cpc' \in {"stty2", "think"}
      BY <2>3 DEF HelloReturns
    <3>2. InRun' = InRun
      BY <2>3, <3>1 DEF InRun, RunReads
    <3>3. QED BY <1>2, <2>3, <3>1, <3>2 DEF HelloReads
  <2>4. CASE cpc \in {"needle", "tail"} /\ RunReturns(text)
    <3>1. up' = up /\ answers' = answers /\ hello' = hello /\ cpc' \in {"tail", "prompt"}
      BY <2>4 DEF RunReturns
    <3>2. InRun' = InRun
      BY <2>4, <3>1 DEF InRun, RunReads
    <3>3. QED BY <1>2, <2>4, <3>1, <3>2 DEF HelloReads
  <2>5. CASE cpc = "prompt" /\ RunReturns(text)
    <3>1. /\ answers' = Append(answers, [status |-> "ok", from |-> stdout, exit |-> exit])
          /\ cpc' = "think" /\ UNCHANGED <<up, hello>>
      BY <2>5 DEF RunReturns
    <3>2. /\ Len(answers') = Len(answers) + 1 /\ DOMAIN answers' = 1..Len(answers) + 1
          /\ \A i \in 1..Len(answers) : answers'[i] = answers[i]
          /\ answers'[Len(answers) + 1].status = "ok"
      <4>1. [status |-> "ok", from |-> stdout, exit |-> exit] \in Answer
        BY DEF StreamInv, TypeOK, ClientTypeOK, Answer
      <4> DEFINE a == [status |-> "ok", from |-> stdout, exit |-> exit]
      <4>2. /\ Len(Append(answers, a)) = Len(answers) + 1 /\ Append(answers, a) \in Seq(Answer)
            /\ \A i \in 1..Len(answers) : Append(answers, a)[i] = answers[i]
            /\ Append(answers, a)[Len(answers) + 1] = a
        <5>1. a \in Answer /\ answers \in Seq(Answer)
          BY <1>1, <4>1
        <5> HIDE DEF a
        <5>2. QED BY <5>1, AppendProperties
      <4>3. DOMAIN answers' = 1..Len(answers')
        BY <3>1, <4>2
      <4>4. QED BY <3>1, <4>2, <4>3
    <3>3. InRun /\ ~InRun'
      BY <2>5, <3>1 DEF InRun, RunReads
    <3>4. Issued = Len(answers) + 1 /\ Issued' = Len(answers) + 1
      BY <1>1, <3>2, <3>3 DEF Issued
    <3>5. \A m : m \in Sent' <=> m \in Sent
      <4> DEFINE n == Len(answers)
      <4>1. \A i \in 1..n + 1 : (i > n + 1 \/ answers'[i].status = "ok") <=> (i > n \/ answers[i].status = "ok")
        <5> TAKE i \in 1..n + 1
        <5>1. n \in Nat
          BY <1>1
        <5>2. CASE i = n + 1
          BY <3>2, <5>1, <5>2
        <5>3. CASE i \in 1..n
          BY <3>2, <5>1, <5>3
        <5>4. QED BY <5>1, <5>2, <5>3
      <4>2. Sent' = {i \in 1..n + 1 : i > n + 1 \/ answers'[i].status = "ok"}
        BY <3>2, <3>4 DEF Sent
      <4>3. Sent = {i \in 1..n + 1 : i > n \/ answers[i].status = "ok"}
        BY <3>4 DEF Sent
      <4>4. QED BY <4>1, <4>2, <4>3
    <3>6. (\A i \in DOMAIN answers : answers[i].status = "ok")
            => \A i \in DOMAIN answers' : answers'[i].status = "ok"
      <4> DEFINE n == Len(answers)
      <4> SUFFICES ASSUME \A i \in DOMAIN answers : answers[i].status = "ok",
                          NEW i \in 1..n + 1
                   PROVE  answers'[i].status = "ok"
        BY <3>2
      <4>1. n \in Nat /\ DOMAIN answers = 1..n
        BY <1>1
      <4>2. CASE i = n + 1
        BY <3>2, <4>2
      <4>3. CASE i \in 1..n
        BY <3>2, <4>1, <4>3
      <4>4. QED BY <4>1, <4>2, <4>3
    <3>7. QED BY <2>5, <3>1, <3>4, <3>5, <3>6 DEF Goes, HelloReads
  <2>6. QED BY <1>3, <2>1, <2>2, <2>3, <2>4, <2>5 DEF Returns, HelloReturns, RunReturns
<1>4. CASE Receive
  <2>1. up' = up /\ answers' = answers /\ hello' = hello /\ cpc' = cpc
    BY <1>4 DEF Receive, wire
  <2>2. InRun' = InRun
    BY <2>1 DEF InRun
  <2>3. QED BY <1>0, <1>2, <2>1, <2>2
<1>5. ASSUME NEW kind \in Kinds, Issue(kind) PROVE Issues
  BY <1>5, KindsAssumption DEF Issue, SendLine, Issues
<1>6. CASE spc = "closed" /\ IssueFails
  <2>1. UNCHANGED <<up, cpc>> /\ cpc = "think"
    BY <1>6 DEF IssueFails, wire
  <2>2. answers' = Append(answers, [status |-> "error", from |-> {}, exit |-> 0])
    BY <1>6 DEF IssueFails
  <2>3. QED BY <1>0, <1>6, <2>1, <2>2 DEF Errs
<1>7. CASE HangUp
  <2>1. up' = up /\ answers' = answers /\ hello' = hello /\ cpc = "think" /\ cpc' = "closed"
    BY <1>7 DEF HangUp
  <2>2. InRun' = InRun
    BY <2>1 DEF InRun, RunReads
  <2>3. QED BY <1>0, <1>2, <2>1, <2>2 DEF HelloReads
<1>8. QED BY <1>0, <1>3, <1>4, <1>5, <1>6, <1>7 DEF ClientStep, Match, TimeOut

--------------------------------------------------------------------------------
(* The commands are conserved. *)

\* The sequences of the account, before and after a step.
LEMMA Sequences ==
    ASSUME TypeOK
    PROVE  /\ Len(up) \in Nat /\ DOMAIN up = 1..Len(up) /\ \A i \in 1..Len(up) : up[i] \in Line /\ up[i].n \in Nat
           /\ Len(performed) \in Nat /\ DOMAIN performed = 1..Len(performed)
           /\ \A i \in 1..Len(performed) : performed[i].n \in Nat
           /\ Len(swallowed) \in Nat /\ DOMAIN swallowed = 1..Len(swallowed)
           /\ \A i \in 1..Len(swallowed) : swallowed[i] \in Nat
<1>1. up \in Seq(Line) /\ swallowed \in Seq(Nat)
  BY DEF TypeOK, WireTypeOK, ServerTypeOK
<1>2. performed \in Seq([n : Nat, kind : EngineKinds \cup ShellKinds, exit : Exits])
  BY DEF TypeOK, ServerTypeOK
<1>3. \A i \in 1..Len(performed) : performed[i].n \in Nat
  <2>1. \A i \in 1..Len(performed) : performed[i] \in [n : Nat, kind : EngineKinds \cup ShellKinds, exit : Exits]
    BY <1>2, ElementOfSeq
  <2>2. QED BY <2>1
<1>4. \A i \in 1..Len(up) : up[i] \in Line /\ up[i].n \in Nat
  <2>1. \A i \in 1..Len(up) : up[i] \in Line
    BY <1>1
  <2>2. QED BY <2>1 DEF Line
<1>5. /\ Len(up) \in Nat /\ DOMAIN up = 1..Len(up)
      /\ Len(swallowed) \in Nat /\ DOMAIN swallowed = 1..Len(swallowed)
      /\ \A i \in 1..Len(swallowed) : swallowed[i] \in Nat
  BY <1>1
<1>6. Len(performed) \in Nat /\ DOMAIN performed = 1..Len(performed)
  BY <1>2
<1>7. QED BY <1>3, <1>4, <1>5, <1>6

\* A line is taken from the front.
LEMMA Taken ==
    ASSUME TypeOK, up # <<>>, up' = Tail(up)
    PROVE  /\ Head(up) = up[1] /\ 1 \in 1..Len(up) /\ Len(up') = Len(up) - 1
           /\ \A i \in 1..Len(up') : i + 1 \in 1..Len(up) /\ up'[i] = up[i + 1]
           /\ \A m : Flying(m) <=> Flying(m)' \/ (m # 0 /\ m = up[1].n)
<1>1. /\ Head(up) = up[1] /\ 1 \in 1..Len(up) /\ Len(up') = Len(up) - 1 /\ Len(up) \in Nat
      /\ \A i \in 1..Len(up') : i + 1 \in 1..Len(up) /\ up'[i] = up[i + 1]
  BY FirstLine
<1>2. ASSUME NEW m PROVE Flying(m) <=> Flying(m)' \/ (m # 0 /\ m = up[1].n)
  <2>1. ASSUME NEW i \in 1..Len(up), up[i].n = m, i # 1
        PROVE  \E j \in 1..Len(up') : up'[j].n = m
    <3>1. i - 1 \in 1..Len(up') /\ up'[i - 1] = up[(i - 1) + 1] /\ (i - 1) + 1 = i
      BY <1>1, <2>1
    <3>2. QED BY <2>1, <3>1
  <2>2. QED BY <1>1, <2>1 DEF Flying
<1>3. QED BY <1>1, <1>2

\* A line is sent after the others.
LEMMA Added ==
    ASSUME TypeOK, NEW l \in Line, up' = Append(up, l)
    PROVE  /\ Len(up') = Len(up) + 1 /\ up'[Len(up) + 1] = l
           /\ \A i \in 1..Len(up) : up'[i] = up[i]
           /\ \A m : Flying(m)' <=> Flying(m) \/ (m # 0 /\ m = l.n)
<1>1. up \in Seq(Line) /\ Len(up) \in Nat
  BY DEF TypeOK, WireTypeOK
<1>2. /\ Len(up') = Len(up) + 1 /\ up'[Len(up) + 1] = l
      /\ \A i \in 1..Len(up) : up'[i] = up[i]
  BY <1>1, AppendProperties
<1>3. ASSUME NEW m PROVE Flying(m)' <=> Flying(m) \/ (m # 0 /\ m = l.n)
  <2>1. 1..Len(up') = 1..Len(up) \cup {Len(up) + 1}
    BY <1>1, <1>2
  <2>2. (\E i \in 1..Len(up') : up'[i].n = m) <=> (\E i \in 1..Len(up) : up[i].n = m) \/ l.n = m
    BY <1>2, <2>1
  <2>3. QED BY <2>2 DEF Flying
<1>4. QED BY <1>2, <1>3

\* Those that asked for a password are finitely many.
LEMMA AsksFinite ==
    ASSUME TypeOK
    PROVE  IsFiniteSet(Asks) /\ Asks \subseteq 1..Len(performed) /\ Cardinality(Asks) \in Nat
<1>1. Len(performed) \in Nat /\ DOMAIN performed = 1..Len(performed)
  BY Sequences
<1>2. Asks \subseteq 1..Len(performed)
  BY <1>1 DEF Asks
<1>3. IsFiniteSet(1..Len(performed))
  <2>1. 1 \in Int /\ Len(performed) \in Int
    BY <1>1
  <2>2. QED BY <2>1, FS_Interval
<1>4. QED BY <1>2, <1>3, FS_Subset, FS_CardinalityType

\* A command that is carried out is one more, and may ask for a password.
LEMMA Carried ==
    ASSUME TypeOK, NEW c \in [n : Nat, kind : EngineKinds \cup ShellKinds, exit : Exits],
           performed' = Append(performed, c)
    PROVE  /\ Len(performed') = Len(performed) + 1 /\ performed'[Len(performed) + 1] = c
           /\ \A i \in 1..Len(performed) : performed'[i] = performed[i]
           /\ \A m : CarriedOut(m)' <=> CarriedOut(m) \/ m = c.n
           /\ Cardinality(Asks') = IF c.kind = "ask" THEN Cardinality(Asks) + 1 ELSE Cardinality(Asks)
<1>1. /\ performed \in Seq([n : Nat, kind : EngineKinds \cup ShellKinds, exit : Exits])
      /\ Len(performed) \in Nat /\ DOMAIN performed = 1..Len(performed)
  BY Sequences DEF TypeOK, ServerTypeOK
<1>2. /\ Len(performed') = Len(performed) + 1 /\ performed'[Len(performed) + 1] = c
      /\ \A i \in 1..Len(performed) : performed'[i] = performed[i]
      /\ performed' \in Seq([n : Nat, kind : EngineKinds \cup ShellKinds, exit : Exits])
  BY <1>1, AppendProperties
<1>3. DOMAIN performed' = 1..Len(performed) \cup {Len(performed) + 1}
  BY <1>1, <1>2
<1>4. \A m : CarriedOut(m)' <=> CarriedOut(m) \/ m = c.n
  BY <1>1, <1>2, <1>3 DEF CarriedOut
<1>5. Asks' = IF c.kind = "ask" THEN Asks \cup {Len(performed) + 1} ELSE Asks
  <2>1. \A i : i \in Asks' <=> i \in DOMAIN performed' /\ performed'[i].kind = "ask"
    BY DEF Asks
  <2>2. \A i : i \in Asks <=> i \in 1..Len(performed) /\ performed[i].kind = "ask"
    BY <1>1 DEF Asks
  <2>3. \A i : i \in Asks' <=> i \in Asks \/ (i = Len(performed) + 1 /\ c.kind = "ask")
    BY <1>2, <1>3, <2>1, <2>2
  <2>4. CASE c.kind = "ask"
    BY <2>3, <2>4
  <2>5. CASE c.kind # "ask"
    BY <2>3, <2>5
  <2>6. QED BY <2>4, <2>5
<1>6. Len(performed) + 1 \notin Asks /\ IsFiniteSet(Asks)
  BY <1>1, AsksFinite
<1>7. QED BY <1>2, <1>4, <1>5, <1>6, FS_AddElement

\* A step of the server keeps the invariant.
LEMMA StreamServer == ASSUME StreamInv, ServerStep PROVE StreamInv'
<1>1. /\ TypeOK /\ TypeOK' /\ Numbered /\ Accounts /\ spc # "closed" /\ Alive
      /\ Waits \/ Skips \/ Carries \/ Eats
  BY ServerStepType, ServerSteps DEF StreamInv
<1>2. UNCHANGED clientVars
  BY DEF ServerStep
<1>3. /\ Issued' = Issued /\ (\A m : m \in Sent' <=> m \in Sent)
      /\ cpc' = cpc /\ hello' = hello /\ answers' = answers
  BY <1>2 DEF clientVars, Issued, Sent, InRun, Cur
<1>4. /\ Len(up) \in Nat /\ \A i \in 1..Len(up) : up[i] \in Line /\ up[i].n \in Nat
      /\ Len(performed) \in Nat /\ \A i \in 1..Len(performed) : performed[i].n \in Nat
      /\ Len(swallowed) \in Nat /\ \A i \in 1..Len(swallowed) : swallowed[i] \in Nat
      /\ Issued \in Nat
  BY <1>1, Sequences, Counting
<1> SUFFICES Numbered' /\ Accounts' /\ (spc' # "closed" => Alive')
  BY <1>1, <1>3 DEF StreamInv
<1>5. CASE Waits
  <2>1. up' = up /\ performed' = performed /\ swallowed' = swallowed /\ spc' \in {"read", "closed"}
    BY <1>5 DEF Waits
  <2>2. Numbered'
    BY <1>1, <2>1 DEF Numbered
  <2>3. Accounts'
    <3>1. Asks' = Asks
      BY <2>1 DEF Asks
    <3>2. Placed'
      BY <1>1, <1>3, <2>1 DEF Accounts, Placed, Flying, Eaten, CarriedOut
    <3>3. Cardinality(Asks) \in Nat
      BY <1>1, AsksFinite
    <3>4. Len(swallowed') + 0 <= Cardinality(Asks')
      BY <1>1, <1>4, <2>1, <3>1, <3>3 DEF Accounts
    <3>5. QED BY <1>1, <2>1, <3>2, <3>4 DEF Accounts
  <2>4. Alive'
    BY <1>1, <1>3, <2>1 DEF Alive
  <2>5. QED BY <2>2, <2>3, <2>4
<1>6. ASSUME up # <<>>, up' = Tail(up)
      PROVE  /\ Head(up) = up[1] /\ 1 \in 1..Len(up) /\ Len(up') = Len(up) - 1
             /\ \A i \in 1..Len(up') : i + 1 \in 1..Len(up) /\ up'[i] = up[i + 1]
             /\ \A m : Flying(m) <=> Flying(m)' \/ (m # 0 /\ m = up[1].n)
             /\ \A i \in 1..Len(up') : Automated(up'[i])
             /\ \A i, j \in 1..Len(up') : i < j => up'[i].n < up'[j].n \/ up'[j].n = 0
             /\ \A i \in 1..Len(up') : up[1].n # 0 => up[1].n < up'[i].n
             /\ \A i \in 1..Len(up') :
                  up'[i].n = IF Issued' + i > Len(up') THEN Issued' + i - Len(up') ELSE 0
             /\ up[1].n # 0 => up[1].n + Len(up') = Issued
  <2>1. /\ Head(up) = up[1] /\ 1 \in 1..Len(up) /\ Len(up') = Len(up) - 1
        /\ \A i \in 1..Len(up') : i + 1 \in 1..Len(up) /\ up'[i] = up[i + 1]
        /\ \A m : Flying(m) <=> Flying(m)' \/ (m # 0 /\ m = up[1].n)
    BY <1>1, <1>6, Taken
  <2>2. \A i \in 1..Len(up') : Automated(up'[i])
    BY <1>1, <2>1 DEF Numbered
  <2>3. \A i, j \in 1..Len(up') : i < j => up'[i].n < up'[j].n \/ up'[j].n = 0
    <3> SUFFICES ASSUME NEW i \in 1..Len(up'), NEW j \in 1..Len(up'), i < j
        PROVE  up'[i].n < up'[j].n \/ up'[j].n = 0
      OBVIOUS
    <3>1. i + 1 \in 1..Len(up) /\ j + 1 \in 1..Len(up) /\ i + 1 < j + 1
      BY <2>1
    <3>2. up[i + 1].n < up[j + 1].n \/ up[j + 1].n = 0
      BY <1>1, <3>1 DEF Numbered
    <3>3. QED BY <2>1, <3>2
  <2>4. \A i \in 1..Len(up) : up[i].n = IF Issued + i > Len(up) THEN Issued + i - Len(up) ELSE 0
    BY <1>1 DEF Alive
  <2>5. up[1].n # 0 => Issued + 1 > Len(up) /\ up[1].n = Issued + 1 - Len(up)
    BY <2>1, <2>4
  <2>6. \A i \in 1..Len(up') : up'[i].n = IF Issued + (i + 1) > Len(up) THEN Issued + (i + 1) - Len(up) ELSE 0
    BY <2>1, <2>4
  <2>7. \A i \in 1..Len(up') : up[1].n # 0 => up[1].n < up'[i].n
    BY <1>4, <2>1, <2>5, <2>6
  <2>8. \A i \in 1..Len(up') : up'[i].n = IF Issued' + i > Len(up') THEN Issued' + i - Len(up') ELSE 0
    BY <1>3, <1>4, <2>1, <2>6
  <2>9. up[1].n # 0 => up[1].n + Len(up') = Issued
    BY <1>4, <2>1, <2>5
  <2>10. QED BY <2>1, <2>2, <2>3, <2>7, <2>8, <2>9
<1>7. CASE Skips
  <2>1. up # <<>> /\ up' = Tail(up) /\ Head(up).n = 0 /\ performed' = performed /\ swallowed' = swallowed
    BY <1>7 DEF Skips
  <2>2. Numbered'
    BY <1>1, <1>6, <2>1 DEF Numbered
  <2>3. Accounts'
    <3>1. Asks' = Asks /\ Cardinality(Asks) \in Nat
      BY <1>1, <2>1, AsksFinite DEF Asks
    <3>2. Placed'
      BY <1>1, <1>3, <1>6, <2>1 DEF Accounts, Placed, Eaten, CarriedOut
    <3>3. spc' # "ask" /\ spc # "ask"
      BY <1>7 DEF Skips
    <3>4. QED BY <1>1, <2>1, <3>1, <3>2, <3>3 DEF Accounts
  <2>4. ASSUME spc' # "closed" PROVE Alive'
    <3>1. spc' # "cont" /\ spc' # "ask" /\ (spc' = "login" => spc = "login" /\ greeted' = greeted + 1)
      BY <1>7 DEF Skips
    <3>2. greeted \in Nat /\ hello \in Nat
      BY <1>1 DEF TypeOK, ServerTypeOK, ClientTypeOK
    <3>3. spc' = "login" => Len(up') + greeted' >= Issued' + IF cpc' = "login" THEN hello' ELSE NLogin
      <4>1. spc' = "login" => Len(up') + greeted' = Len(up) + greeted
        BY <1>4, <1>6, <2>1, <3>1, <3>2
      <4>2. QED BY <1>1, <1>3, <3>1, <4>1 DEF Alive
    <3>4. QED BY <1>1, <1>3, <1>6, <2>1, <3>1, <3>3 DEF Alive
  <2>5. QED BY <2>2, <2>3, <2>4
<1>8. CASE Carries
  <2>1. /\ up # <<>> /\ up' = Tail(up) /\ Head(up).n # 0 /\ swallowed' = swallowed
        /\ spc' \in {"read", "ask", "hang", "closed"} /\ (spc' = "ask" => Head(up).kind = "ask")
    BY <1>8 DEF Carries
  <2>2. PICK x \in Exits : performed' = Append(performed, [n |-> Head(up).n, kind |-> Head(up).kind, exit |-> x])
    BY <1>8 DEF Carries
  <2> DEFINE c == [n |-> Head(up).n, kind |-> Head(up).kind, exit |-> x]
  <2>3. c \in [n : Nat, kind : EngineKinds \cup ShellKinds, exit : Exits] /\ c.n = up[1].n /\ c.kind = Head(up).kind
    BY <1>4, <1>6, <2>1 DEF Line
  <2> HIDE DEF c
  <2>4. /\ Len(performed') = Len(performed) + 1 /\ performed'[Len(performed) + 1] = c
        /\ \A i \in 1..Len(performed) : performed'[i] = performed[i]
        /\ \A m : CarriedOut(m)' <=> CarriedOut(m) \/ m = c.n
        /\ Cardinality(Asks') = IF c.kind = "ask" THEN Cardinality(Asks) + 1 ELSE Cardinality(Asks)
    BY <1>1, <2>2, <2>3, Carried DEF c
  <2>5. /\ \A j \in 1..Len(performed) : performed[j].n < c.n
        /\ \A j \in 1..Len(swallowed) : swallowed[j] < c.n
    BY <1>1, <1>6, <2>1, <2>3 DEF Numbered
  <2>6. \A j \in 1..Len(performed') : j \in 1..Len(performed) \/ j = Len(performed) + 1
    BY <1>4, <2>4
  <2>7. Numbered'
    <3>1. \A i \in 1..Len(up') : c.n < up'[i].n
      BY <1>6, <2>1, <2>3
    <3>2. \A i \in 1..Len(up'), j \in 1..Len(performed) : performed[j].n < up'[i].n
      BY <1>1, <1>6, <2>1 DEF Numbered
    <3>3. \A i \in 1..Len(up'), j \in 1..Len(performed') : performed'[j].n < up'[i].n
      BY <2>4, <2>6, <3>1, <3>2
    <3>4. \A i \in 1..Len(up'), j \in 1..Len(swallowed') : swallowed'[j] < up'[i].n
      BY <1>1, <1>6, <2>1 DEF Numbered
    <3>5. QED BY <1>6, <2>1, <3>3, <3>4 DEF Numbered
  <2>8. Accounts'
    <3>1. Placed'
      <4>1. \A m : Flying(m) <=> Flying(m)' \/ m = c.n
        BY <1>6, <2>1, <2>3
      <4>2. QED BY <1>1, <1>3, <2>1, <2>4, <4>1 DEF Accounts, Placed, Eaten
    <3>2. \A i, j \in 1..Len(performed') : i < j => performed'[i].n < performed'[j].n
      <4> TAKE i, j \in 1..Len(performed')
      <4>1. CASE i \in 1..Len(performed) /\ j \in 1..Len(performed)
        BY <1>1, <2>4, <4>1 DEF Accounts
      <4>2. CASE i \in 1..Len(performed) /\ j = Len(performed) + 1
        BY <2>4, <2>5, <4>2
      <4>3. CASE i = Len(performed) + 1
        BY <1>4, <2>4, <4>3
      <4>4. QED BY <2>6, <4>1, <4>2, <4>3
    <3>3. \A i \in 1..Len(swallowed'), j \in 1..Len(performed') : swallowed'[i] # performed'[j].n
      <4> TAKE i \in 1..Len(swallowed'), j \in 1..Len(performed')
      <4>1. CASE j \in 1..Len(performed)
        BY <1>1, <2>1, <2>4, <4>1 DEF Accounts
      <4>2. CASE j = Len(performed) + 1
        <5>1. i \in 1..Len(swallowed) /\ swallowed[i] \in Nat /\ c.n \in Nat /\ swallowed[i] < c.n
          BY <1>4, <2>1, <2>3, <2>5
        <5>2. QED BY <2>1, <2>4, <4>2, <5>1
      <4>3. QED BY <2>6, <4>1, <4>2
    <3>4. Len(swallowed') + (IF spc' = "ask" THEN 1 ELSE 0) <= Cardinality(Asks')
      <4>1. Len(swallowed) <= Cardinality(Asks) /\ Cardinality(Asks) \in Nat
        BY <1>1, <1>4, AsksFinite DEF Accounts
      <4>2. spc' = "ask" => c.kind = "ask"
        BY <2>1, <2>3
      <4>3. QED BY <1>4, <2>1, <2>4, <4>1, <4>2
    <3>5. \A i \in 1..Len(swallowed') : \E j \in 1..Len(performed') :
            performed'[j].n = swallowed'[i] - 1 /\ performed'[j].kind = "ask"
      <4> TAKE i \in 1..Len(swallowed')
      <4>1. PICK j \in 1..Len(performed) : performed[j].n = swallowed[i] - 1 /\ performed[j].kind = "ask"
        BY <1>1, <2>1 DEF Accounts
      <4>2. j \in 1..Len(performed') /\ performed'[j] = performed[j]
        BY <1>4, <2>4
      <4>3. QED BY <2>1, <4>1, <4>2
    <3>6. QED BY <3>1, <3>2, <3>3, <3>4, <3>5 DEF Accounts
  <2>9. Alive'
    <3>1. spc' = "ask" => /\ performed'[Len(performed')].kind = "ask"
                          /\ performed'[Len(performed')].n + Len(up') = Issued'
      BY <1>3, <1>6, <2>1, <2>3, <2>4
    <3>2. QED BY <1>1, <1>3, <1>6, <2>1, <3>1 DEF Alive
  <2>10. QED BY <2>7, <2>8, <2>9
<1>9. CASE Eats
  <2> DEFINE h == up[1].n
             p == performed[Len(performed)]
  <2>1. /\ up # <<>> /\ up' = Tail(up) /\ spc = "ask" /\ spc' \in {"read", "closed"}
        /\ swallowed' = Append(swallowed, h) /\ performed' = performed
    BY <1>6, <1>9 DEF Eats
  <2>2. Len(performed) \in 1..Len(performed) /\ p.kind = "ask" /\ p.n + Len(up) = Issued /\ p.n \in Nat
    <3>1. performed # <<>>
      BY <1>1, <2>1 DEF TypeOK, ServerTypeOK
    <3>2. Len(performed) # 0
      BY <1>1, <3>1, EmptySeq DEF TypeOK, ServerTypeOK
    <3>3. QED BY <1>1, <1>4, <2>1, <3>2 DEF Alive
  <2>3. h \in Nat /\ p.n < h /\ h # 0
    <3>1. 1 \in 1..Len(up)
      BY <1>6, <2>1
    <3>2. p.n < h
      BY <1>1, <2>2, <3>1 DEF Numbered
    <3>3. h \in Nat
      BY <1>4, <3>1
    <3>4. QED BY <2>2, <3>2, <3>3
  <2>4. p.n = h - 1
    BY <1>4, <1>6, <2>1, <2>2, <2>3
  <2> HIDE DEF h, p
  <2>5. /\ Len(swallowed') = Len(swallowed) + 1 /\ swallowed'[Len(swallowed) + 1] = h
        /\ \A i \in 1..Len(swallowed) : swallowed'[i] = swallowed[i]
        /\ \A i \in 1..Len(swallowed') : i \in 1..Len(swallowed) \/ i = Len(swallowed) + 1
    <3>1. swallowed \in Seq(Nat)
      BY <1>1 DEF TypeOK, ServerTypeOK
    <3>2. QED BY <1>4, <2>1, <2>3, <3>1, AppendProperties
  <2>6. Numbered'
    <3>1. \A i \in 1..Len(up') : h < up'[i].n
      BY <1>6, <2>1, <2>3 DEF h
    <3>2. \A i \in 1..Len(up'), j \in 1..Len(swallowed) : swallowed[j] < up'[i].n
      BY <1>1, <1>6, <2>1 DEF Numbered
    <3>3. \A i \in 1..Len(up'), j \in 1..Len(swallowed') : swallowed'[j] < up'[i].n
      BY <2>5, <3>1, <3>2
    <3>4. \A i \in 1..Len(up'), j \in 1..Len(performed') : performed'[j].n < up'[i].n
      BY <1>1, <1>6, <2>1 DEF Numbered
    <3>5. QED BY <1>6, <2>1, <3>3, <3>4 DEF Numbered
  <2>7. Accounts'
    <3>1. Placed'
      <4>1. \A m : Flying(m) <=> Flying(m)' \/ m = h
        BY <1>6, <2>1, <2>3 DEF h
      <4>2. \A m : Eaten(m)' <=> Eaten(m) \/ m = h
        <5>1. 1..Len(swallowed') = 1..Len(swallowed) \cup {Len(swallowed) + 1}
          BY <1>4, <2>5
        <5>2. QED BY <2>5, <5>1 DEF Eaten
      <4>3. \A m : CarriedOut(m)' <=> CarriedOut(m)
        BY <2>1 DEF CarriedOut
      <4>4. QED BY <1>1, <1>3, <4>1, <4>2, <4>3 DEF Accounts, Placed
    <3>2. \A i \in 1..Len(swallowed'), j \in 1..Len(performed') : swallowed'[i] # performed'[j].n
      <4> TAKE i \in 1..Len(swallowed'), j \in 1..Len(performed')
      <4>1. CASE i \in 1..Len(swallowed)
        BY <1>1, <2>1, <2>5, <4>1 DEF Accounts
      <4>2. CASE i = Len(swallowed) + 1
        <5>1. j \in 1..Len(performed) /\ performed[j].n \in Nat /\ performed[j].n < h
          BY <1>1, <1>4, <1>6, <2>1 DEF Numbered, h
        <5>2. QED BY <2>1, <2>3, <2>5, <4>2, <5>1
      <4>3. QED BY <2>5, <4>1, <4>2
    <3>3. Len(swallowed') + (IF spc' = "ask" THEN 1 ELSE 0) <= Cardinality(Asks')
      <4>1. Len(swallowed) + 1 <= Cardinality(Asks) /\ Asks' = Asks
        BY <1>1, <2>1 DEF Accounts, Asks
      <4>2. Cardinality(Asks) \in Nat
        BY <1>1, AsksFinite
      <4>3. QED BY <1>4, <2>1, <2>5, <4>1, <4>2
    <3>4. \A i \in 1..Len(swallowed') : \E j \in 1..Len(performed') :
            performed'[j].n = swallowed'[i] - 1 /\ performed'[j].kind = "ask"
      <4> TAKE i \in 1..Len(swallowed')
      <4>1. CASE i \in 1..Len(swallowed)
        BY <1>1, <2>1, <2>5, <4>1 DEF Accounts
      <4>2. CASE i = Len(swallowed) + 1
        BY <2>1, <2>2, <2>4, <2>5, <4>2 DEF p
      <4>3. QED BY <2>5, <4>1, <4>2
    <3>5. QED BY <1>1, <2>1, <3>1, <3>2, <3>3, <3>4 DEF Accounts
  <2>8. Alive'
    BY <1>1, <1>3, <1>6, <2>1 DEF Alive
  <2>9. QED BY <2>6, <2>7, <2>8
<1>10. QED BY <1>1, <1>5, <1>7, <1>8, <1>9

\* A step of the client keeps it.
LEMMA StreamClient == ASSUME StreamInv, ClientStep PROVE StreamInv'
<1>1. /\ TypeOK /\ TypeOK' /\ Numbered /\ Accounts
      /\ Goes \/ Greets \/ Issues \/ Errs
  BY ClientStepType, ClientSteps DEF StreamInv
<1>2. spc' = spc /\ greeted' = greeted /\ performed' = performed /\ swallowed' = swallowed
  BY ClientSteps DEF serverVars
<1>3. Asks' = Asks /\ \A m : (CarriedOut(m)' <=> CarriedOut(m)) /\ (Eaten(m)' <=> Eaten(m))
  BY <1>2 DEF Asks, CarriedOut, Eaten
<1>4. /\ Len(up) \in Nat /\ \A i \in 1..Len(up) : up[i] \in Line /\ up[i].n \in Nat
      /\ Len(performed) \in Nat /\ \A i \in 1..Len(performed) : performed[i].n \in Nat
      /\ Len(swallowed) \in Nat /\ \A i \in 1..Len(swallowed) : swallowed[i] \in Nat
      /\ DOMAIN performed = 1..Len(performed)
  BY <1>1, Sequences
<1>5. /\ answers \in Seq(Answer) /\ Len(answers) \in Nat /\ DOMAIN answers = 1..Len(answers)
      /\ Issued = (IF InRun THEN Len(answers) + 1 ELSE Len(answers)) /\ Cur = Len(answers) + 1
      /\ cpc \in HelloReads => Issued = 0 /\ ~InRun
  BY Counting
<1>6. \A m \in Sent : m \in 1..Issued
  BY DEF Sent
<1>7. /\ \A i \in 1..Len(up) : up[i].n # 0 => up[i].n \in 1..Issued
      /\ \A i \in 1..Len(performed) : performed[i].n \in 1..Issued
      /\ \A i \in 1..Len(swallowed) : swallowed[i] \in 1..Issued
  BY <1>1, <1>4, <1>6 DEF Accounts, Placed, Flying, CarriedOut, Eaten
<1>8. ASSUME Placed' PROVE Accounts'
  BY <1>1, <1>2, <1>3, <1>8 DEF Accounts
<1>9. CASE Goes
  <2>1. Placed'
    BY <1>1, <1>3, <1>9 DEF Goes, Accounts, Placed, Flying
  <2>2. Numbered'
    BY <1>1, <1>2, <1>9 DEF Goes, Numbered
  <2>3. Alive => Alive'
    BY <1>2, <1>9 DEF Goes, Alive
  <2>4. cpc' \in HelloReads => answers' = <<>>
    BY <1>9 DEF Goes, StreamInv
  <2>5. QED BY <1>1, <1>2, <1>8, <2>1, <2>2, <2>3, <2>4 DEF StreamInv
<1>10. CASE Greets
  <2>1. PICK kind \in {"blank", "stty"} :
          up' = Append(up, [n |-> 0, kind |-> kind, marker |-> FALSE, open |-> FALSE])
    BY <1>10 DEF Greets
  <2> DEFINE l == [n |-> 0, kind |-> kind, marker |-> FALSE, open |-> FALSE]
  <2>2. l \in Line /\ l.n = 0 /\ Automated(l)
    BY DEF Line, ShellKinds, Automated
  <2> HIDE DEF l
  <2>3. /\ Len(up') = Len(up) + 1 /\ up'[Len(up) + 1] = l
        /\ \A i \in 1..Len(up) : up'[i] = up[i]
        /\ \A m : Flying(m)' <=> Flying(m)
        /\ \A i \in 1..Len(up') : i \in 1..Len(up) \/ i = Len(up) + 1
    BY <1>1, <1>4, <2>1, <2>2, Added DEF l
  <2>4. cpc \in HelloReads /\ cpc' \in HelloReads /\ answers' = answers /\ answers = <<>>
    BY <1>10 DEF Greets, StreamInv
  <2>5. Issued = 0 /\ Issued' = 0 /\ \A m : m \notin Sent /\ m \notin Sent'
    BY <1>5, <2>4 DEF Issued, Sent, InRun, HelloReads, RunReads
  <2>6. Len(performed) = 0 /\ Len(swallowed) = 0
    <3>1. \A i \in 1..Len(performed) : FALSE
      BY <1>7, <2>5
    <3>2. \A i \in 1..Len(swallowed) : FALSE
      BY <1>7, <2>5
    <3>3. Len(performed) \in 1..Len(performed) \/ Len(performed) = 0
      BY <1>4
    <3>4. Len(swallowed) \in 1..Len(swallowed) \/ Len(swallowed) = 0
      BY <1>4
    <3>5. QED BY <3>1, <3>2, <3>3, <3>4
  <2>7. Placed'
    BY <1>1, <1>3, <2>3, <2>5 DEF Accounts, Placed
  <2>8. Numbered'
    <3>1. \A i \in 1..Len(up') : Automated(up'[i])
      BY <1>1, <2>2, <2>3 DEF Numbered
    <3>2. \A i, j \in 1..Len(up') : i < j => up'[i].n < up'[j].n \/ up'[j].n = 0
      <4> SUFFICES ASSUME NEW i \in 1..Len(up'), NEW j \in 1..Len(up'), i < j, j # Len(up) + 1
          PROVE  up'[i].n < up'[j].n \/ up'[j].n = 0
        BY <2>2, <2>3
      <4>1. i \in 1..Len(up) /\ j \in 1..Len(up)
        BY <1>4, <2>3
      <4>2. QED BY <1>1, <2>3, <4>1 DEF Numbered
    <3>3. QED BY <1>2, <2>6, <3>1, <3>2 DEF Numbered
  <2>9. ASSUME Alive, spc # "closed" PROVE Alive'
    <3>1. \A i \in 1..Len(up) : up[i].n = 0
      BY <1>4, <2>5, <2>9 DEF Alive
    <3>2. \A i \in 1..Len(up') : up'[i].n = IF Issued' + i > Len(up') THEN Issued' + i - Len(up') ELSE 0
      BY <1>4, <2>2, <2>3, <2>5, <3>1
    <3>3. hello \in Nat /\ greeted \in Nat /\ (cpc = "login" => hello' = hello + 1 /\ (cpc' = "login" \/ hello' = NLogin))
          /\ (cpc # "login" => cpc' # "login")
      BY <1>1, <1>10 DEF Greets, TypeOK, ServerTypeOK, ClientTypeOK
    <3>4. spc' = "login" => Len(up') + greeted' >= Issued' + IF cpc' = "login" THEN hello' ELSE NLogin
      BY <1>2, <1>4, <2>3, <2>5, <2>9, <3>3, NLoginAssumption DEF Alive
    <3>5. spc' # "ask"
      <4>1. performed = <<>>
        BY <1>1, <2>6, EmptySeq DEF TypeOK, ServerTypeOK
      <4>2. QED BY <1>1, <1>2, <4>1 DEF TypeOK, ServerTypeOK
    <3>6. QED BY <1>2, <2>4, <2>9, <3>2, <3>4, <3>5 DEF Alive
  <2>10. QED BY <1>1, <1>2, <1>8, <2>4, <2>7, <2>8, <2>9 DEF StreamInv
<1>11. CASE Issues
  <2>1. PICK kind \in EngineKinds :
          up' = Append(up, [n |-> Cur, kind |-> kind, marker |-> TRUE, open |-> FALSE])
    BY <1>11 DEF Issues
  <2> DEFINE l == [n |-> Cur, kind |-> kind, marker |-> TRUE, open |-> FALSE]
  <2>2. l \in Line /\ l.n = Cur /\ Automated(l)
    <3>1. Cur \in Nat /\ Cur # 0
      <4>1. Len(answers) \in Nat
        BY <1>5
      <4>2. QED BY <4>1 DEF Cur
    <3>2. QED BY <3>1 DEF Line, Automated
  <2> HIDE DEF l
  <2>3. /\ Len(up') = Len(up) + 1 /\ up'[Len(up) + 1] = l
        /\ \A i \in 1..Len(up) : up'[i] = up[i]
        /\ \A m : Flying(m)' <=> Flying(m) \/ (m # 0 /\ m = Cur)
        /\ \A i \in 1..Len(up') : i \in 1..Len(up) \/ i = Len(up) + 1
    BY <1>1, <1>4, <2>1, <2>2, Added DEF l
  <2>4. cpc = "think" /\ cpc' = "needle" /\ answers' = answers
    BY <1>11 DEF Issues
  <2>5. Issued = Len(answers) /\ Issued' = Len(answers) + 1 /\ Cur = Len(answers) + 1 /\ Len(answers) \in Nat
    BY <1>5, <2>4 DEF Issued, InRun, RunReads, Cur
  <2>6. \A m : m \in Sent' <=> m \in Sent \/ m = Cur
    <3>1. \A m : m \in 1..Len(answers) + 1 <=> m \in 1..Len(answers) \/ m = Len(answers) + 1
      BY <2>5
    <3>2. QED BY <2>4, <2>5, <3>1 DEF Sent
  <2>7. Placed'
    BY <1>1, <1>3, <2>3, <2>5, <2>6 DEF Accounts, Placed
  <2>8. Numbered'
    <3>1. \A i \in 1..Len(up') : Automated(up'[i])
      BY <1>1, <2>2, <2>3 DEF Numbered
    <3>2. \A i, j \in 1..Len(up') : i < j => up'[i].n < up'[j].n \/ up'[j].n = 0
      <4> SUFFICES ASSUME NEW i \in 1..Len(up'), NEW j \in 1..Len(up'), i < j
          PROVE  up'[i].n < up'[j].n \/ up'[j].n = 0
        OBVIOUS
      <4>1. i \in 1..Len(up)
        BY <1>4, <2>3
      <4>2. CASE j \in 1..Len(up)
        BY <1>1, <2>3, <4>1, <4>2 DEF Numbered
      <4>3. CASE j = Len(up) + 1
        <5>1. up[i].n < Cur
          BY <1>4, <1>7, <2>5, <4>1
        <5>2. QED BY <2>2, <2>3, <4>1, <4>3, <5>1
      <4>4. QED BY <2>3, <4>2, <4>3
    <3>3. \A i \in 1..Len(up') : /\ \A j \in 1..Len(performed) : performed[j].n < up'[i].n
                                 /\ \A j \in 1..Len(swallowed) : swallowed[j] < up'[i].n
      <4> TAKE i \in 1..Len(up')
      <4>1. CASE i \in 1..Len(up)
        BY <1>1, <2>3, <4>1 DEF Numbered
      <4>2. CASE i = Len(up) + 1
        <5>1. /\ \A j \in 1..Len(performed) : performed[j].n < Cur
              /\ \A j \in 1..Len(swallowed) : swallowed[j] < Cur
          BY <1>7, <2>5
        <5>2. QED BY <2>2, <2>3, <4>2, <5>1
      <4>3. QED BY <2>3, <4>1, <4>2
    <3>4. QED BY <1>2, <3>1, <3>2, <3>3 DEF Numbered
  <2>9. ASSUME Alive PROVE Alive'
    <3>1. \A i \in 1..Len(up') : up'[i].n = IF Issued' + i > Len(up') THEN Issued' + i - Len(up') ELSE 0
      <4> TAKE i \in 1..Len(up')
      <4>1. CASE i \in 1..Len(up)
        <5>1. up[i].n = IF Issued + i > Len(up) THEN Issued + i - Len(up) ELSE 0
          BY <2>9, <4>1 DEF Alive
        <5>2. QED BY <1>4, <2>3, <2>5, <4>1, <5>1
      <4>2. CASE i = Len(up) + 1
        BY <1>4, <2>2, <2>3, <2>5, <4>2
      <4>3. QED BY <2>3, <4>1, <4>2
    <3>2. greeted \in Nat
      BY <1>1 DEF TypeOK, ServerTypeOK
    <3>3. spc' = "login" => Len(up') + greeted' >= Issued' + IF cpc' = "login" THEN hello' ELSE NLogin
      BY <1>2, <1>4, <2>3, <2>4, <2>5, <2>9, <3>2, NLoginAssumption DEF Alive
    <3>4. ASSUME spc' = "ask"
          PROVE  /\ performed'[Len(performed')].kind = "ask"
                 /\ performed'[Len(performed')].n + Len(up') = Issued'
      <4>1. performed # <<>> /\ Len(performed) \in 1..Len(performed)
        <5>1. performed # <<>>
          BY <1>1, <1>2, <3>4 DEF TypeOK, ServerTypeOK
        <5>2. QED BY <1>1, <1>4, <5>1, EmptySeq DEF TypeOK, ServerTypeOK
      <4>2. performed[Len(performed)].n \in Nat
        BY <1>4, <4>1
      <4>3. performed[Len(performed)].n + Len(up) = Issued /\ performed[Len(performed)].kind = "ask"
        BY <1>2, <2>9, <3>4 DEF Alive
      <4>4. QED BY <1>2, <1>4, <2>3, <2>5, <4>2, <4>3
    <3>5. QED BY <1>2, <2>4, <2>9, <3>1, <3>3, <3>4 DEF Alive
  <2>10. cpc' \notin HelloReads
    BY <2>4 DEF HelloReads
  <2>11. QED BY <1>1, <1>2, <1>8, <2>7, <2>8, <2>9, <2>10 DEF StreamInv
<1>12. CASE Errs
  <2> DEFINE a == [status |-> "error", from |-> {}, exit |-> 0]
             n == Len(answers)
  <2>1. up' = up /\ spc = "closed" /\ cpc = "think" /\ cpc' = "think" /\ answers' = Append(answers, a)
    BY <1>12 DEF Errs
  <2>2. a \in Answer /\ a.status # "ok"
    BY ExitsAssumption DEF Answer
  <2>3. /\ Len(answers') = n + 1 /\ answers'[n + 1].status # "ok"
        /\ \A i \in 1..n : answers'[i] = answers[i]
    <3> HIDE DEF a
    <3>1. answers \in Seq(Answer)
      BY <1>5
    <3>2. QED BY <2>1, <2>2, <3>1, AppendProperties
  <2>4. Issued = n /\ Issued' = n + 1 /\ n \in Nat
    BY <1>5, <2>1, <2>3 DEF Issued, InRun, RunReads
  <2>5. \A m : m \in Sent' <=> m \in Sent
    <3>1. \A m : m \in 1..n + 1 <=> m \in 1..n \/ m = n + 1
      BY <2>4
    <3>2. \A m : m \in Sent' <=> m \in 1..n + 1 /\ (m > n + 1 \/ answers'[m].status = "ok")
      BY <2>3, <2>4 DEF Sent
    <3>3. \A m : m \in Sent <=> m \in 1..n /\ (m > n \/ answers[m].status = "ok")
      BY <2>4 DEF Sent
    <3>4. QED BY <2>3, <2>4, <3>1, <3>2, <3>3
  <2>6. Placed'
    BY <1>1, <1>3, <2>1, <2>5 DEF Accounts, Placed, Flying
  <2>7. Numbered'
    BY <1>1, <1>2, <2>1 DEF Numbered
  <2>8. cpc' \notin HelloReads
    BY <2>1 DEF HelloReads
  <2>9. QED BY <1>1, <1>2, <1>8, <2>1, <2>6, <2>7, <2>8 DEF StreamInv
<1>13. QED BY <1>1, <1>9, <1>10, <1>11, <1>12

\* Nothing has been sent at the start.
LEMMA StreamInit == Init => StreamInv
<1> SUFFICES ASSUME Init PROVE StreamInv
  OBVIOUS
<1>1. TypeOK
  BY InitType
<1>2. up = <<>> /\ performed = <<>> /\ swallowed = <<>> /\ answers = <<>> /\ greeted = 0 /\ hello = 0
  BY DEF Init, ServerInit, WireInit, ClientInit
<1>3. spc \in {"login", "read"} /\ cpc \in {"login", "first"} /\ (cpc # "login" => NLogin = 0)
  BY AutomationAssumption DEF Init, ServerInit, ClientInit
<1>4. Issued = 0 /\ Sent = {}
  BY <1>2, <1>3 DEF Issued, InRun, RunReads, Sent
<1>5. Numbered
  BY <1>2 DEF Numbered
<1>6. Accounts
  <2>1. Placed
    BY <1>2, <1>4 DEF Placed, Flying, CarriedOut, Eaten
  <2>2. Asks = {} /\ Cardinality(Asks) = 0
    BY <1>2, FS_EmptySet DEF Asks
  <2>3. QED BY <1>2, <1>3, <2>1, <2>2 DEF Accounts
<1>7. Alive
  BY <1>2, <1>3, <1>4, NLoginAssumption DEF Alive
<1>8. QED BY <1>1, <1>2, <1>5, <1>6, <1>7 DEF StreamInv

\* Every step keeps the invariant.
LEMMA StreamStep == StreamInv /\ [Next]_vars => StreamInv'
<1> SUFFICES ASSUME StreamInv, [Next]_vars PROVE StreamInv'
  OBVIOUS
<1>1. CASE ServerStep
  BY <1>1, StreamServer
<1>2. CASE ClientStep
  BY <1>2, StreamClient
<1>3. CASE UNCHANGED vars
  <2>1. UNCHANGED <<up, hungUp, down>> /\ UNCHANGED serverVars /\ UNCHANGED clientVars
    BY <1>3 DEF vars, wire
  <2>2. TypeOK'
    BY <2>1 DEF StreamInv, TypeOK, WireTypeOK, ServerTypeOK, ClientTypeOK, serverVars, clientVars
  <2>3. Issued' = Issued /\ Sent' = Sent /\ Asks' = Asks
    BY <2>1 DEF serverVars, clientVars, Issued, Sent, InRun, Cur, Asks
  <2>4. Placed' <=> Placed
    BY <2>1, <2>3 DEF serverVars, Placed, Flying, CarriedOut, Eaten
  <2>5. Numbered'
    BY <2>1 DEF serverVars, StreamInv, Numbered
  <2>6. Accounts'
    BY <2>1, <2>3, <2>4 DEF serverVars, StreamInv, Accounts
  <2>7. Alive => Alive'
    BY <2>1, <2>3 DEF serverVars, clientVars, Alive
  <2>8. QED BY <2>1, <2>2, <2>5, <2>6, <2>7 DEF serverVars, clientVars, StreamInv
<1>4. QED BY <1>1, <1>2, <1>3 DEF Next, Done

\* Every command the client sent is on the wire, was given to the engine or was taken for a
\* password, and is in one place only; the engine gets the commands in order, each once; and it
\* takes one password prompt to consume one (handle_shell's two read_line calls).
THEOREM Conservation == Spec => []CommandsConserved
<1>1. StreamInv => CommandsConserved
  <2> SUFFICES ASSUME StreamInv PROVE CommandsConserved
    OBVIOUS
  <2>1. TypeOK /\ Accounts
    BY DEF StreamInv
  <2>2. /\ DOMAIN up = 1..Len(up) /\ \A i \in 1..Len(up) : up[i].n \in Nat
        /\ DOMAIN performed = 1..Len(performed) /\ DOMAIN swallowed = 1..Len(swallowed)
        /\ Len(swallowed) \in Nat
    BY <2>1, Sequences
  <2> DEFINE places == {up[i].n : i \in InFlight} \cup {performed[i].n : i \in DOMAIN performed}
                         \cup {swallowed[i] : i \in DOMAIN swallowed}
  <2>3. \A m : m \in places <=> Flying(m) \/ CarriedOut(m) \/ Eaten(m)
    BY <2>2 DEF InFlight, Flying, CarriedOut, Eaten
  <2>4. Sent = places
    <3> HIDE DEF places
    <3>1. \A m : m \in Sent <=> m \in places
      BY <2>1, <2>3 DEF Accounts, Placed
    <3>2. QED BY <3>1
  <2>5. Len(swallowed) <= Cardinality(Asks)
    BY <2>1, <2>2, AsksFinite DEF Accounts
  <2>6. QED BY <2>1, <2>2, <2>4, <2>5 DEF Accounts, CommandsConserved, Asks
<1>2. QED BY <1>1, StreamInit, StreamStep, PTL DEF Spec

\* A command that is never carried out was taken for the password of the command just before it.
THEOREM Losses == Spec => []LostOnlyToPassword
<1>1. StreamInv => LostOnlyToPassword
  <2> SUFFICES ASSUME StreamInv PROVE LostOnlyToPassword
    OBVIOUS
  <2>1. TypeOK /\ Accounts
    BY DEF StreamInv
  <2>2. DOMAIN performed = 1..Len(performed) /\ DOMAIN swallowed = 1..Len(swallowed)
    BY <2>1, Sequences
  <2>3. QED BY <2>1, <2>2 DEF Accounts, LostOnlyToPassword
<1>2. QED BY <1>1, StreamInit, StreamStep, PTL DEF Spec

--------------------------------------------------------------------------------
\* No command has slept past the client's deadlines or asked for a password.
Stalls(c) == c.kind \in {"ask", "hang"}
Gentle == \A j \in DOMAIN performed : ~Stalls(performed[j])

\* The prompt after command n was suppressed.
Muted(n) == \E j \in DOMAIN performed : performed[j].n = n /\ performed[j].kind = "mute"

\* All there is to read is what muted commands printed, the oldest first.
Leftover ==
    /\ \A i \in DOMAIN down : down[i].t = "out" /\ Muted(down[i].n)
    /\ \A i, j \in DOMAIN down : i < j => down[i].n <= down[j].n

\* The commands of which there is output still to be returned, other than the current one.
Left == (stdout \cup Unread) \ {Cur}

\* Nothing is on the wire.
Nobody == up = <<>> /\ down = <<>>

\* A line is on its way to the server; in the second case all the server said has been consumed.
Sending(n, kind, marker) == up = <<[n |-> n, kind |-> kind, marker |-> marker, open |-> FALSE]>>
OnTheWay(n, kind, marker) == Sending(n, kind, marker) /\ down = <<>>

\* The server has answered, and down still holds the last k tokens of the answer to n.
Ends == <<"prompt", "code", "done">>
Answering(n, k) ==
    /\ up = <<>> /\ Len(down) = k /\ k \in 1..2
    /\ \A i \in 1..k : down[i].n = n /\ down[i].t = Ends[k + 1 - i]

\* down holds the answer to n behind what is left of muted commands.
Behind(n) ==
    /\ up = <<>> /\ Len(down) > 2
    /\ \A i \in 1..(Len(down) - 3) : down[i].t = "out" /\ (down[i].n = n \/ Muted(down[i].n))
    /\ \A i \in 1..3 : down[Len(down) - 3 + i].n = n /\ down[Len(down) - 3 + i].t = Ends[4 - i]

\* run() has collected what its command printed, and what is left of muted ones.
Own == Cur \in stdout /\ \A m \in stdout : m = Cur \/ Muted(m)

\* run() waits in vain: it collects all that is left, and takes at most the oldest of it.
Silent ==
    /\ Leftover
    /\ cpc = "tail" => stdout = Unread
    /\ cpc = "prompt" => /\ \A m \in stdout : Muted(m)
                         /\ Unread = stdout \/ Unread = stdout \ Service!Oldest(stdout)

\* The login and the first prompts: what is under way between the two ends.
LoginShape ==
    \/ spc = "login" /\ greeted = hello /\ up = <<>> /\ Len(down) = 1
       /\ cpc = "login" /\ down[1].t = "login" /\ down[1].n = hello + 1
    \/ spc = "login" /\ hello = greeted + 1 /\ OnTheWay(0, "blank", FALSE)
       /\ cpc = IF hello < NLogin THEN "login" ELSE "first"
    \/ spc = "read" /\ cpc = "first" /\ Answering(0, 1)
    \/ spc = "read" /\ cpc = "stty1" /\ (OnTheWay(0, "stty", FALSE) \/ Answering(0, 1))
    \/ spc = "read" /\ cpc = "stty2" /\ Nobody

\* A plain command has been carried out, and run() works through its answer.
PlainShape ==
    /\ CarriedOut(Cur) /\ ~Muted(Cur)
    /\ \/ cpc = "needle" /\ Behind(Cur)
       \/ cpc = "tail" /\ Answering(Cur, 2) /\ Own
       \/ cpc = "prompt" /\ Answering(Cur, 1) /\ Own

\* A command whose prompt is suppressed has been carried out.
MuteShape == Muted(Cur) /\ InRun /\ up = <<>> /\ Silent

\* Between two commands, or during one.
RunShape ==
    /\ spc = "read"
    /\ \/ cpc \in {"think", "closed"} /\ up = <<>> /\ Leftover
       \/ cpc = "needle" /\ Leftover /\ \E kind \in EngineKinds : Sending(Cur, kind, TRUE)
       \/ PlainShape
       \/ MuteShape

\* Exactly one of these is under way while the server lives.
Shapes == LoginShape \/ RunShape

\* The server has given up, and never got the current command.
Gone == spc = "closed" /\ cpc \notin HelloReads /\ Silent /\ (InRun => ~CarriedOut(Cur))

\* Until a command sleeps or asks for a password the session is in one of the shapes above.
ShapeInv ==
    /\ StreamInv /\ hungUp = (cpc = "closed")
    /\ cpc \notin {"tail", "prompt"} => stdout = {}
    /\ Gentle => IF spc = "closed" THEN Gone ELSE Shapes

\* The types of the state, and what the shapes take for granted.
LEMMA Sessions ==
    ASSUME ShapeInv
    PROVE  /\ TypeOK /\ Cur \in Nat /\ down \in Seq(Token) /\ up \in Seq(Line) /\ answers \in Seq(Answer)
           /\ performed \in Seq([n : Nat, kind : EngineKinds \cup ShellKinds, exit : Exits])
           /\ Len(answers) \in Nat /\ Len(down) \in Nat /\ got \in 0..Len(down) /\ NPrompts = NLogin
           /\ StreamInv /\ stdout \subseteq Nat
  BY LenProperties, AutomationAssumption
  DEF ShapeInv, StreamInv, TypeOK, WireTypeOK, ClientTypeOK, ServerTypeOK, Cur

\* What a first part and the rest of the text consist of.
LEMMA Pieces ==
    ASSUME down \in Seq(Token), NEW i \in 0..Len(down)
    PROVE  /\ Len(down) \in Nat /\ DOMAIN down = 1..Len(down)
           /\ \A j \in 1..Len(down) : down[j] \in Token /\ down[j].n \in Nat
           /\ From(SubSeq(down, 1, i)) = {down[j].n : j \in 1..i}
           /\ SubSeq(down, i + 1, Len(down)) \in Seq(Token)
           /\ Len(SubSeq(down, i + 1, Len(down))) = Len(down) - i
           /\ \A j \in 1..(Len(down) - i) : SubSeq(down, i + 1, Len(down))[j] = down[i + j]
<1>1. /\ Len(down) \in Nat /\ DOMAIN down = 1..Len(down)
      /\ \A j \in 1..Len(down) : down[j] \in Token /\ down[j].n \in Nat
  <2>1. \A j \in 1..Len(down) : down[j] \in Token
    BY ElementOfSeq
  <2>2. QED BY <2>1 DEF Token
<1>2. From(SubSeq(down, 1, i)) = {down[j].n : j \in 1..i}
  <2>1. Len(SubSeq(down, 1, i)) = i /\ \A j \in 1..i : SubSeq(down, 1, i)[j] = down[j]
    BY <1>1, SubSeqProperties
  <2>2. QED BY <2>1 DEF From
<1>3. /\ SubSeq(down, i + 1, Len(down)) \in Seq(Token)
      /\ Len(SubSeq(down, i + 1, Len(down))) = Len(down) - i
      /\ \A j \in 1..(Len(down) - i) : SubSeq(down, i + 1, Len(down))[j] = down[i + j]
  <2>1. i + 1 \in 1..(Len(down) + 1) /\ \A j \in (i + 1)..Len(down) : down[j] \in Token
    BY <1>1
  <2>2. SubSeq(down, i + 1, Len(down)) \in Seq(Token)
    BY <1>1, <2>1, SubSeqProperties
  <2>4. PICK d \in Nat : d = Len(down)
    BY <1>1
  <2>3. Len(SubSeq(down, i + 1, Len(down))) = Len(down) - i
    <3>1. i + 1 \in Int /\ d \in Int /\ i \in 0..d /\ \A j \in (i + 1)..d : down[j] \in Token
      BY <1>1, <2>1, <2>4
    <3>2. Len(SubSeq(down, i + 1, d)) = IF i + 1 <= d THEN d - (i + 1) + 1 ELSE 0
      BY ONLY <3>1, SubSeqProperties
    <3>3. QED BY <2>4, <3>1, <3>2
  <2>5. \A j \in 1..(d - i) : j \in Nat /\ i + 1 \in Nat /\ j <= d - (i + 1) + 1 /\ (i + 1) + j - 1 = i + j
    BY <2>4
  <2>6. \A j \in 1..(d - i) : SubSeq(down, i + 1, d)[j] = down[i + j]
    BY <2>4, <2>5
  <2>7. QED BY <2>2, <2>3, <2>4, <2>6
<1>4. QED BY <1>1, <1>2, <1>3

\* What is left of muted commands stays that when its first part is consumed.
LEMMA LeftoverCut ==
    ASSUME down \in Seq(Token), Leftover, NEW i \in 0..Len(down), UNCHANGED performed,
           down' = SubSeq(down, i + 1, Len(down))
    PROVE  Leftover'
<1>1. /\ Len(down) \in Nat /\ DOMAIN down = 1..Len(down) /\ DOMAIN down' = 1..(Len(down) - i)
      /\ \A j \in 1..(Len(down) - i) : i + j \in DOMAIN down /\ down'[j] = down[i + j]
  BY Pieces
<1>2. \A j \in DOMAIN down' :
         down'[j].t = "out" /\ \E k \in DOMAIN performed' : performed'[k].n = down'[j].n /\ performed'[k].kind = "mute"
  BY <1>1 DEF Leftover, Muted
<1>3. ASSUME NEW j \in DOMAIN down', NEW k \in DOMAIN down', j < k PROVE down'[j].n <= down'[k].n
  <2>1. i + j \in DOMAIN down /\ i + k \in DOMAIN down /\ i + j < i + k
    BY <1>1, <1>3
  <2>2. QED BY <1>1, <1>3, <2>1 DEF Leftover
<1>4. QED BY <1>2, <1>3 DEF Leftover, Muted

\* Commands are carried out after they were sent.
LEMMA MutedSent ==
    ASSUME StreamInv
    PROVE  /\ Issued \in Nat /\ \A m : CarriedOut(m) => m \in 1..Issued
           /\ \A m : Muted(m) => CarriedOut(m) /\ m \in 1..Issued
<1>1. \A m : CarriedOut(m) => m \in Sent
  BY DEF StreamInv, Accounts, Placed
<1>2. Issued \in Nat
  BY Counting
<1>3. \A m : Muted(m) => CarriedOut(m)
  BY DEF Muted, CarriedOut
<1>4. QED BY <1>1, <1>2, <1>3 DEF Sent

\* Between two commands what is left is older than the next command.
LEMMA LeftBetween ==
    ASSUME ShapeInv, Leftover, ~InRun
    PROVE  Left = Unread /\ \A m \in Unread : m \in Nat /\ m < Cur
<1>1. stdout = {}
  BY DEF ShapeInv, InRun, RunReads
<1>2. \A m \in Unread : m \in 1..Issued /\ Issued = Len(answers) /\ Len(answers) \in Nat /\ Cur = Len(answers) + 1
  <2>1. \A m \in Unread : Muted(m)
    BY DEF Unread, Leftover
  <2>2. StreamInv
    BY DEF ShapeInv
  <2>3. QED BY <2>1, <2>2, MutedSent, Counting
<1>3. \A m \in Unread : m \in Nat /\ m < Cur
  BY <1>2
<1>4. QED BY <1>1, <1>3 DEF Left

\* Where the reads of the client find their pattern in the answer to a plain command.
LEMMA MatchInAnswer ==
    ASSUME TypeOK, NEW n \in Nat, NEW k \in 1..2, Answering(n, k), NEW i \in Matches
    PROVE  /\ cpc \in {"first", "stty1", "stty2", "prompt"} => i = k
           /\ cpc = "tail" => i = k - 1
           /\ cpc \notin {"login", "needle"}
<1>1. got \in 0..k /\ Len(down) = k /\ \A j \in 1..k : down[j].t = Ends[k + 1 - j]
  BY DEF Answering, TypeOK, ClientTypeOK
<1>2. i \in 1..k /\ down[i].t = Ends[k + 1 - i]
  BY <1>1 DEF Matches
<1>3. k + 1 - i = 1 \/ k + 1 - i = 2
  BY <1>2
<1>4. Ends[1] = "prompt" /\ Ends[2] = "code"
  BY DEF Ends
<1>5. QED BY <1>2, <1>3, <1>4 DEF Matches

\* The first read of run() consumes all but the last two tokens of the answer, and collects what
\* is left of muted commands with it.
LEMMA ConsumeBlock ==
    ASSUME TypeOK, down \in Seq(Token), NEW n \in Nat, Behind(n), cpc = "needle", NEW i \in Matches,
           down' = SubSeq(down, i + 1, Len(down)), up' = up
    PROVE  /\ Answering(n, 2)'
           /\ From(SubSeq(down, 1, i)) = Unread \cup {n}
           /\ \A m \in From(SubSeq(down, 1, i)) : m = n \/ Muted(m)
           /\ \A m \in Unread' : m = n
<1> DEFINE d == Len(down)
<1>1. d \in Nat /\ d > 2 /\ got \in 0..d /\ i \in 1..got /\ down[i].t = "done" /\ DOMAIN down = 1..d
  <2>1. d \in Nat /\ d > 2 /\ DOMAIN down = 1..d
    BY LenProperties DEF Behind
  <2>2. QED BY <2>1 DEF Matches, TypeOK, ClientTypeOK
<1> HIDE DEF d
<1>2. /\ down[d].n = n /\ down[d].t = "prompt" /\ down[d - 1].n = n /\ down[d - 1].t = "code"
      /\ down[d - 2].n = n /\ down[d - 2].t = "done"
  <2>1. \A j \in 1..3 : down[d - 3 + j].n = n /\ down[d - 3 + j].t = Ends[4 - j]
    BY DEF Behind, d
  <2>2. /\ 1 \in 1..3 /\ 2 \in 1..3 /\ 3 \in 1..3 /\ 4 - 1 = 3 /\ 4 - 2 = 2 /\ 4 - 3 = 1
        /\ d - 3 + 1 = d - 2 /\ d - 3 + 2 = d - 1 /\ d - 3 + 3 = d
    BY <1>1
  <2>3. Ends[1] = "prompt" /\ Ends[2] = "code" /\ Ends[3] = "done"
    BY DEF Ends
  <2>4. QED BY <2>1, <2>2, <2>3
<1>3. i = d - 2
  <2>1. i \in 1..(d - 3) \/ i = d - 2 \/ i = d - 1 \/ i = d
    BY <1>1
  <2>2. \A j \in 1..(d - 3) : down[j].t = "out"
    BY DEF Behind, d
  <2>3. QED BY <1>1, <1>2, <2>1, <2>2
<1>4. /\ i \in 0..d /\ d - i = 2 /\ i + 1 = d - 1 /\ i + 2 = d
  BY <1>1, <1>3
<1>5. /\ From(SubSeq(down, 1, i)) = {down[j].n : j \in 1..i}
      /\ Len(down') = 2 /\ down'[1] = down[d - 1] /\ down'[2] = down[d] /\ DOMAIN down' = 1..2
  <2>1. /\ From(SubSeq(down, 1, i)) = {down[j].n : j \in 1..i}
        /\ down' \in Seq(Token) /\ Len(down') = d - i /\ \A j \in 1..(d - i) : down'[j] = down[i + j]
    BY <1>4, Pieces DEF d
  <2>2. 1 \in 1..(d - i) /\ 2 \in 1..(d - i)
    BY <1>4
  <2>3. QED BY <1>4, <2>1, <2>2
<1>6. Answering(n, 2)'
  <2>1. \A j \in 1..2 : (j = 1 /\ 2 + 1 - j = 2) \/ (j = 2 /\ 2 + 1 - j = 1)
    OBVIOUS
  <2>2. Ends[1] = "prompt" /\ Ends[2] = "code"
    BY DEF Ends
  <2>3. \A j \in 1..2 : down'[j].n = n /\ down'[j].t = Ends[2 + 1 - j]
    BY <1>2, <1>5, <2>1, <2>2
  <2>4. up' = <<>> /\ 2 \in 1..2
    BY DEF Behind
  <2>5. QED BY <1>5, <2>3, <2>4 DEF Answering, Ends
<1>7. \A j \in 1..i : (j = d - 2 /\ down[j].n = n)
                      \/ (down[j].t = "out" /\ (down[j].n = n \/ Muted(down[j].n)))
  <2>1. \A j \in 1..i : j = d - 2 \/ j \in 1..(d - 3)
    BY <1>1, <1>3
  <2>2. QED BY <1>2, <2>1 DEF Behind, d
<1>8. \A m \in From(SubSeq(down, 1, i)) : m = n \/ Muted(m)
  BY <1>5, <1>7
<1>9. From(SubSeq(down, 1, i)) = Unread \cup {n}
  <2>1. \A j \in 1..d : down[j].t = "out" => j \in 1..i
    <3>1. \A j \in 1..d : j \in 1..i \/ j = d - 1 \/ j = d
      BY <1>1, <1>3
    <3>2. QED BY <1>2, <3>1
  <2>2. i \in 1..i /\ down[i].n = n /\ \A j \in 1..i : j \in 1..d
    BY <1>1, <1>2, <1>3
  <2>3. Unread \subseteq {down[j].n : j \in 1..i}
    BY <1>1, <2>1 DEF Unread
  <2>4. {down[j].n : j \in 1..i} \subseteq Unread \cup {n}
    BY <1>1, <1>7, <2>2 DEF Unread
  <2>5. n \in {down[j].n : j \in 1..i}
    BY <2>2
  <2>6. QED BY <1>5, <2>3, <2>4, <2>5
<1>10. \A m \in Unread' : m = n
  <2>1. \A j \in DOMAIN down' : j = 1 \/ j = 2
    BY <1>5
  <2>2. QED BY <1>2, <1>5, <2>1 DEF Unread
<1>11. QED BY <1>6, <1>8, <1>9, <1>10

\* So do the other two reads, with the token each of them waits for.
LEMMA ConsumeOne ==
    ASSUME down \in Seq(Token), NEW n \in Nat, NEW k \in 1..2, Answering(n, k),
           down' = SubSeq(down, 2, Len(down)), up' = up
    PROVE  /\ From(SubSeq(down, 1, 1)) = {n} /\ Unread = {} /\ Unread' = {}
           /\ k = 2 => Answering(n, 1)'
           /\ k = 1 => Nobody'
<1>1. /\ up = <<>> /\ Len(down) = k /\ 1 \in 0..k /\ DOMAIN down = 1..k
      /\ \A j \in 1..k : down[j].n = n /\ down[j].t = Ends[k + 1 - j] /\ k + 1 - j \in 1..2
  BY DEF Answering
<1>2. /\ From(SubSeq(down, 1, 1)) = {down[j].n : j \in 1..1}
      /\ Len(down') = k - 1 /\ DOMAIN down' = 1..(k - 1) /\ down' \in Seq(Token)
      /\ \A j \in 1..(k - 1) : down'[j] = down[1 + j]
  BY <1>1, Pieces
<1>3. \A j \in 1..2 : j = 1 \/ j = 2
  OBVIOUS
<1>4. \A j \in 1..2 : Ends[j] # "out"
  BY <1>3 DEF Ends
<1>5. Unread = {}
  BY <1>1, <1>4 DEF Unread
<1>6. Unread' = {}
  <2>1. \A j \in 1..(k - 1) : 1 + j \in 1..k
    OBVIOUS
  <2>2. \A j \in DOMAIN down' : down'[j].t # "out"
    BY <1>1, <1>2, <1>4, <2>1
  <2>3. QED BY <2>2 DEF Unread
<1>7. From(SubSeq(down, 1, 1)) = {n}
  BY <1>1, <1>2
<1>8. ASSUME k = 2 PROVE Answering(n, 1)'
  <2>1. down'[1] = down[2] /\ Len(down') = 1
    BY <1>2, <1>8
  <2>2. down[2].n = n /\ down[2].t = Ends[1]
    BY <1>1, <1>8
  <2>3. \A j \in 1..1 : down'[j].n = n /\ down'[j].t = Ends[1 + 1 - j]
    BY <2>1, <2>2
  <2>4. QED BY <1>1, <2>1, <2>3 DEF Answering
<1>9. ASSUME k = 1 PROVE Nobody'
  <2>1. down' = <<>>
    BY <1>2, <1>9, EmptySeq
  <2>2. QED BY <1>1, <2>1 DEF Nobody
<1>10. QED BY <1>5, <1>6, <1>7, <1>8, <1>9

--------------------------------------------------------------------------------
\* What the server sends in reply to a plain command.
Reply(n, x, out) == out \o <<Say("done", n), Code(n, x)>> \o <<Prompt(n)>>

\* Its last three tokens, and what precedes them.
LEMMA ReplyTokens ==
    ASSUME NEW n \in Nat, NEW x \in Exits, NEW out \in Outputs(n),
           NEW text, text = Reply(n, x, out)
    PROVE  /\ text \in Seq(Token) /\ Len(text) \in {3, 4}
           /\ Len(text) = 4 => text[1].n = n /\ text[1].t = "out"
           /\ \A i \in 1..3 : text[Len(text) - 3 + i].n = n /\ text[Len(text) - 3 + i].t = Ends[4 - i]
<1> DEFINE m == <<Say("done", n), Code(n, x)>>
           p == <<Prompt(n)>>
<1>2. out \in Seq(Token) /\ m \in Seq(Token) /\ p \in Seq(Token)
  BY TokenTypes
<1>3. Len(out) \in {0, 1} /\ (Len(out) = 1 => out[1] = Say("out", n))
  BY DEF Outputs
<1>4. Len(m) = 2 /\ m[1] = Say("done", n) /\ m[2] = Code(n, x) /\ Len(p) = 1 /\ p[1] = Prompt(n)
  OBVIOUS
<1> HIDE DEF m, p
<1>5. /\ out \o m \in Seq(Token) /\ Len(out \o m) = Len(out) + 2
      /\ \A j \in 1..(Len(out) + 2) :
            (out \o m)[j] = IF j <= Len(out) THEN out[j] ELSE m[j - Len(out)]
  <2>1. /\ out \o m \in Seq(Token) /\ Len(out \o m) = Len(out) + Len(m)
        /\ \A j \in 1..(Len(out) + Len(m)) :
              (out \o m)[j] = IF j <= Len(out) THEN out[j] ELSE m[j - Len(out)]
    BY ONLY <1>2, ConcatProperties
  <2>2. QED BY <1>4, <2>1
<1> DEFINE om == out \o m
<1> HIDE DEF om
<1>6. /\ om \o p \in Seq(Token) /\ Len(om \o p) = Len(out) + 3
      /\ \A j \in 1..(Len(out) + 3) :
            (om \o p)[j] = IF j <= Len(out) + 2 THEN om[j] ELSE p[j - (Len(out) + 2)]
  <2>1. om \in Seq(Token) /\ Len(om) = Len(out) + 2
    BY <1>5 DEF om
  <2>2. /\ om \o p \in Seq(Token) /\ Len(om \o p) = Len(om) + Len(p)
        /\ \A j \in 1..(Len(om) + Len(p)) :
              (om \o p)[j] = IF j <= Len(om) THEN om[j] ELSE p[j - Len(om)]
    BY ONLY <1>2, <2>1, ConcatProperties
  <2>3. Len(out) + 2 + 1 = Len(out) + 3
    BY <1>3
  <2>4. QED BY <1>4, <2>1, <2>2, <2>3
<1>7. text = om \o p
  BY DEF Reply, m, p, om
<1>8. CASE Len(out) = 0
  <2>1. Len(text) = 3 /\ text[1] = Say("done", n) /\ text[2] = Code(n, x) /\ text[3] = Prompt(n)
    BY <1>4, <1>5, <1>6, <1>7, <1>8 DEF om
  <2>2. \A i \in 1..3 : Len(text) - 3 + i = i /\ (i = 1 \/ i = 2 \/ i = 3)
    BY <2>1
  <2>3. \A i \in 1..3 : text[i].n = n /\ text[i].t = Ends[4 - i]
    BY <2>1, <2>2 DEF Ends, Say, Code, Prompt
  <2>5. \A i \in 1..3 : text[Len(text) - 3 + i].n = n /\ text[Len(text) - 3 + i].t = Ends[4 - i]
    BY <2>2, <2>3
  <2>6. text \in Seq(Token)
    BY <1>6, <1>7
  <2>4. QED BY <2>1, <2>5, <2>6
<1>9. CASE Len(out) = 1
  <2>1. /\ Len(text) = 4 /\ text[1] = Say("out", n) /\ text[2] = Say("done", n)
        /\ text[3] = Code(n, x) /\ text[4] = Prompt(n)
    BY <1>3, <1>4, <1>5, <1>6, <1>7, <1>9 DEF om
  <2>2. \A i \in 1..3 : Len(text) - 3 + i = i + 1 /\ (i = 1 \/ i = 2 \/ i = 3)
    BY <2>1
  <2>3. \A i \in 1..3 : text[i + 1].n = n /\ text[i + 1].t = Ends[4 - i]
    BY <2>1, <2>2 DEF Ends, Say, Code, Prompt
  <2>4. text[1].n = n /\ text[1].t = "out"
    BY <2>1 DEF Say
  <2>5. QED BY <1>6, <1>7, <2>1, <2>2, <2>3, <2>4
<1>10. QED BY <1>3, <1>8, <1>9

\* It follows what is left of muted commands.
LEMMA ReplyBehind ==
    ASSUME down \in Seq(Token), NEW n \in Nat, Leftover, \A m : Muted(m) => Muted(m)', up' = <<>>,
           NEW text \in Seq(Token), Len(text) \in {3, 4}, down' = down \o text,
           Len(text) = 4 => text[1].n = n /\ text[1].t = "out",
           \A i \in 1..3 : text[Len(text) - 3 + i].n = n /\ text[Len(text) - 3 + i].t = Ends[4 - i]
    PROVE  Behind(n)' /\ Unread' \subseteq Unread \cup {n} /\ Unread \subseteq Unread'
<1> DEFINE d == Len(down)
           e == Len(text)
<1>1. d \in Nat /\ DOMAIN down = 1..d /\ e \in {3, 4}
  BY LenProperties
<1>2. /\ down \o text \in Seq(Token) /\ Len(down \o text) = d + e
      /\ \A j \in 1..(d + e) : (down \o text)[j] = IF j <= d THEN down[j] ELSE text[j - d]
  BY ConcatProperties
<1>3. \A i \in 1..3 : text[e - 3 + i].n = n /\ text[e - 3 + i].t = Ends[4 - i]
  OBVIOUS
<1>4. e = 4 => text[1].n = n /\ text[1].t = "out"
  OBVIOUS
<1> HIDE DEF d, e
<1>5. /\ Len(down') = d + e /\ DOMAIN down' = 1..(d + e)
      /\ \A j \in 1..d : down'[j] = down[j] /\ j \in 1..(d + e)
      /\ \A j \in 1..e : down'[d + j] = text[j] /\ d + j \in 1..(d + e)
  <2>1. /\ \A j \in 1..d : j \in 1..(d + e) /\ j <= d
        /\ \A j \in 1..e : d + j \in 1..(d + e) /\ ~(d + j <= d) /\ d + j - d = j
    BY <1>1
  <2>2. down' = down \o text
    OBVIOUS
  <2>3. Len(down') = d + e /\ DOMAIN down' = 1..(d + e)
    BY <1>2, <2>2, LenProperties
  <2>4. \A j \in 1..d : down'[j] = down[j]
    BY <1>2, <2>1, <2>2
  <2>5. ASSUME NEW j \in 1..e PROVE down'[d + j] = text[j]
    <3>1. d + j \in 1..(d + e) /\ ~(d + j <= d) /\ d + j - d = j
      BY <2>1
    <3>2. PICK cat, k : cat = down \o text /\ k = d + j
      OBVIOUS
    <3>3. cat[k] = IF k <= d THEN down[k] ELSE text[k - d]
      BY <1>2, <3>1, <3>2, Zenon
    <3>4. ~(k <= d) /\ k - d = j
      BY <1>1, <3>1, <3>2
    <3>5. cat[k] = text[j]
      BY <3>3, <3>4
    <3>6. QED BY <2>2, <3>2, <3>5
  <2>6. QED BY <2>1, <2>3, <2>4, <2>5
<1>6. \A j \in 1..(d + e) : j \in 1..d \/ \E k \in 1..e : j = d + k
  <2> SUFFICES ASSUME NEW j \in 1..(d + e), j > d PROVE \E k \in 1..e : j = d + k
    BY <1>1
  <2>1. j - d \in 1..e /\ j = d + (j - d)
    BY <1>1
  <2>2. QED BY <2>1
<1>7. \A k \in 1..e : text[k].n = n
  <2> SUFFICES ASSUME NEW k \in 1..e PROVE text[k].n = n
    OBVIOUS
  <2>1. (e = 4 /\ k = 1) \/ (k - (e - 3) \in 1..3 /\ e - 3 + (k - (e - 3)) = k)
    BY <1>1
  <2>2. QED BY <1>3, <1>4, <2>1
<1>8. Behind(n)'
  <2>1. \A i \in 1..3 : down'[Len(down') - 3 + i].n = n /\ down'[Len(down') - 3 + i].t = Ends[4 - i]
    <3> TAKE i \in 1..3
    <3>1. e - 3 + i \in 1..e /\ d + (e - 3 + i) = Len(down') - 3 + i
      BY <1>1, <1>5
    <3>2. down'[Len(down') - 3 + i] = text[e - 3 + i]
      BY <1>5, <3>1
    <3>3. QED BY <1>3, <3>2
  <2>2. \A j \in 1..(Len(down') - 3) :
           /\ down'[j].t = "out"
           /\ down'[j].n = n \/ \E k \in DOMAIN performed' : performed'[k].n = down'[j].n /\ performed'[k].kind = "mute"
    <3> TAKE j \in 1..(Len(down') - 3)
    <3>1. j \in 1..d \/ (e = 4 /\ j = d + 1 /\ 1 \in 1..e)
      BY <1>1, <1>5
    <3>2. CASE j \in 1..d
      <4>1. down'[j] = down[j] /\ down[j].t = "out" /\ Muted(down[j].n)
        BY <1>1, <1>5, <3>2 DEF Leftover
      <4>2. PICK m : m = down[j].n /\ Muted(m)
        BY <4>1
      <4>3. Muted(m)'
        BY <4>2
      <4>4. QED BY <4>1, <4>2, <4>3 DEF Muted
    <3>3. CASE e = 4 /\ j = d + 1 /\ 1 \in 1..e
      BY <1>4, <1>5, <3>3
    <3>4. QED BY <3>1, <3>2, <3>3
  <2>3. Len(down') > 2
    BY <1>1, <1>5
  <2>4. up' = <<>>
    OBVIOUS
  <2>5. QED BY <2>1, <2>2, <2>3, <2>4 DEF Behind, Muted, Ends
<1>9. Unread' \subseteq Unread \cup {n}
  <2>1. \A j \in 1..d : down[j].n \in Unread
    BY <1>1 DEF Leftover, Unread
  <2>2. ASSUME NEW j \in DOMAIN down' PROVE down'[j].n \in Unread \/ down'[j].n = n
    <3>1. CASE j \in 1..d
      BY <1>5, <2>1, <3>1
    <3>2. ASSUME NEW k \in 1..e, j = d + k PROVE down'[j].n = n
      BY <1>5, <1>7, <3>2
    <3>3. QED BY <1>5, <1>6, <3>1, <3>2
  <2>3. QED BY <2>2 DEF Unread
<1>10. Unread \subseteq Unread'
  <2>1. \A j \in DOMAIN down : j \in DOMAIN down' /\ down'[j] = down[j]
    BY <1>1, <1>5
  <2>2. QED BY <2>1 DEF Unread
<1>11. QED BY <1>8, <1>9, <1>10

\* A command given to the engine is the last one it has had, and the others stay.
LEMMA Performed ==
    ASSUME TypeOK, NEW c \in [n : Nat, kind : EngineKinds \cup ShellKinds, exit : Exits],
           performed' = Append(performed, c)
    PROVE  /\ \A m : m = c.n => CarriedOut(m)' /\ (c.kind = "mute" => Muted(m)')
           /\ \A m : Muted(m) => Muted(m)'
           /\ \A m : Muted(m)' => Muted(m) \/ (m = c.n /\ c.kind = "mute")
           /\ Gentle' => Gentle /\ ~Stalls(c)
<1>1. /\ performed \in Seq([n : Nat, kind : EngineKinds \cup ShellKinds, exit : Exits])
      /\ Len(performed) \in Nat /\ DOMAIN performed = 1..Len(performed)
  BY LenProperties DEF TypeOK, ServerTypeOK
<1>2. /\ DOMAIN performed' = 1..(Len(performed) + 1) /\ performed'[Len(performed) + 1] = c
      /\ \A j \in DOMAIN performed : performed'[j] = performed[j] /\ j \in DOMAIN performed'
  BY <1>1
<1>3. Len(performed) + 1 \in DOMAIN performed'
  BY <1>1, <1>2
<1>4. \A m : m = c.n => CarriedOut(m)' /\ (c.kind = "mute" => Muted(m)')
  BY <1>2, <1>3 DEF CarriedOut, Muted
<1>5. Gentle' => Gentle /\ ~Stalls(c)
  BY <1>2, <1>3 DEF Gentle
<1>6. \A m : Muted(m) => Muted(m)'
  BY <1>2 DEF Muted
<1>7. \A m : Muted(m)' => Muted(m) \/ (m = c.n /\ c.kind = "mute")
  <2>1. \A j \in DOMAIN performed' : j \in DOMAIN performed \/ j = Len(performed) + 1
    BY <1>1, <1>2
  <2>2. QED BY <1>2, <2>1 DEF Muted
<1>8. QED BY <1>4, <1>5, <1>6, <1>7

\* What a muted command prints follows what is left of the earlier ones.
LEMMA PrintedBehind ==
    ASSUME down \in Seq(Token), NEW n \in Nat, NEW out \in Outputs(n), Leftover, down' = down \o out,
           \A m : Muted(m) => Muted(m)' /\ m \in Nat /\ m < n, Muted(n)'
    PROVE  Leftover' /\ Unread' \subseteq Unread \cup {n} /\ Unread \subseteq Unread'
<1>1. out \in Seq(Token)
  BY TokenTypes, ExitsAssumption
<1>2. CASE out = <<>>
  <2>1. down' = down
    BY <1>2, ConcatEmptySeq
  <2>2. QED BY <2>1 DEF Leftover, Unread
<1>3. CASE out = <<Say("out", n)>>
  <2> DEFINE d == Len(down)
  <2>1. d \in Nat /\ DOMAIN down = 1..d
    BY LenProperties
  <2>2. down' = Append(down, Say("out", n)) /\ Say("out", n) \in Token
    BY <1>1, <1>3, TokenTypes, ExitsAssumption
  <2>3. /\ DOMAIN down' = 1..(d + 1) /\ down'[d + 1] = Say("out", n)
        /\ \A j \in 1..d : down'[j] = down[j]
    BY <2>1, <2>2
  <2> HIDE DEF d
  <2>4. \A j \in DOMAIN down' : j \in 1..d \/ j = d + 1
    BY <2>1, <2>3
  <2>5. \A j \in 1..d : down'[j].t = "out" /\ down'[j].n < n /\ down'[j].n \in Nat
    BY <2>1, <2>3 DEF Leftover
  <2>6. down'[d + 1].t = "out" /\ down'[d + 1].n = n
    BY <2>3 DEF Say
  <2>7. ASSUME NEW i \in DOMAIN down', NEW j \in DOMAIN down', i < j PROVE down'[i].n <= down'[j].n
    <3>1. i \in 1..d
      BY <2>1, <2>3, <2>7
    <3>2. CASE j \in 1..d
      BY <2>1, <2>3, <2>7, <3>1, <3>2 DEF Leftover
    <3>3. CASE j = d + 1
      BY <2>5, <2>6, <3>1, <3>3
    <3>4. QED BY <2>4, <3>2, <3>3
  <2>11. \A j \in DOMAIN down' : \E k \in DOMAIN performed' : performed'[k].n = down'[j].n /\ performed'[k].kind = "mute"
    <3> SUFFICES ASSUME NEW j \in DOMAIN down', NEW m, m = down'[j].n PROVE Muted(m)'
      BY DEF Muted
    <3>1. CASE j \in 1..d
      BY <2>1, <2>3, <3>1 DEF Leftover
    <3>2. CASE j = d + 1
      BY <2>6, <3>2
    <3>3. QED BY <2>4, <3>1, <3>2
  <2>8. Leftover'
    BY <2>4, <2>5, <2>6, <2>7, <2>11 DEF Leftover, Muted
  <2>9. Unread' \subseteq Unread \cup {n} /\ Unread \subseteq Unread'
    <3>1. ASSUME NEW j \in DOMAIN down', down'[j].t = "out" PROVE down'[j].n \in Unread \cup {n}
      <4>1. CASE j \in 1..d
        BY <2>1, <2>3, <3>1, <4>1 DEF Unread
      <4>2. CASE j = d + 1
        BY <2>6, <4>2
      <4>3. QED BY <2>4, <4>1, <4>2
    <3>2. ASSUME NEW j \in DOMAIN down, down[j].t = "out" PROVE down[j].n \in Unread'
      <4>1. j \in DOMAIN down' /\ down'[j] = down[j]
        BY <2>1, <2>3
      <4>2. QED BY <3>2, <4>1 DEF Unread
    <3>3. Unread' \subseteq Unread \cup {n}
      BY <3>1 DEF Unread
    <3>4. Unread \subseteq Unread'
      BY <3>2 DEF Unread
    <3>5. QED BY <3>3, <3>4
  <2>10. QED BY <2>8, <2>9
<1>4. QED BY <1>2, <1>3 DEF Outputs

\* A step of the server takes one shape of the session to another, and adds to what there is to
\* read no output but that of the current command.
LEMMA ServerKeepsShape ==
    ASSUME ShapeInv, Gentle, spc # "closed", ServerStep, Gentle'
    PROVE  (IF spc' = "closed" THEN Gone' ELSE Shapes') /\ Left' = Left
<1> USE DEF Shapes
<1>1. /\ TypeOK /\ Shapes /\ hungUp = (cpc = "closed") /\ UNCHANGED clientVars
      /\ Cur \in Nat /\ down \in Seq(Token) /\ up \in Seq(Line) /\ Cur' = Cur /\ InRun' = InRun
      /\ performed \in Seq([n : Nat, kind : EngineKinds \cup ShellKinds, exit : Exits])
      /\ stdout' = stdout /\ cpc' = cpc
  BY Sessions DEF ShapeInv, ServerStep, Cur, InRun, clientVars
<1>2. spc \in {"login", "read"}
  BY <1>1 DEF LoginShape, RunShape
<1>0. ASSUME Unread' \subseteq Unread \cup {Cur}, Unread \subseteq Unread' \cup {Cur} PROVE Left' = Left
  BY <1>0, <1>1 DEF Left
<1>3. CASE ReadCommand
  <2> DEFINE l == Head(up)
  <2>1. spc = "read" /\ up # <<>> /\ up' = Tail(up) /\ UNCHANGED hungUp
    BY <1>2, <1>3 DEF ReadCommand
  <2>2. \/ cpc = "stty1" /\ OnTheWay(0, "stty", FALSE)
        \/ cpc = "needle" /\ Leftover /\ \E kind \in EngineKinds : Sending(Cur, kind, TRUE)
    BY <1>1, <2>1 DEF LoginShape, RunShape, PlainShape, MuteShape, Behind, Answering, Nobody
  <2>3. up' = <<>> /\ l \in Line /\ ~l.open /\ ~hungUp
    <3>1. up' = <<>> /\ ~l.open
      <4>1. PICK n, kind, marker : Sending(n, kind, marker)
        BY <2>2 DEF OnTheWay
      <4>2. QED BY <2>1, <4>1 DEF Sending
    <3>2. l \in Line
      BY <1>1, <2>1, FirstAndLast
    <3>3. ~hungUp
      BY <1>1, <2>2
    <3>4. QED BY <3>1, <3>2, <3>3
  <2>4. Dispatch(l)
    BY <1>3, <2>1, <2>3 DEF ReadCommand, Joins, NeedsMore
  <2>5. CASE cpc = "stty1" /\ OnTheWay(0, "stty", FALSE)
    <3>1. l.kind = "stty" /\ l.n = 0 /\ l.marker = FALSE /\ down = <<>>
      BY <2>5 DEF OnTheWay, Sending
    <3>2. Answered(l)
      BY <2>4, <3>1 DEF Dispatch, Leaves, Performs, EngineKinds
    <3>3. Marker(l, 0) \o <<Prompt(0)>> = <<Prompt(0)>>
      <4>1. <<Prompt(0)>> \in Seq(Token)
        BY TokenTypes, ExitsAssumption
      <4>2. QED BY <3>1, <4>1, ConcatEmptySeq DEF Marker
    <3>4. down' = <<Prompt(0)>> /\ spc' = "read" /\ UNCHANGED performed
      BY <2>3, <3>1, <3>2, <3>3 DEF Answered, Send
    <3>5. Answering(0, 1)'
      BY <2>3, <3>4 DEF Answering, Ends, Prompt, Say
    <3>6. LoginShape'
      BY <1>1, <2>5, <3>4, <3>5 DEF LoginShape, clientVars
    <3>7. Unread' = {} /\ Unread = {}
      BY <3>1, <3>4 DEF Unread, Prompt, Say
    <3>8. QED BY <1>0, <3>4, <3>6, <3>7
  <2>6. ASSUME NEW kind \in EngineKinds, cpc = "needle", Leftover, Sending(Cur, kind, TRUE)
        PROVE  spc' # "closed" /\ Shapes' /\ Left' = Left
    <3>1. l.kind = kind /\ l.n = Cur /\ l.marker = TRUE
      BY <2>6 DEF Sending
    <3>2. Performs(l)
      BY <2>4, <2>6, <3>1 DEF Dispatch, Leaves, Answered, EngineKinds
    <3>3. PICK x \in Exits, out \in Outputs(l.n) :
            /\ performed' = Append(performed, [n |-> l.n, kind |-> l.kind, exit |-> x])
            /\ l.kind = "mute" => Send(out, "read")
            /\ l.kind = "plain" => Send(out \o Marker(l, x) \o <<Prompt(l.n)>>, "read")
      BY <3>2 DEF Performs
    <3>4. PICK c \in [n : Nat, kind : EngineKinds \cup ShellKinds, exit : Exits] :
            performed' = Append(performed, c) /\ c.n = Cur /\ c.kind = kind
      <4>1. [n |-> Cur, kind |-> kind, exit |-> x] \in [n : Nat, kind : EngineKinds \cup ShellKinds, exit : Exits]
        BY <1>1
      <4>2. QED BY <3>1, <3>3, <4>1
    <3>5. /\ CarriedOut(Cur)' /\ (kind = "mute" => Muted(Cur)') /\ ~Stalls(c)
          /\ \A m : Muted(m) => Muted(m)'
          /\ \A m : Muted(m)' => Muted(m) \/ (m = Cur /\ kind = "mute")
      <4>1. /\ \A m : m = c.n => CarriedOut(m)' /\ (c.kind = "mute" => Muted(m)')
            /\ \A m : Muted(m) => Muted(m)'
            /\ \A m : Muted(m)' => Muted(m) \/ (m = c.n /\ c.kind = "mute")
            /\ Gentle' => Gentle /\ ~Stalls(c)
        BY <1>1, <3>4, Performed
      <4>2. QED BY <1>1, <3>4, <4>1
    <3>6. kind \in {"plain", "mute"}
      BY <2>6, <3>4, <3>5 DEF Stalls, EngineKinds
    <3>7. \A m : Muted(m) => m \in Nat /\ m < Cur
      <4>1. StreamInv /\ up[1].n = Cur /\ 1 \in 1..Len(up)
        BY <2>1, <2>6 DEF ShapeInv, Sending
      <4>2. \A j \in 1..Len(performed) : performed[j].n < Cur
        BY <4>1 DEF StreamInv, Numbered
      <4>3. \A j \in DOMAIN performed : performed[j].n < Cur /\ performed[j].n \in Nat
        BY <1>1, <4>2, Sequences
      <4>4. QED BY <4>3 DEF Muted
    <3>8. cpc' = "needle" /\ InRun'
      BY <1>1, <2>6 DEF InRun, RunReads
    <3>9. CASE kind = "plain"
      <4> DEFINE text == out \o Marker(l, x) \o <<Prompt(Cur)>>
      <4>1. spc' = "read" /\ down' = down \o text
        BY <2>3, <3>1, <3>3, <3>9 DEF Send
      <4>2. /\ text \in Seq(Token) /\ Len(text) \in {3, 4}
            /\ Len(text) = 4 => text[1].n = Cur /\ text[1].t = "out"
            /\ \A i \in 1..3 : text[Len(text) - 3 + i].n = Cur /\ text[Len(text) - 3 + i].t = Ends[4 - i]
        <5>1. PICK n \in Nat : n = Cur
          BY <1>1
        <5>2. Marker(l, x) = <<Say("done", n), Code(n, x)>> /\ out \in Outputs(n)
          BY <3>1, <5>1 DEF Marker
        <5>3. /\ text \in Seq(Token) /\ Len(text) \in {3, 4}
              /\ Len(text) = 4 => text[1].n = n /\ text[1].t = "out"
              /\ \A i \in 1..3 : text[Len(text) - 3 + i].n = n /\ text[Len(text) - 3 + i].t = Ends[4 - i]
          <6>1. text = Reply(n, x, out)
            BY <5>1, <5>2 DEF Reply
          <6> HIDE DEF text
          <6>2. QED BY <5>2, <6>1, ReplyTokens
        <5>4. QED BY <5>1, <5>3
      <4> HIDE DEF text
      <4>3. Behind(Cur)' /\ Unread' \subseteq Unread \cup {Cur} /\ Unread \subseteq Unread'
        <5>1. /\ down \in Seq(Token) /\ Cur \in Nat /\ Leftover /\ (\A m : Muted(m) => Muted(m)')
              /\ up' = <<>> /\ down' = down \o text
          BY <1>1, <2>3, <2>6, <3>5, <4>1
        <5>2. PICK n \in Nat : n = Cur
          BY <1>1
        <5>3. Behind(n)' /\ Unread' \subseteq Unread \cup {n} /\ Unread \subseteq Unread'
          BY <4>2, <5>1, <5>2, ReplyBehind
        <5>4. QED BY <1>1, <5>2, <5>3 DEF Behind, Ends
      <4>4. PlainShape'
        BY <1>1, <3>5, <3>7, <3>8, <3>9, <4>3 DEF PlainShape
      <4>5. QED BY <1>0, <4>1, <4>3, <4>4 DEF RunShape
    <3>10. CASE kind = "mute"
      <4>1. spc' = "read" /\ down' = down \o out
        BY <2>3, <3>1, <3>3, <3>10 DEF Send
      <4>2. Leftover' /\ Unread' \subseteq Unread \cup {Cur} /\ Unread \subseteq Unread'
        <5>1. \A n \in Nat : n = Cur => Leftover' /\ Unread' \subseteq Unread \cup {n} /\ Unread \subseteq Unread'
          <6> SUFFICES ASSUME NEW n \in Nat, n = Cur
                       PROVE  Leftover' /\ Unread' \subseteq Unread \cup {n} /\ Unread \subseteq Unread'
            OBVIOUS
          <6>1. out \in Outputs(n) /\ Muted(n)'
            BY <1>1, <3>1, <3>5, <3>10 DEF Muted
          <6>2. \A m : Muted(m) => Muted(m)' /\ m \in Nat /\ m < n
            BY <3>5, <3>7
          <6>3. QED BY <1>1, <2>6, <4>1, <6>1, <6>2, PrintedBehind
        <5>2. QED BY <1>1, <5>1
      <4>3. MuteShape'
        BY <1>1, <2>3, <3>5, <3>8, <3>10, <4>2 DEF MuteShape, Silent
      <4>4. QED BY <1>0, <4>1, <4>2, <4>3 DEF RunShape
    <3>11. QED BY <3>6, <3>9, <3>10
  <2>7. QED BY <2>2, <2>5, <2>6
<1>4. CASE LoginReply
  <2>1. spc = "login" /\ up # <<>> /\ up' = Tail(up) /\ UNCHANGED <<hungUp, performed>> /\ greeted' = greeted + 1
    BY <1>4 DEF LoginReply
  <2>2. /\ hello = greeted + 1 /\ OnTheWay(0, "blank", FALSE)
        /\ cpc = IF hello < NLogin THEN "login" ELSE "first"
    BY <1>1, <2>1 DEF LoginShape, RunShape
  <2>3. up' = <<>> /\ down = <<>> /\ ~hungUp /\ hello' = hello /\ cpc' = cpc
    <3>1. up' = <<>> /\ down = <<>>
      BY <2>1, <2>2 DEF OnTheWay, Sending
    <3>2. hello' = hello /\ cpc' = cpc
      BY <1>1 DEF clientVars
    <3>3. ~hungUp
      BY <1>1, <2>2
    <3>4. QED BY <3>1, <3>2, <3>3
  <2>4. CASE greeted' < NLogin
    <3>1. down' = <<Say("login", hello + 1)>> /\ spc' = "login"
      BY <1>4, <2>1, <2>2, <2>3, <2>4 DEF LoginReply, Send
    <3>2. LoginShape'
      BY <2>1, <2>2, <2>3, <2>4, <3>1 DEF LoginShape, Say
    <3>3. Unread' = {} /\ Unread = {}
      BY <2>3, <3>1 DEF Unread, Say
    <3>4. QED BY <1>0, <3>1, <3>2, <3>3
  <2>5. CASE ~(greeted' < NLogin)
    <3>1. down' = <<Prompt(0)>> /\ spc' = "read"
      BY <1>4, <2>1, <2>2, <2>3, <2>5 DEF LoginReply, Send
    <3>2. Answering(0, 1)'
      BY <2>3, <3>1 DEF Answering, Ends, Prompt, Say
    <3>3. LoginShape'
      BY <2>1, <2>2, <2>3, <2>5, <3>1, <3>2 DEF LoginShape
    <3>4. Unread' = {} /\ Unread = {}
      BY <2>3, <3>1 DEF Unread, Prompt, Say
    <3>5. QED BY <1>0, <3>1, <3>3, <3>4
  <2>6. QED BY <2>4, <2>5
<1>5. CASE ReadNothing /\ ServerGivesUp
  <2>1. spc' = "closed" /\ down' = down /\ performed' = performed /\ cpc \in {"think", "closed"}
    BY <1>1, <1>2, <1>5 DEF ReadNothing, ServerGivesUp
  <2>2. Leftover
    BY <1>1, <2>1 DEF LoginShape, RunShape, PlainShape, MuteShape, InRun, RunReads
  <2>3. Leftover' /\ Unread' = Unread
    BY <2>1, <2>2 DEF Leftover, Muted, Unread
  <2>4. Gone'
    BY <1>1, <2>1, <2>3 DEF Gone, Silent, HelloReads, InRun, RunReads
  <2>5. QED BY <1>0, <2>1, <2>3, <2>4
<1>6. QED BY <1>2, <1>3, <1>4, <1>5 DEF ServerStep, AskReply, AskNoReply, WakeUp

\* What a run() returns: nothing if it could not send; what is left and its own output, if its
\* command ended in a prompt; all there is, if it waited in vain.
Refusal(a) == cpc = "think" /\ spc = "closed" /\ a.from = {} /\ Left' = Left
Prompted(a) ==
    /\ InRun /\ CarriedOut(Cur) /\ ~Muted(Cur) /\ a.status = "ok"
    /\ a.from = Left \cup {Cur} /\ Left' = {} /\ \A m \in Left : Muted(m)
Unprompted(a) ==
    /\ InRun /\ a.status = "ok" /\ (Muted(Cur) \/ (spc = "closed" /\ ~CarriedOut(Cur)))
    /\ \A m \in Left : Muted(m)
    /\ \E own \in SUBSET {Cur} :
          /\ (own # {} => Muted(Cur)) /\ a.from = Left \cup own
          /\ Left' \in {Left \cup own, (Left \cup own) \ Service!Oldest(Left \cup own)}

\* A step of the client returns such an answer, or leaves alone what is still to be returned.
Returned ==
    \/ answers' = answers /\ Left' = Left
    \/ \E a \in Answer : answers' = Append(answers, a) /\ (Refusal(a) \/ Prompted(a) \/ Unprompted(a))

\* A read that waits in vain: it collects all there is, takes one line of it, or returns.
LEMMA SilentReads ==
    ASSUME ShapeInv, Silent, InRun, UNCHANGED performed,
           (\E i \in Matches : Match(i)) \/ (got = Len(down) /\ TimeOut)
    PROVE  /\ up' = up
           /\ \/ cpc' \in {"tail", "prompt"} /\ Silent' /\ answers' = answers /\ Left' = Left
              \/ /\ cpc = "prompt" /\ cpc' = "think" /\ stdout' = {} /\ Leftover' /\ Unread' = Unread
                 /\ answers' = Append(answers, [status |-> "ok", from |-> stdout, exit |-> exit])
<1>0. PICK d \in Nat : d = Len(down)
  BY Sessions
<1>1. /\ down \in Seq(Token) /\ got \in 0..d /\ DOMAIN down = 1..d
      /\ Leftover /\ cpc \in RunReads /\ (cpc = "needle" => stdout = {})
      /\ \A j \in DOMAIN down : down[j].t = "out" /\ down[j].n \in Nat
  <2>1. down \in Seq(Token) /\ got \in 0..d
    BY <1>0, Sessions
  <2>2. DOMAIN down = 1..d /\ \A j \in 1..d : down[j].n \in Nat
    BY <1>0, <2>1, Pieces
  <2>3. QED BY <2>1, <2>2 DEF Silent, Leftover, ShapeInv, InRun, RunReads
<1>2. Unread = {down[j].n : j \in 1..d} /\ \A m \in Unread : Muted(m)
  BY <1>1 DEF Unread, Leftover
<1>3. ASSUME NEW i \in Matches, Match(i)
      PROVE  up' = up /\ cpc' = "prompt" /\ Silent' /\ answers' = answers /\ Left' = Left
  <2>1. i \in 1..got /\ i \in DOMAIN down /\ down[i].t = "out" /\ cpc = "tail"
    BY <1>1 DEF Matches, RunReads
  <2>2. i = 1
    <3>1. 1 \in 1..got /\ down[1].t = "out"
      BY <1>1, <2>1
    <3>2. 1 \in Matches
      BY <2>1, <3>1 DEF Matches
    <3>3. QED BY <1>3, <2>1, <3>2 DEF Match
  <2>3. RunReturns(SubSeq(down, 1, 1)) /\ \E cut \in {0, 1} : down' = SubSeq(down, cut + 1, Len(down))
    <3>1. Cuts(i) = {0, 1}
      BY <2>1, <2>2 DEF Cuts
    <3>2. Returns(SubSeq(down, 1, 1)) /\ \E cut \in Cuts(i) : down' = SubSeq(down, cut + 1, Len(down))
      BY <1>3, <2>2 DEF Match
    <3>3. QED BY <2>1, <3>1, <3>2 DEF Returns, HelloReturns
  <2>4. From(SubSeq(down, 1, 1)) = {down[1].n} /\ 1 \in DOMAIN down /\ 1 \in 0..d
    <3>1. 1 \in DOMAIN down /\ 1 \in 0..d
      BY <1>1, <2>1, <2>2
    <3>2. From(SubSeq(down, 1, 1)) = {down[j].n : j \in 1..1}
      BY <1>0, <1>1, <3>1, Pieces
    <3>3. QED BY <3>1, <3>2
  <2>5. /\ up' = up /\ cpc' = "prompt" /\ answers' = answers /\ Cur' = Cur
        /\ stdout' = stdout \cup {down[1].n} /\ stdout = Unread
    BY <2>1, <2>3, <2>4 DEF RunReturns, Cur, Silent
  <2>6. stdout' = stdout
    BY <1>1, <1>2, <2>4, <2>5
  <2>7. PICK cut \in {0, 1} : down' = SubSeq(down, cut + 1, Len(down))
    BY <2>3
  <2>8. cut \in 0..d
    BY <1>1, <2>4
  <2>9. Leftover'
    BY <1>0, <1>1, <2>7, <2>8, LeftoverCut
  <2>10. /\ DOMAIN down' = 1..(d - cut)
         /\ \A j \in 1..(d - cut) : down'[j] = down[cut + j]
    BY <1>0, <1>1, <2>7, <2>8, Pieces
  <2>11. Unread' = {down'[j].n : j \in 1..(d - cut)}
    BY <2>9, <2>10 DEF Unread, Leftover
  <2>12. Unread' \subseteq Unread
    <3>1. \A j \in 1..(d - cut) : cut + j \in 1..d
      BY <1>1, <2>8
    <3>2. QED BY <1>2, <2>10, <2>11, <3>1
  <2>13. \A m \in Unread : m \in Unread' \/ m = down[1].n
    <3>1. \A j \in 1..d : j = 1 \/ (j - cut \in 1..(d - cut) /\ cut + (j - cut) = j)
      BY <1>1, <2>8
    <3>2. \A j \in 1..d : j = 1 \/ down[j].n \in Unread'
      <4> SUFFICES ASSUME NEW j \in 1..d, j # 1 PROVE down[j].n \in Unread'
        OBVIOUS
      <4>1. PICK k : k = j - cut
        OBVIOUS
      <4>2. k \in 1..(d - cut) /\ cut + k = j
        BY <3>1, <4>1
      <4>3. down'[k] = down[j]
        BY <2>10, <4>2
      <4>4. QED BY <2>11, <4>2, <4>3
    <3>3. QED BY <1>2, <3>2
  <2>14. Service!Oldest(Unread) = {down[1].n}
    <3>1. \A j \in 1..d : down[1].n <= down[j].n
      <4>1. \A j \in 1..d : j = 1 \/ 1 < j
        BY <1>1
      <4>2. QED BY <1>1, <2>4, <4>1 DEF Leftover
    <3>2. down[1].n \in Unread /\ \A m \in Unread : m \in Nat /\ down[1].n <= m
      BY <1>1, <1>2, <2>4, <3>1
    <3>3. \A m \in Unread : m <= down[1].n => m = down[1].n
      BY <1>1, <2>4, <3>2
    <3>4. QED BY <3>2, <3>3 DEF Service!Oldest
  <2>15. Unread' = Unread \/ Unread' = Unread \ Service!Oldest(Unread)
    BY <2>12, <2>13, <2>14
  <2>16. \A m \in stdout' : \E k \in DOMAIN performed' : performed'[k].n = m /\ performed'[k].kind = "mute"
    BY <1>2, <2>5, <2>6 DEF Muted
  <2>17. Silent'
    BY <2>5, <2>6, <2>9, <2>15, <2>16 DEF Silent, Muted, Service!Oldest
  <2>18. Left' = Left
    BY <2>5, <2>6, <2>12 DEF Left
  <2>19. QED BY <2>5, <2>17, <2>18
<1>4. CASE got = Len(down) /\ TimeOut
  <2>1. RunReturns(Buf) /\ UNCHANGED down /\ Matches = {}
    BY <1>1, <1>4 DEF TimeOut, Returns, HelloReturns, RunReads
  <2>2. From(Buf) = Unread
    <3>1. From(SubSeq(down, 1, got)) = {down[j].n : j \in 1..got}
      BY <1>0, <1>1, Pieces
    <3>2. QED BY <1>0, <1>2, <1>4, <3>1 DEF Buf
  <2>3. Leftover' /\ Unread' = Unread /\ up' = up
    BY <1>1, <2>1 DEF Leftover, Muted, Unread, RunReturns
  <2>4. CASE cpc = "needle"
    <3>1. cpc' = "tail" /\ stdout' = Unread /\ stdout = {} /\ answers' = answers /\ Cur' = Cur
      BY <1>1, <2>1, <2>2, <2>4 DEF RunReturns, Cur
    <3>2. Silent' /\ Left' = Left
      BY <2>3, <3>1 DEF Silent, Left
    <3>3. QED BY <2>3, <3>1, <3>2
  <2>5. CASE cpc = "tail"
    <3>1. d = 0
      <4> SUFFICES ASSUME d # 0 PROVE FALSE
        OBVIOUS
      <4>1. 1 \in 1..got /\ down[1].t = "out"
        BY <1>0, <1>1, <1>4
      <4>2. 1 \in Matches
        BY <2>5, <4>1 DEF Matches
      <4>3. QED BY <2>1, <4>2
    <3>2. Unread = {} /\ stdout = {}
      BY <1>2, <2>5, <3>1 DEF Silent
    <3>3. cpc' = "prompt" /\ stdout' = {} /\ answers' = answers /\ Cur' = Cur
      BY <2>1, <2>2, <2>5, <3>2 DEF RunReturns, Cur
    <3>4. Silent' /\ Left' = Left
      BY <2>3, <3>2, <3>3 DEF Silent, Left
    <3>5. QED BY <2>3, <3>3, <3>4
  <2>6. CASE cpc = "prompt"
    BY <2>1, <2>3, <2>6 DEF RunReturns
  <2>7. QED BY <1>1, <2>4, <2>5, <2>6 DEF RunReads
<1>5. QED BY <1>3, <1>4

\* It returns all of what was left and what its own command printed; at most the oldest of
\* that is gone afterwards.
LEMMA SilentReturns ==
    ASSUME ShapeInv, Silent, cpc = "prompt", Muted(Cur) \/ (spc = "closed" /\ ~CarriedOut(Cur)),
           stdout' = {}, Unread' = Unread,
           answers' = Append(answers, [status |-> "ok", from |-> stdout, exit |-> exit])
    PROVE  Returned
<1>1. /\ StreamInv /\ TypeOK /\ Cur \in Nat /\ InRun /\ answers \in Seq(Answer) /\ Len(answers) \in Nat
      /\ \A m \in stdout : Muted(m)
  BY Sessions DEF InRun, RunReads, Silent
<1>2. PICK a \in Answer : answers' = Append(answers, a) /\ a.from = stdout /\ a.status = "ok"
  <2>1. [status |-> "ok", from |-> stdout, exit |-> exit] \in Answer
    BY <1>1 DEF Answer, TypeOK, ClientTypeOK
  <2>2. QED BY <2>1
<1>3. Cur' = Cur + 1 /\ Issued = Cur
  BY <1>1, <1>2 DEF Cur, Issued
<1>4. \A m \in stdout : m \in 1..Cur
  BY <1>1, <1>3, MutedSent
<1>5. Unread \subseteq stdout /\ (Unread = stdout \/ Unread = stdout \ Service!Oldest(stdout))
  BY DEF Silent
<1> DEFINE own == stdout \cap {Cur}
<1>6. Left \cup own = stdout
  BY <1>5 DEF Left
<1>7. Left' = Unread
  BY <1>1, <1>3, <1>4, <1>5 DEF Left
<1>8. own \in SUBSET {Cur} /\ (own # {} => Muted(Cur))
  BY <1>1
<1>9. Unprompted(a)
  <2>1. \A m \in Left : Muted(m)
    BY <1>1, <1>6
  <2>2. QED BY <1>1, <1>2, <1>5, <1>6, <1>7, <1>8, <2>1 DEF Unprompted
<1>10. QED BY <1>2, <1>9 DEF Returned

\* Nothing that the login prints is the output of a command.
LEMMA LoginPrints ==
    ASSUME ShapeInv, LoginShape
    PROVE  (Unread = {} /\ up = <<>>) \/ Len(down) = 0
<1>1. DOMAIN down = 1..Len(down) /\ Len(down) \in Nat
  BY Sessions, Pieces
<1>2. Len(down) = 0 \/ (up = <<>> /\ Len(down) = 1 /\ down[1].t \in {"login", "prompt"})
  <2>1. Answering(0, 1) => up = <<>> /\ Len(down) = 1 /\ down[1].t = "prompt"
    <3>1. 1 \in 1..1 /\ 1 + 1 - 1 = 1 /\ Ends[1] = "prompt"
      BY DEF Ends
    <3>2. QED BY <3>1 DEF Answering
  <2>2. down = <<>> => Len(down) = 0
    OBVIOUS
  <2>3. QED BY <2>1, <2>2 DEF LoginShape, OnTheWay, Nobody
<1>3. CASE Len(down) = 1 /\ up = <<>> /\ down[1].t \in {"login", "prompt"}
  BY <1>1, <1>3 DEF Unread
<1>4. QED BY <1>2, <1>3

\* A read loop that finds its pattern takes one shape of the session to another.
LEMMA MatchKeepsShape ==
    ASSUME ShapeInv, Gentle, spc # "closed", NEW i \in Matches, Match(i), UNCHANGED serverVars
    PROVE  Shapes' /\ Returned
<1> USE DEF Shapes
<1>1. /\ TypeOK /\ Shapes /\ Cur \in Nat /\ i \in 1..Len(down) /\ Len(down) \in Nat
      /\ down \in Seq(Token) /\ NPrompts = NLogin /\ Returns(SubSeq(down, 1, i))
      /\ down[i].t # "out" => down' = SubSeq(down, i + 1, Len(down))
      /\ UNCHANGED <<spc, greeted, performed, hungUp>>
  <2>1. TypeOK /\ Shapes /\ down \in Seq(Token) /\ Len(down) \in Nat /\ Cur \in Nat /\ NPrompts = NLogin
    BY Sessions DEF ShapeInv
  <2>2. i \in 1..Len(down)
    BY <2>1 DEF Matches, TypeOK, ClientTypeOK
  <2>3. down[i].t # "out" => down' = SubSeq(down, i + 1, Len(down))
    BY DEF Match, Cuts
  <2>4. QED BY <2>1, <2>2, <2>3 DEF Match, Returns, HelloReturns, RunReturns, serverVars
<1>2. ASSUME LoginShape, Len(down) = 1, down' = <<>>, UNCHANGED <<stdout, answers>>
      PROVE  Returned
  <2>1. Unread = {} /\ Unread' = {}
    BY <1>2, LoginPrints DEF Unread
  <2>2. QED BY <1>2, <2>1 DEF Returned, Left, Cur
<1>3. CASE cpc = "login"
  <2>1. /\ spc = "login" /\ greeted = hello /\ up = <<>> /\ Len(down) = 1 /\ hello < NLogin
        /\ down[1].t = "login" /\ LoginShape
    <3>1. LoginShape
      BY <1>1, <1>3 DEF RunShape, PlainShape, MuteShape, InRun, RunReads
    <3>2. down # <<>>
      BY <1>1
    <3>3. QED BY <1>1, <1>3, <3>1, <3>2 DEF LoginShape, OnTheWay, TypeOK, ClientTypeOK
  <2>2. down' = <<>>
    BY <1>1, <2>1, SubSeqEmpty
  <2>3. /\ up' = Append(up, [n |-> 0, kind |-> "blank", marker |-> FALSE, open |-> FALSE])
        /\ hello' = hello + 1 /\ answers' = answers /\ stdout' = stdout
        /\ cpc' = IF hello' < NLogin THEN "login" ELSE "first"
    BY <1>1, <1>3 DEF Returns, HelloReturns, RunReturns, SendLine
  <2>4. OnTheWay(0, "blank", FALSE)'
    BY <2>1, <2>2, <2>3 DEF OnTheWay, Sending
  <2>5. LoginShape'
    BY <1>1, <2>1, <2>3, <2>4 DEF LoginShape
  <2>6. QED BY <1>2, <2>1, <2>2, <2>3, <2>5
<1>4. CASE cpc = "first"
  <2>1. spc = "read" /\ Answering(0, 1) /\ i = 1 /\ LoginShape
    <3>1. LoginShape /\ down # <<>>
      BY <1>1, <1>4 DEF RunShape, PlainShape, MuteShape, InRun, RunReads
    <3>2. spc = "read" /\ Answering(0, 1)
      BY <1>1, <1>4, <3>1 DEF LoginShape, OnTheWay
    <3>3. 0 \in Nat /\ 1 \in 1..2
      OBVIOUS
    <3>4. QED BY <1>1, <1>4, <3>1, <3>2, <3>3, MatchInAnswer
  <2>2. down' = <<>> /\ up = <<>> /\ Len(down) = 1
    BY <1>1, <2>1, SubSeqEmpty DEF Answering, Ends
  <2>3. /\ up' = Append(up, [n |-> 0, kind |-> "stty", marker |-> FALSE, open |-> FALSE])
        /\ answers' = answers /\ cpc' = "stty1" /\ stdout' = stdout
    BY <1>1, <1>4 DEF Returns, HelloReturns, RunReturns, SendLine
  <2>4. OnTheWay(0, "stty", FALSE)'
    BY <2>2, <2>3 DEF OnTheWay, Sending
  <2>5. LoginShape'
    BY <1>1, <2>1, <2>3, <2>4 DEF LoginShape
  <2>6. QED BY <1>2, <2>1, <2>2, <2>3, <2>5
<1>5. CASE cpc = "stty1"
  <2>1. spc = "read" /\ Answering(0, 1) /\ i = 1 /\ LoginShape
    <3>1. LoginShape /\ down # <<>>
      BY <1>1, <1>5 DEF RunShape, PlainShape, MuteShape, InRun, RunReads
    <3>2. spc = "read" /\ Answering(0, 1)
      BY <1>1, <1>5, <3>1 DEF LoginShape, OnTheWay
    <3>3. 0 \in Nat /\ 1 \in 1..2
      OBVIOUS
    <3>4. QED BY <1>1, <1>5, <3>1, <3>2, <3>3, MatchInAnswer
  <2>2. down' = <<>> /\ up = <<>> /\ Len(down) = 1
    BY <1>1, <2>1, SubSeqEmpty DEF Answering, Ends
  <2>3. up' = up /\ answers' = answers /\ cpc' = "stty2" /\ stdout' = stdout
    BY <1>1, <1>5 DEF Returns, HelloReturns, RunReturns
  <2>4. LoginShape'
    BY <1>1, <2>1, <2>2, <2>3 DEF LoginShape, Nobody
  <2>5. QED BY <1>2, <2>1, <2>2, <2>3, <2>4
<1>6. CASE cpc = "stty2"
  BY <1>1, <1>6 DEF LoginShape, RunShape, PlainShape, MuteShape, InRun, RunReads, Nobody
<1>7. CASE cpc \in RunReads
  <2>1. /\ spc = "read" /\ (PlainShape \/ MuteShape) /\ up = <<>> /\ InRun
    <3>1. spc = "read"
      BY <1>1, <1>7 DEF LoginShape, RunShape, RunReads
    <3>2. ~(cpc = "needle" /\ Leftover)
      <4> SUFFICES ASSUME cpc = "needle", Leftover PROVE FALSE
        OBVIOUS
      <4>1. i \in DOMAIN down /\ down[i].t = "done"
        BY <1>1, Sequences DEF Matches
      <4>2. QED BY <4>1 DEF Leftover
    <3>3. PlainShape \/ MuteShape
      BY <1>1, <1>7, <3>1, <3>2 DEF LoginShape, RunShape, RunReads
    <3>4. QED BY <1>7, <3>1, <3>3 DEF PlainShape, MuteShape, Behind, Answering, InRun
  <2>2. /\ RunReturns(SubSeq(down, 1, i)) /\ up' = up /\ UNCHANGED performed
    BY <1>1, <1>7 DEF Returns, HelloReturns, RunReturns, RunReads
  <2> DEFINE n == Cur
  <2>3. CASE PlainShape /\ cpc = "needle"
    <3>1. PICK n1 \in Nat : n1 = Cur
      BY <1>1
    <3>2. Behind(n1) /\ stdout = {} /\ down' = SubSeq(down, i + 1, Len(down))
      BY <1>1, <2>3, <3>1 DEF PlainShape, ShapeInv, Matches
    <3>3. /\ Answering(n1, 2)'
          /\ From(SubSeq(down, 1, i)) = Unread \cup {n1}
          /\ \A m \in From(SubSeq(down, 1, i)) : m = n1 \/ Muted(m)
          /\ \A m \in Unread' : m = n1
      BY <1>1, <2>2, <2>3, <3>1, <3>2, ConsumeBlock
    <3>4. cpc' = "tail" /\ stdout' = Unread \cup {Cur} /\ answers' = answers /\ Cur' = Cur
      BY <2>2, <2>3, <3>1, <3>3 DEF RunReturns, Cur
    <3>5. Answering(Cur, 2)'
      BY <3>1, <3>3, <3>4 DEF Answering, Ends
    <3>6. Own'
      <4>1. \A m \in stdout' : m = Cur \/ Muted(m)
        BY <3>1, <3>3, <3>4
      <4>2. QED BY <1>1, <3>4, <4>1 DEF Own, Muted
    <3>7. PlainShape'
      BY <2>2, <2>3, <3>4, <3>5, <3>6 DEF PlainShape, CarriedOut, Muted
    <3>8. Left' = Left
      BY <3>1, <3>2, <3>3, <3>4 DEF Left
    <3>9. QED BY <1>1, <2>1, <3>4, <3>7, <3>8 DEF Returned, RunShape
  <2>4. CASE PlainShape /\ cpc \in {"tail", "prompt"}
    <3>1. PICK n1 \in Nat, k \in 1..2 : n1 = Cur /\ k = (IF cpc = "tail" THEN 2 ELSE 1)
      BY <1>1
    <3>2. Answering(n1, k) /\ Own /\ CarriedOut(Cur) /\ ~Muted(Cur)
      BY <2>4, <3>1 DEF PlainShape
    <3>3. i = 1
      BY <1>1, <2>4, <3>1, <3>2, MatchInAnswer
    <3>4. down[1].t # "out"
      <4>1. 1 \in 1..k /\ down[1].t = Ends[k + 1 - 1] /\ (k + 1 - 1 = 1 \/ k + 1 - 1 = 2)
        BY <3>2 DEF Answering
      <4>2. Ends[1] = "prompt" /\ Ends[2] = "code"
        BY DEF Ends
      <4>3. QED BY <4>1, <4>2
    <3>5. down' = SubSeq(down, 2, Len(down))
      BY <1>1, <3>3, <3>4
    <3>6. /\ From(SubSeq(down, 1, 1)) = {n1} /\ Unread = {} /\ Unread' = {}
          /\ k = 2 => Answering(n1, 1)'
          /\ k = 1 => Nobody'
      BY <1>1, <2>2, <3>1, <3>2, <3>5, ConsumeOne
    <3>7. CASE cpc = "tail"
      <4>1. cpc' = "prompt" /\ stdout' = stdout \cup {Cur} /\ answers' = answers /\ Cur' = Cur
        BY <2>2, <3>1, <3>3, <3>6, <3>7 DEF RunReturns, Cur
      <4>2. Answering(Cur, 1)'
        BY <3>1, <3>6, <3>7, <4>1 DEF Answering, Ends
      <4>3. stdout' = stdout /\ Own'
        BY <1>1, <3>2, <4>1 DEF Own, Muted
      <4>4. PlainShape'
        BY <1>1, <3>2, <4>1, <4>2, <4>3 DEF PlainShape, CarriedOut, Muted
      <4>5. Left' = Left
        BY <3>6, <4>1, <4>3 DEF Left
      <4>6. QED BY <1>1, <2>1, <4>1, <4>4, <4>5 DEF Returned, RunShape
    <3>8. CASE cpc = "prompt"
      <4>1. /\ cpc' = "think" /\ stdout' = {}
            /\ answers' = Append(answers, [status |-> "ok", from |-> stdout, exit |-> exit])
        BY <2>2, <3>8 DEF RunReturns
      <4>2. Leftover' /\ up' = <<>>
        BY <3>1, <3>6, <3>8 DEF Nobody, Leftover
      <4>3. RunShape'
        BY <1>1, <2>1, <4>1, <4>2 DEF RunShape
      <4>4. [status |-> "ok", from |-> stdout, exit |-> exit] \in Answer
        BY <1>1 DEF Answer, TypeOK, ClientTypeOK
      <4>5. PICK a \in Answer : answers' = Append(answers, a) /\ a.from = stdout /\ a.status = "ok"
        BY <4>1, <4>4
      <4>6. stdout = Left \cup {Cur} /\ Left' = {} /\ \A m \in Left : Muted(m)
        BY <3>2, <3>6, <4>1 DEF Left, Own
      <4>7. Prompted(a)
        BY <2>1, <3>2, <4>5, <4>6 DEF Prompted
      <4>8. QED BY <4>3, <4>5, <4>7 DEF Returned
    <3>9. QED BY <2>4, <3>7, <3>8
  <2>5. CASE MuteShape
    <3>1. /\ up' = up
          /\ \/ cpc' \in {"tail", "prompt"} /\ Silent' /\ answers' = answers /\ Left' = Left
             \/ /\ cpc = "prompt" /\ cpc' = "think" /\ stdout' = {} /\ Leftover' /\ Unread' = Unread
                /\ answers' = Append(answers, [status |-> "ok", from |-> stdout, exit |-> exit])
      BY <1>1, <2>1, <2>5, SilentReads DEF MuteShape
    <3>2. CASE cpc' \in {"tail", "prompt"} /\ Silent' /\ answers' = answers /\ Left' = Left
      <4>1. Cur' = Cur /\ InRun'
        BY <3>2 DEF Cur, InRun, RunReads
      <4>2. MuteShape'
        BY <1>1, <2>1, <2>5, <3>1, <3>2, <4>1 DEF MuteShape, Muted
      <4>3. QED BY <1>1, <2>1, <3>2, <4>2 DEF Returned, RunShape
    <3>3. CASE /\ cpc = "prompt" /\ cpc' = "think" /\ stdout' = {} /\ Leftover' /\ Unread' = Unread
               /\ answers' = Append(answers, [status |-> "ok", from |-> stdout, exit |-> exit])
      <4>1. RunShape'
        BY <1>1, <2>1, <3>1, <3>3 DEF RunShape
      <4>2. Returned
        BY <2>5, <3>3, SilentReturns DEF MuteShape
      <4>3. QED BY <4>1, <4>2
    <3>4. QED BY <3>1, <3>2, <3>3
  <2>6. QED BY <2>1, <2>3, <2>4, <2>5 DEF PlainShape
<1>8. cpc \in {"login", "first", "stty1", "stty2"} \/ cpc \in RunReads
  BY DEF Matches, RunReads
<1>9. QED BY <1>3, <1>4, <1>5, <1>6, <1>7, <1>8

\* A deadline of the client passes only while it waits for the prompt after `stty -echo`
\* that the first of its two reads has already consumed, or after a muted command.
LEMMA TimeOutKeepsShape ==
    ASSUME ShapeInv, Gentle, spc # "closed", Quiet, TimeOut, UNCHANGED serverVars
    PROVE  Shapes' /\ Returned
<1> USE DEF Shapes
<1>1. /\ Shapes /\ got = Len(down) /\ Matches = {} /\ cpc \in Reads
      /\ UNCHANGED <<down, spc, greeted, performed>> /\ spc \in {"login", "read"}
      /\ TypeOK /\ Cur \in Nat /\ down \in Seq(Token) /\ Len(down) \in Nat /\ Returns(Buf)
  BY Sessions DEF ShapeInv, Quiet, TimeOut, serverVars, LoginShape, RunShape
<1>2. up = <<>>
  BY <1>1 DEF Quiet
<1>3. ASSUME NEW n, NEW k \in 1..2, Answering(n, k)
      PROVE  got = k /\ 1 \in 1..got /\ down[1].t = Ends[k]
  BY <1>1, <1>3 DEF Answering
<1>4. ~(spc = "login")
  <2> SUFFICES ASSUME spc = "login" PROVE FALSE
    OBVIOUS
  <2>1. Len(down) = 1 /\ down[1].t = "login" /\ down[1].n = hello + 1 /\ cpc = "login"
    BY <1>1, <1>2 DEF LoginShape, RunShape, OnTheWay, Sending
  <2>2. 1 \in Matches
    BY <1>1, <2>1 DEF Matches
  <2>3. QED BY <1>1, <2>2
<1>5. ~(cpc \in {"first", "stty1", "prompt"} /\ \E n : Answering(n, 1))
  <2> SUFFICES ASSUME cpc \in {"first", "stty1", "prompt"}, NEW n, Answering(n, 1) PROVE FALSE
    OBVIOUS
  <2>1. 1 \in 1..got /\ down[1].t = "prompt" /\ got = 1
    BY <1>1, <1>3 DEF Ends
  <2>2. 1 \in Matches
    BY <2>1 DEF Matches
  <2>3. QED BY <1>1, <2>2
<1>6. ~PlainShape
  <2>1. ~(cpc = "needle" /\ PlainShape)
    <3> SUFFICES ASSUME cpc = "needle", PlainShape PROVE FALSE
      OBVIOUS
    <3>1. Len(down) > 2 /\ \A i \in 1..3 : down[Len(down) - 3 + i].t = Ends[4 - i]
      BY DEF PlainShape, Behind
    <3>2. 1 \in 1..3 /\ 4 - 1 = 3 /\ Ends[3] = "done"
      BY DEF Ends
    <3>3. PICK j : j = Len(down) - 3 + 1
      OBVIOUS
    <3>4. down[j].t = "done" /\ j \in 1..got
      BY <1>1, <3>1, <3>2, <3>3
    <3>5. j \in Matches
      BY <3>4 DEF Matches
    <3>6. QED BY <1>1, <3>5
  <2>2. ~(cpc = "tail" /\ PlainShape)
    <3> SUFFICES ASSUME cpc = "tail", PlainShape PROVE FALSE
      OBVIOUS
    <3>1. Answering(Cur, 2) /\ 2 \in 1..2
      BY DEF PlainShape
    <3>2. 1 \in 1..got /\ down[1].t = "code"
      BY <1>3, <3>1 DEF Ends
    <3>3. 1 \in Matches
      BY <3>2 DEF Matches
    <3>4. QED BY <1>1, <3>3
  <2>3. QED BY <1>5, <2>1, <2>2 DEF PlainShape
<1>7. CASE cpc = "stty2"
  <2>1. spc = "read" /\ Nobody
    BY <1>1, <1>6, <1>7 DEF LoginShape, RunShape, MuteShape, InRun, RunReads
  <2>2. cpc' = "think" /\ UNCHANGED <<up, hungUp, answers, stdout>>
    BY <1>1, <1>7 DEF Returns, HelloReturns, RunReturns, RunReads
  <2>3. RunShape'
    BY <1>1, <2>1, <2>2 DEF RunShape, Nobody, Leftover
  <2>4. Left' = Left
    BY <1>1, <2>2 DEF Left, Cur, Unread
  <2>5. QED BY <2>2, <2>3, <2>4 DEF Returned
<1>8. CASE MuteShape
  <2>1. /\ up' = up
        /\ \/ cpc' \in {"tail", "prompt"} /\ Silent' /\ answers' = answers /\ Left' = Left
           \/ /\ cpc = "prompt" /\ cpc' = "think" /\ stdout' = {} /\ Leftover' /\ Unread' = Unread
              /\ answers' = Append(answers, [status |-> "ok", from |-> stdout, exit |-> exit])
    BY <1>1, <1>8, SilentReads DEF MuteShape
  <2>2. CASE cpc' \in {"tail", "prompt"} /\ Silent' /\ answers' = answers /\ Left' = Left
    <3>1. Cur' = Cur /\ InRun'
      BY <2>2 DEF Cur, InRun, RunReads
    <3>2. MuteShape'
      BY <1>1, <1>2, <1>8, <2>1, <2>2, <3>1 DEF MuteShape, Muted
    <3>3. QED BY <1>1, <1>4, <2>2, <3>2 DEF Returned, RunShape
  <2>3. CASE /\ cpc = "prompt" /\ cpc' = "think" /\ stdout' = {} /\ Leftover' /\ Unread' = Unread
             /\ answers' = Append(answers, [status |-> "ok", from |-> stdout, exit |-> exit])
    <3>1. RunShape'
      BY <1>1, <1>2, <1>4, <2>1, <2>3 DEF RunShape
    <3>2. Returned
      BY <1>8, <2>3, SilentReturns DEF MuteShape
    <3>3. QED BY <3>1, <3>2
  <2>4. QED BY <2>1, <2>2, <2>3
<1>9. cpc = "stty2" \/ MuteShape
  <2>1. CASE LoginShape
    BY <1>1, <1>2, <1>4, <1>5, <2>1 DEF LoginShape, OnTheWay, Sending
  <2>2. CASE RunShape
    BY <1>1, <1>2, <1>6, <2>2 DEF RunShape, Sending, Reads, HelloReads, RunReads
  <2>3. QED BY <1>1, <2>1, <2>2
<1>10. QED BY <1>7, <1>8, <1>9

\* When the server has given up, deadlines pass until run() returns what is left.
LEMMA GoneStays ==
    ASSUME ShapeInv, Gentle, spc = "closed", ClientStep
    PROVE  Gone' /\ Returned
<1>1. /\ Gone /\ Silent /\ spc' = spc /\ performed' = performed /\ TypeOK /\ answers \in Seq(Answer)
      /\ Len(answers) \in Nat /\ Cur \in Nat /\ StreamInv /\ down \in Seq(Token)
      /\ (InRun => ~CarriedOut(Cur)) /\ cpc \notin HelloReads
  BY Sessions DEF ShapeInv, ClientStep, serverVars, Gone
<1>2. CASE Receive
  <2>1. UNCHANGED <<wire, cpc, stdout, answers>>
    BY <1>2 DEF Receive
  <2>2. QED BY <1>1, <2>1 DEF wire, Gone, Silent, Leftover, Muted, Unread, Service!Oldest, InRun, CarriedOut, Cur, Returned, Left
<1>3. ASSUME InRun, (\E i \in Matches : Match(i)) \/ (Quiet /\ TimeOut)
      PROVE  Gone' /\ Returned
  <2>1. \/ cpc' \in {"tail", "prompt"} /\ Silent' /\ answers' = answers /\ Left' = Left
        \/ /\ cpc = "prompt" /\ cpc' = "think" /\ stdout' = {} /\ Leftover' /\ Unread' = Unread
           /\ answers' = Append(answers, [status |-> "ok", from |-> stdout, exit |-> exit])
    BY <1>1, <1>3, SilentReads DEF Quiet
  <2>2. CASE cpc' \in {"tail", "prompt"} /\ Silent' /\ answers' = answers /\ Left' = Left
    <3>1. ~CarriedOut(Cur)'
      BY <1>1, <1>3, <2>2 DEF CarriedOut, Cur
    <3>2. QED BY <1>1, <2>2, <3>1 DEF Gone, HelloReads, Returned
  <2>3. CASE /\ cpc = "prompt" /\ cpc' = "think" /\ stdout' = {} /\ Leftover' /\ Unread' = Unread
             /\ answers' = Append(answers, [status |-> "ok", from |-> stdout, exit |-> exit])
    <3>1. Gone'
      BY <1>1, <2>3 DEF Gone, Silent, HelloReads, InRun, RunReads
    <3>2. Returned
      BY <1>1, <1>3, <2>3, SilentReturns
    <3>3. QED BY <3>1, <3>2
  <2>4. QED BY <2>1, <2>2, <2>3
<1>4. ASSUME (\E i \in Matches : Match(i)) \/ (Quiet /\ TimeOut)
      PROVE  InRun
  <2>1. cpc \in Reads
    BY <1>4 DEF Match, Returns, HelloReturns, RunReturns, TimeOut, Reads, HelloReads, RunReads
  <2>2. QED BY <1>1, <2>1 DEF Reads, InRun
<1>5. CASE IssueFails
  <2>1. UNCHANGED <<down, cpc, stdout>> /\ answers' = Append(answers, [status |-> "error", from |-> {}, exit |-> 0]) /\ cpc = "think"
    BY <1>5 DEF IssueFails, wire
  <2>2. [status |-> "error", from |-> {}, exit |-> 0] \in Answer
    BY ExitsAssumption DEF Answer
  <2>3. PICK a \in Answer : answers' = Append(answers, a) /\ a.from = {}
    BY <2>1, <2>2
  <2>4. Left = Unread /\ \A m \in Unread : m \in Nat /\ m < Cur
    BY <1>1, <2>1, LeftBetween DEF InRun, RunReads, Silent
  <2>5. Unread' = Unread /\ Cur' = Cur + 1 /\ stdout' = {}
    BY <1>1, <2>1, <2>3 DEF Unread, Cur, ShapeInv
  <2>6. Left' = Left
    BY <1>1, <2>4, <2>5 DEF Left
  <2>7. Returned
    BY <1>1, <2>1, <2>3, <2>6 DEF Returned, Refusal
  <2>8. Gone'
    BY <1>1, <2>1 DEF Gone, Silent, Leftover, Muted, Unread, HelloReads, InRun, RunReads
  <2>9. QED BY <2>7, <2>8
<1>6. ASSUME NEW kind \in Kinds, Issue(kind) PROVE Gone' /\ Returned
  <2>1. UNCHANGED <<down, answers, stdout>> /\ cpc = "think" /\ cpc' = "needle"
    BY <1>6 DEF Issue
  <2>2. ~CarriedOut(Cur)'
    <3>1. Issued = Len(answers)
      BY <2>1 DEF Issued, InRun, RunReads
    <3>2. ~CarriedOut(Cur)
      BY <1>1, <3>1, MutedSent DEF Cur
    <3>3. QED BY <1>1, <2>1, <3>2 DEF CarriedOut, Cur
  <2>3. Gone'
    BY <1>1, <2>1, <2>2 DEF Gone, Silent, Leftover, Muted, HelloReads
  <2>4. QED BY <2>1, <2>3 DEF Returned, Left, Unread, Cur
<1>7. CASE HangUp
  <2>1. UNCHANGED <<down, answers, stdout>> /\ cpc = "think" /\ cpc' = "closed"
    BY <1>7 DEF HangUp
  <2>2. Gone'
    BY <1>1, <2>1 DEF Gone, Silent, Leftover, Muted, HelloReads, InRun, RunReads
  <2>3. QED BY <2>1, <2>2 DEF Returned, Left, Unread, Cur
<1>8. QED BY <1>2, <1>3, <1>4, <1>5, <1>6, <1>7 DEF ClientStep

\* Every step of the client takes one shape of the session to another.
LEMMA ClientKeepsShape ==
    ASSUME ShapeInv, Gentle, ClientStep
    PROVE  (IF spc' = "closed" THEN Gone' ELSE Shapes') /\ Returned
<1>1. /\ UNCHANGED serverVars /\ performed' = performed /\ spc' = spc /\ greeted' = greeted
      /\ TypeOK /\ answers \in Seq(Answer) /\ Len(answers) \in Nat /\ Cur \in Nat
  BY Sessions DEF ClientStep, serverVars
<1>2. CASE spc = "closed"
  BY <1>1, <1>2, GoneStays
<1>3. CASE spc # "closed"
  <2>1. Shapes
    BY <1>3 DEF ShapeInv
  <2>2. CASE Receive
    <3>1. UNCHANGED <<up, hungUp, down, cpc, hello, stdout, answers>> /\ Cur' = Cur
      BY <2>2 DEF Receive, wire, Cur
    <3>2. LoginShape => LoginShape'
      BY <1>1, <3>1 DEF LoginShape, OnTheWay, Sending, Answering, Nobody, Ends
    <3>3. ASSUME RunShape PROVE RunShape'
      <4>1. PlainShape => PlainShape'
        BY <1>1, <3>1 DEF PlainShape, Behind, Answering, Own, CarriedOut, Muted, Ends
      <4>2. MuteShape => MuteShape'
        BY <1>1, <3>1 DEF MuteShape, Silent, Leftover, Muted, Unread, Service!Oldest, InRun
      <4>3. Leftover => Leftover'
        BY <1>1, <3>1 DEF Leftover, Muted
      <4>5. spc = "read" /\ spc' = "read" /\ cpc' = cpc /\ up' = up
        BY <1>1, <3>1, <3>3 DEF RunShape
      <4>6. CASE cpc = "needle" /\ Leftover /\ \E kind \in EngineKinds : Sending(Cur, kind, TRUE)
        BY <3>1, <4>3, <4>5, <4>6 DEF RunShape, Sending
      <4>7. CASE (cpc \in {"think", "closed"} /\ up = <<>> /\ Leftover) \/ PlainShape \/ MuteShape
        BY <4>1, <4>2, <4>3, <4>5, <4>7 DEF RunShape, Sending
      <4>8. QED BY <3>3, <4>6, <4>7 DEF RunShape
    <3>4. Returned
      BY <3>1 DEF Returned, Left, Unread
    <3>5. QED BY <1>1, <1>3, <2>1, <3>2, <3>3, <3>4 DEF Shapes
  <2>3. ASSUME NEW i \in Matches, Match(i)
        PROVE  Shapes' /\ Returned
    BY <1>1, <1>3, <2>3, MatchKeepsShape
  <2>4. CASE Quiet /\ TimeOut
    BY <1>1, <1>3, <2>4, TimeOutKeepsShape
  <2>5. ASSUME NEW kind \in Kinds, Issue(kind)
        PROVE  Shapes' /\ Returned
    <3>1. cpc = "think" /\ cpc' = "needle" /\ UNCHANGED <<down, answers, stdout>> /\ kind \in EngineKinds
      BY <2>5, KindsAssumption DEF Issue
    <3>2. Leftover /\ spc = "read" /\ up = <<>>
      BY <2>1, <3>1 DEF Shapes, LoginShape, RunShape, PlainShape, MuteShape, InRun, RunReads
    <3>3. Cur' = Cur /\ Sending(Cur, kind, TRUE)'
      BY <2>5, <3>1, <3>2 DEF Issue, SendLine, Sending, Cur
    <3>4. Leftover'
      BY <1>1, <3>1, <3>2 DEF Leftover, Muted
    <3>5. RunShape'
      BY <1>1, <3>1, <3>2, <3>3, <3>4 DEF RunShape, Sending
    <3>6. QED BY <3>1, <3>5 DEF Shapes, Returned, Left, Unread, Cur
  <2>6. CASE HangUp
    <3>1. cpc = "think" /\ cpc' = "closed" /\ UNCHANGED <<up, down, answers, stdout>>
      BY <2>6 DEF HangUp
    <3>2. Leftover' /\ up' = <<>> /\ spc' = "read"
      BY <1>1, <2>1, <3>1 DEF Shapes, LoginShape, RunShape, PlainShape, MuteShape, InRun, RunReads, Leftover, Muted
    <3>3. QED BY <3>1, <3>2 DEF Shapes, RunShape, Returned, Left, Unread, Cur
  <2>7. QED BY <1>1, <1>3, <2>2, <2>3, <2>4, <2>5, <2>6 DEF ClientStep
<1>4. QED BY <1>2, <1>3

\* A command that slept or asked for a password stays one that did.
LEMMA GentleBefore ==
    ASSUME StreamInv, [Next]_vars, Gentle'
    PROVE  Gentle
<1>1. CASE ServerStep
  <2>1. CASE UNCHANGED performed
    BY <2>1 DEF Gentle
  <2>2. CASE Carries
    <3>1. PICK x \in Exits : performed' = Append(performed, [n |-> Head(up).n, kind |-> Head(up).kind, exit |-> x])
      BY <2>2 DEF Carries
    <3>2. Head(up) \in Line
      BY <2>2, FirstAndLast DEF Carries, StreamInv, TypeOK, WireTypeOK
    <3>3. [n |-> Head(up).n, kind |-> Head(up).kind, exit |-> x] \in [n : Nat, kind : EngineKinds \cup ShellKinds, exit : Exits]
      BY <3>2 DEF Line
    <3>4. QED BY <3>1, <3>3, Performed DEF StreamInv
  <2>3. QED BY <1>1, <2>1, <2>2, ServerSteps DEF Waits, Skips, Eats
<1>2. CASE UNCHANGED performed
  BY <1>2 DEF Gentle
<1>3. QED BY <1>1, <1>2 DEF Next, ClientStep, Done, vars, serverVars

\* The session begins in the first of the shapes.
LEMMA ShapeInit == Init => ShapeInv
<1> SUFFICES ASSUME Init PROVE ShapeInv
  OBVIOUS
<1>1. StreamInv /\ hungUp = (cpc = "closed") /\ stdout = {}
  <2>1. cpc # "closed" /\ hungUp = FALSE /\ stdout = {}
    BY DEF Init, WireInit, ClientInit
  <2>2. QED BY <2>1, StreamInit
<1>3. up = <<>> /\ down = Greeting /\ greeted = 0 /\ hello = 0 /\ NPrompts = NLogin /\ ~Interactive
  BY AutomationAssumption DEF Init, WireInit, ServerInit, ClientInit
<1>4. CASE NLogin = 0
  <2>1. down = <<Prompt(0)>> /\ spc = "read" /\ cpc = "first"
    BY <1>3, <1>4 DEF Greeting, Init, ServerInit, ClientInit
  <2>2. LoginShape
    BY <1>3, <2>1 DEF LoginShape, Answering, Ends, Prompt, Say
  <2>3. QED BY <1>1, <2>1, <2>2 DEF ShapeInv, Shapes
<1>5. CASE NLogin # 0
  <2>1. down = <<Say("login", 1)>> /\ spc = "login" /\ cpc = "login"
    BY <1>3, <1>5 DEF Greeting, Init, ServerInit, ClientInit
  <2>2. LoginShape
    BY <1>3, <2>1 DEF LoginShape, Say
  <2>3. QED BY <1>1, <2>1, <2>2 DEF ShapeInv, Shapes
<1>6. QED BY <1>4, <1>5

\* Every step keeps the invariant.
LEMMA ShapeStep == ShapeInv /\ [Next]_vars => ShapeInv'
<1> SUFFICES ASSUME ShapeInv, [Next]_vars PROVE ShapeInv'
  OBVIOUS
<1>1. StreamInv /\ StreamInv'
  BY StreamStep DEF ShapeInv
<1>2. hungUp' = (cpc' = "closed") /\ (cpc' \notin {"tail", "prompt"} => stdout' = {})
  <2>1. hungUp = (cpc = "closed") /\ (cpc \notin {"tail", "prompt"} => stdout = {})
    BY DEF ShapeInv
  <2>2. CASE UNCHANGED <<hungUp, cpc, stdout>>
    BY <2>1, <2>2
  <2>3. CASE ServerStep
    <3>1. UNCHANGED <<hungUp, cpc, stdout>>
      BY <2>3 DEF ServerStep, ReadCommand, LoginReply, AskReply, AskNoReply, FinishAsk, WakeUp, ReadNothing, clientVars
    <3>2. QED BY <2>2, <3>1
  <2>4. CASE ClientStep
    <3>1. CASE HangUp
      BY <2>1, <3>1 DEF HangUp
    <3>2. CASE ~HangUp
      <4>1. cpc # "closed" /\ cpc' # "closed" /\ hungUp' = hungUp
        BY <2>4, <3>2
        DEF ClientStep, Receive, wire, Match, TimeOut, Returns, HelloReturns, RunReturns, Issue, IssueFails, Reads, RunReads, HelloReads
      <4>2. cpc' \notin {"tail", "prompt"} => stdout' = {}
        <5>1. CASE \E text : RunReturns(text)
          BY <5>1 DEF RunReturns
        <5>2. CASE UNCHANGED stdout /\ (cpc' \in {"tail", "prompt"} \/ cpc \notin {"tail", "prompt"})
          BY <2>1, <5>2
        <5>3. CASE HelloReturns
          BY <5>2, <5>3 DEF HelloReturns
        <5>4. CASE Receive \/ IssueFails \/ \E kind \in Kinds : Issue(kind)
          BY <5>2, <5>4 DEF Receive, IssueFails, Issue
        <5>5. QED BY <2>4, <3>2, <5>1, <5>3, <5>4 DEF ClientStep, Match, TimeOut, Returns
      <4>3. QED BY <2>1, <4>1, <4>2
    <3>3. QED BY <3>1, <3>2
  <2>5. QED BY <2>2, <2>3, <2>4 DEF Next, Done, vars, wire, clientVars
<1>3. ASSUME Gentle' PROVE IF spc' = "closed" THEN Gone' ELSE Shapes'
  <2>1. Gentle
    BY <1>1, <1>3, GentleBefore
  <2>2. CASE ServerStep
    <3>1. spc # "closed"
      BY <1>1, <2>2, ServerSteps
    <3>2. QED BY <1>3, <2>1, <2>2, <3>1, ServerKeepsShape
  <2>3. CASE ClientStep
    BY <2>1, <2>3, ClientKeepsShape
  <2>4. CASE UNCHANGED vars
    <3>1. LoginShape' = LoginShape
      BY <2>4 DEF vars, wire, serverVars, clientVars, LoginShape, OnTheWay, Sending, Answering, Nobody, Ends
    <3>2. Silent' = Silent /\ Leftover' = Leftover
      BY <2>4 DEF vars, wire, serverVars, clientVars, Silent, Leftover, Muted, Unread, Service!Oldest
    <3>3. PlainShape' = PlainShape
      BY <2>4 DEF vars, wire, serverVars, clientVars, PlainShape, Behind, Own, Answering, CarriedOut, Muted, Cur, Ends
    <3>4. MuteShape' = MuteShape /\ Gone' = Gone
      BY <2>4, <3>2 DEF vars, wire, serverVars, clientVars, MuteShape, Gone, CarriedOut, Muted, Cur, InRun
    <3>5. RunShape' = RunShape
      BY <2>4, <3>2, <3>3, <3>4 DEF vars, wire, serverVars, clientVars, RunShape, Sending, Cur
    <3>6. QED BY <2>1, <2>4, <3>1, <3>4, <3>5 DEF ShapeInv, Shapes, vars, serverVars
  <2>5. QED BY <2>2, <2>3, <2>4 DEF Next, Done
<1>4. QED BY <1>1, <1>2, <1>3 DEF ShapeInv

--------------------------------------------------------------------------------
(* The answers of plain commands. *)

\* The commands given to the engine stay, and the next one is the first line in flight.
LEMMA Given ==
    ASSUME StreamInv, [Next]_vars
    PROVE  /\ \A m : CarriedOut(m) => CarriedOut(m)'
           /\ \A j \in DOMAIN performed : j \in DOMAIN performed' /\ performed'[j] = performed[j]
           /\ \/ UNCHANGED performed
              \/ \E x \in Exits, l \in Line :
                   /\ performed' = Append(performed, [n |-> l.n, kind |-> l.kind, exit |-> x])
                   /\ up # <<>> /\ l = Head(up) /\ up' = Tail(up) /\ l.n # 0
                   /\ performed'[Len(performed')] = [n |-> l.n, kind |-> l.kind, exit |-> x]
                   /\ Len(performed') \in DOMAIN performed' /\ UNCHANGED clientVars
<1>1. CASE UNCHANGED performed
  BY <1>1 DEF CarriedOut
<1>2. CASE ServerStep /\ Carries
  <2>1. PICK x \in Exits : performed' = Append(performed, [n |-> Head(up).n, kind |-> Head(up).kind, exit |-> x])
    BY <1>2 DEF Carries
  <2>2. up # <<>> /\ up' = Tail(up) /\ Head(up).n # 0 /\ Head(up) \in Line /\ UNCHANGED clientVars /\ TypeOK
    BY <1>2, FirstAndLast DEF Carries, ServerStep, StreamInv, TypeOK, WireTypeOK
  <2> DEFINE c == [n |-> Head(up).n, kind |-> Head(up).kind, exit |-> x]
  <2>3. c \in [n : Nat, kind : EngineKinds \cup ShellKinds, exit : Exits]
    BY <2>2 DEF Line
  <2>4. /\ Len(performed') = Len(performed) + 1 /\ performed'[Len(performed) + 1] = c
        /\ \A i \in 1..Len(performed) : performed'[i] = performed[i]
        /\ \A m : CarriedOut(m)' <=> CarriedOut(m) \/ m = c.n
    <3> HIDE DEF c
    <3>1. performed' = Append(performed, c)
      BY <2>1 DEF c
    <3>2. QED BY <2>2, <2>3, <3>1, Carried
  <2>5. Len(performed) \in Nat /\ DOMAIN performed = 1..Len(performed)
    BY <2>2, Sequences
  <2>6. DOMAIN performed' = 1..Len(performed) + 1
    BY <2>1, <2>5
  <2>7. performed'[Len(performed')] = c /\ Len(performed') \in DOMAIN performed'
    BY <2>4, <2>5, <2>6
  <2>8. \A j \in DOMAIN performed : j \in DOMAIN performed' /\ performed'[j] = performed[j]
    BY <2>4, <2>5, <2>6
  <2>9. QED BY <2>1, <2>2, <2>4, <2>7, <2>8
<1>3. CASE ServerStep /\ ~Carries
  BY <1>1, <1>3, ServerSteps DEF Waits, Skips, Eats
<1>4. QED BY <1>1, <1>2, <1>3 DEF Next, ClientStep, Done, vars, serverVars

\* If all commands are plain after a step, they were before.
LEMMA PlainBefore ==
    ASSUME StreamInv, [Next]_vars, spc' # "closed", OnlyPlain'
    PROVE  spc # "closed" /\ OnlyPlain
<1>1. TypeOK /\ Len(up) \in Nat /\ DOMAIN up = 1..Len(up)
  BY Sequences DEF StreamInv
<1>2. \A j \in DOMAIN performed : performed[j].kind = "plain"
  BY Given DEF OnlyPlain
<1>3. CASE ServerStep
  <2>1. spc # "closed" /\ (Waits \/ Skips \/ Carries \/ Eats)
    BY <1>3, ServerSteps
  <2>2. CASE Waits
    BY <1>2, <2>1, <2>2 DEF Waits, OnlyPlain, InFlight
  <2>3. ASSUME up # <<>>, up' = Tail(up), Head(up).n = 0 \/ Head(up).kind = "plain"
        PROVE  OnlyPlain
    <3>1. /\ Head(up) = up[1] /\ Len(up') = Len(up) - 1
          /\ \A i \in 1..Len(up') : up'[i] = up[i + 1]
      BY <1>1, <2>3, Taken
    <3>2. DOMAIN up' = 1..Len(up')
      BY <1>1, <2>3
    <3>3. \A i \in InFlight : up[i].kind = "plain"
      <4> SUFFICES ASSUME NEW i \in 1..Len(up), up[i].n > 0 PROVE up[i].kind = "plain"
        BY <1>1 DEF InFlight
      <4>1. CASE i = 1
        BY <2>3, <3>1, <4>1
      <4>2. CASE i # 1
        <5>1. i - 1 \in 1..Len(up') /\ (i - 1) + 1 = i
          BY <1>1, <3>1, <4>2
        <5>2. i - 1 \in InFlight'
          BY <3>1, <3>2, <5>1 DEF InFlight
        <5>3. QED BY <3>1, <5>1, <5>2 DEF OnlyPlain
      <4>3. QED BY <4>1, <4>2
    <3>4. QED BY <1>2, <3>3 DEF OnlyPlain
  <2>4. CASE Skips
    BY <2>1, <2>3, <2>4 DEF Skips
  <2>5. CASE Carries
    <3>1. PICK l \in Line, x \in Exits :
            /\ l = Head(up) /\ performed'[Len(performed')] = [n |-> l.n, kind |-> l.kind, exit |-> x]
            /\ Len(performed') \in DOMAIN performed'
      <4>1. ~UNCHANGED performed
        <5>1. PICK x \in Exits : performed' = Append(performed, [n |-> Head(up).n, kind |-> Head(up).kind, exit |-> x])
          BY <2>5 DEF Carries
        <5>2. Len(performed') = Len(performed) + 1 /\ Len(performed) \in Nat
          BY <1>1, <5>1 DEF TypeOK, ServerTypeOK
        <5>3. QED BY <5>2
      <4>2. QED BY <4>1, Given
    <3>2. Head(up).kind = "plain"
      BY <3>1 DEF OnlyPlain
    <3>3. QED BY <2>1, <2>3, <2>5, <3>2 DEF Carries
  <2>6. ~Eats
    <3> SUFFICES ASSUME Eats PROVE FALSE
      OBVIOUS
    <3>1. performed[Len(performed)].kind = "ask" /\ performed # <<>>
      BY <2>1 DEF Eats, StreamInv, Alive, TypeOK, ServerTypeOK
    <3>2. Len(performed) \in DOMAIN performed
      BY <1>1, <3>1 DEF TypeOK, ServerTypeOK
    <3>3. QED BY <1>2, <3>1, <3>2
  <2>7. QED BY <2>1, <2>2, <2>4, <2>5, <2>6
<1>4. CASE ClientStep
  <2>1. spc' = spc
    BY <1>4 DEF ClientStep, serverVars
  <2>2. CASE UNCHANGED up
    BY <1>2, <2>1, <2>2 DEF OnlyPlain, InFlight
  <2>3. ASSUME NEW l \in Line, up' = Append(up, l)
        PROVE  OnlyPlain
    <3>1. Len(up') = Len(up) + 1 /\ \A i \in 1..Len(up) : up'[i] = up[i]
      BY <1>1, <2>3, Added
    <3>2. DOMAIN up' = 1..Len(up')
      BY <1>1, <2>3 DEF TypeOK, WireTypeOK
    <3>3. \A i \in InFlight : i \in InFlight' /\ up'[i] = up[i]
      BY <1>1, <3>1, <3>2 DEF InFlight
    <3>4. QED BY <1>2, <3>3 DEF OnlyPlain
  <2>4. CASE Greets
    <3>1. PICK l \in Line : up' = Append(up, l)
      <4>1. PICK kind \in {"blank", "stty"} :
              up' = Append(up, [n |-> 0, kind |-> kind, marker |-> FALSE, open |-> FALSE])
        BY <2>4 DEF Greets
      <4>2. [n |-> 0, kind |-> kind, marker |-> FALSE, open |-> FALSE] \in Line
        BY DEF Line, ShellKinds
      <4>3. QED BY <4>1, <4>2
    <3>2. QED BY <2>1, <2>3, <3>1
  <2>5. CASE Issues
    <3>1. PICK l \in Line : up' = Append(up, l)
      <4>1. PICK kind \in EngineKinds :
              up' = Append(up, [n |-> Cur, kind |-> kind, marker |-> TRUE, open |-> FALSE])
        BY <2>5 DEF Issues
      <4>2. [n |-> Cur, kind |-> kind, marker |-> TRUE, open |-> FALSE] \in Line
        BY Counting DEF Line
      <4>3. QED BY <4>1, <4>2
    <3>2. QED BY <2>1, <2>3, <3>1
  <2>6. QED BY <1>4, <2>1, <2>2, <2>4, <2>5, ClientSteps DEF Goes, Errs
<1>5. CASE UNCHANGED vars
  BY <1>5 DEF vars, wire, serverVars, OnlyPlain, InFlight
<1>6. QED BY <1>3, <1>4, <1>5 DEF Next, Done

\* A step keeps OwnAnswer: what a run() adds is what the engine printed for its command.
LEMMA OwnStep == ASSUME ShapeInv, OwnAnswer, [Next]_vars PROVE OwnAnswer'
<1> SUFFICES ASSUME OnlyPlain', spc' # "closed",
                    NEW i \in DOMAIN answers'
             PROVE  (answers'[i].from = {i} /\ answers'[i].status = "ok" /\ CarriedOut(i)')
  BY DEF OwnAnswer, EachItsOwn, CarriedOut
<1>1. StreamInv /\ OnlyPlain /\ spc # "closed"
  BY PlainBefore DEF ShapeInv
<1>2. /\ \A j \in DOMAIN answers : answers[j].from = {j} /\ answers[j].status = "ok" /\ CarriedOut(j)
      /\ \A m : CarriedOut(m) => CarriedOut(m)'
  BY <1>1, Given DEF OwnAnswer, EachItsOwn, CarriedOut
<1>3. CASE UNCHANGED answers
  BY <1>2, <1>3
<1>4. CASE ClientStep
  <2>1. Gentle /\ ~Muted(Cur)
    BY <1>1 DEF OnlyPlain, Gentle, Stalls, Muted
  <2>2. Returned
    BY <1>4, <2>1, ClientKeepsShape
  <2>3. ASSUME NEW a \in Answer, answers' = Append(answers, a), a.status = "ok", a.from = {Cur}, CarriedOut(Cur)
        PROVE  (answers'[i].from = {i} /\ answers'[i].status = "ok" /\ CarriedOut(i)')
    <3>1. answers \in Seq(Answer) /\ Len(answers) \in Nat /\ DOMAIN answers = 1..Len(answers) /\ Cur = Len(answers) + 1
      BY <1>1, Counting
    <3>2. /\ i \in 1..Len(answers) \/ i = Cur
          /\ \A j \in 1..Len(answers) : answers'[j] = answers[j]
          /\ answers'[Cur] = a
      BY <2>3, <3>1
    <3>3. CASE i = Cur
      <4>1. CarriedOut(i)
        BY <2>3, <3>3
      <4>2. QED BY <1>2, <2>3, <3>2, <3>3, <4>1
    <3>4. CASE i \in 1..Len(answers)
      BY <1>2, <3>1, <3>2, <3>4
    <3>5. QED BY <3>2, <3>3, <3>4
  <2>4. ASSUME NEW a \in Answer, answers' = Append(answers, a), Refusal(a) \/ Prompted(a) \/ Unprompted(a)
        PROVE  a.status = "ok" /\ a.from = {Cur} /\ CarriedOut(Cur)
    <3>1. \A m : ~Muted(m)
      BY <1>1 DEF OnlyPlain, Muted
    <3>2. Prompted(a)
      BY <1>1, <2>1, <2>4 DEF Refusal, Unprompted
    <3>3. QED BY <3>1, <3>2 DEF Prompted
  <2>5. QED BY <1>3, <2>2, <2>3, <2>4 DEF Returned
<1>5. QED BY <1>3, <1>4 DEF Next, Done, ServerStep, vars, clientVars

\* In every session, as long as its commands have been plain and the server has not given up,
\* run() never returns the output of another command: answer i is the output of command i,
\* which the engine carried out.
THEOREM OwnAnswers == Spec => []OwnAnswer
<1>1. Init => OwnAnswer
  BY DEF Init, ClientInit, OwnAnswer, EachItsOwn
<1>2. QED BY <1>1, ShapeInit, ShapeStep, OwnStep, PTL DEF Spec

--------------------------------------------------------------------------------
(* What run() returns after a command has slept or asked for a password. *)

\* The command the engine got last, what the current run() has collected, and all that is
\* left for run() to return.
Last == performed[Len(performed)].n
Held == IF cpc \in {"tail", "prompt"} THEN stdout ELSE {}
Texts == {down[i].n : i \in DOMAIN down} \cup Held

\* The login is over.
After == cpc \notin HelloReads

\* Every member of S is the number of a command, none beyond the last.
Known(S) == \A m \in S : performed # <<>> /\ m > 0 /\ m <= Last

\* S has a member that nothing else in S and nothing left to return is older than.
OldestOf(S) == S # {} => \E m \in S : (\A x \in S : m <= x) /\ \A x \in Texts : m <= x

\* While the server sleeps or waits for a password, it is for the last command.
WaitInv == spc \in {"ask", "hang"} => performed # <<>> /\ current.n = Last

\* After the login everything on the wire belongs to a command, and the server's text is in order.
TokenInv ==
    After => /\ spc # "login" /\ \A i \in DOMAIN up : up[i].n > 0
             /\ Known(Texts)
             /\ \A i, j \in DOMAIN down : i < j => down[i].n <= down[j].n

\* Once a command has stalled, nothing left to return is older than one that did, except what
\* muted commands printed.
StallInv ==
    After /\ ~Gentle =>
        \A m \in Texts :
            Muted(m) \/ \E s \in DOMAIN performed : Stalls(performed[s]) /\ performed[s].n <= m

\* Nothing left to return is older than the oldest of what was returned before.
OldestInv ==
    /\ OldestOf(Held)
    /\ \A h \in DOMAIN answers : OldestOf(answers[h].from) /\ Known(answers[h].from)

\* The inductive invariant of StaleOnlyAfterStall.
LateInv == ShapeInv /\ WaitInv /\ TokenInv /\ StallInv /\ OldestInv /\ StaleOnlyAfterStall

\* Tokens of the answer to command n.
Of(n) == {t \in Token : t.n = n}

\* All that the server says in answer to a command is about that command.
LEMMA AnswerTokens ==
    ASSUME NEW n \in Nat, NEW x \in Exits, NEW out \in Outputs(n), NEW l \in Line, l.n = n
    PROVE  /\ out \in Seq(Of(n)) /\ out \o <<Say("ask", n)>> \in Seq(Of(n))
           /\ Marker(l, x) \o <<Prompt(n)>> \in Seq(Of(n))
           /\ out \o Marker(l, x) \o <<Prompt(n)>> \in Seq(Of(n))
<1>1. /\ Say("ask", n) \in Of(n) /\ Say("out", n) \in Of(n) /\ Say("done", n) \in Of(n)
      /\ Prompt(n) \in Of(n) /\ Code(n, x) \in Of(n)
  BY TokenTypes DEF Say, Code, Prompt, Of
<1>2. out \in Seq(Of(n)) /\ Marker(l, x) \in Seq(Of(n))
  <2>1. <<Say("out", n)>> \in Seq(Of(n)) /\ <<>> \in Seq(Of(n)) /\ <<Say("done", n), Code(n, x)>> \in Seq(Of(n))
    BY <1>1
  <2>2. QED BY <2>1 DEF Outputs, Marker
<1>3. <<Say("ask", n)>> \in Seq(Of(n)) /\ <<Prompt(n)>> \in Seq(Of(n))
  BY <1>1
<1>4. \A s, t \in Seq(Of(n)) : s \o t \in Seq(Of(n))
  BY ConcatProperties
<1>5. QED BY <1>2, <1>3, <1>4

\* The last command has the highest number.
LEMMA LastIsHighest ==
    StreamInv => /\ \A j \in DOMAIN performed : performed # <<>> /\ performed[j].n <= Last
                 /\ performed # <<>> => Last \in Nat /\ Len(performed) \in DOMAIN performed
<1> SUFFICES ASSUME StreamInv
             PROVE  /\ \A j \in DOMAIN performed : performed # <<>> /\ performed[j].n <= Last
                    /\ performed # <<>> => Last \in Nat /\ Len(performed) \in DOMAIN performed
  OBVIOUS
<1>1. /\ Len(performed) \in Nat /\ DOMAIN performed = 1..Len(performed)
      /\ \A j \in 1..Len(performed) : performed[j].n \in Nat
      /\ \A i, j \in 1..Len(performed) : i < j => performed[i].n < performed[j].n
  BY Sequences DEF StreamInv, Accounts
<1>2. performed # <<>> => Len(performed) \in 1..Len(performed)
  BY <1>1 DEF StreamInv, TypeOK, ServerTypeOK
<1>3. ASSUME NEW j \in DOMAIN performed PROVE performed # <<>> /\ performed[j].n <= Last
  <2>1. performed # <<>>
    BY <1>1
  <2>2. CASE j = Len(performed)
    BY <1>1, <2>1, <2>2 DEF Last
  <2>3. CASE j < Len(performed)
    BY <1>1, <1>2, <2>1, <2>3 DEF Last
  <2>4. QED BY <1>1, <2>2, <2>3
<1>4. QED BY <1>1, <1>2, <1>3 DEF Last

\* It grows, and it has been issued.
LEMMA LastGrows ==
    ASSUME StreamInv, [Next]_vars
    PROVE  /\ \A m : CarriedOut(m) => m \in Nat /\ m > 0 /\ m <= Issued
           /\ performed # <<>> => /\ Last \in Nat /\ Last > 0 /\ CarriedOut(Last)
                                  /\ performed' # <<>> /\ Last <= Last'
           /\ performed' # <<>> => Last' \in Nat /\ Last' > 0
<1>1. StreamInv'
  BY StreamStep
<1>2. \A m : CarriedOut(m) => m \in Nat /\ m > 0 /\ m <= Issued
  <2>1. \A m : CarriedOut(m) => m \in Sent
    BY DEF StreamInv, Accounts, Placed
  <2>2. Issued \in Nat
    BY Counting
  <2>3. QED BY <2>1, <2>2 DEF Sent
<1>3. ASSUME performed # <<>>
      PROVE  /\ Last \in Nat /\ Last > 0 /\ CarriedOut(Last)
             /\ performed' # <<>> /\ Last' \in Nat /\ Last <= Last'
  <2>1. Last \in Nat /\ Len(performed) \in DOMAIN performed
    BY <1>3, LastIsHighest
  <2>2. Len(performed) \in DOMAIN performed' /\ performed'[Len(performed)] = performed[Len(performed)]
    BY <2>1, Given
  <2>3. (StreamInv => /\ \A j \in DOMAIN performed : performed # <<>> /\ performed[j].n <= Last
                      /\ performed # <<>> => Last \in Nat /\ Len(performed) \in DOMAIN performed)'
    BY LastIsHighest, PTL
  <2>4. CarriedOut(Last)
    BY <2>1 DEF Last, CarriedOut
  <2>5. performed' # <<>> /\ performed[Len(performed)].n <= Last'
    BY <1>1, <2>2, <2>3
  <2>6. QED BY <1>1, <1>2, <2>1, <2>3, <2>4, <2>5 DEF Last
<1>4. ASSUME performed = <<>>, performed' # <<>>
      PROVE  Last' \in Nat /\ Last' > 0
  <2>1. PICK l \in Line, x \in Exits :
          performed'[Len(performed')] = [n |-> l.n, kind |-> l.kind, exit |-> x] /\ l.n # 0
    BY <1>4, Given
  <2>2. Last' = l.n /\ l.n \in Nat
    BY <2>1 DEF Last, Line
  <2>3. QED BY <2>1, <2>2
<1>5. QED BY <1>2, <1>3, <1>4

\* What the server says in a step is about the last command it has been given.
Speaks ==
    \/ down' = down
    \/ \E text \in Seq(Token) :
         /\ down' = down \o text /\ performed' # <<>>
         /\ \A i \in 1..Len(text) : text[i].n = Last'

\* A send does, if its text is the answer to that command.
LEMMA Sends ==
    ASSUME NEW n, NEW text \in Seq(Of(n)), NEW next, Send(text, next), performed' # <<>>, Last' = n
    PROVE  Speaks
<1>1. \A i \in 1..Len(text) : text[i] \in Token /\ text[i].n = n
  BY ElementOfSeq DEF Of
<1>2. text \in Seq(Token)
  <2>1. Len(text) \in Nat /\ text = [i \in 1..Len(text) |-> text[i]]
    BY LenProperties
  <2>2. QED BY <1>1, <2>1
<1>3. QED BY <1>1, <1>2 DEF Send, Speaks

\* A step of the server, after the login.
LEMMA ServerSays ==
    ASSUME LateInv, ServerStep
    PROVE  WaitInv' /\ (After => Speaks /\ spc' # "login")
<1>1. /\ StreamInv /\ TypeOK /\ ~Interactive /\ spc # "closed" /\ spc # "cont" /\ WaitInv /\ TokenInv
      /\ performed \in Seq([n : Nat, kind : EngineKinds \cup ShellKinds, exit : Exits])
  BY AutomationAssumption, ServerSteps DEF LateInv, ShapeInv, StreamInv, Alive, TypeOK, ServerTypeOK
<1>2. ASSUME spc' \in {"read", "closed", "login"} PROVE WaitInv'
  BY <1>2 DEF WaitInv
<1>3. CASE ReadCommand
  <2> DEFINE l == Head(up)
  <2>1. up # <<>> /\ spc = "read" /\ (Joins(l) \/ (~NeedsMore(l) /\ Dispatch(l)))
    BY <1>1, <1>3 DEF ReadCommand
  <2>2. l = up[1] /\ l \in Line /\ Automated(l) /\ 1 \in DOMAIN up
    BY <1>1, <2>1, FirstLine DEF StreamInv, Numbered, TypeOK, WireTypeOK
  <2>3. Dispatch(l) /\ l.n \in Nat
    BY <2>1, <2>2 DEF Joins, NeedsMore, Automated, Line
  <2>4. CASE Answered(l)
    <3>1. spc' \in {"read", "closed"}
      BY <2>4, SendEnds DEF Answered
    <3>2. ~After
      BY <1>1, <2>2, <2>4 DEF TokenInv, Answered, Automated, EngineKinds
    <3>3. QED BY <1>2, <3>1, <3>2
  <2>5. CASE Performs(l)
    <3>1. PICK x \in Exits, out \in Outputs(l.n) :
            /\ performed' = Append(performed, [n |-> l.n, kind |-> l.kind, exit |-> x])
            /\ \/ l.kind = "ask"  /\ Send(out \o <<Say("ask", l.n)>>, "ask")
               \/ l.kind = "mute" /\ Send(out, "read")
               \/ l.kind = "hang" /\ spc' = "hang" /\ UNCHANGED down
               \/ /\ l.kind \in {"plain", "exit"}
                  /\ Send(out \o Marker(l, x) \o <<Prompt(l.n)>>, "read")
      BY <2>5 DEF Performs
    <3>2. performed' # <<>> /\ Last' = l.n
      BY <1>1, <3>1 DEF Last
    <3>3. /\ out \in Seq(Of(l.n)) /\ out \o <<Say("ask", l.n)>> \in Seq(Of(l.n))
          /\ out \o Marker(l, x) \o <<Prompt(l.n)>> \in Seq(Of(l.n))
      BY <2>2, <2>3, AnswerTokens
    <3>4. Speaks
      <4>1. CASE l.kind = "ask"
        BY <3>1, <3>2, <3>3, <4>1, Sends
      <4>2. CASE l.kind = "mute"
        BY <3>1, <3>2, <3>3, <4>2, Sends
      <4>3. CASE l.kind = "hang"
        BY <3>1, <4>3 DEF Speaks
      <4>4. CASE l.kind \in {"plain", "exit"}
        BY <3>1, <3>2, <3>3, <4>4, Sends
      <4>5. QED BY <3>1, <4>1, <4>2, <4>3, <4>4
    <3>5. /\ spc' \in {"read", "closed", "ask", "hang"}
          /\ spc' \in {"ask", "hang"} => l.kind \in {"ask", "hang"}
      BY <3>1, SendEnds
    <3>6. l.kind \in {"ask", "hang"} => current' = l
      BY <2>5 DEF Performs
    <3>7. WaitInv'
      BY <3>2, <3>5, <3>6 DEF WaitInv
    <3>8. QED BY <3>4, <3>5, <3>7
  <2>6. QED BY <1>1, <2>3, <2>4, <2>5 DEF Dispatch, Leaves
<1>4. CASE LoginReply
  <2>1. ~After
    BY <1>1, <1>4 DEF LoginReply, TokenInv
  <2>2. spc' \in {"login", "read", "closed"}
    BY <1>4, SendEnds DEF LoginReply
  <2>3. QED BY <1>2, <2>1, <2>2
<1>5. ASSUME spc \in {"ask", "hang"}
      PROVE  /\ performed # <<>> /\ current \in Line /\ current.n \in Nat /\ current.n = Last
             /\ performed[Len(performed)].exit \in Exits
  <2>1. performed # <<>> /\ current.n = Last
    BY <1>1, <1>5 DEF WaitInv
  <2>2. current \in Line /\ current.n \in Nat
    BY <1>1 DEF TypeOK, ServerTypeOK, Line
  <2>3. performed[Len(performed)] \in [n : Nat, kind : EngineKinds \cup ShellKinds, exit : Exits]
    BY <1>1, <2>1, FirstAndLast
  <2>4. QED BY <2>1, <2>2, <2>3
<1>6. ASSUME NEW reply, FinishAsk(reply), spc = "ask"
      PROVE  WaitInv' /\ Speaks /\ spc' # "login"
  <2>1. PICK out \in Outputs(current.n) :
          Send(out \o Marker(current, performed[Len(performed)].exit) \o <<Prompt(current.n)>>, "read")
    BY <1>6 DEF FinishAsk
  <2>2. spc' \in {"read", "closed"}
    BY <2>1, SendEnds
  <2>3. performed' # <<>> /\ Last' = current.n
    BY <1>5, <1>6 DEF FinishAsk, Last
  <2>4. out \o Marker(current, performed[Len(performed)].exit) \o <<Prompt(current.n)>> \in Seq(Of(current.n))
    BY <1>5, <1>6, AnswerTokens
  <2>5. Speaks
    BY <2>1, <2>3, <2>4, Sends
  <2>6. QED BY <1>2, <2>2, <2>5
<1>7. CASE WakeUp
  <2>1. spc = "hang" /\ Send(Marker(current, performed[Len(performed)].exit) \o <<Prompt(current.n)>>, "read")
    BY <1>7 DEF WakeUp
  <2>2. spc' \in {"read", "closed"}
    BY <2>1, SendEnds
  <2>3. performed' # <<>> /\ Last' = current.n
    BY <1>5, <1>7 DEF WakeUp, Last
  <2>4. Marker(current, performed[Len(performed)].exit) \o <<Prompt(current.n)>> \in Seq(Of(current.n))
    <3>1. <<>> \in Outputs(current.n)
      BY DEF Outputs
    <3>2. QED BY <1>5, <2>1, <3>1, AnswerTokens
  <2>5. Speaks
    BY <2>1, <2>3, <2>4, Sends
  <2>6. QED BY <1>2, <2>2, <2>5
<1>8. CASE ReadNothing
  <2>1. spc' = "closed" /\ down' = down
    BY <1>1, <1>8 DEF ReadNothing
  <2>2. QED BY <1>2, <2>1 DEF Speaks
<1>9. QED BY <1>3, <1>4, <1>6, <1>7, <1>8 DEF ServerStep, AskReply, AskNoReply

\* A command that stalls finds nothing left of the commands before it but what muted ones printed.
LEMMA StallsClean ==
    ASSUME ShapeInv, Gentle, After, ServerStep, ~UNCHANGED performed
    PROVE  \A m \in Texts : Muted(m)
<1>1. StreamInv /\ spc # "closed" /\ Shapes /\ up # <<>>
  BY Given, ServerSteps DEF ShapeInv, Next
<1>2. cpc = "needle" /\ Leftover
  BY <1>1 DEF Shapes, LoginShape, RunShape, PlainShape, MuteShape, Behind, Answering, After, HelloReads
<1>3. QED BY <1>2 DEF Texts, Held, Leftover

\* A step of the server keeps the invariant.
LEMMA LateServer ==
    ASSUME LateInv, ServerStep
    PROVE  WaitInv' /\ TokenInv' /\ StallInv' /\ OldestInv' /\ StaleOnlyAfterStall'
<1>1. /\ StreamInv /\ ShapeInv /\ TokenInv /\ StallInv /\ OldestInv /\ StaleOnlyAfterStall
      /\ TypeOK /\ down \in Seq(Token) /\ [Next]_vars /\ UNCHANGED clientVars
  BY Sessions DEF LateInv, ShapeInv, Next, ServerStep
<1>2. WaitInv' /\ (After => Speaks /\ spc' # "login")
  BY ServerSays
<1>3. After' = After /\ Held' = Held /\ answers' = answers
  BY <1>1 DEF clientVars, After, Held
<1>4. /\ \A j \in DOMAIN performed : j \in DOMAIN performed' /\ performed'[j] = performed[j]
      /\ performed # <<>> => Last \in Nat /\ performed' # <<>> /\ Last <= Last'
      /\ performed' # <<>> => Last' \in Nat /\ Last' > 0
      /\ \A j \in DOMAIN performed : performed # <<>> /\ performed[j].n <= Last /\ performed[j].n \in Nat
  <2>1. \A j \in DOMAIN performed : performed[j].n \in Nat
    BY <1>1, Sequences
  <2>2. QED BY <1>1, <2>1, Given, LastGrows, LastIsHighest
<1>5. /\ \A m \in Texts : m \in Nat
      /\ \A h \in DOMAIN answers : \A m \in answers[h].from : m \in Nat
  <2>1. \A i \in DOMAIN down : down[i] \in Token
    BY <1>1
  <2>2. \A m \in Held : m \in Nat
    BY <1>1 DEF Held, TypeOK, ClientTypeOK
  <2>3. \A h \in DOMAIN answers : answers[h] \in Answer
    BY <1>1 DEF TypeOK, ClientTypeOK
  <2>4. QED BY <2>1, <2>2, <2>3 DEF Texts, Token, Answer
<1>6. ASSUME After
      PROVE  /\ \A m \in Texts' : m \in Texts \/ (performed' # <<>> /\ m = Last')
             /\ \A i, j \in DOMAIN down' : i < j => down'[i].n <= down'[j].n
  <2>1. CASE down' = down
    BY <1>1, <1>3, <1>6, <2>1 DEF Texts, TokenInv
  <2>2. ASSUME NEW text \in Seq(Token), down' = down \o text, performed' # <<>>,
               \A i \in 1..Len(text) : text[i].n = Last'
        PROVE  /\ \A m \in Texts' : m \in Texts \/ (performed' # <<>> /\ m = Last')
               /\ \A i, j \in DOMAIN down' : i < j => down'[i].n <= down'[j].n
    <3>1. /\ Len(down) \in Nat /\ Len(text) \in Nat /\ DOMAIN down = 1..Len(down)
          /\ DOMAIN down' = 1..(Len(down) + Len(text))
          /\ \A i \in 1..(Len(down) + Len(text)) :
                down'[i] = IF i <= Len(down) THEN down[i] ELSE text[i - Len(down)]
      <4>1. /\ down \o text \in Seq(Token) /\ Len(down \o text) = Len(down) + Len(text)
            /\ \A i \in 1..(Len(down) + Len(text)) :
                  (down \o text)[i] = IF i <= Len(down) THEN down[i] ELSE text[i - Len(down)]
        BY <1>1, ConcatProperties
      <4>2. QED BY <1>1, <2>2, <4>1, LenProperties
    <3>2. \A i \in DOMAIN down' : (i \in DOMAIN down /\ down'[i] = down[i]) \/ (i > Len(down) /\ down'[i].n = Last')
      <4> SUFFICES ASSUME NEW i \in 1..(Len(down) + Len(text))
                   PROVE  (i \in 1..Len(down) /\ down'[i] = down[i]) \/ (i > Len(down) /\ down'[i].n = Last')
        BY <3>1
      <4>1. CASE i <= Len(down)
        BY <3>1, <4>1
      <4>2. CASE i > Len(down)
        <5>1. i - Len(down) \in 1..Len(text)
          BY <3>1, <4>2
        <5>2. QED BY <2>2, <3>1, <4>2, <5>1
      <4>3. QED BY <3>1, <4>1, <4>2
    <3>3. \A m \in Texts' : m \in Texts \/ (performed' # <<>> /\ m = Last')
      BY <1>3, <2>2, <3>2 DEF Texts
    <3>4. \A i \in DOMAIN down : down[i].n <= Last /\ performed # <<>> /\ down[i].n \in Nat
      BY <1>1, <1>5, <1>6 DEF TokenInv, Known, Texts
    <3>5. \A i, j \in DOMAIN down' : i < j => down'[i].n <= down'[j].n
      <4> SUFFICES ASSUME NEW i \in DOMAIN down', NEW j \in DOMAIN down', i < j
                   PROVE  down'[i].n <= down'[j].n
        OBVIOUS
      <4>1. CASE j \in DOMAIN down
        <5>1. i \in DOMAIN down /\ down'[i] = down[i] /\ down'[j] = down[j]
          BY <3>1, <3>2, <4>1
        <5>2. QED BY <1>1, <1>6, <4>1, <5>1 DEF TokenInv
      <4>2. CASE j \notin DOMAIN down
        <5>1. down'[j].n = Last'
          BY <3>2, <4>2
        <5>2. CASE i \in DOMAIN down
          <6>1. down'[i] = down[i]
            BY <3>1, <3>2, <5>2
          <6>2. QED BY <1>4, <3>4, <5>1, <5>2, <6>1
        <5>3. CASE i \notin DOMAIN down
          <6>1. down'[i].n = Last'
            BY <3>2, <5>3
          <6>2. QED BY <1>4, <2>2, <5>1, <6>1
        <5>4. QED BY <5>2, <5>3
      <4>3. QED BY <4>1, <4>2
    <3>6. QED BY <3>3, <3>5
  <2>3. QED BY <1>2, <1>6, <2>1, <2>2 DEF Speaks
<1>7. TokenInv'
  <2> SUFFICES ASSUME After PROVE (spc # "login" /\ (\A i \in DOMAIN up : up[i].n > 0) /\ Known(Texts))'
    BY <1>3, <1>6 DEF TokenInv
  <2>1. \A i \in DOMAIN up' : up'[i].n > 0
    <3>1. \A i \in DOMAIN up : up[i].n > 0
      BY <1>1 DEF TokenInv
    <3>2. CASE up' = up
      BY <3>1, <3>2
    <3>3. CASE up # <<>> /\ up' = Tail(up)
      <4>1. DOMAIN up = 1..Len(up) /\ DOMAIN up' = 1..Len(up')
        BY <1>1, <3>3, Sequences DEF TypeOK, WireTypeOK
      <4>2. QED BY <1>1, <3>1, <3>3, <4>1, Taken
    <3>4. QED BY <1>1, <3>2, <3>3, ServerSteps DEF Waits, Skips, Carries, Eats
  <2>2. Known(Texts)'
    <3>1. Known(Texts)
      BY <1>1 DEF TokenInv
    <3>2. QED BY <1>4, <1>5, <1>6, <3>1 DEF Known
  <2>3. QED BY <1>2, <2>1, <2>2
<1>8. StallInv'
  <2> SUFFICES ASSUME After, ~Gentle'
               PROVE  \A m \in Texts' :
                         \/ \E k \in DOMAIN performed' : performed'[k].n = m /\ performed'[k].kind = "mute"
                         \/ \E s \in DOMAIN performed' : Stalls(performed'[s]) /\ performed'[s].n <= m
    BY <1>3 DEF StallInv, Muted
  <2>4. \A m : Muted(m) => \E k \in DOMAIN performed' : performed'[k].n = m /\ performed'[k].kind = "mute"
    BY <1>4 DEF Muted
  <2>1. CASE ~Gentle
    <3>1. PICK s \in DOMAIN performed : Stalls(performed[s])
      BY <2>1 DEF Gentle
    <3>2. performed[s].n <= Last' /\ s \in DOMAIN performed' /\ performed'[s] = performed[s]
      BY <1>4, <3>1
    <3>3. \A m \in Texts : Muted(m) \/ \E z \in DOMAIN performed : Stalls(performed[z]) /\ performed[z].n <= m
      BY <1>1, <2>1 DEF StallInv
    <3>4. QED BY <1>4, <1>6, <2>4, <3>1, <3>2, <3>3
  <2>2. CASE Gentle
    <3>1. ~UNCHANGED performed
      BY <2>2 DEF Gentle
    <3>2. PICK l \in Line, x \in Exits :
            /\ performed' = Append(performed, [n |-> l.n, kind |-> l.kind, exit |-> x])
            /\ performed'[Len(performed')] = [n |-> l.n, kind |-> l.kind, exit |-> x]
            /\ Len(performed') \in DOMAIN performed'
      BY <1>1, <3>1, Given
    <3>3. \A j \in DOMAIN performed' : j \in DOMAIN performed \/ j = Len(performed')
      BY <1>1, <3>2 DEF TypeOK, ServerTypeOK
    <3>4. Stalls(performed'[Len(performed')])
      BY <1>4, <2>2, <3>3 DEF Gentle
    <3>5. \A m \in Texts' : Muted(m) \/ (m = Last' /\ performed' # <<>>)
      BY <1>1, <1>6, <2>2, <3>1, StallsClean
    <3>6. performed' # <<>> => performed'[Len(performed')].n <= Last'
      BY <1>4 DEF Last
    <3>7. QED BY <2>4, <3>2, <3>4, <3>5, <3>6
  <2>3. QED BY <2>1, <2>2
<1>9. OldestInv'
  <2>1. CASE ~After
    <3>1. Held = {} /\ answers = <<>>
      BY <1>1, <2>1 DEF After, Held, HelloReads, StreamInv
    <3>2. QED BY <1>3, <3>1 DEF OldestInv, OldestOf
  <2>2. ASSUME After, NEW S, OldestOf(S), Known(S), \A m \in S : m \in Nat
        PROVE  (S # {} => \E m \in S : (\A x \in S : m <= x) /\ \A x \in Texts' : m <= x)
    BY <1>4, <1>6, <2>2 DEF OldestOf, Known
  <2>3. CASE After
    <3>1. OldestOf(Held)'
      <4>1. Known(Held) /\ OldestOf(Held) /\ \A m \in Held : m \in Nat
        BY <1>1, <1>5, <2>3 DEF TokenInv, OldestInv, Known, Texts
      <4>2. QED BY <1>3, <2>2, <2>3, <4>1 DEF OldestOf
    <3>2. ASSUME NEW h \in DOMAIN answers PROVE OldestOf(answers[h].from)' /\ Known(answers[h].from)'
      <4>1. OldestOf(answers[h].from) /\ Known(answers[h].from) /\ \A m \in answers[h].from : m \in Nat
        BY <1>1, <1>5 DEF OldestInv
      <4>2. OldestOf(answers[h].from)'
        BY <1>3, <2>2, <2>3, <4>1 DEF OldestOf
      <4>3. Known(answers[h].from)'
        BY <1>3, <1>4, <4>1 DEF Known
      <4>4. QED BY <4>2, <4>3
    <3>3. QED BY <1>3, <3>1, <3>2 DEF OldestInv
  <2>4. QED BY <2>1, <2>3
<1>10. StaleOnlyAfterStall'
  BY <1>1, <1>3, <1>4 DEF StaleOnlyAfterStall
<1>11. QED BY <1>2, <1>7, <1>8, <1>9, <1>10

\* What a step of the client, after the login, does to the text: it consumes a first part of it,
\* adds a first part of it to what it has collected, or reports that.
Consumes(k) ==
    /\ down' = down \/ \E d \in 0..Len(down) : down' = SubSeq(down, d + 1, Len(down))
    /\ Held' = {} \/ Held' = Held \cup From(SubSeq(down, 1, k))
    /\ \/ answers' = answers
       \/ InRun /\ \E a \in Answer : answers' = Append(answers, a) /\ a.from = Held
       \/ ~InRun /\ \E a \in Answer : answers' = Append(answers, a) /\ a.from = {}

\* Every step of the client after the login does that, and no step takes it back to the login.
LEMMA ClientReads ==
    ASSUME ShapeInv, After, ClientStep
    PROVE  After' /\ \E k \in 0..Len(down) : Consumes(k)
<1>1. /\ TypeOK /\ Len(down) \in Nat /\ got \in 0..Len(down) /\ cpc \in RunReads \cup {"think", "closed"}
      /\ down \in Seq(Token) /\ answers \in Seq(Answer)
  BY Sessions DEF ShapeInv, TypeOK, ClientTypeOK, Reads, After
<1>2. ASSUME NEW k \in 0..Len(down), RunReturns(SubSeq(down, 1, k)),
             down' = down \/ \E d \in 0..Len(down) : down' = SubSeq(down, d + 1, Len(down))
      PROVE  After' /\ Consumes(k)
  <2>1. CASE cpc = "needle"
    BY <1>2, <2>1 DEF RunReturns, Consumes, Held, After, HelloReads
  <2>2. CASE cpc = "tail"
    BY <1>2, <2>2 DEF RunReturns, Consumes, Held, After, HelloReads
  <2>3. CASE cpc = "prompt"
    <3>1. /\ cpc' = "think" /\ answers' = Append(answers, [status |-> "ok", from |-> stdout, exit |-> exit])
      BY <1>2, <2>3 DEF RunReturns
    <3>2. [status |-> "ok", from |-> stdout, exit |-> exit] \in Answer
      BY <1>1 DEF TypeOK, ClientTypeOK, Answer
    <3>3. \E a \in Answer : answers' = Append(answers, a) /\ a.from = stdout
      BY <3>1, <3>2
    <3>4. InRun /\ Held = stdout /\ Held' = {} /\ After'
      BY <2>3, <3>1 DEF InRun, RunReads, Held, After, HelloReads
    <3>5. QED BY <1>2, <3>3, <3>4 DEF Consumes
  <2>4. QED BY <1>2, <2>1, <2>2, <2>3 DEF RunReturns
<1>3. CASE Receive
  <2>1. Consumes(0) /\ After'
    <3>1. down' = down /\ answers' = answers /\ cpc' = cpc /\ stdout' = stdout
      BY <1>3 DEF Receive, wire
    <3>2. From(SubSeq(down, 1, 0)) = {}
      BY <1>1, SubSeqEmpty DEF From
    <3>3. QED BY <3>1, <3>2 DEF Consumes, Held, After
  <2>2. QED BY <1>1, <2>1
<1>4. ASSUME NEW i \in Matches, Match(i)
      PROVE  After' /\ \E k \in 0..Len(down) : Consumes(k)
  <2>1. i \in 0..Len(down) /\ \E d \in 0..Len(down) : down' = SubSeq(down, d + 1, Len(down))
    <3>1. PICK cut \in Cuts(i) : down' = SubSeq(down, cut + 1, Len(down))
      BY <1>4 DEF Match
    <3>2. i \in 1..got
      BY <1>4 DEF Matches
    <3>3. cut \in 0..Len(down) /\ i \in 0..Len(down)
      BY <1>1, <3>2 DEF Cuts
    <3>4. QED BY <3>1, <3>3
  <2>2. RunReturns(SubSeq(down, 1, i))
    BY <1>1, <1>4 DEF Match, Returns, HelloReturns, RunReads
  <2>3. QED BY <1>2, <2>1, <2>2
<1>5. CASE TimeOut
  <2>1. RunReturns(SubSeq(down, 1, got)) /\ down' = down
    BY <1>1, <1>5 DEF TimeOut, Buf, Returns, HelloReturns, RunReads
  <2>2. QED BY <1>1, <1>2, <2>1
<1>6. CASE IssueFails
  <2>1. /\ down' = down /\ cpc = "think" /\ cpc' = "think"
        /\ answers' = Append(answers, [status |-> "error", from |-> {}, exit |-> 0])
    BY <1>6 DEF IssueFails, wire
  <2>2. [status |-> "error", from |-> {}, exit |-> 0] \in Answer
    BY ExitsAssumption DEF Answer
  <2>3. \E a \in Answer : answers' = Append(answers, a) /\ a.from = {}
    BY <2>1, <2>2
  <2>4. Consumes(0) /\ After'
    BY <2>1, <2>3 DEF Consumes, Held, After, HelloReads, InRun, RunReads
  <2>5. QED BY <1>1, <2>4
<1>7. CASE HangUp \/ \E kind \in Kinds : Issue(kind)
  <2>1. down' = down /\ answers' = answers /\ cpc' \in {"needle", "closed"}
    BY <1>7 DEF HangUp, Issue
  <2>2. Consumes(0) /\ After'
    BY <2>1 DEF Consumes, Held, After, HelloReads
  <2>3. QED BY <1>1, <2>2
<1>8. QED BY <1>3, <1>4, <1>5, <1>6, <1>7 DEF ClientStep

\* The first part of an ordered text begins with its oldest token.
LEMMA FirstOldest ==
    ASSUME down \in Seq(Token), NEW k \in 0..Len(down),
           \A i, j \in DOMAIN down : i < j => down[i].n <= down[j].n
    PROVE  /\ From(SubSeq(down, 1, k)) \subseteq {down[i].n : i \in DOMAIN down}
           /\ From(SubSeq(down, 1, k)) # {} =>
                \E m \in From(SubSeq(down, 1, k)) : \A i \in DOMAIN down : m <= down[i].n
<1>1. Len(down) \in Nat /\ DOMAIN down = 1..Len(down) /\ \A i \in 1..Len(down) : down[i].n \in Nat
  <2>1. \A i \in 1..Len(down) : down[i] \in Token
    BY ElementOfSeq
  <2>2. QED BY <2>1 DEF Token
<1>2. CASE k = 0
  <2>1. From(SubSeq(down, 1, k)) = {}
    BY <1>2, SubSeqEmpty DEF From
  <2>2. QED BY <2>1
<1>3. CASE k > 0
  <2>1. Len(SubSeq(down, 1, k)) = k /\ \A i \in 1..k : SubSeq(down, 1, k)[i] = down[i]
    BY <1>1, <1>3
  <2>2. From(SubSeq(down, 1, k)) = {down[i].n : i \in 1..k}
    BY <2>1 DEF From
  <2>3. 1 \in 1..k /\ \A i \in DOMAIN down : down[1].n <= down[i].n
    <3>1. 1 \in 1..k /\ 1 \in DOMAIN down
      BY <1>1, <1>3
    <3>2. \A i \in DOMAIN down : i = 1 \/ 1 < i
      BY <1>1
    <3>3. QED BY <1>1, <3>1, <3>2
  <2>4. From(SubSeq(down, 1, k)) \subseteq {down[i].n : i \in DOMAIN down}
    BY <1>1, <2>2
  <2>5. down[1].n \in From(SubSeq(down, 1, k))
    BY <2>2, <2>3
  <2>6. QED BY <2>3, <2>4, <2>5
<1>4. QED BY <1>1, <1>2, <1>3

\* A step of the client keeps the invariant.
LEMMA LateClient ==
    ASSUME LateInv, ClientStep
    PROVE  WaitInv' /\ TokenInv' /\ StallInv' /\ OldestInv' /\ StaleOnlyAfterStall'
<1>1. /\ StreamInv /\ ShapeInv /\ TokenInv /\ StallInv /\ OldestInv /\ StaleOnlyAfterStall /\ WaitInv
      /\ TypeOK /\ down \in Seq(Token) /\ Len(down) \in Nat /\ [Next]_vars
      /\ answers \in Seq(Answer) /\ Len(answers) \in Nat /\ DOMAIN answers = 1..Len(answers)
      /\ spc' = spc /\ current' = current /\ performed' = performed
  BY Sessions DEF LateInv, ShapeInv, Next, ClientStep, serverVars
<1>2. WaitInv' /\ Last' = Last /\ Gentle' = Gentle /\ \A S : Known(S)' <=> Known(S)
  BY <1>1 DEF WaitInv, Last, Gentle, Known
<1>3. CASE ~After
  <2>1. Held = {} /\ answers = <<>> /\ Issued = 0
    BY <1>1, <1>3, Counting DEF After, Held, HelloReads, StreamInv
  <2>2. performed = <<>> /\ Gentle
    <3>1. \A m : ~CarriedOut(m)
      BY <1>1, <2>1, LastGrows
    <3>2. performed = <<>>
      BY <1>1, <3>1, LastGrows
    <3>3. QED BY <3>2 DEF Gentle
  <2>3. CASE ~After'
    <3>1. Held' = {} /\ answers' = <<>>
      <4>1. StreamInv'
        BY <1>1, StreamStep
      <4>2. QED BY <2>3, <4>1 DEF After, Held, HelloReads, StreamInv
    <3>2. QED BY <1>2, <2>3, <3>1 DEF TokenInv, StallInv, OldestInv, OldestOf, StaleOnlyAfterStall
  <2>4. CASE After'
    <3>1. cpc = "stty2" /\ cpc' = "think" /\ UNCHANGED <<up, answers>> /\ (UNCHANGED down \/ \E i \in Matches : TRUE)
      BY <1>3, <2>4 DEF ClientStep, Receive, Match, TimeOut, Issue, IssueFails, HangUp, Returns, HelloReturns,
                        RunReturns, After, HelloReads
    <3>2. spc = "read" /\ Nobody
      BY <1>1, <2>2, <3>1 DEF ShapeInv, Gone, HelloReads, Shapes, LoginShape, RunShape, PlainShape, MuteShape, InRun, RunReads
    <3>3. Matches = {}
      BY <1>1, <3>1, <3>2 DEF Nobody, Matches, TypeOK, ClientTypeOK
    <3>4. up' = <<>> /\ down' = <<>> /\ spc' = "read" /\ Held' = {} /\ answers' = <<>>
      BY <1>1, <2>1, <3>1, <3>2, <3>3 DEF Nobody, Held
    <3>5. Texts' = {}
      BY <3>4 DEF Texts
    <3>6. TokenInv' /\ StallInv'
      BY <1>2, <2>2, <3>4, <3>5 DEF TokenInv, StallInv, Known
    <3>7. OldestInv' /\ StaleOnlyAfterStall'
      BY <3>4 DEF OldestInv, OldestOf, StaleOnlyAfterStall
    <3>8. QED BY <1>2, <3>6, <3>7
  <2>5. QED BY <2>3, <2>4
<1>4. CASE After
  <2>1. PICK k \in 0..Len(down) : Consumes(k)
    BY <1>1, <1>4, ClientReads
  <2>2. After'
    BY <1>1, <1>4, ClientReads
  <2>3. /\ spc # "login" /\ Known(Texts) /\ (\A i \in DOMAIN up : up[i].n > 0)
        /\ \A i, j \in DOMAIN down : i < j => down[i].n <= down[j].n
    BY <1>1, <1>4 DEF TokenInv
  <2> DEFINE part == From(SubSeq(down, 1, k))
  <2>4. /\ part \subseteq {down[i].n : i \in DOMAIN down}
        /\ part # {} => \E m \in part : \A i \in DOMAIN down : m <= down[i].n
    BY <1>1, <2>3, FirstOldest
  <2>5. DOMAIN down = 1..Len(down) /\ \A m \in Texts : m \in Nat
    <3>1. \A i \in 1..Len(down) : down[i] \in Token
      BY <1>1
    <3>2. \A m \in Held : m \in Nat
      BY <1>1 DEF Held, TypeOK, ClientTypeOK
    <3>3. DOMAIN down = 1..Len(down) /\ \A i \in 1..Len(down) : down[i].n \in Nat
      BY <1>1, <3>1 DEF Token
    <3>4. QED BY <3>2, <3>3 DEF Texts
  <2>6. \E d \in 0..Len(down) :
          Len(down') = Len(down) - d /\ DOMAIN down' = 1..Len(down') /\ \A i \in 1..Len(down') : down'[i] = down[i + d]
    <3>1. CASE down' = down
      <4>1. 0 \in 0..Len(down) /\ Len(down) - 0 = Len(down) /\ \A i \in 1..Len(down) : i + 0 = i
        BY <1>1
      <4>2. QED BY <2>5, <3>1, <4>1
    <3>2. ASSUME NEW d \in 0..Len(down), down' = SubSeq(down, d + 1, Len(down))
          PROVE  Len(down') = Len(down) - d /\ DOMAIN down' = 1..Len(down') /\ \A i \in 1..Len(down') : down'[i] = down[i + d]
      <4>1. /\ down' \in Seq(Token) /\ Len(down') = Len(down) - d
            /\ \A j \in 1..(Len(down) - d) : down'[j] = down[d + j]
        BY <1>1, <3>2, Pieces
      <4>2. \A j \in 1..(Len(down) - d) : d + j = j + d
        BY <1>1
      <4>3. QED BY <4>1, <4>2
    <3>3. QED BY <2>1, <3>1, <3>2 DEF Consumes
  <2>7. PICK d \in 0..Len(down) :
          Len(down') = Len(down) - d /\ DOMAIN down' = 1..Len(down') /\ \A i \in 1..Len(down') : down'[i] = down[i + d]
    BY <2>6
  <2>8. \A i \in DOMAIN down' : i + d \in DOMAIN down /\ down'[i] = down[i + d]
    <3>1. PICK e \in Nat : e = Len(down)
      BY <1>1
    <3>2. \A i \in 1..(e - d) : i + d \in 1..e
      BY <3>1
    <3>3. DOMAIN down' = 1..(e - d) /\ Len(down') = e - d /\ DOMAIN down = 1..e
      BY <2>5, <2>7, <3>1
    <3>4. \A i \in 1..(e - d) : down'[i] = down[i + d]
      BY <2>7, <3>3
    <3>5. QED BY <3>2, <3>3, <3>4
  <2>9. Held' \subseteq Texts /\ Texts' \subseteq Texts
    BY <2>1, <2>4, <2>8 DEF Consumes, Texts
  <2>10. TokenInv'
    <3>1. \A i \in DOMAIN up' : up'[i].n > 0
      <4>1. CASE up' = up
        BY <2>3, <4>1
      <4>2. CASE Issues
        <5>1. PICK l \in Line : up' = Append(up, l) /\ l.n > 0
          <6>1. PICK kind \in EngineKinds :
                  up' = Append(up, [n |-> Cur, kind |-> kind, marker |-> TRUE, open |-> FALSE])
            BY <4>2 DEF Issues
          <6>2. [n |-> Cur, kind |-> kind, marker |-> TRUE, open |-> FALSE] \in Line /\ Cur > 0
            BY <1>1, Counting DEF Line
          <6>3. QED BY <6>1, <6>2
        <5>2. /\ Len(up) \in Nat /\ DOMAIN up = 1..Len(up) /\ DOMAIN up' = 1..Len(up')
              /\ Len(up') = Len(up) + 1 /\ up'[Len(up) + 1] = l /\ \A i \in 1..Len(up) : up'[i] = up[i]
          BY <1>1, <5>1, Sequences, Added DEF TypeOK, WireTypeOK
        <5>3. \A i \in DOMAIN up' : i \in DOMAIN up \/ i = Len(up) + 1
          BY <5>2
        <5>4. QED BY <2>3, <5>1, <5>2, <5>3
      <4>3. QED BY <1>1, <1>4, <4>1, <4>2, ClientSteps DEF Goes, Greets, Errs, After
    <3>2. Known(Texts')
      BY <2>3, <2>9 DEF Known
    <3>3. \A i, j \in DOMAIN down' : i < j => down'[i].n <= down'[j].n
      <4> SUFFICES ASSUME NEW i \in DOMAIN down', NEW j \in DOMAIN down', i < j
                   PROVE  down'[i].n <= down'[j].n
        OBVIOUS
      <4>1. i + d \in DOMAIN down /\ j + d \in DOMAIN down /\ i + d < j + d
        BY <2>7, <2>8
      <4>2. QED BY <2>3, <2>8, <4>1
    <3>4. QED BY <1>1, <1>2, <2>3, <3>1, <3>2, <3>3 DEF TokenInv, Known
  <2>11. StallInv'
    <3>1. (~Gentle)' => \A m \in Texts : Muted(m) \/ \E s \in DOMAIN performed : Stalls(performed[s]) /\ performed[s].n <= m
      BY <1>1, <1>2, <1>4 DEF StallInv
    <3>2. (~Gentle)' => \A m \in Texts' : Muted(m) \/ \E s \in DOMAIN performed : Stalls(performed[s]) /\ performed[s].n <= m
      BY <2>9, <3>1
    <3>3. QED BY <1>1, <3>2 DEF StallInv, Muted
  <2>12. OldestOf(Held)'
    <3> SUFFICES ASSUME Held' # {}
                 PROVE  \E m \in Held' : (\A x \in Held' : m <= x) /\ \A x \in Texts' : m <= x
      BY DEF OldestOf
    <3>1. Held' = Held \cup part
      BY <2>1 DEF Consumes
    <3>2. CASE Held # {}
      <4>1. PICK m \in Held : \A x \in Texts : m <= x
        BY <1>1, <3>2 DEF OldestInv, OldestOf
      <4>2. QED BY <2>9, <3>1, <4>1
    <3>3. CASE Held = {}
      <4>1. PICK m \in part : \A i \in DOMAIN down : m <= down[i].n
        BY <2>4, <3>1, <3>3
      <4>2. \A x \in Texts : m <= x
        BY <3>3, <4>1 DEF Texts
      <4>3. QED BY <2>9, <3>1, <4>1, <4>2
    <3>4. QED BY <3>2, <3>3
  <2>13. ASSUME NEW S, OldestOf(S) PROVE (S # {} => \E m \in S : (\A x \in S : m <= x) /\ \A x \in Texts' : m <= x)
    BY <2>9, <2>13 DEF OldestOf
  <2>14. /\ \A h \in DOMAIN answers : OldestOf(answers[h].from) /\ Known(answers[h].from)
         /\ OldestOf(Held) /\ Known(Held) /\ Held \subseteq Texts
    BY <1>1, <2>3 DEF OldestInv, Known, Texts
  <2>15. CASE answers' = answers
    <3>1. OldestInv'
      BY <1>2, <2>12, <2>13, <2>14, <2>15 DEF OldestInv, OldestOf
    <3>2. StaleOnlyAfterStall'
      BY <1>1, <2>15 DEF StaleOnlyAfterStall
    <3>3. QED BY <1>2, <2>10, <2>11, <3>1, <3>2
  <2>16. ASSUME NEW a \in Answer, answers' = Append(answers, a),
                a.from = {} \/ (InRun /\ a.from = Held)
         PROVE  OldestInv' /\ StaleOnlyAfterStall'
    <3>1. /\ DOMAIN answers' = 1..Len(answers) + 1 /\ answers'[Len(answers) + 1] = a
          /\ \A h \in 1..Len(answers) : answers'[h] = answers[h]
          /\ \A h \in DOMAIN answers' : h \in 1..Len(answers) \/ h = Len(answers) + 1
      BY <1>1, <2>16
    <3>2. OldestInv'
      <4>1. OldestOf(a.from) /\ Known(a.from)
        BY <2>14, <2>16 DEF OldestOf, Known
      <4>2. \A h \in DOMAIN answers' : OldestOf(answers'[h].from) /\ Known(answers'[h].from)
        BY <1>1, <2>14, <3>1, <4>1
      <4>3. QED BY <1>2, <2>12, <2>13, <4>2 DEF OldestInv, OldestOf
    <3>3. StaleOnlyAfterStall'
      <4> SUFFICES ASSUME NEW i \in DOMAIN answers', NEW j \in answers'[i].from
                   PROVE  /\ j <= i
                          /\ j < i => \E c \in DOMAIN performed' :
                                        \/ performed'[c].n <= j /\ performed'[c].kind \in {"ask", "hang"}
                                        \/ performed'[c].n = j /\ performed'[c].kind = "mute"
                          /\ \A h \in 1..i : answers'[h].from # {} => \E m \in answers'[h].from : m <= j
        BY DEF StaleOnlyAfterStall
      <4>1. CASE i \in 1..Len(answers)
        <5>1. \A h \in 1..i : answers'[h] = answers[h]
          BY <1>1, <3>1, <4>1
        <5>2. QED BY <1>1, <3>1, <4>1, <5>1 DEF StaleOnlyAfterStall
      <4>2. CASE i = Len(answers) + 1
        <5>1. j \in Held /\ j \in Texts /\ InRun /\ j \in Nat
          BY <2>5, <2>14, <2>16, <3>1, <4>2
        <5>2. j <= i
          <6>1. Issued = i /\ i \in Nat
            BY <1>1, <4>2, <5>1, Counting
          <6>2. performed # <<>> /\ j <= Last
            BY <2>3, <5>1 DEF Known
          <6>3. Last \in Nat /\ Last <= Issued
            BY <1>1, <6>2, LastGrows
          <6>4. QED BY <5>1, <6>1, <6>2, <6>3
        <5>3. ASSUME j < i
              PROVE  \E c \in DOMAIN performed' :
                        \/ performed'[c].n <= j /\ performed'[c].kind \in {"ask", "hang"}
                        \/ performed'[c].n = j /\ performed'[c].kind = "mute"
          <6>1. ASSUME Gentle PROVE Muted(j)
            <7>1. Returned
              BY <1>1, <6>1, ClientKeepsShape
            <7>2. answers' # answers
              BY <1>1, <3>1
            <7>3. PICK b \in Answer : answers' = Append(answers, b) /\ (Refusal(b) \/ Prompted(b) \/ Unprompted(b))
              BY <7>1, <7>2 DEF Returned
            <7>4. answers'[Len(answers) + 1] = b /\ j \in b.from
              BY <1>1, <4>2, <7>3
            <7>5. j # Cur
              BY <1>1, <4>2, <5>3, Counting
            <7>6. Refusal(b) => b.from = {}
              BY DEF Refusal
            <7>7. Prompted(b) \/ Unprompted(b) =>
                     (\A m \in Left : Muted(m)) /\ \E own \in SUBSET {Cur} : b.from = Left \cup own
              BY DEF Prompted, Unprompted
            <7>8. QED BY <7>3, <7>4, <7>5, <7>6, <7>7
          <6>2. ASSUME ~Gentle PROVE Muted(j) \/ \E c \in DOMAIN performed : Stalls(performed[c]) /\ performed[c].n <= j
            BY <1>1, <1>4, <5>1, <6>2 DEF StallInv
          <6>3. QED BY <1>1, <6>1, <6>2 DEF Stalls, Muted
        <5>4. \A h \in 1..i : answers'[h].from # {} => \E m \in answers'[h].from : m <= j
          <6> SUFFICES ASSUME NEW h \in 1..i, answers'[h].from # {}
                       PROVE  \E m \in answers'[h].from : m <= j
            OBVIOUS
          <6>1. CASE h \in 1..Len(answers)
            BY <1>1, <2>14, <3>1, <5>1, <6>1 DEF OldestOf
          <6>2. CASE h = Len(answers) + 1
            BY <4>2, <5>1, <6>2
          <6>3. QED BY <1>1, <4>2, <6>1, <6>2
        <5>5. QED BY <5>2, <5>3, <5>4
      <4>3. QED BY <3>1, <4>1, <4>2
    <3>4. QED BY <3>2, <3>3
  <2>17. QED BY <1>2, <2>1, <2>10, <2>11, <2>15, <2>16 DEF Consumes
<1>5. QED BY <1>3, <1>4

\* Whatever the commands do to the dialogue, run() returns the output of an earlier command only
\* when that command or one before it slept or asked for a password, or when that command itself
\* ended without a prompt; never that of a later one, and none older than the oldest that an
\* earlier run() returned.
THEOREM StaleAnswers == Spec => []StaleOnlyAfterStall
<1>1. Init => LateInv
  <2> SUFFICES ASSUME Init PROVE LateInv
    OBVIOUS
  <2>1. spc \in {"login", "read"} /\ ~After /\ Held = {} /\ answers = <<>>
    BY DEF Init, ServerInit, ClientInit, After, HelloReads, Held
  <2>2. QED BY <2>1, ShapeInit DEF LateInv, WaitInv, TokenInv, StallInv, OldestInv, OldestOf, StaleOnlyAfterStall
<1>2. LateInv /\ [Next]_vars => LateInv'
  <2> SUFFICES ASSUME LateInv, [Next]_vars PROVE LateInv'
    OBVIOUS
  <2>1. ShapeInv'
    BY ShapeStep DEF LateInv
  <2>2. CASE ServerStep
    BY <2>1, <2>2, LateServer DEF LateInv
  <2>3. CASE ClientStep
    BY <2>1, <2>3, LateClient DEF LateInv
  <2>4. CASE UNCHANGED vars
    <3>1. UNCHANGED <<up, down>> /\ UNCHANGED serverVars /\ UNCHANGED clientVars
      BY <2>4 DEF vars, wire
    <3>2. /\ Last' = Last /\ Held' = Held /\ After' = After /\ Gentle' = Gentle /\ Texts' = Texts
          /\ \A S : (Known(S)' <=> Known(S)) /\ (OldestOf(S)' <=> OldestOf(S))
          /\ \A m : Muted(m)' <=> Muted(m)
      BY <3>1 DEF Muted, serverVars, clientVars, Last, Held, After, Gentle, Texts, Known, OldestOf
    <3>3. WaitInv' /\ TokenInv' /\ StallInv'
      BY <3>1, <3>2 DEF LateInv, WaitInv, TokenInv, StallInv, serverVars, Known
    <3>4. OldestInv' /\ StaleOnlyAfterStall'
      BY <3>1, <3>2 DEF LateInv, OldestInv, StaleOnlyAfterStall, serverVars, clientVars, Known, OldestOf
    <3>5. QED BY <2>1, <3>3, <3>4 DEF LateInv
  <2>5. QED BY <2>2, <2>3, <2>4 DEF Next, Done
<1>3. LateInv => StaleOnlyAfterStall
  BY DEF LateInv
<1>4. QED BY <1>1, <1>2, <1>3, PTL DEF Spec

--------------------------------------------------------------------------------
(* The session implements CommandService. *)

\* What CommandService is told of a command the engine has carried out.
Told(c) == [n |-> c.n, silent |-> c.kind = "mute"]

\* A sequence is the function of its elements.
LEMMA IsFunction ==
    ASSUME NEW S, NEW q \in Seq(S)
    PROVE  q = [i \in 1..Len(q) |-> q[i]]
OBVIOUS

\* A sequence with an element appended, place by place.
LEMMA Appended ==
    ASSUME NEW S, NEW s \in Seq(S), NEW e \in S
    PROVE  /\ DOMAIN Append(s, e) = 1..Len(s) + 1 /\ Append(s, e)[Len(s) + 1] = e
           /\ \A i \in 1..Len(s) : Append(s, e)[i] = s[i]
           /\ Append(s, e) = [i \in DOMAIN Append(s, e) |-> Append(s, e)[i]]
<1>1. /\ Append(s, e) \in Seq(S) /\ Len(Append(s, e)) = Len(s) + 1 /\ Append(s, e)[Len(s) + 1] = e
      /\ \A i \in 1..Len(s) : Append(s, e)[i] = s[i]
  BY AppendProperties
<1>2. DOMAIN Append(s, e) = 1..Len(s) + 1
  BY <1>1
<1>3. Append(s, e) = [i \in 1..Len(Append(s, e)) |-> Append(s, e)[i]]
  <2>1. PICK q \in Seq(S) : q = Append(s, e)
    BY <1>1
  <2>2. q = [i \in 1..Len(q) |-> q[i]]
    BY IsFunction
  <2>3. QED BY <2>1, <2>2, Zenon
<1>4. QED BY <1>1, <1>2, <1>3

\* How the mapped sequences grow with the ones they are made of.
LEMMA Mapped ==
    ASSUME TypeOK
    PROVE  /\ Len([i \in DOMAIN answers |-> answers[i].from]) = Len(answers)
           /\ \A a \in Answer : answers' = Append(answers, a) =>
                [i \in DOMAIN answers' |-> answers'[i].from] = Append([i \in DOMAIN answers |-> answers[i].from], a.from)
           /\ \A c \in [n : Nat, kind : EngineKinds \cup ShellKinds, exit : Exits] :
                performed' = Append(performed, c) =>
                  [i \in DOMAIN performed' |-> Told(performed'[i])] = Append([i \in DOMAIN performed |-> Told(performed[i])], Told(c))
<1> DEFINE T == [n : Nat, kind : EngineKinds \cup ShellKinds, exit : Exits]
           U == {Told(c) : c \in T}
           out == [i \in DOMAIN answers |-> answers[i].from]
           co == [i \in DOMAIN performed |-> Told(performed[i])]
<1>1. /\ answers \in Seq(Answer) /\ Len(answers) \in Nat /\ DOMAIN answers = 1..Len(answers)
      /\ performed \in Seq(T) /\ Len(performed) \in Nat /\ DOMAIN performed = 1..Len(performed)
  BY DEF TypeOK, ServerTypeOK, ClientTypeOK
<1>2. out \in Seq(SUBSET Nat) /\ Len(out) = Len(answers)
  <2>1. \A i \in 1..Len(answers) : answers[i] \in Answer
    BY <1>1
  <2>2. \A i \in 1..Len(answers) : answers[i].from \in SUBSET Nat
    BY <2>1 DEF Answer
  <2>3. QED BY <1>1, <2>2
<1>3. co \in Seq(U) /\ Len(co) = Len(performed)
  <2> HIDE DEF T
  <2>1. \A i \in 1..Len(performed) : performed[i] \in T
    BY <1>1, ElementOfSeq
  <2>2. \A i \in 1..Len(performed) : Told(performed[i]) \in U
    BY <2>1
  <2> HIDE DEF U
  <2>3. QED BY <1>1, <2>2
<1>4. ASSUME NEW a \in Answer, answers' = Append(answers, a)
      PROVE  [i \in DOMAIN answers' |-> answers'[i].from] = Append(out, a.from)
  <2>1. /\ DOMAIN answers' = 1..Len(answers) + 1 /\ answers'[Len(answers) + 1] = a
        /\ \A i \in 1..Len(answers) : answers'[i] = answers[i]
    BY <1>1, <1>4
  <2>2. a.from \in SUBSET Nat
    BY DEF Answer
  <2>3. /\ DOMAIN Append(out, a.from) = 1..Len(answers) + 1 /\ Append(out, a.from)[Len(answers) + 1] = a.from
        /\ \A i \in 1..Len(answers) : Append(out, a.from)[i] = answers[i].from
        /\ Append(out, a.from) = [i \in DOMAIN Append(out, a.from) |-> Append(out, a.from)[i]]
    <3>1. \A i \in 1..Len(answers) : out[i] = answers[i].from
      BY <1>1
    <3> HIDE DEF out
    <3>2. QED BY <1>1, <1>2, <2>2, <3>1
  <2>4. \A i \in 1..Len(answers) + 1 : answers'[i].from = Append(out, a.from)[i]
    <3>1. \A i \in 1..Len(answers) + 1 : i \in 1..Len(answers) \/ i = Len(answers) + 1
      BY <1>1
    <3> HIDE DEF out
    <3>2. QED BY <2>1, <2>3, <3>1
  <2> HIDE DEF out
  <2>5. QED BY <2>1, <2>3, <2>4
<1>5. ASSUME NEW c \in T, performed' = Append(performed, c)
      PROVE  [i \in DOMAIN performed' |-> Told(performed'[i])] = Append(co, Told(c))
  <2>1. /\ DOMAIN performed' = 1..Len(performed) + 1 /\ performed'[Len(performed) + 1] = c
        /\ \A i \in 1..Len(performed) : performed'[i] = performed[i]
    BY <1>1, <1>5
  <2>2. PICK told \in U : told = Told(c)
    OBVIOUS
  <2>3. /\ DOMAIN Append(co, told) = 1..Len(performed) + 1 /\ Append(co, told)[Len(performed) + 1] = told
        /\ \A i \in 1..Len(performed) : Append(co, told)[i] = Told(performed[i])
        /\ Append(co, told) = [i \in DOMAIN Append(co, told) |-> Append(co, told)[i]]
    <3>1. \A i \in 1..Len(performed) : co[i] = Told(performed[i])
      BY <1>1
    <3> HIDE DEF co, U, T
    <3>2. told \in U /\ co \in Seq(U) /\ Len(co) = Len(performed)
      BY <1>3, <2>2
    <3>3. QED BY <3>1, <3>2, Appended
  <2>4. \A i \in 1..Len(performed) + 1 : Told(performed'[i]) = Append(co, told)[i]
    <3>1. \A i \in 1..Len(performed) + 1 : i \in 1..Len(performed) \/ i = Len(performed) + 1
      BY <1>1
    <3> HIDE DEF co
    <3>2. QED BY <2>1, <2>2, <2>3, <3>1
  <2> HIDE DEF co
  <2>5. QED BY <2>1, <2>2, <2>3, <2>4
<1>6. QED BY <1>2, <1>4, <1>5

\* Once a command has stalled, nothing is promised.
LEMMA NothingMore ==
    ASSUME StreamInv, [Next]_vars, ~Gentle
    PROVE  Service!Next
<1>1. ~Gentle'
  BY GentleBefore
<1>2. Service!Afterwards
  BY <1>1 DEF Service!Afterwards, Gentle, Stalls
<1>3. QED BY <1>2 DEF Service!Next

\* Until then the service serves.
LEMMA Serving ==
    ASSUME Gentle, Gentle',
           Service!Issue \/ Service!CarryOut \/ Service!Return \/ Service!ReturnSilent \/ Service!Refuse
    PROVE  Service!Next
<1>1. Service!Serve
  BY DEF Service!Serve, Gentle, Stalls
<1>2. QED BY <1>1 DEF Service!Next

\* A step of the server carries out the pending command or stalls at it, or does nothing that matters.
LEMMA ServerServes ==
    ASSUME ShapeInv, Gentle, ServerStep
    PROVE  Service!Next \/ UNCHANGED Service!vars
<1> DEFINE co == [i \in DOMAIN performed |-> Told(performed[i])]
<1>1. /\ StreamInv /\ TypeOK /\ [Next]_vars /\ spc # "closed" /\ Shapes
      /\ UNCHANGED <<cpc, answers>>
  <2>1. StreamInv /\ TypeOK /\ [Next]_vars
    BY DEF ShapeInv, StreamInv, Next
  <2>2. spc # "closed"
    BY <2>1, ServerSteps
  <2>3. QED BY <2>1, <2>2 DEF ShapeInv, ServerStep, clientVars
<1>2. /\ Issued' = Issued /\ [i \in DOMAIN answers' |-> answers'[i].from] = [i \in DOMAIN answers |-> answers[i].from]
      /\ Gentle' => ((stdout \cup Unread) \ {Cur})' = (stdout \cup Unread) \ {Cur}
  <2>1. Gentle' => Left' = Left
    BY <1>1, ServerKeepsShape
  <2>2. QED BY <1>1, <2>1 DEF Issued, InRun, Cur, Left
<1>3. CASE UNCHANGED performed
  <2>1. Gentle'
    BY <1>3 DEF Gentle
  <2>2. QED BY <1>2, <1>3, <2>1 DEF Service!vars
<1>4. ASSUME NEW x \in Exits, NEW l \in Line, up # <<>>, l = Head(up), l.n # 0,
             performed' = Append(performed, [n |-> l.n, kind |-> l.kind, exit |-> x])
      PROVE  Service!Next
  <2>1. cpc = "needle" /\ l.n = Cur
    BY <1>1, <1>4 DEF Shapes, LoginShape, RunShape, PlainShape, MuteShape, OnTheWay, Sending, Behind, Answering, Nobody
  <2>2. Issued = l.n /\ Issued > Len(answers)
    BY <1>1, <2>1, Counting DEF InRun, RunReads
  <2>3. \A i \in DOMAIN performed : performed[i].n # Issued
    <3>1. l = up[1] /\ 1 \in 1..Len(up) /\ l.n \in Nat
      BY <1>1, <1>4, FirstLine DEF Line
    <3>2. \A i \in 1..Len(performed) : performed[i].n < l.n /\ performed[i].n \in Nat
      BY <1>1, <3>1, Sequences DEF StreamInv, Numbered
    <3>3. QED BY <1>1, <2>2, <3>1, <3>2, Sequences
  <2>4. \E silent \in BOOLEAN :
           [i \in DOMAIN performed' |-> Told(performed'[i])] = Append(co, [n |-> Issued, silent |-> silent])
    <3>1. [n |-> l.n, kind |-> l.kind, exit |-> x] \in [n : Nat, kind : EngineKinds \cup ShellKinds, exit : Exits]
      BY DEF Line
    <3>2. PICK c \in [n : Nat, kind : EngineKinds \cup ShellKinds, exit : Exits] :
            performed' = Append(performed, c) /\ c.n = l.n
      BY <1>4, <3>1
    <3>3. [i \in DOMAIN performed' |-> Told(performed'[i])] = Append(co, Told(c))
      BY <1>1, <3>2, Mapped
    <3>4. Told(c) = [n |-> Issued, silent |-> TRUE] \/ Told(c) = [n |-> Issued, silent |-> FALSE]
      BY <2>2, <3>2 DEF Told
    <3> HIDE DEF co
    <3>5. QED BY <3>3, <3>4
  <2>5. Len([i \in DOMAIN answers |-> answers[i].from]) = Len(answers)
    BY <1>1, Mapped
  <2>6. DOMAIN co = DOMAIN performed /\ \A i \in DOMAIN performed : co[i].n = performed[i].n
    BY DEF Told
  <2>7. \A i \in DOMAIN co : co[i].n # Issued
    BY <2>3, <2>6
  <2>8. Service!Pending
    BY <2>2, <2>5 DEF Service!Pending
  <2>9. Service!Due
    BY <2>7, <2>8 DEF Service!Due, Told
  <2>10. CASE Gentle'
    <3>1. Service!CarryOut
      BY <1>2, <2>4, <2>9, <2>10 DEF Service!CarryOut, Told
    <3>2. QED BY <2>10, <3>1, Serving
  <2>11. CASE ~Gentle'
    <3>1. Service!Stall
      BY <1>2, <2>9, <2>11 DEF Service!Stall, Gentle, Stalls
    <3>2. QED BY <3>1 DEF Service!Next
  <2>12. QED BY <2>10, <2>11
<1>5. QED BY <1>1, <1>3, <1>4, Given

\* Whether the current command has been carried out, and ended in a prompt, as CommandService sees it.
LEMMA AsCarriedOut ==
    ASSUME StreamInv, Issued = Cur
    PROVE  /\ CarriedOut(Cur) /\ ~Muted(Cur) => Service!CarriedOut(FALSE)
           /\ Muted(Cur) => Service!CarriedOut(TRUE) /\ ~Service!CarriedOut(FALSE)
           /\ ~CarriedOut(Cur) => ~Service!CarriedOut(FALSE)
<1>1. /\ Len(performed) \in Nat /\ DOMAIN performed = 1..Len(performed)
      /\ \A i \in 1..Len(performed) : performed[i].n \in Nat
      /\ \A i, j \in 1..Len(performed) : i < j => performed[i].n < performed[j].n
  BY Sequences DEF StreamInv, Accounts
<1>2. Service!CarriedOut(FALSE) <=> \E i \in DOMAIN performed : performed[i].n = Cur /\ performed[i].kind # "mute"
  BY DEF Service!CarriedOut
<1>3. Service!CarriedOut(TRUE) <=> \E i \in DOMAIN performed : performed[i].n = Cur /\ performed[i].kind = "mute"
  BY DEF Service!CarriedOut
<1>4. CarriedOut(Cur) /\ ~Muted(Cur) => Service!CarriedOut(FALSE)
  BY <1>2 DEF CarriedOut, Muted
<1>5. ASSUME Muted(Cur) PROVE Service!CarriedOut(TRUE) /\ ~Service!CarriedOut(FALSE)
  <2>1. PICK i \in 1..Len(performed) : performed[i].n = Cur /\ performed[i].kind = "mute"
    BY <1>1, <1>5 DEF Muted
  <2>2. \A j \in 1..Len(performed) : performed[j].n = Cur => j = i
    <3>1. \A j \in 1..Len(performed) : j < i \/ j = i \/ i < j
      BY <1>1
    <3>2. QED BY <1>1, <2>1, <3>1
  <2>3. QED BY <1>1, <1>2, <1>3, <2>1, <2>2
<1>6. ~CarriedOut(Cur) => ~Service!CarriedOut(FALSE)
  BY <1>2 DEF CarriedOut
<1>7. QED BY <1>4, <1>5, <1>6

\* A step of the client issues a command, fails to, or returns from one, or does nothing that matters.
LEMMA ClientServes ==
    ASSUME ShapeInv, Gentle, ClientStep
    PROVE  Service!Next \/ UNCHANGED Service!vars
<1> DEFINE co == [i \in DOMAIN performed |-> [n |-> performed[i].n, silent |-> performed[i].kind = "mute"]]
           out == [i \in DOMAIN answers |-> answers[i].from]
<1>1. /\ StreamInv /\ StreamInv' /\ TypeOK /\ Returned /\ UNCHANGED performed /\ Gentle'
      /\ answers \in Seq(Answer) /\ Len(answers) \in Nat /\ Len(answers') \in Nat
  <2>1. StreamInv /\ StreamInv' /\ TypeOK
    BY StreamClient DEF ShapeInv, StreamInv
  <2>2. Gentle'
    BY DEF ClientStep, serverVars, Gentle
  <2>3. Returned
    BY ClientKeepsShape
  <2>4. Len(answers') \in Nat
    BY <2>1 DEF StreamInv, TypeOK, ClientTypeOK
  <2>5. QED BY <2>1, <2>2, <2>3, <2>4 DEF ClientStep, serverVars, TypeOK, ClientTypeOK
<1>2. /\ Issued \in Nat /\ Len(out) = Len(answers) /\ Cur = Len(answers) + 1
      /\ Issued = IF InRun THEN Len(answers) + 1 ELSE Len(answers)
      /\ Issued' = IF InRun' THEN Len(answers') + 1 ELSE Len(answers')
  BY <1>1, Counting, Mapped DEF Issued, Cur
<1>3. co' = co
  BY <1>1
<1>4. CASE UNCHANGED answers
  <2>1. out' = out
    BY <1>4
  <2>0. Left' = Left
    <3>1. \A a \in Answer : answers # Append(answers, a)
      <4>1. \A a \in Answer : Len(Append(answers, a)) = Len(answers) + 1
        BY <1>1
      <4>2. QED BY <1>1, <4>1
    <3>2. QED BY <1>1, <1>4, <3>1 DEF Returned
  <2> HIDE DEF out, co
  <2>2. CASE Issues
    <3>1. cpc = "think" /\ cpc' = "needle"
      BY <2>2 DEF Issues
    <3>2. ~InRun /\ InRun'
      BY <3>1 DEF InRun, RunReads
    <3>3. Len(answers) < NCmds
      BY <3>1 DEF ClientStep, Receive, wire, Match, TimeOut, Returns, HelloReturns, RunReturns,
                  Issue, IssueFails, HangUp, Reads, RunReads, HelloReads
    <3>4. Issued = Len(answers) /\ Issued' = Issued + 1
      BY <1>2, <1>4, <3>2
    <3>5. Service!Issue
      BY <1>2, <1>3, <2>0, <2>1, <3>3, <3>4 DEF Service!Issue, Service!Pending, co, out, Left
    <3>6. QED BY <1>1, <3>5, Serving
  <2>3. CASE Goes \/ Greets
    <3>1. Issued' = Issued
      BY <1>4, <2>3 DEF Goes, Greets, Issued, InRun, Cur, HelloReads, RunReads
    <3>2. UNCHANGED <<Issued, co, out, Left, Gentle>>
      BY <1>1, <1>3, <2>0, <2>1, <3>1
    <3>3. QED BY <1>1, <3>2 DEF Service!vars, co, out, Left
  <2>4. ~Errs
    <3>1. ASSUME Errs PROVE FALSE
      <4>1. [status |-> "error", from |-> {}, exit |-> 0] \in Answer
        BY ExitsAssumption DEF Answer
      <4>2. PICK a \in Answer : answers' = Append(answers, a)
        BY <3>1, <4>1 DEF Errs
      <4>3. Len(answers') = Len(answers) + 1
        BY <1>1, <4>2
      <4>4. QED BY <1>1, <1>4, <4>3
    <3>2. QED BY <3>1
  <2>5. QED BY <1>1, <2>2, <2>3, <2>4, ClientSteps
<1>5. ASSUME NEW a \in Answer, answers' = Append(answers, a)
      PROVE  /\ Len(answers') = Len(answers) + 1 /\ answers' # answers /\ out' = Append(out, a.from)
             /\ Goes \/ Errs
  <2>1. Len(answers') = Len(answers) + 1 /\ answers' # answers
    BY <1>1, <1>5
  <2>2. out' = Append(out, a.from)
    BY <1>1, <1>5, Mapped
  <2>3. Goes \/ Errs
    BY <1>1, <2>1, ClientSteps DEF Greets, Issues
  <2>4. QED BY <2>1, <2>2, <2>3
<1> HIDE DEF out, co
<1>6. ASSUME NEW a \in Answer, answers' = Append(answers, a), InRun
      PROVE  Issued > Len(out) /\ Issued = Cur /\ Issued' = Issued
  <2>1. Goes
    BY <1>5, <1>6 DEF Errs, InRun, RunReads
  <2>2. QED BY <1>1, <1>2, <1>6, <2>1 DEF Goes
<1>7. ASSUME NEW a \in Answer, answers' = Append(answers, a), Prompted(a)
      PROVE  Service!Next
  <2>1. Issued > Len(out) /\ Issued = Cur /\ Issued' = Issued /\ out' = Append(out, a.from)
    BY <1>5, <1>6, <1>7 DEF Prompted
  <2>2. Service!CarriedOut(FALSE)
    BY <1>1, <1>7, <2>1, AsCarriedOut DEF Prompted
  <2>3. out' = Append(out, ((stdout \cup Unread) \ {Cur}) \cup {Issued}) /\ ((stdout \cup Unread) \ {Cur})' = {}
    BY <1>7, <2>1 DEF Prompted, Left
  <2>4. Service!Return
    BY <1>3, <2>1, <2>2, <2>3 DEF Service!Return, Service!Pending, co, out
  <2>5. QED BY <1>1, <2>4, Serving
<1>8. ASSUME NEW a \in Answer, answers' = Append(answers, a), Unprompted(a)
      PROVE  Service!Next
  <2>1. Issued > Len(out) /\ Issued = Cur /\ Issued' = Issued /\ out' = Append(out, a.from)
    BY <1>5, <1>6, <1>8 DEF Unprompted
  <2>2. ~Service!CarriedOut(FALSE) /\ (Muted(Cur) => Service!CarriedOut(TRUE))
    BY <1>1, <1>8, <2>1, AsCarriedOut DEF Unprompted
  <2>3. PICK own \in SUBSET {Issued} :
          /\ (own # {} => Service!CarriedOut(TRUE)) /\ a.from = Left \cup own
          /\ Left' \in {Left \cup own, (Left \cup own) \ Service!Oldest(Left \cup own)}
    BY <1>8, <2>1, <2>2 DEF Unprompted
  <2>4. Service!ReturnSilent
    BY <1>3, <2>1, <2>2, <2>3 DEF Service!ReturnSilent, Service!Pending, co, out, Left
  <2>5. QED BY <1>1, <2>4, Serving
<1>9. ASSUME NEW a \in Answer, answers' = Append(answers, a), Refusal(a)
      PROVE  Service!Next
  <2>1. cpc = "think" /\ a.from = {} /\ Left' = Left /\ Len(answers') = Len(answers) + 1
    BY <1>5, <1>9 DEF Refusal
  <2>2. IssueFails
    <3>1. answers' # answers
      BY <1>5, <1>9
    <3>2. QED BY <2>1, <3>1 DEF ClientStep, Receive, wire, Match, TimeOut, Returns, HelloReturns, RunReturns,
                                Issue, IssueFails, HangUp, Reads, RunReads, HelloReads
  <2>3. Len(answers) < NCmds /\ cpc' = "think"
    BY <2>1, <2>2 DEF IssueFails
  <2>4. ~InRun /\ ~InRun'
    BY <2>1, <2>3 DEF InRun, RunReads
  <2>5. Issued = Len(answers) /\ Issued' = Issued + 1
    BY <1>2, <2>1, <2>4
  <2>6. out' = Append(out, {})
    BY <1>5, <1>9, <2>1
  <2>7. ~(Issued > Len(out)) /\ Issued < NCmds
    BY <1>2, <2>3, <2>5
  <2>8. Service!Refuse
    BY <1>3, <2>1, <2>5, <2>6, <2>7 DEF Service!Refuse, Service!Pending, co, out, Left
  <2>9. QED BY <1>1, <2>8, Serving
<1>10. QED BY <1>1, <1>4, <1>7, <1>8, <1>9 DEF Returned

\* A workflow of any commands and of any length gets what CommandService promises, until one sleeps
\* past the client's deadlines or asks for a password: the commands are carried out one at a time,
\* in order and at most once; a run() whose command ends in a prompt returns its output, behind all
\* that is left of what muted commands printed; and nothing of that is lost but a line already shown.
THEOREM ServiceImplemented == Spec => ServiceSpec
<1>1. Init => ShapeInv /\ Service!Init
  <2> SUFFICES ASSUME Init PROVE ShapeInv /\ Service!Init
    OBVIOUS
  <2>1. up = <<>> /\ performed = <<>> /\ answers = <<>> /\ cpc \in {"first", "login"} /\ stdout = {}
    BY DEF Init, ServerInit, WireInit, ClientInit
  <2>2. ShapeInv
    BY ShapeInit
  <2>3. Issued = 0
    BY <2>1 DEF Issued, InRun, RunReads
  <2>4. Unread = {}
    <3>1. down = <<Prompt(0)>> \/ down = <<Say("login", 1)>>
      BY DEF Init, WireInit, Greeting
    <3>2. QED BY <3>1 DEF Unread, Prompt, Say
  <2>5. QED BY <2>1, <2>2, <2>3, <2>4 DEF Service!Init
<1>2. ShapeInv /\ [Next]_vars => ShapeInv'
  BY ShapeStep DEF ShapeInv
<1>3. ShapeInv /\ [Next]_vars => [Service!Next]_(Service!vars)
  <2> SUFFICES ASSUME ShapeInv, [Next]_vars, Gentle PROVE Service!Next \/ UNCHANGED Service!vars
    BY NothingMore DEF ShapeInv
  <2>1. CASE ServerStep
    BY <2>1, ServerServes DEF Service!Next
  <2>2. CASE ClientStep
    BY <2>2, ClientServes
  <2>3. CASE UNCHANGED vars
    BY <2>3 DEF vars, clientVars, serverVars, Service!vars, Issued, InRun, Cur, Unread, wire
  <2>4. QED BY <2>1, <2>2, <2>3 DEF Next, Done
<1>4. QED BY <1>1, <1>2, <1>3, PTL DEF Spec, ServiceSpec, Service!Spec
================================================================================
