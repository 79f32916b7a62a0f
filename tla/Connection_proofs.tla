---------------------------- MODULE Connection_proofs ----------------------------
(***************************************************************************)
(* Proofs of what the server guarantees whatever its clients do: the       *)
(* safety properties of Connection, for any number of connections,         *)
(* channels, users and profiles, and those of the shell a connection       *)
(* serves, for any client (ShellAnyClient), any number of login prompts    *)
(* and lines, and any exit codes.                                          *)
(*                                                                         *)
(* Each property of Connection is of one connection, and a step changes    *)
(* the state of one connection, so its inductive invariants are stated per *)
(* connection.                                                             *)
(***************************************************************************)
EXTENDS Connection, MCShellAnyClient, SequenceTheorems, TLAPS

\* The initial values have their types.
LEMMA TypeInit == Init => TypeOK
<1> SUFFICES ASSUME Init PROVE TypeOK
  OBVIOUS
<1> USE NamesAssumption, ChannelsAssumption, ProfilesAssumption
<1>1. NoName \in Users \cup {NoName} /\ NoName \in NeIds \cup {NoName}
  OBVIOUS
<1>2. Nothing \in [Channels -> {"none", "open"} \cup Requests] /\ 0 \in 0..MaxChannels
  BY DEF Nothing, Channels
<1>3. "sbc" \in Profiles
  BY DEF Profiles
<1>4. QED BY <1>1, <1>2, <1>3 DEF Init, TypeOK, NoService

\* The profile is always one that exists.
LEMMA PickedExists ==
    ASSUME NEW u, NEW n
    PROVE  PickProfile(u, n) \in Profiles
<1>1. "sbc" \in Profiles
  BY ProfilesAssumption DEF Profiles
<1>2. ProfileOfUser(u) \in Profiles
  BY <1>1 DEF ProfileOfUser, Named
<1>3. QED BY <1>2 DEF PickProfile, HasNode

\* The variables keep their types.
LEMMA TypeStep == TypeOK /\ [Next]_vars => TypeOK'
<1> SUFFICES ASSUME TypeOK, [Next]_vars PROVE TypeOK'
  OBVIOUS
<1> USE NamesAssumption, ChannelsAssumption DEF TypeOK
<1>1. CASE UNCHANGED vars
  BY <1>1 DEF vars, login, flags, serving
<1>2. ASSUME NEW c \in Conns, ClientStep(c) PROVE TypeOK'
  <2>1. client[c].user \in Users /\ client[c].ne \in NeIds \cup {NoName}
    OBVIOUS
  <2>2. CASE Negotiate(c) BY <2>2 DEF Negotiate, login, flags
  <2>3. CASE AuthNone(c) BY <2>1, <2>3 DEF AuthNone, flags, serving
  <2>4. CASE AuthPassword(c) BY <2>1, <2>4 DEF AuthPassword, flags, serving
  <2>5. CASE AuthInteractive(c) BY <2>1, <2>5 DEF AuthInteractive, flags, serving
  <2>6. CASE OpenChannel(c)
    BY <2>6 DEF OpenChannel, login, serving, Channels
  <2>7. ASSUME NEW k \in Channels, NEW r \in Requests, Request(c, k, r) PROVE TypeOK'
    BY <2>7 DEF Request, login, serving, Channels
  <2>8. CASE Signal(c) BY <2>8 DEF Signal, login, serving, Channels
  <2>9. QED BY <1>2, <2>2, <2>3, <2>4, <2>5, <2>6, <2>7, <2>8 DEF ClientStep
<1>3. ASSUME NEW c \in Conns, Disconnect(c) PROVE TypeOK'
  BY <1>3 DEF Disconnect, login, flags, serving
<1>4. ASSUME NEW c \in Conns, ThreadStep(c) PROVE TypeOK'
  <2> USE DEF login, flags, GoTo
  <2>1. CASE NegotiationFails(c) BY <2>1 DEF NegotiationFails
  <2>2. CASE Accept(c) BY <2>2 DEF Accept, Channels
  <2>3. CASE TenSeconds(c) BY <2>3 DEF TenSeconds
  <2>4. CASE Wait(c) BY <2>4, PickedExists DEF Wait
  <2>5. CASE CheckSftp(c) BY <2>5 DEF CheckSftp
  <2>6. CASE CheckChannel(c) BY <2>6 DEF CheckChannel
  <2>7. CASE CheckExec(c) BY <2>7 DEF CheckExec
  <2>8. CASE StartExec(c) BY <2>8 DEF StartExec
  <2>9. CASE HandleExec(c) BY <2>9 DEF HandleExec
  <2>10. CASE EndService(c) BY <2>10 DEF EndService
  <2>11. CASE LeaveIdle(c) BY <2>11 DEF LeaveIdle
  <2>12. CASE CloseTransport(c) BY <2>12 DEF CloseTransport
  <2>13. QED BY <1>4, <2>1, <2>2, <2>3, <2>4, <2>5, <2>6, <2>7, <2>8, <2>9, <2>10, <2>11, <2>12
           DEF ThreadStep
<1>5. QED BY <1>1, <1>2, <1>3, <1>4 DEF Next

\* The flags of SimServer and the state of its thread keep their types.
THEOREM ConnectionTypes == Spec => []TypeOK
<1>1. QED BY TypeInit, TypeStep, PTL DEF Spec

--------------------------------------------------------------------------------
(* OwnPersonality. *)

AskedSome(c) == \E k \in Channels : asked[c][k] # "none"

\* No channel is open before the login, and the login that let a client in named it.
LoginInv(c) ==
    /\ link[c] \in {"new", "auth"} => ne_id[c] = NoName /\ ~AskedSome(c)
    /\ link[c] = "up" \/ AskedSome(c) =>
         username[c] = client[c].user /\ ne_id[c] = client[c].ne

Before == {"start", "accept", "wait"}

\* A channel is only accepted after the login, so the profile chosen behind it is the
\* client's, and a service has a channel.
ThreadInv(c) ==
    /\ chan[c] # 0 => AskedSome(c)
    /\ tpc[c] \in {"start", "accept"} => chan[c] = 0
    /\ tpc[c] \notin Before /\ chan[c] # 0 =>
         profile[c] = PickProfile(client[c].user, client[c].ne)
    /\ tpc[c] \in {"exec?", "exec!"} => chan[c] # 0
    /\ served[c].kind # "none" => chan[c] # 0 /\ tpc[c] \notin Before

\* The login's names stay with the connection: AuthNone cannot open a channel.
LEMMA LoginStep ==
    ASSUME TypeOK, [Next]_vars, NEW d \in Conns, LoginInv(d)
    PROVE  LoginInv(d)'
<1> USE DEF TypeOK, LoginInv, AskedSome
<1>1. CASE UNCHANGED vars
  BY <1>1 DEF vars, login, flags, serving
<1>2. ASSUME NEW c \in Conns, ClientStep(c) PROVE LoginInv(d)'
  <2>1. CASE Negotiate(c) BY <2>1 DEF Negotiate, login, flags, serving
  <2>2. CASE AuthNone(c) BY <2>2 DEF AuthNone, login, flags, serving
  <2>3. CASE AuthPassword(c) BY <2>3 DEF AuthPassword, login, flags, serving
  <2>4. CASE AuthInteractive(c) BY <2>4 DEF AuthInteractive, login, flags, serving
  <2>5. CASE OpenChannel(c) BY <2>5 DEF OpenChannel, login, flags, serving
  <2>6. ASSUME NEW k \in Channels, NEW r \in Requests, Request(c, k, r) PROVE LoginInv(d)'
    BY <2>6 DEF Request, login, serving, Requests
  <2>7. CASE Signal(c) BY <2>7 DEF Signal, login, serving
  <2>8. QED BY <1>2, <2>1, <2>2, <2>3, <2>4, <2>5, <2>6, <2>7 DEF ClientStep
<1>3. ASSUME NEW c \in Conns, Disconnect(c) PROVE LoginInv(d)'
  BY <1>3 DEF Disconnect, login, flags, serving
<1>4. ASSUME NEW c \in Conns, ThreadStep(c) PROVE LoginInv(d)'
  <2> USE DEF login, flags, GoTo
  <2>1. CASE NegotiationFails(c) BY <2>1 DEF NegotiationFails
  <2>2. CASE Accept(c) BY <2>2 DEF Accept
  <2>3. CASE TenSeconds(c) BY <2>3 DEF TenSeconds
  <2>4. CASE Wait(c) BY <2>4 DEF Wait
  <2>5. CASE CheckSftp(c) BY <2>5 DEF CheckSftp
  <2>6. CASE CheckChannel(c) BY <2>6 DEF CheckChannel
  <2>7. CASE CheckExec(c) BY <2>7 DEF CheckExec
  <2>8. CASE StartExec(c) BY <2>8 DEF StartExec
  <2>9. CASE HandleExec(c) BY <2>9 DEF HandleExec
  <2>10. CASE EndService(c) BY <2>10 DEF EndService
  <2>11. CASE LeaveIdle(c) BY <2>11 DEF LeaveIdle
  <2>12. CASE CloseTransport(c) BY <2>12 DEF CloseTransport
  <2>13. QED BY <1>4, <2>1, <2>2, <2>3, <2>4, <2>5, <2>6, <2>7, <2>8, <2>9, <2>10, <2>11, <2>12
           DEF ThreadStep
<1>5. QED BY <1>1, <1>2, <1>3, <1>4 DEF Next

\* Wait picks the profile by the names LoginInv speaks of, and nothing changes it later.
LEMMA ThreadInvStep ==
    ASSUME TypeOK, [Next]_vars, NEW d \in Conns, LoginInv(d), ThreadInv(d)
    PROVE  ThreadInv(d)'
<1> USE DEF TypeOK, ThreadInv, AskedSome, Before, Channels
<1>1. CASE UNCHANGED vars
  BY <1>1 DEF vars, login, flags, serving
<1>2. ASSUME NEW c \in Conns, ClientStep(c) PROVE ThreadInv(d)'
  <2>1. CASE Negotiate(c) BY <2>1 DEF Negotiate, login, flags, serving
  <2>2. CASE AuthNone(c) BY <2>2 DEF AuthNone, login, flags, serving
  <2>3. CASE AuthPassword(c) BY <2>3 DEF AuthPassword, login, flags, serving
  <2>4. CASE AuthInteractive(c) BY <2>4 DEF AuthInteractive, login, flags, serving
  <2>5. CASE OpenChannel(c) BY <2>5 DEF OpenChannel, login, flags, serving
  <2>6. ASSUME NEW k \in Channels, NEW r \in Requests, Request(c, k, r) PROVE ThreadInv(d)'
    BY <2>6 DEF Request, login, serving, Requests
  <2>7. CASE Signal(c) BY <2>7 DEF Signal, login, serving
  <2>8. QED BY <1>2, <2>1, <2>2, <2>3, <2>4, <2>5, <2>6, <2>7 DEF ClientStep
<1>3. ASSUME NEW c \in Conns, Disconnect(c) PROVE ThreadInv(d)'
  BY <1>3 DEF Disconnect, login, flags, serving
<1>4. ASSUME NEW c \in Conns, ThreadStep(c) PROVE ThreadInv(d)'
  <2> USE DEF login, flags, GoTo
  <2>1. CASE NegotiationFails(c) BY <2>1 DEF NegotiationFails
  <2>2. CASE Accept(c) BY <2>2 DEF Accept
  <2>3. CASE TenSeconds(c) BY <2>3 DEF TenSeconds
  <2>4. CASE Wait(c) BY <2>4 DEF Wait, LoginInv
  <2>5. CASE CheckSftp(c) BY <2>5 DEF CheckSftp
  <2>6. CASE CheckChannel(c) BY <2>6 DEF CheckChannel
  <2>7. CASE CheckExec(c) BY <2>7 DEF CheckExec
  <2>8. CASE StartExec(c) BY <2>8 DEF StartExec
  <2>9. CASE HandleExec(c) BY <2>9 DEF HandleExec
  <2>10. CASE EndService(c) BY <2>10 DEF EndService
  <2>11. CASE LeaveIdle(c) BY <2>11 DEF LeaveIdle
  <2>12. CASE CloseTransport(c) BY <2>12 DEF CloseTransport
  <2>13. QED BY <1>4, <2>1, <2>2, <2>3, <2>4, <2>5, <2>6, <2>7, <2>8, <2>9, <2>10, <2>11, <2>12
           DEF ThreadStep
<1>5. QED BY <1>1, <1>2, <1>3, <1>4 DEF Next

PersonalityInv == TypeOK /\ \A c \in Conns : LoginInv(c) /\ ThreadInv(c)

\* The inductive invariant of OwnPersonality holds in every state.
LEMMA PersonalityInvariant == Spec => []PersonalityInv
<1>1. Init => PersonalityInv
  BY TypeInit
  DEF Init, PersonalityInv, LoginInv, ThreadInv, AskedSome, Nothing, NoService, Before
<1>2. PersonalityInv /\ [Next]_vars => PersonalityInv'
  <2> SUFFICES ASSUME PersonalityInv, [Next]_vars PROVE PersonalityInv'
    OBVIOUS
  <2>1. TypeOK'
    BY TypeStep DEF PersonalityInv
  <2>2. ASSUME NEW d \in Conns PROVE LoginInv(d)' /\ ThreadInv(d)'
    BY LoginStep, ThreadInvStep DEF PersonalityInv
  <2>3. QED BY <2>1, <2>2 DEF PersonalityInv
<1>3. QED BY <1>1, <1>2, PTL DEF Spec

\* Every session that serves commands has the personality of its client's node or user.
THEOREM Personalities == Spec => []OwnPersonality
<1>1. PersonalityInv => OwnPersonality
  BY DEF PersonalityInv, ThreadInv, OwnPersonality
<1>2. QED BY <1>1, PersonalityInvariant, PTL

--------------------------------------------------------------------------------
(* SftpUncut. *)

\* The flag says what was asked for, and the thread that saw it set never leaves the way
\* that ends in waiting for the client.
SftpInv(c) ==
    /\ \A k \in Channels : asked[c][k] = "sftp" => is_sftp[c]
    /\ tpc[c] \in Before => known[c] = Nothing /\ served[c].kind = "none"
    /\ \A k \in Channels : known[c][k] = "sftp" =>
         /\ is_sftp[c] /\ served[c].kind = "none"
         /\ tpc[c] \in {"sftp?", "idle", "close", "done"}
         /\ tpc[c] \in {"close", "done"} => link[c] = "down"

\* No flag is reset, and a connection that is down stays down.
LEMMA SftpStep ==
    ASSUME TypeOK, [Next]_vars, NEW d \in Conns, SftpInv(d)
    PROVE  SftpInv(d)'
<1> USE DEF TypeOK, SftpInv, Before, Nothing
<1>1. CASE UNCHANGED vars
  BY <1>1 DEF vars, login, flags, serving
<1>2. ASSUME NEW c \in Conns, ClientStep(c) PROVE SftpInv(d)'
  <2>1. CASE Negotiate(c) BY <2>1 DEF Negotiate, login, flags, serving
  <2>2. CASE AuthNone(c) BY <2>2 DEF AuthNone, login, flags, serving
  <2>3. CASE AuthPassword(c) BY <2>3 DEF AuthPassword, login, flags, serving
  <2>4. CASE AuthInteractive(c) BY <2>4 DEF AuthInteractive, login, flags, serving
  <2>5. CASE OpenChannel(c) BY <2>5 DEF OpenChannel, login, flags, serving
  <2>6. ASSUME NEW k \in Channels, NEW r \in Requests, Request(c, k, r) PROVE SftpInv(d)'
    BY <2>6 DEF Request, login, serving, Requests
  <2>7. CASE Signal(c) BY <2>7 DEF Signal, login, serving
  <2>8. QED BY <1>2, <2>1, <2>2, <2>3, <2>4, <2>5, <2>6, <2>7 DEF ClientStep
<1>3. ASSUME NEW c \in Conns, Disconnect(c) PROVE SftpInv(d)'
  BY <1>3 DEF Disconnect, login, flags, serving
<1>4. ASSUME NEW c \in Conns, ThreadStep(c) PROVE SftpInv(d)'
  <2> USE DEF login, flags, GoTo
  <2>1. CASE NegotiationFails(c) BY <2>1 DEF NegotiationFails
  <2>2. CASE Accept(c) BY <2>2 DEF Accept
  <2>3. CASE TenSeconds(c) BY <2>3 DEF TenSeconds
  <2>4. CASE Wait(c) BY <2>4 DEF Wait
  <2>5. CASE CheckSftp(c) BY <2>5 DEF CheckSftp
  <2>6. CASE CheckChannel(c) BY <2>6 DEF CheckChannel
  <2>7. CASE CheckExec(c) BY <2>7 DEF CheckExec
  <2>8. CASE StartExec(c) BY <2>8 DEF StartExec
  <2>9. CASE HandleExec(c) BY <2>9 DEF HandleExec
  <2>10. CASE EndService(c) BY <2>10 DEF EndService
  <2>11. CASE LeaveIdle(c) BY <2>11 DEF LeaveIdle
  <2>12. CASE CloseTransport(c) BY <2>12 DEF CloseTransport
  <2>13. QED BY <1>4, <2>1, <2>2, <2>3, <2>4, <2>5, <2>6, <2>7, <2>8, <2>9, <2>10, <2>11, <2>12
           DEF ThreadStep
<1>5. QED BY <1>1, <1>2, <1>3, <1>4 DEF Next

\* An SFTP session that was asked for in time is only broken off by its client.
THEOREM SftpSessions == Spec => []SftpUncut
<1> DEFINE Inv == TypeOK /\ \A c \in Conns : SftpInv(c)
<1>1. Init => Inv
  BY TypeInit DEF Init, SftpInv, Nothing, NoService, Before
<1>2. Inv /\ [Next]_vars => Inv'
  <2> SUFFICES ASSUME Inv, [Next]_vars PROVE Inv'
    OBVIOUS
  <2>1. TypeOK'
    BY TypeStep
  <2>2. ASSUME NEW d \in Conns PROVE SftpInv(d)'
    BY SftpStep
  <2>3. QED BY <2>1, <2>2
<1>3. Inv => SftpUncut
  BY DEF SftpInv, SftpUncut
<1>4. QED BY <1>1, <1>2, <1>3, PTL DEF Spec

--------------------------------------------------------------------------------
(* ServedAsAsked. *)

AskedFor(c, what) == \E k \in Channels : asked[c][k] \in what
OnlyFirst(c) == \A k \in Channels \ {1} : asked[c][k] = "none"

Asked(c) ==
    OnlyFirst(c) =>
        \/ asked[c][1] = "exec" /\ served[c] = [kind |-> "exec", chan |-> 1, cmd |-> 1]
        \/ asked[c][1] \in {"shell", "blank"} /\ served[c] = [kind |-> "shell", chan |-> 1, cmd |-> 0]

\* What the flags say of the requests made.
FlagInv(c) ==
    /\ callback[c] # 0 => asked[c][callback[c]] \in Requests
    /\ event[c] => AskedFor(c, Requests)
    /\ exec_cmd[c] # 0 => asked[c][exec_cmd[c]] = "exec"
    /\ 1 \in Channels /\ asked[c][1] = "exec" /\ OnlyFirst(c) => exec_cmd[c] = 1
    /\ AskedFor(c, {"sftp"}) => is_sftp[c]

\* A wait that was not overdue ended with a request; behind the test of is_sftp it was one
\* for a shell or a command, and behind that of exec_cmd one for a command.
AskInv(c) ==
    /\ chan[c] \in {0, 1} /\ (tpc[c] \in {"exec?", "exec!"} => chan[c] # 0)
    /\ tpc[c] = "sftp?" /\ ~overdue[c] => event[c]
    /\ tpc[c] \in {"chan?", "exec?", "exec!"} /\ ~overdue[c] =>
         AskedFor(c, {"shell", "exec", "blank"})
    /\ tpc[c] = "exec!" => AskedFor(c, {"exec"})
    /\ tpc[c] \in Before => served[c].kind = "none"
    /\ served[c].kind # "none" /\ ~overdue[c] => Asked(c)

\* Each request sets its flag in the step that records it, and is made once.
LEMMA FlagStep ==
    ASSUME TypeOK, [Next]_vars, NEW d \in Conns, FlagInv(d)
    PROVE  FlagInv(d)'
<1> USE DEF TypeOK, FlagInv, AskedFor, OnlyFirst, Channels, Requests
<1>1. CASE UNCHANGED vars
  BY <1>1 DEF vars, login, flags, serving
<1>2. ASSUME NEW c \in Conns, ClientStep(c) PROVE FlagInv(d)'
  <2>1. CASE Negotiate(c) BY <2>1 DEF Negotiate, login, flags, serving
  <2>2. CASE AuthNone(c) BY <2>2 DEF AuthNone, login, flags, serving
  <2>3. CASE AuthPassword(c) BY <2>3 DEF AuthPassword, login, flags, serving
  <2>4. CASE AuthInteractive(c) BY <2>4 DEF AuthInteractive, login, flags, serving
  <2>5. CASE OpenChannel(c) BY <2>5 DEF OpenChannel, login, flags, serving
  <2>6. ASSUME NEW k \in Channels, NEW r \in Requests, Request(c, k, r) PROVE FlagInv(d)'
    <3>1. CASE c # d BY <2>6, <3>1 DEF Request, login, serving
    <3>2. CASE c = d
      <4>1. asked[d][k] = "open" /\ callback[d] = 0 /\ event' = event /\ k \in 1..MaxChannels
        BY <2>6, <3>2 DEF Request
      <4>2. asked'[d] = [asked[d] EXCEPT ![k] = r] /\ callback'[d] = k
        BY <2>6, <3>2 DEF Request
      <4>3. /\ r = "sftp" => is_sftp'[d] = TRUE
            /\ r # "sftp" => is_sftp' = is_sftp
            /\ exec_cmd'[d] = IF r = "exec" THEN k ELSE IF r = "blank" THEN 0 ELSE exec_cmd[d]
        BY <2>6, <3>2 DEF Request
      <4> HIDE DEF TypeOK, FlagInv, Requests
      <4>d. DOMAIN asked[d] = Channels
        BY DEF TypeOK
      <4>4. \A j \in Channels : j # k => asked'[d][j] = asked[d][j]
        BY <4>2
      <4>5. asked'[d][k] = r
        BY <4>2, <4>d
      <4> USE DEF TypeOK, FlagInv, Requests
      <4>6. (callback[d] # 0 => asked[d][callback[d]] \in Requests)'
        BY <4>2, <4>5
      <4>7. (event[d] => AskedFor(d, Requests))'
        <5>1. asked'[d][k] \in Requests /\ k \in Channels
          BY <4>5
        <5>2. QED BY <5>1
      <4>8. (exec_cmd[d] # 0 => asked[d][exec_cmd[d]] = "exec")'
        <5>1. CASE r = "exec" BY <4>3, <4>5, <5>1
        <5>2. CASE r # "exec"
          <6>1. exec_cmd'[d] # 0 => exec_cmd'[d] = exec_cmd[d]
            BY <4>3, <5>2
          <6>2. exec_cmd[d] # 0 => /\ exec_cmd[d] \in Channels /\ exec_cmd[d] # k
                                   /\ asked[d][exec_cmd[d]] = "exec"
            BY <4>1
          <6>3. QED BY <4>4, <6>1, <6>2
        <5>3. QED BY <5>1, <5>2
      <4>9. (1 \in Channels /\ asked[d][1] = "exec" /\ OnlyFirst(d) => exec_cmd[d] = 1)'
        BY <4>1, <4>3, <4>4, <4>5
      <4>10. (AskedFor(d, {"sftp"}) => is_sftp[d])'
        BY <4>1, <4>3, <4>4, <4>5
      <4>11. QED BY <4>6, <4>7, <4>8, <4>9, <4>10
    <3>3. QED BY <3>1, <3>2
  <2>7. CASE Signal(c) BY <2>7 DEF Signal, login, serving
  <2> HIDE DEF TypeOK, FlagInv, AskedFor, OnlyFirst
  <2>8. QED BY <1>2, <2>1, <2>2, <2>3, <2>4, <2>5, <2>6, <2>7 DEF ClientStep
<1>3. ASSUME NEW c \in Conns, Disconnect(c) PROVE FlagInv(d)'
  BY <1>3 DEF Disconnect, login, flags, serving
<1>4. ASSUME NEW c \in Conns, ThreadStep(c) PROVE FlagInv(d)'
  <2> USE DEF login, flags, GoTo
  <2>1. CASE NegotiationFails(c) BY <2>1 DEF NegotiationFails
  <2>2. CASE Accept(c) BY <2>2 DEF Accept
  <2>3. CASE TenSeconds(c) BY <2>3 DEF TenSeconds
  <2>4. CASE Wait(c) BY <2>4 DEF Wait
  <2>5. CASE CheckSftp(c) BY <2>5 DEF CheckSftp
  <2>6. CASE CheckChannel(c) BY <2>6 DEF CheckChannel
  <2>7. CASE CheckExec(c) BY <2>7 DEF CheckExec
  <2>8. CASE StartExec(c) BY <2>8 DEF StartExec
  <2>9. CASE HandleExec(c) BY <2>9 DEF HandleExec
  <2>10. CASE EndService(c) BY <2>10 DEF EndService
  <2>11. CASE LeaveIdle(c) BY <2>11 DEF LeaveIdle
  <2>12. CASE CloseTransport(c) BY <2>12 DEF CloseTransport
  <2>13. QED BY <1>4, <2>1, <2>2, <2>3, <2>4, <2>5, <2>6, <2>7, <2>8, <2>9, <2>10, <2>11, <2>12
           DEF ThreadStep
<1>5. QED BY <1>1, <1>2, <1>3, <1>4 DEF Next

\* The thread only tests flags that are set for good, but for exec_cmd, which a request on
\* another channel may overwrite.
LEMMA AskStep ==
    ASSUME TypeOK, [Next]_vars, NEW d \in Conns, FlagInv(d), AskInv(d)
    PROVE  AskInv(d)'
<1> USE DEF TypeOK, AskInv, AskedFor, OnlyFirst, Asked, Before, Channels, Requests
<1>1. CASE UNCHANGED vars
  BY <1>1 DEF vars, login, flags, serving
<1>2. ASSUME NEW c \in Conns, ClientStep(c) PROVE AskInv(d)'
  <2>1. CASE Negotiate(c) BY <2>1 DEF Negotiate, login, flags, serving
  <2>2. CASE AuthNone(c) BY <2>2 DEF AuthNone, login, flags, serving
  <2>3. CASE AuthPassword(c) BY <2>3 DEF AuthPassword, login, flags, serving
  <2>4. CASE AuthInteractive(c) BY <2>4 DEF AuthInteractive, login, flags, serving
  <2>5. CASE OpenChannel(c) BY <2>5 DEF OpenChannel, login, flags, serving
  <2>6. ASSUME NEW k \in Channels, NEW r \in Requests, Request(c, k, r) PROVE AskInv(d)'
    <3>1. \A j \in Channels : asked[d][j] \in Requests => asked'[d][j] = asked[d][j]
      BY <2>6 DEF Request
    <3>2. OnlyFirst(d)' => OnlyFirst(d)
      BY <2>6 DEF Request
    <3>3. \A what \in SUBSET Requests : AskedFor(d, what) => AskedFor(d, what)'
      BY <3>1
    <3>4. Asked(d) => Asked(d)'
      BY <2>6, <3>1, <3>2 DEF Request, serving
    <3>5. QED BY <2>6, <3>3, <3>4 DEF Request, login, serving
  <2>7. CASE Signal(c)
    <3>1. UNCHANGED <<asked, exec_cmd, serving>> /\ (event[d] => event'[d])
      BY <2>7 DEF Signal
    <3>2. QED BY <3>1 DEF serving
  <2> HIDE DEF TypeOK, AskInv, AskedFor, OnlyFirst, Asked, Before
  <2>8. QED BY <1>2, <2>1, <2>2, <2>3, <2>4, <2>5, <2>6, <2>7 DEF ClientStep
<1>3. ASSUME NEW c \in Conns, Disconnect(c) PROVE AskInv(d)'
  BY <1>3 DEF Disconnect, login, flags, serving
<1>4. ASSUME NEW c \in Conns, ThreadStep(c) PROVE AskInv(d)'
  <2> USE DEF login, flags, GoTo
  <2>1. CASE NegotiationFails(c) BY <2>1 DEF NegotiationFails
  <2>2. CASE Accept(c) BY <2>2 DEF Accept
  <2>3. CASE TenSeconds(c) BY <2>3 DEF TenSeconds
  <2>4. CASE Wait(c) BY <2>4 DEF Wait, FlagInv
  <2>5. CASE CheckSftp(c) BY <2>5 DEF CheckSftp, FlagInv
  <2>6. CASE CheckChannel(c) BY <2>6 DEF CheckChannel
  <2>7. CASE CheckExec(c) BY <2>7 DEF CheckExec, FlagInv
  <2>8. CASE StartExec(c) BY <2>8 DEF StartExec, FlagInv
  <2>9. CASE HandleExec(c) BY <2>9 DEF HandleExec
  <2>10. CASE EndService(c) BY <2>10 DEF EndService
  <2>11. CASE LeaveIdle(c) BY <2>11 DEF LeaveIdle
  <2>12. CASE CloseTransport(c) BY <2>12 DEF CloseTransport
  <2>13. QED BY <1>4, <2>1, <2>2, <2>3, <2>4, <2>5, <2>6, <2>7, <2>8, <2>9, <2>10, <2>11, <2>12
           DEF ThreadStep
<1>5. QED BY <1>1, <1>2, <1>3, <1>4 DEF Next

\* A client with one channel gets the service it asked for, if it asked in time.
THEOREM Services == Spec => []ServedAsAsked
<1> DEFINE Inv == TypeOK /\ \A c \in Conns : FlagInv(c) /\ AskInv(c)
<1>1. Init => Inv
  BY TypeInit, ChannelsAssumption
  DEF Init, FlagInv, AskInv, Nothing, NoService, Before, AskedFor, OnlyFirst, Channels, Requests
<1>2. Inv /\ [Next]_vars => Inv'
  <2> SUFFICES ASSUME Inv, [Next]_vars PROVE Inv'
    OBVIOUS
  <2>1. TypeOK'
    BY TypeStep
  <2>2. ASSUME NEW d \in Conns PROVE FlagInv(d)' /\ AskInv(d)'
    BY FlagStep, AskStep
  <2>3. QED BY <2>1, <2>2
<1>3. Inv => ServedAsAsked
  BY DEF AskInv, Asked, OnlyFirst, ServedAsAsked
<1>4. QED BY <1>1, <1>2, <1>3, PTL DEF Spec
--------------------------------------------------------------------------------
\* The shell a connection serves, with a client of which nothing is assumed: ShellAnyClient.
\*
\* A step of the server is abstracted to what the three invariants tell apart: the number m of
\* the line in hand, what is said about it and where the server goes on (Serves).  Every
\* handler takes such a step, for the automation client and for a user at a terminal.
\* The client is a user at a terminal, whom the server prompts for the rest of a command.
AtTerminal == atTerminal \/ Interactive

Performance == [n : Nat, kind : EngineKinds \cup ShellKinds, exit : Exits]
Last(s) == s[Len(s)]

\* The lines the server has read: those sent and no longer on their way.
Taken == typed - Len(up)

\* What one step may send about line m before it goes on to `next`: the marker, its code and
\* the prompt in this order, and a prompt only at the end.
FrameOf(text, m, next) ==
    /\ text \in Seq(Token)
    /\ \A i \in 1..Len(text) : text[i].n = m /\ text[i].t # "login"
    /\ \A i \in 1..(Len(text) - 1) :
        /\ text[i].t # "prompt"
        /\ text[i].t = "done" <=> text[i + 1].t = "code"
        /\ text[i].t = "code" => text[i + 1].t = "prompt"
    /\ text # <<>> => text[1].t # "code" /\ Last(text).t \notin {"done", "code"}
    /\ text # <<>> /\ Last(text).t = "prompt" => next = "read"

\* What the server says of itself by going on to `next`: it prompts, asks, or stays silent.
Announces(text, next) ==
    /\ next = "hang" => text = <<>>
    /\ next = "ask" => text # <<>> /\ Last(text).t = "ask"
    /\ next = "cont" /\ AtTerminal => text # <<>> /\ Last(text).t = "more"
    /\ next = "read" => \/ text # <<>> /\ Last(text).t = "prompt"
                        \/ performed' # <<>> /\ Last(performed').kind = "mute"

\* The line in hand is number m: the one read, or the one the server was busy with, in which
\* case it may have read another.
Takes(m) ==
    \/ spc = "read" /\ up # <<>> /\ m = Head(up).n /\ up' = Tail(up)
    \/ spc \in {"cont", "ask"} /\ m = current.n /\ up # <<>> /\ up' = Tail(up)
    \/ spc \in {"cont", "ask", "hang"} /\ m = current.n /\ up' = up

\* The line in hand goes to the engine, the line read is consumed as a reply, or neither.
UsesLine(m) ==
    \/ UNCHANGED <<performed, swallowed>>
    \/ /\ spc \in {"read", "cont"} /\ UNCHANGED swallowed
       /\ \E p \in Performance : p.n = m /\ performed' = Append(performed, p)
    \/ /\ spc = "ask" /\ up # <<>> /\ up' = Tail(up) /\ UNCHANGED performed
       /\ swallowed' = Append(swallowed, Head(up).n)

\* Every step of the server with a line in hand.
Serves(m, text, next) ==
    /\ Takes(m) /\ UsesLine(m)
    /\ Send(text, next) /\ FrameOf(text, m, next) /\ Announces(text, next)
    /\ next \in {"read", "cont", "ask", "hang", "closed"}
    /\ current' \in Line /\ UNCHANGED <<hungUp, typed, greeted>>
    /\ next \in {"cont", "ask", "hang"} => current'.n = m
    /\ next \in {"ask", "hang"} => performed' # <<>>
    /\ next = "cont" => spc \in {"read", "cont"} /\ UNCHANGED <<performed, swallowed>>

\* A login prompt is answered; the next one, or the first prompt, is sent.
Greets(tok, next) ==
    /\ spc = "login" /\ up # <<>> /\ up' = Tail(up)
    /\ Send(<<tok>>, next) /\ tok \in Token
    /\ \/ next = "login" /\ tok.t = "login"
       \/ next = "read" /\ tok.t = "prompt" /\ tok.n = 0
    /\ greeted' \in Nat /\ UNCHANGED <<hungUp, typed, current, performed, swallowed>>

GivesUp ==
    /\ spc \in {"login", "read"} /\ spc' = "closed"
    /\ UNCHANGED <<wire, typed, greeted, current, performed, swallowed>>

--------------------------------------------------------------------------------
AnyTypes ==
    /\ WireTypeOK /\ typed \in Nat /\ greeted \in Nat /\ current \in Line
    /\ spc \in {"login", "read", "cont", "ask", "hang", "closed"}
    /\ performed \in Seq(Performance) /\ swallowed \in Seq(Nat)
    /\ spc \in {"ask", "hang"} => performed # <<>>

\* Lines are read in the order and under the numbers they were sent.
InOrder == Len(up) <= typed /\ \A j \in 1..Len(up) : up[j].n = Taken + j

\* Every line used was read, and a line the server is joining has not been used yet.
UsedOnce ==
    /\ \A j \in 1..Len(performed) : performed[j].n <= Taken
    /\ \A j \in 1..Len(swallowed) : swallowed[j] <= Taken
    /\ spc \in {"cont", "ask", "hang"} => current.n <= Taken
    /\ spc = "cont" => /\ \A j \in 1..Len(performed) : performed[j].n < current.n
                       /\ \A j \in 1..Len(swallowed) : swallowed[j] < current.n
    /\ OneUsePerLine

\* Something may be said about line m after what has been said so far.
Fits(m) ==
    Last(down).t # "login" =>
        /\ Last(down).n <= m
        /\ Last(down).t = "prompt" => Last(down).n < m

\* The transcript s never leaves a frame for another one.
FramesOf(s) ==
    \A i \in 1..(Len(s) - 1) : s[i].t # "login" =>
        /\ s[i].n <= s[i + 1].n
        /\ s[i].t = "done" <=> s[i + 1].t = "code"
        /\ s[i].t = "code" => s[i + 1].t = "prompt" /\ s[i].n = s[i + 1].n
        /\ s[i].t = "prompt" => s[i].n < s[i + 1].n

\* What has been said consists of whole frames, in the order of the lines.
Framed ==
    /\ down # <<>>
    /\ FramesOf(down) /\ Last(down).t \notin {"done", "code"}
    /\ spc = "login" => \A i \in 1..Len(down) : down[i].t = "login"
    /\ Last(down).t # "login" => Last(down).n <= Taken
    /\ spc \in {"cont", "ask", "hang"} => Fits(current.n)

\* The last thing said tells what the server waits for.
Announced ==
    ~hungUp =>
        /\ spc = "login" => Last(down).t = "login"
        /\ spc = "ask" => Last(down).t = "ask"
        /\ spc = "cont" /\ AtTerminal => Last(down).t = "more"
        /\ spc = "read" => \/ Last(down).t = "prompt"
                           \/ performed # <<>> /\ Last(performed).kind = "mute"

AnyInv == AnyTypes /\ InOrder /\ UsedOnce /\ Framed /\ Announced

--------------------------------------------------------------------------------
\* The handlers without the guards that tell the two kinds of clients apart.
Quits(l) ==
    /\ Send(<<Say("out", l.n)>>, "closed")
    /\ UNCHANGED <<greeted, current, performed, swallowed>>

Runs(l) ==
    /\ \E x \in Exits, out \in Outputs(l.n) :
        /\ performed' = Append(performed, [n |-> l.n, kind |-> l.kind, exit |-> x])
        /\ \/ l.kind = "ask"  /\ Send(out \o <<Say("ask", l.n)>>, "ask")
           \/ l.kind = "mute" /\ Send(out, "read")
           \/ l.kind = "hang" /\ spc' = "hang" /\ UNCHANGED down
           \/ /\ l.kind \in {"plain", "exit"}
              /\ Send(out \o Marker(l, x) \o <<Prompt(l.n)>>, "read")
    /\ current' = IF l.kind \in {"ask", "hang"} THEN l ELSE current
    /\ UNCHANGED <<greeted, swallowed>>

Replies(l) == Answered(l) \/ Quits(l) \/ Runs(l)

Waits(l) ==
    /\ current' = l /\ UNCHANGED <<greeted, performed, swallowed>>
    /\ Send(IF AtTerminal THEN <<Say("more", l.n)>> ELSE <<>>, "cont")

ReadsLine ==
    /\ spc \in {"read", "cont"} /\ up # <<>>
    /\ up' = Tail(up) /\ UNCHANGED hungUp
    /\ LET l == IF spc = "cont" THEN Joined(current, Head(up)) ELSE Head(up)
       IN  Waits(l) \/ Replies(l)

Expires ==
    /\ up = <<>> /\ UNCHANGED <<up, hungUp>>
    /\ \/ /\ spc \in {"login", "read"}
          /\ spc' = "closed" /\ UNCHANGED <<down, greeted, current, performed, swallowed>>
       \/ spc = "cont" /\ Replies(current)

Handles ==
    /\ ReadsLine \/ LoginReply \/ AskReply \/ WakeUp \/ Expires \/ AskNoReply
    /\ UNCHANGED typed

\* A step of the server, whichever kind of client it has, is one of these.
LEMMA AutomationHandles ==
    ASSUME ~atTerminal, ServerStep PROVE Handles
<1>1. CASE ReadCommand
  <2> DEFINE l == IF spc = "cont" THEN Joined(current, Head(up)) ELSE Head(up)
  <2>1. spc \in {"read", "cont"} /\ up # <<>> /\ up' = Tail(up) /\ UNCHANGED hungUp
    BY <1>1 DEF ReadCommand
  <2>2. Joins(l) \/ Dispatch(l)
    BY <1>1 DEF ReadCommand
  <2> HIDE DEF l
  <2>3. Joins(l) => Waits(l)
    BY DEF Joins, Waits, AtTerminal
  <2>4. Dispatch(l) => Replies(l)
    BY DEF Dispatch, Replies, Leaves, Quits, Performs, Runs
  <2>5. Waits(l) \/ Replies(l)
    BY <2>2, <2>3, <2>4
  <2>6. ReadsLine
    BY <2>1, <2>5 DEF ReadsLine, l
  <2>7. QED BY <2>6 DEF ServerStep, Handles
<1>2. CASE ReadNothing
  <2>1. Dispatch(current) => Replies(current)
    BY DEF Dispatch, Replies, Leaves, Quits, Performs, Runs
  <2>2. QED BY <1>2, <2>1 DEF ReadNothing, Expires, ServerStep, Handles
<1>3. QED BY <1>1, <1>2 DEF ServerStep, Handles

\* What the server of a user at a terminal does with a line.
LEMMA TerminalDispatches ==
    ASSUME NEW l, Human!Dispatch(l) PROVE Replies(l)
<1> USE DEF Send, Marker, Say, Code, Prompt, Outputs
<1>1. CASE Human!Answered(l)
  BY <1>1 DEF Human!Answered, Human!Send, Human!Marker, Human!Say, Human!Code, Human!Prompt,
              Replies, Answered
<1>2. CASE Human!Leaves(l)
  BY <1>2 DEF Human!Leaves, Human!Send, Human!Say, Replies, Quits
<1>3. CASE Human!Performs(l)
  BY <1>3 DEF Human!Performs, Human!Send, Human!Marker, Human!Say, Human!Code, Human!Prompt,
              Human!Outputs, Replies, Runs
<1>4. QED BY <1>1, <1>2, <1>3 DEF Human!Dispatch

\* The same for the server of a user at a terminal.
LEMMA TerminalHandles ==
    ASSUME atTerminal, Human!ServerStep PROVE Handles
<1>1. CASE Human!ReadCommand
  <2> DEFINE l == IF spc = "cont" THEN Joined(current, Head(up)) ELSE Head(up)
  <2>1. spc \in {"read", "cont"} /\ up # <<>> /\ up' = Tail(up) /\ UNCHANGED hungUp
    BY <1>1 DEF Human!ReadCommand
  <2>2. Human!Joins(l) \/ Human!Dispatch(l)
    BY <1>1 DEF Human!ReadCommand, Human!Joined, Joined
  <2> HIDE DEF l
  <2>3. Human!Joins(l) => Waits(l)
    BY DEF Human!Joins, Human!Send, Human!Say, Waits, AtTerminal, Send, Say
  <2>4. Waits(l) \/ Replies(l)
    BY <2>2, <2>3, TerminalDispatches
  <2>5. ReadsLine
    BY <2>1, <2>4 DEF ReadsLine, l
  <2>6. QED BY <2>5, <1>1 DEF Human!ServerStep, Handles
<1>2. CASE Human!LoginReply
  <2>1. LoginReply
    BY <1>2 DEF Human!LoginReply, Human!Send, Human!Say, Human!Prompt,
                LoginReply, Send, Say, Prompt
  <2>2. QED BY <2>1 DEF Human!ServerStep, Handles
<1> DEFINE finishes(r) == Human!FinishAsk(r) => FinishAsk(r)
<1>3. \A r : finishes(r)
  BY DEF Human!FinishAsk, Human!Send, Human!Marker, Human!Say, Human!Code, Human!Prompt,
         Human!Outputs, FinishAsk, Send, Marker, Say, Code, Prompt, Outputs
<1>4. CASE Human!AskReply
  <2>1. AskReply
    BY <1>3, <1>4 DEF Human!AskReply, AskReply
  <2>2. QED BY <2>1 DEF Human!ServerStep, Handles
<1>5. CASE Human!WakeUp
  <2>1. WakeUp
    BY <1>5 DEF Human!WakeUp, Human!Send, Human!Marker, Human!Say, Human!Code, Human!Prompt,
                WakeUp, Send, Marker, Say, Code, Prompt
  <2>2. QED BY <2>1 DEF Human!ServerStep, Handles
<1>6. CASE Human!ReadNothing
  <2>1. Expires
    BY <1>6, TerminalDispatches DEF Human!ReadNothing, Expires
  <2>2. QED BY <2>1 DEF Human!ServerStep, Handles
<1>7. CASE Human!AskNoReply
  <2>1. AskNoReply
    BY <1>3, <1>7 DEF Human!AskNoReply, AskNoReply
  <2>2. QED BY <2>1 DEF Human!ServerStep, Handles
<1>8. QED BY <1>1, <1>2, <1>4, <1>5, <1>6, <1>7 DEF Human!ServerStep

--------------------------------------------------------------------------------
\* A whole frame about line m, added to a transcript in which m fits, makes no frame incomplete.
LEMMA AppendFrame ==
    ASSUME NEW s \in Seq(Token), s # <<>>, FramesOf(s), Last(s).t \notin {"done", "code"},
           NEW m \in Nat, NEW text, NEW next, text # <<>>, FrameOf(text, m, next),
           Last(s).t # "login" =>
               /\ Last(s).n <= m
               /\ Last(s).t = "prompt" => Last(s).n < m
    PROVE  /\ FramesOf(s \o text) /\ s \o text # <<>>
           /\ Last(s \o text) = Last(text) /\ Last(text) \in Token
           /\ Last(text).n = m /\ Last(text).t \notin {"done", "code", "login"}
<1>1. text \in Seq(Token) /\ Len(s) \in Nat \ {0} /\ Len(text) \in Nat \ {0}
  <2>1. text \in Seq(Token)
    BY DEF FrameOf
  <2>2. QED BY <2>1, LenProperties, EmptySeq
<1> DEFINE a == Len(s)
           b == Len(text)
           w == s \o text
<1>2. /\ w \in Seq(Token) /\ Len(w) = a + b
      /\ \A i \in 1..(a + b) : w[i] = IF i <= a THEN s[i] ELSE text[i - a]
  BY <1>1, ConcatProperties
<1>3. /\ \A i \in 1..a : s[i] \in Token
      /\ \A i \in 1..b : text[i] \in Token
  BY <1>1, ElementOfSeq
<1>4. a \in Nat \ {0} /\ b \in Nat \ {0}
  BY <1>1
<1> HIDE DEF a, b, w
<1>5. /\ \A i \in 1..b : text[i].n = m /\ text[i].t # "login"
      /\ \A i \in 1..(b - 1) :
          /\ text[i].t # "prompt"
          /\ text[i].t = "done" <=> text[i + 1].t = "code"
          /\ text[i].t = "code" => text[i + 1].t = "prompt"
      /\ text[1].t # "code" /\ text[b].t \notin {"done", "code"}
  BY DEF FrameOf, Last, b
<1>6. /\ \A i \in 1..(a - 1) : s[i].t # "login" =>
          /\ s[i].n <= s[i + 1].n
          /\ s[i].t = "done" <=> s[i + 1].t = "code"
          /\ s[i].t = "code" => s[i + 1].t = "prompt" /\ s[i].n = s[i + 1].n
          /\ s[i].t = "prompt" => s[i].n < s[i + 1].n
      /\ s[a].t \notin {"done", "code"}
      /\ s[a].t # "login" => s[a].n <= m /\ (s[a].t = "prompt" => s[a].n < m)
  BY DEF FramesOf, Last, a
<1>7. Last(w) = text[b] /\ w # <<>>
  <2>1. w[a + b] = text[b]
    BY <1>2, <1>4
  <2>2. QED BY <2>1, <1>2, <1>4, EmptySeq DEF Last
<1>8. FramesOf(w)
  <2> SUFFICES ASSUME NEW i \in 1..(a + b - 1), w[i].t # "login"
               PROVE  /\ w[i].n <= w[i + 1].n
                      /\ w[i].t = "done" <=> w[i + 1].t = "code"
                      /\ w[i].t = "code" => w[i + 1].t = "prompt" /\ w[i].n = w[i + 1].n
                      /\ w[i].t = "prompt" => w[i].n < w[i + 1].n
    <3>1. Len(w) - 1 = a + b - 1
      BY <1>2, <1>4
    <3>2. QED BY <3>1 DEF FramesOf
  <2>1. CASE i < a
    <3>1. w[i] = s[i] /\ w[i + 1] = s[i + 1] /\ i \in 1..(a - 1)
      BY <2>1, <1>2, <1>4
    <3>2. QED BY <3>1, <1>6
  <2>2. CASE i = a
    <3>1. w[i] = s[a] /\ w[i + 1] = text[1] /\ 1 \in 1..b
      BY <2>2, <1>2, <1>4
    <3>2. QED BY <3>1, <1>5, <1>6
  <2>3. CASE i > a
    <3>1. /\ w[i] = text[i - a] /\ w[i + 1] = text[(i - a) + 1]
          /\ i - a \in 1..(b - 1) /\ i - a \in 1..b /\ (i - a) + 1 \in 1..b
      BY <2>3, <1>2, <1>4
    <3>2. QED BY <3>1, <1>5
  <2>4. QED BY <2>1, <2>2, <2>3, <1>4
<1>9. QED
  <2>1. b \in 1..b
    BY <1>4
  <2>2. QED BY <2>1, <1>3, <1>5, <1>7, <1>8 DEF w, b, Last

\* Short sequences of tokens joined.
LEMMA Joinings ==
    /\ \A a, b \in Token : <<a>> \o <<b>> = <<a, b>>
    /\ \A a, b, c \in Token : <<a>> \o <<b, c>> = <<a, b, c>>
    /\ \A a, b, c \in Token : <<a, b>> \o <<c>> = <<a, b, c>>
    /\ \A a, b, c, d \in Token : <<a, b, c>> \o <<d>> = <<a, b, c, d>>
<1>1. ASSUME NEW a \in Token, NEW b \in Token
     PROVE  <<a>> \o <<b>> = <<a, b>>
  <2> DEFINE w == <<a>> \o <<b>>
             v == <<a, b>>
  <2>1. <<a>> \in Seq(Token) /\ <<b>> \in Seq(Token) /\ v \in Seq(Token) /\ Len(v) = 2
    OBVIOUS
  <2>2. w \in Seq(Token) /\ Len(w) = 2 /\ \A i \in 1..2 : w[i] = v[i]
    BY <2>1, ConcatProperties
  <2> HIDE DEF w, v
  <2>3. w = v
    BY <2>1, <2>2, SeqEqual
  <2>4. QED BY <2>3 DEF w, v
<1>2. ASSUME NEW a \in Token, NEW b \in Token, NEW c \in Token
     PROVE  <<a>> \o <<b, c>> = <<a, b, c>>
  <2> DEFINE w == <<a>> \o <<b, c>>
             v == <<a, b, c>>
  <2>1. <<a>> \in Seq(Token) /\ <<b, c>> \in Seq(Token) /\ v \in Seq(Token) /\ Len(v) = 3
    OBVIOUS
  <2>2. w \in Seq(Token) /\ Len(w) = 3 /\ \A i \in 1..3 : w[i] = v[i]
    BY <2>1, ConcatProperties
  <2> HIDE DEF w, v
  <2>3. w = v
    BY <2>1, <2>2, SeqEqual
  <2>4. QED BY <2>3 DEF w, v
<1>3. ASSUME NEW a \in Token, NEW b \in Token, NEW c \in Token
     PROVE  <<a, b>> \o <<c>> = <<a, b, c>>
  <2> DEFINE w == <<a, b>> \o <<c>>
             v == <<a, b, c>>
  <2>1. <<a, b>> \in Seq(Token) /\ <<c>> \in Seq(Token) /\ v \in Seq(Token) /\ Len(v) = 3
    OBVIOUS
  <2>2. w \in Seq(Token) /\ Len(w) = 3 /\ \A i \in 1..3 : w[i] = v[i]
    BY <2>1, ConcatProperties
  <2> HIDE DEF w, v
  <2>3. w = v
    BY <2>1, <2>2, SeqEqual
  <2>4. QED BY <2>3 DEF w, v
<1>4. ASSUME NEW a \in Token, NEW b \in Token, NEW c \in Token, NEW d \in Token
     PROVE  <<a, b, c>> \o <<d>> = <<a, b, c, d>>
  <2> DEFINE w == <<a, b, c>> \o <<d>>
             v == <<a, b, c, d>>
  <2>1. <<a, b, c>> \in Seq(Token) /\ <<d>> \in Seq(Token) /\ v \in Seq(Token) /\ Len(v) = 4
    OBVIOUS
  <2>2. w \in Seq(Token) /\ Len(w) = 4 /\ \A i \in 1..4 : w[i] = v[i]
    BY <2>1, ConcatProperties
  <2> HIDE DEF w, v
  <2>3. w = v
    BY <2>1, <2>2, SeqEqual
  <2>4. QED BY <2>3 DEF w, v
<1>5. QED BY <1>1, <1>2, <1>3, <1>4

\* What the handlers send are whole frames.
LEMMA PromptFrames ==
    ASSUME NEW m \in Nat, NEW x \in Exits, NEW out \in Outputs(m), NEW mark,
           mark = <<>> \/ mark = <<Say("done", m), Code(m, x)>>
    PROVE  /\ FrameOf(out \o mark \o <<Prompt(m)>>, m, "read")
           /\ Announces(out \o mark \o <<Prompt(m)>>, "read")
<1> DEFINE w == out \o mark \o <<Prompt(m)>>
           o == Say("out", m)
           done == Say("done", m)
           code == Code(m, x)
           prompt == Prompt(m)
<1>1. o \in Token /\ done \in Token /\ code \in Token /\ prompt \in Token
  BY ExitsAssumption DEF Say, Code, Prompt, Token
<1>2. /\ o.n = m /\ done.n = m /\ code.n = m /\ prompt.n = m
      /\ o.t = "out" /\ done.t = "done" /\ code.t = "code" /\ prompt.t = "prompt"
  BY DEF Say, Code, Prompt
<1>3. out = <<>> \/ out = <<o>>
  BY DEF Outputs
<1>4. mark = <<>> \/ mark = <<done, code>>
  OBVIOUS
<1>5. w = out \o mark \o <<prompt>>
  OBVIOUS
<1> HIDE DEF w, o, done, code, prompt
<1>6. w \in {<<prompt>>, <<o, prompt>>, <<done, code, prompt>>, <<o, done, code, prompt>>}
  <2>1. CASE out = <<>> /\ mark = <<>>
    BY <1>5, <2>1
  <2>2. CASE out = <<o>> /\ mark = <<>>
    <3>1. out \o mark = <<o>>
      BY <2>2, <1>1, ConcatEmptySeq
    <3>2. QED BY <3>1, <1>1, <1>5, Joinings
  <2>3. CASE out = <<>> /\ mark = <<done, code>>
    <3>1. out \o mark = <<done, code>>
      BY <2>3, <1>1, ConcatEmptySeq
    <3>2. <<done, code>> \o <<prompt>> = <<done, code, prompt>>
      BY ONLY <1>1, Joinings
    <3>3. QED BY <3>1, <3>2, <1>5
  <2>4. CASE out = <<o>> /\ mark = <<done, code>>
    <3>1. <<o>> \o <<done, code>> = <<o, done, code>>
      BY ONLY <1>1, Joinings
    <3>2. <<o, done, code>> \o <<prompt>> = <<o, done, code, prompt>>
      BY ONLY <1>1, Joinings
    <3>3. QED BY <2>4, <3>1, <3>2, <1>5
  <2>5. QED BY <1>3, <1>4, <2>1, <2>2, <2>3, <2>4
<1>7. FrameOf(w, m, "read") /\ w # <<>> /\ Last(w).t = "prompt"
  <2>1. CASE w = <<prompt>>
    BY <2>1, <1>1, <1>2 DEF FrameOf, Last
  <2>2. CASE w = <<o, prompt>>
    BY <2>2, <1>1, <1>2 DEF FrameOf, Last
  <2>3. CASE w = <<done, code, prompt>>
    BY <2>3, <1>1, <1>2 DEF FrameOf, Last
  <2>4. CASE w = <<o, done, code, prompt>>
    BY <2>4, <1>1, <1>2 DEF FrameOf, Last
  <2>5. QED BY <1>6, <2>1, <2>2, <2>3, <2>4
<1>8. QED BY <1>7 DEF Announces, w

\* So are a question, an output without a prompt, a farewell and a continuation prompt.
LEMMA OtherFrames ==
    ASSUME NEW m \in Nat, NEW out \in Outputs(m)
    PROVE  /\ FrameOf(out \o <<Say("ask", m)>>, m, "ask")
           /\ Announces(out \o <<Say("ask", m)>>, "ask")
           /\ FrameOf(out, m, "read")
           /\ FrameOf(<<Say("out", m)>>, m, "closed") /\ Announces(<<Say("out", m)>>, "closed")
           /\ FrameOf(<<>>, m, "hang") /\ Announces(<<>>, "hang")
           /\ LET w == IF AtTerminal THEN <<Say("more", m)>> ELSE <<>>
              IN  FrameOf(w, m, "cont") /\ Announces(w, "cont")
<1>1. \A t \in {"out", "ask", "more"} : Say(t, m) \in Token
  BY ExitsAssumption DEF Say, Token
<1>2. \A t \in {"out", "ask", "more"}, next \in {"ask", "read", "closed", "cont"} :
          FrameOf(<<Say(t, m)>>, m, next)
  BY <1>1 DEF FrameOf, Last, Say
<1>3. \A next : FrameOf(<<>>, m, next)
  BY DEF FrameOf
<1>4. FrameOf(<<Say("out", m), Say("ask", m)>>, m, "ask")
  BY <1>1 DEF FrameOf, Last, Say
<1>5. \/ out = <<>> /\ out \o <<Say("ask", m)>> = <<Say("ask", m)>>
      \/ out = <<Say("out", m)>> /\ out \o <<Say("ask", m)>> = <<Say("out", m), Say("ask", m)>>
  <2>1. Say("out", m) \in Token /\ Say("ask", m) \in Token
    BY <1>1
  <2>2. <<Say("out", m)>> \o <<Say("ask", m)>> = <<Say("out", m), Say("ask", m)>>
    BY ONLY <2>1, Joinings
  <2>3. <<>> \o <<Say("ask", m)>> = <<Say("ask", m)>>
    BY <2>1, ConcatEmptySeq
  <2>4. QED BY <2>2, <2>3 DEF Outputs
<1>6. Announces(out \o <<Say("ask", m)>>, "ask")
  BY <1>5 DEF Announces, Last, Say
<1>7. Announces(<<Say("out", m)>>, "closed") /\ Announces(<<>>, "hang")
  BY DEF Announces
<1>8. LET w == IF AtTerminal THEN <<Say("more", m)>> ELSE <<>> IN Announces(w, "cont")
  BY DEF Announces, Last, Say
<1>9. QED BY <1>2, <1>3, <1>4, <1>5, <1>6, <1>7, <1>8

--------------------------------------------------------------------------------
\* The types of what is read.
LEMMA ReadTypes ==
    ASSUME AnyTypes, up # <<>>
    PROVE  /\ Head(up) \in Line /\ Tail(up) \in Seq(Line) /\ Head(up) = up[1]
           /\ Len(up) \in Nat \ {0} /\ Len(Tail(up)) = Len(up) - 1
           /\ \A j \in 1..Len(Tail(up)) : Tail(up)[j] = up[j + 1]
<1>1. up \in Seq(Line)
  BY DEF AnyTypes, WireTypeOK
<1>2. QED BY <1>1, HeadTailProperties, LenProperties, EmptySeq

\* A line in hand, read or joined, with the number it is known by.
InHand(l, m) ==
    /\ l \in Line /\ l.n = m
    /\ spc \in {"read", "cont"} /\ Takes(m)

\* What becomes of a line in hand.
LEMMA RepliesServes ==
    ASSUME AnyTypes, NEW l, NEW m, InHand(l, m), Replies(l), UNCHANGED <<hungUp, typed, greeted>>
    PROVE  \E text, next : Serves(m, text, next)
<1>1. l \in Line /\ l.n = m /\ m \in Nat /\ spc \in {"read", "cont"} /\ Takes(m)
  BY DEF InHand, Line
<1>2. current \in Line /\ performed \in Seq(Performance)
  BY DEF AnyTypes
<1>3. CASE Answered(l)
  <2>1. /\ Send(Marker(l, 0) \o <<Prompt(m)>>, "read")
        /\ UNCHANGED <<current, performed, swallowed>>
    BY <1>3, <1>1 DEF Answered
  <2>2. 0 \in Exits /\ <<>> \in Outputs(m)
    BY ExitsAssumption DEF Outputs
  <2>3. Marker(l, 0) = <<>> \/ Marker(l, 0) = <<Say("done", m), Code(m, 0)>>
    BY <1>1 DEF Marker
  <2>4. <<>> \o Marker(l, 0) \o <<Prompt(m)>> = Marker(l, 0) \o <<Prompt(m)>>
    BY <2>3
  <2>5. /\ FrameOf(Marker(l, 0) \o <<Prompt(m)>>, m, "read")
        /\ Announces(Marker(l, 0) \o <<Prompt(m)>>, "read")
    BY <1>1, <2>2, <2>3, <2>4, PromptFrames
  <2>6. Serves(m, Marker(l, 0) \o <<Prompt(m)>>, "read")
    BY <1>1, <1>2, <2>1, <2>5 DEF Serves, UsesLine
  <2>7. QED BY <2>6
<1>4. CASE Quits(l)
  <2>1. Send(<<Say("out", m)>>, "closed") /\ UNCHANGED <<current, performed, swallowed>>
    BY <1>4, <1>1 DEF Quits
  <2>2. FrameOf(<<Say("out", m)>>, m, "closed") /\ Announces(<<Say("out", m)>>, "closed")
    <3>1. <<>> \in Outputs(m)
      BY DEF Outputs
    <3>2. QED BY <3>1, <1>1, OtherFrames
  <2>3. Serves(m, <<Say("out", m)>>, "closed")
    BY <1>1, <1>2, <2>1, <2>2 DEF Serves, UsesLine
  <2>4. QED BY <2>3
<1>5. CASE Runs(l)
  <2>1. PICK x \in Exits, out \in Outputs(m) :
          /\ performed' = Append(performed, [n |-> m, kind |-> l.kind, exit |-> x])
          /\ \/ l.kind = "ask"  /\ Send(out \o <<Say("ask", m)>>, "ask")
             \/ l.kind = "mute" /\ Send(out, "read")
             \/ l.kind = "hang" /\ spc' = "hang" /\ UNCHANGED down
             \/ /\ l.kind \in {"plain", "exit"}
                /\ Send(out \o Marker(l, x) \o <<Prompt(m)>>, "read")
    BY <1>5, <1>1 DEF Runs
  <2> DEFINE p == [n |-> m, kind |-> l.kind, exit |-> x]
  <2>2. UNCHANGED swallowed /\ current' = IF l.kind \in {"ask", "hang"} THEN l ELSE current
    BY <1>5 DEF Runs
  <2>3. p \in Performance /\ p.n = m /\ p.kind = l.kind
    BY <1>1 DEF Performance, Line
  <2>4. performed' = Append(performed, p)
    BY <2>1
  <2> HIDE DEF p
  <2>5. UsesLine(m)
    BY <1>1, <2>2, <2>3, <2>4 DEF UsesLine
  <2>6. performed' # <<>> /\ Last(performed') = p
    <3>1. /\ Len(Append(performed, p)) = Len(performed) + 1
          /\ Append(performed, p)[Len(performed) + 1] = p
          /\ Append(performed, p) \in Seq(Performance)
      BY <1>2, <2>3, AppendProperties
    <3>2. Len(performed) \in Nat
      BY <1>2, LenProperties
    <3>3. QED BY <3>1, <3>2, <2>4, EmptySeq DEF Last
  <2>7. current' \in Line
    BY <1>1, <1>2, <2>2
  <2>8. CASE l.kind = "ask"
    <3>1. Send(out \o <<Say("ask", m)>>, "ask") /\ current' = l
      BY <2>1, <2>2, <2>8
    <3>2. /\ FrameOf(out \o <<Say("ask", m)>>, m, "ask")
          /\ Announces(out \o <<Say("ask", m)>>, "ask")
      BY <1>1, OtherFrames
    <3>3. Serves(m, out \o <<Say("ask", m)>>, "ask")
      BY <1>1, <2>5, <2>6, <2>7, <3>1, <3>2 DEF Serves
    <3>4. QED BY <3>3
  <2>9. CASE l.kind = "mute"
    <3>1. Send(out, "read")
      BY <2>1, <2>9
    <3>2. FrameOf(out, m, "read")
      BY <1>1, OtherFrames
    <3>3. Announces(out, "read")
      BY <2>3, <2>6, <2>9 DEF Announces
    <3>4. Serves(m, out, "read")
      BY <1>1, <2>5, <2>7, <3>1, <3>2, <3>3 DEF Serves
    <3>5. QED BY <3>4
  <2>10. CASE l.kind = "hang"
    <3>1. spc' = "hang" /\ UNCHANGED down /\ current' = l
      BY <2>1, <2>2, <2>10
    <3>2. down \in Seq(Token) /\ hungUp \in BOOLEAN
      BY DEF AnyTypes, WireTypeOK
    <3>3. Send(<<>>, "hang")
      BY <3>1, <3>2, ConcatEmptySeq DEF Send
    <3>4. FrameOf(<<>>, m, "hang") /\ Announces(<<>>, "hang")
      BY <1>1, OtherFrames
    <3>5. Serves(m, <<>>, "hang")
      BY <1>1, <2>5, <2>6, <2>7, <3>1, <3>3, <3>4 DEF Serves
    <3>6. QED BY <3>5
  <2>11. CASE l.kind \in {"plain", "exit"}
    <3>1. Send(out \o Marker(l, x) \o <<Prompt(m)>>, "read")
      BY <2>1, <2>11
    <3>2. Marker(l, x) = <<>> \/ Marker(l, x) = <<Say("done", m), Code(m, x)>>
      BY <1>1 DEF Marker
    <3>3. /\ FrameOf(out \o Marker(l, x) \o <<Prompt(m)>>, m, "read")
          /\ Announces(out \o Marker(l, x) \o <<Prompt(m)>>, "read")
      BY <1>1, <3>2, PromptFrames
    <3>4. Serves(m, out \o Marker(l, x) \o <<Prompt(m)>>, "read")
      BY <1>1, <2>5, <2>7, <3>1, <3>3 DEF Serves
    <3>5. QED BY <3>4
  <2>12. QED BY <2>1, <2>8, <2>9, <2>10, <2>11
<1>6. QED BY <1>3, <1>4, <1>5 DEF Replies

\* A line that is waiting for the rest of its command.
LEMMA WaitsServes ==
    ASSUME AnyTypes, NEW l, NEW m, InHand(l, m), Waits(l), UNCHANGED <<hungUp, typed, greeted>>
    PROVE  \E text, next : Serves(m, text, next)
<1>1. l \in Line /\ l.n = m /\ m \in Nat /\ spc \in {"read", "cont"} /\ Takes(m)
  BY DEF InHand, Line
<1> DEFINE w == IF AtTerminal THEN <<Say("more", m)>> ELSE <<>>
<1>2. current' = l /\ UNCHANGED <<performed, swallowed>> /\ Send(w, "cont")
  BY <1>1 DEF Waits
<1>3. FrameOf(w, m, "cont") /\ Announces(w, "cont")
  <2>1. <<>> \in Outputs(m)
    BY DEF Outputs
  <2>2. QED BY <2>1, <1>1, OtherFrames
<1> HIDE DEF w
<1>4. Serves(m, w, "cont")
  BY <1>1, <1>2, <1>3 DEF Serves, UsesLine
<1>5. QED BY <1>4

\* The rest of a command that slept or asked for a password.
LEMMA FinishServes ==
    ASSUME AnyTypes, spc \in {"ask", "hang"}, Takes(current.n), UsesLine(current.n),
           NEW out \in Outputs(current.n),
           Send(out \o Marker(current, Last(performed).exit) \o <<Prompt(current.n)>>, "read"),
           UNCHANGED <<hungUp, typed, greeted, current>>
    PROVE  \E text, next : Serves(current.n, text, next)
<1>1. current \in Line /\ current.n \in Nat
  BY DEF AnyTypes, Line
<1> DEFINE x == Last(performed).exit
           mark == Marker(current, x)
<1>2. x \in Exits
  <2>1. performed \in Seq(Performance) /\ performed # <<>>
    BY DEF AnyTypes
  <2>2. Len(performed) \in 1..Len(performed)
    BY <2>1, LenProperties, EmptySeq
  <2>3. Last(performed) \in Performance
    BY <2>1, <2>2, ElementOfSeq DEF Last
  <2>4. QED BY <2>3 DEF Performance
<1>3. mark = <<>> \/ mark = <<Say("done", current.n), Code(current.n, x)>>
  BY DEF Marker
<1> HIDE DEF x
<1>4. /\ FrameOf(out \o mark \o <<Prompt(current.n)>>, current.n, "read")
      /\ Announces(out \o mark \o <<Prompt(current.n)>>, "read")
  <2> HIDE DEF mark
  <2>1. QED BY <1>1, <1>2, <1>3, PromptFrames
<1>5. Send(out \o mark \o <<Prompt(current.n)>>, "read")
  BY DEF x
<1> HIDE DEF mark
<1>6. Serves(current.n, out \o mark \o <<Prompt(current.n)>>, "read")
  BY <1>1, <1>4, <1>5 DEF Serves
<1>7. QED BY <1>6

ServerActs ==
    \/ GivesUp
    \/ \E tok, next : Greets(tok, next)
    \/ \E m, text, next : Serves(m, text, next)

\* Every step of the server is one of the three.
LEMMA HandlesActs ==
    ASSUME AnyTypes, Handles PROVE ServerActs
<1>0. UNCHANGED typed
  BY DEF Handles
<1>1. CASE ReadsLine
  <2> DEFINE l == IF spc = "cont" THEN Joined(current, Head(up)) ELSE Head(up)
  <2>1. spc \in {"read", "cont"} /\ up # <<>> /\ up' = Tail(up) /\ UNCHANGED hungUp
    BY <1>1 DEF ReadsLine
  <2>2. Waits(l) \/ Replies(l)
    BY <1>1 DEF ReadsLine
  <2> HIDE DEF l
  <2>3. UNCHANGED greeted
    BY <2>2 DEF Waits, Replies, Answered, Quits, Runs
  <2> USE DEF l
  <2>4. Head(up) \in Line /\ current \in Line
    BY <2>1, ReadTypes DEF AnyTypes
  <2>5. Joined(current, Head(up)) \in Line /\ Joined(current, Head(up)).n = current.n
    BY <2>4 DEF Joined, Line
  <2>6. l \in Line /\ l.n = IF spc = "cont" THEN current.n ELSE Head(up).n
    BY <2>4, <2>5
  <2>7. InHand(l, l.n)
    BY <2>1, <2>6 DEF InHand, Takes
  <2> HIDE DEF l
  <2>8. QED BY <1>0, <2>1, <2>2, <2>3, <2>7, RepliesServes, WaitsServes DEF ServerActs
<1>2. CASE LoginReply
  <2>1. /\ spc = "login" /\ up # <<>> /\ up' = Tail(up)
        /\ UNCHANGED <<hungUp, current, performed, swallowed>>
        /\ greeted \in Nat /\ greeted' = greeted + 1 /\ greeted' \in Nat
    BY <1>2 DEF LoginReply, AnyTypes
  <2>2. \A n \in Nat : Say("login", n) \in Token /\ Say("prompt", n) \in Token
    BY ExitsAssumption DEF Say, Token
  <2>3. CASE greeted' < NLogin
    <3>1. Send(<<Say("login", greeted' + 1)>>, "login")
      BY <1>2, <2>3 DEF LoginReply
    <3>2. Say("login", greeted' + 1) \in Token
      BY <2>1, <2>2
    <3>3. Say("login", greeted' + 1).t = "login"
      BY DEF Say
    <3>4. Greets(Say("login", greeted' + 1), "login")
      BY <1>0, <2>1, <3>1, <3>2, <3>3 DEF Greets
    <3>5. QED BY <3>4 DEF ServerActs
  <2>4. CASE ~(greeted' < NLogin)
    <3>1. Send(<<Prompt(0)>>, "read")
      BY <1>2, <2>4 DEF LoginReply
    <3>2. Prompt(0) \in Token /\ Prompt(0).t = "prompt" /\ Prompt(0).n = 0
      BY <2>2 DEF Prompt, Say
    <3>3. Greets(Prompt(0), "read")
      BY <1>0, <2>1, <3>1, <3>2 DEF Greets
    <3>4. QED BY <3>3 DEF ServerActs
  <2>5. QED BY <2>3, <2>4
<1>3. CASE AskReply
  <2>1. /\ spc = "ask" /\ up # <<>> /\ up' = Tail(up)
        /\ swallowed' = swallowed \o <<Head(up).n>>
        /\ UNCHANGED <<hungUp, greeted, current, performed>>
    BY <1>3 DEF AskReply, FinishAsk
  <2>2. swallowed' = Append(swallowed, Head(up).n)
    BY <2>1, ReadTypes DEF AnyTypes, Line
  <2>3. PICK out \in Outputs(current.n) :
          Send(out \o Marker(current, Last(performed).exit) \o <<Prompt(current.n)>>, "read")
    BY <1>3 DEF AskReply, FinishAsk, Last
  <2>4. Takes(current.n) /\ UsesLine(current.n)
    BY <2>1, <2>2 DEF Takes, UsesLine
  <2>5. QED BY <1>0, <2>1, <2>3, <2>4, FinishServes DEF ServerActs
<1>4. CASE WakeUp
  <2>1. spc = "hang" /\ UNCHANGED <<up, hungUp, greeted, current, performed, swallowed>>
    BY <1>4 DEF WakeUp
  <2>2. <<>> \in Outputs(current.n)
    BY DEF Outputs
  <2>3. <<>> \o Marker(current, Last(performed).exit) = Marker(current, Last(performed).exit)
    BY DEF Marker
  <2>4. Send(<<>> \o Marker(current, Last(performed).exit) \o <<Prompt(current.n)>>, "read")
    BY <1>4, <2>3 DEF WakeUp, Last
  <2>5. Takes(current.n) /\ UsesLine(current.n)
    BY <2>1 DEF Takes, UsesLine
  <2>6. QED BY <1>0, <2>1, <2>2, <2>4, <2>5, FinishServes DEF ServerActs
<1>5. CASE Expires
  <2>1. CASE spc \in {"login", "read"}
    BY <1>0, <1>5, <2>1 DEF Expires, GivesUp, wire, ServerActs
  <2>2. CASE spc = "cont"
    <3>1. Replies(current) /\ up' = up /\ UNCHANGED <<hungUp, greeted>>
      BY <1>5, <2>2 DEF Expires, Replies, Answered, Quits, Runs
    <3>2. InHand(current, current.n)
      BY <2>2, <3>1 DEF InHand, Takes, AnyTypes
    <3>3. QED BY <1>0, <3>1, <3>2, RepliesServes DEF ServerActs
  <2>3. QED BY <1>5, <2>1, <2>2 DEF Expires
<1>6. CASE AskNoReply
  <2>1. spc = "ask" /\ UNCHANGED <<up, hungUp, greeted, current, performed>>
    BY <1>6 DEF AskNoReply, FinishAsk
  <2>2. swallowed' = swallowed
    BY <1>6, ConcatEmptySeq DEF AskNoReply, FinishAsk, AnyTypes
  <2>3. PICK out \in Outputs(current.n) :
          Send(out \o Marker(current, Last(performed).exit) \o <<Prompt(current.n)>>, "read")
    BY <1>6 DEF AskNoReply, FinishAsk, Last
  <2>4. Takes(current.n) /\ UsesLine(current.n)
    BY <2>1, <2>2 DEF Takes, UsesLine
  <2>5. QED BY <1>0, <2>1, <2>3, <2>4, FinishServes DEF ServerActs
<1>7. QED BY <1>1, <1>2, <1>3, <1>4, <1>5, <1>6 DEF Handles

--------------------------------------------------------------------------------
\* The initial states.
LEMMA AnyInvInit == BothInit => AnyInv
<1> SUFFICES ASSUME BothInit PROVE AnyInv
  OBVIOUS
<1>1. AnyInit \/ Human!AnyInit
  BY DEF BothInit
<1>2. /\ spc \in {"login", "read"} /\ greeted = 0 /\ current = NoLine
      /\ performed = <<>> /\ swallowed = <<>> /\ up = <<>> /\ hungUp = FALSE /\ typed = 0
      /\ down = Greeting
  <2>1. CASE AnyInit
    BY <2>1 DEF AnyInit, ServerInit, WireInit
  <2>2. CASE Human!AnyInit
    BY <2>2 DEF Human!AnyInit, Human!ServerInit, Human!WireInit, Human!NoLine, NoLine,
                Human!Greeting, Greeting, Human!Say, Say, Human!Prompt, Prompt
  <2>3. QED BY <1>1, <2>1, <2>2
<1>3. /\ Say("login", 1) \in Token /\ Prompt(0) \in Token
      /\ Prompt(0).t = "prompt" /\ Prompt(0).n = 0 /\ Say("login", 1).t = "login"
  BY ExitsAssumption DEF Say, Prompt, Token
<1>4. \/ spc = "login" /\ down = <<Say("login", 1)>>
      \/ spc = "read" /\ down = <<Prompt(0)>>
  BY <1>2 DEF Greeting
<1>5. /\ Len(down) = 1 /\ down \in Seq(Token) /\ down # <<>> /\ Last(down) = down[1]
      /\ spc = "login" => down[1].t = "login"
      /\ spc = "read" => down[1].t = "prompt" /\ down[1].n = 0
  BY <1>3, <1>4 DEF Last
<1>6. NoLine \in Line
  BY DEF NoLine, Line, ShellKinds, EngineKinds
<1>7. Len(up) = 0 /\ Len(performed) = 0 /\ Len(swallowed) = 0 /\ Taken = 0
  <2>1. Len(up) = 0 /\ Len(performed) = 0 /\ Len(swallowed) = 0
    BY <1>2
  <2>2. typed = 0
    BY <1>2
  <2>3. QED BY <2>1, <2>2 DEF Taken
<1>8. AnyTypes
  <2>1. up \in Seq(Line) /\ performed \in Seq(Performance) /\ swallowed \in Seq(Nat)
    BY <1>2
  <2>2. WireTypeOK
    BY <1>2, <1>5, <2>1 DEF WireTypeOK
  <2>3. QED BY <1>2, <1>6, <2>1, <2>2 DEF AnyTypes
<1>9. InOrder
  BY <1>2, <1>7 DEF InOrder
<1>10. UsedOnce
  BY <1>2, <1>7 DEF UsedOnce, OneUsePerLine
<1>11. Framed
  BY <1>2, <1>5, <1>7 DEF Framed, FramesOf
<1>12. Announced
  BY <1>2, <1>5 DEF Announced
<1>13. QED BY <1>8, <1>9, <1>10, <1>11, <1>12 DEF AnyInv

\* What a step that says `text` about line m leaves behind.
LEMMA SaysFrames ==
    ASSUME AnyTypes, Framed, NEW m \in Nat, NEW text, NEW next,
           Send(text, next), FrameOf(text, m, next), Fits(m),
           UNCHANGED hungUp
    PROVE  /\ down' \in Seq(Token) /\ down' # <<>> /\ FramesOf(down')
           /\ Last(down').t \notin {"done", "code"}
           /\ Last(down') = Last(down) \/ (Last(down').n = m /\ Last(down').t # "login")
           /\ Last(down').t # "login" => Last(down').n <= m
           /\ next # "read" => Fits(m)'
           /\ ~hungUp /\ text # <<>> => Last(down') = Last(text)
<1>1. down \in Seq(Token) /\ down # <<>> /\ FramesOf(down) /\ Last(down).t \notin {"done", "code"}
  BY DEF AnyTypes, WireTypeOK, Framed
<1>2. CASE ~hungUp /\ text # <<>>
  <2>1. down' = down \o text
    BY <1>2 DEF Send
  <2>2. text \in Seq(Token)
    BY DEF FrameOf
  <2>3. down' \in Seq(Token)
    BY <2>1, <2>2, <1>1, ConcatProperties
  <2>4. Last(down).t # "login" => Last(down).n <= m /\ (Last(down).t = "prompt" => Last(down).n < m)
    BY DEF Fits
  <2>5. /\ FramesOf(down \o text) /\ down \o text # <<>>
        /\ Last(down \o text) = Last(text) /\ Last(text) \in Token
        /\ Last(text).n = m /\ Last(text).t \notin {"done", "code", "login"}
    BY <1>1, <1>2, <2>4, AppendFrame
  <2>6. next # "read" => Last(text).t # "prompt"
    BY <1>2 DEF FrameOf
  <2>7. next # "read" => Fits(m)'
    BY <2>1, <2>5, <2>6 DEF Fits
  <2>8. QED BY <2>1, <2>3, <2>5, <2>7
<1>3. CASE hungUp \/ text = <<>>
  <2>1. down' = down
    BY <1>1, <1>3, ConcatEmptySeq DEF Send, AnyTypes, WireTypeOK
  <2>2. Fits(m)'
    BY <2>1 DEF Fits
  <2>3. Last(down').t # "login" => Last(down').n <= m
    BY <2>1 DEF Fits
  <2>4. QED BY <1>1, <1>3, <2>1, <2>2, <2>3
<1>4. QED BY <1>2, <1>3

\* The lines taken so far, after a step of the server.
LEMMA TakenStep ==
    ASSUME AnyTypes, InOrder, UNCHANGED typed,
           up' = up \/ (up # <<>> /\ up' = Tail(up))
    PROVE  /\ up' \in Seq(Line) /\ InOrder' /\ Taken \in Nat /\ Taken' \in Nat /\ Taken <= Taken'
           /\ up # <<>> => Head(up).n = Taken + 1 /\ Head(up) \in Line
           /\ up # <<>> /\ up' = Tail(up) => Taken' = Taken + 1
<1>1. up \in Seq(Line) /\ typed \in Nat /\ Len(up) \in Nat /\ Len(up) <= typed
  BY LenProperties DEF AnyTypes, WireTypeOK, InOrder
<1>2. Taken \in Nat
  BY <1>1 DEF Taken
<1>3. CASE up' = up
  <2>1. Taken' = Taken /\ InOrder'
    BY <1>3 DEF Taken, InOrder
  <2>2. up # <<>> => Head(up).n = Taken + 1 /\ Head(up) \in Line
    <3> SUFFICES ASSUME up # <<>> PROVE Head(up).n = Taken + 1 /\ Head(up) \in Line
      OBVIOUS
    <3>1. Head(up) = up[1] /\ 1 \in 1..Len(up) /\ Head(up) \in Line
      BY ReadTypes
    <3>2. QED BY <3>1 DEF InOrder
  <2>3. up # <<>> => up' # Tail(up)
    <3> SUFFICES ASSUME up # <<>> PROVE up' # Tail(up)
      OBVIOUS
    <3>1. Len(Tail(up)) = Len(up) - 1
      BY ReadTypes
    <3>2. \A k \in Nat : k - 1 # k
      OBVIOUS
    <3>3. Len(Tail(up)) # Len(up)
      BY <3>1, <3>2, <1>1, Zenon
    <3>4. QED BY <3>3, <1>3
  <2>4. QED BY <1>1, <1>2, <1>3, <2>1, <2>2, <2>3
<1>4. CASE up # <<>> /\ up' = Tail(up)
  <2>1. /\ Head(up) \in Line /\ Tail(up) \in Seq(Line) /\ Head(up) = up[1]
        /\ Len(up) \in Nat \ {0} /\ Len(Tail(up)) = Len(up) - 1
        /\ \A j \in 1..Len(Tail(up)) : Tail(up)[j] = up[j + 1]
    BY <1>4, ReadTypes
  <2>2. Len(up') = Len(up) - 1 /\ Len(up') \in Nat /\ Taken' = Taken + 1
    <3>1. Len(up') = Len(up) - 1
      BY <1>4, <2>1
    <3>2. Len(up) \in Nat \ {0}
      BY <2>1
    <3>3. typed' = typed /\ typed \in Nat
      BY <1>1
    <3>4. typed' - Len(up') = (typed - Len(up)) + 1
      BY ONLY <3>1, <3>2, <3>3
    <3>5. QED BY <3>1, <3>2, <3>4 DEF Taken
  <2>3. \A j \in 1..Len(up) : up[j].n = Taken + j
    BY DEF InOrder
  <2>4. Head(up).n = Taken + 1
    BY <2>1, <2>3, <1>2
  <2>5. \A j \in 1..Len(up') : up'[j].n = Taken' + j
    <3> TAKE j \in 1..Len(up')
    <3>1. Len(up) \in Nat /\ j \in Nat /\ j <= Len(up) - 1
      BY <2>2, <2>1
    <3>2. j + 1 \in 1..Len(up)
      BY ONLY <3>1, j \in 1..Len(up')
    <3>3. up' = Tail(up) /\ \A k \in 1..Len(Tail(up)) : Tail(up)[k] = up[k + 1]
      BY <1>4, <2>1
    <3>4. up'[j] = up[j + 1]
      BY ONLY <3>3, j \in 1..Len(up'), Zenon
    <3>5. up'[j].n = Taken + (j + 1)
      BY <3>2, <3>4, <2>3
    <3>6. QED BY <3>1, <3>5, <2>2, <1>2
  <2>6. InOrder'
    BY <1>1, <2>1, <2>2, <2>5 DEF InOrder
  <2>7. up' \in Seq(Line) /\ Taken' \in Nat /\ Taken <= Taken'
    <3>1. up' \in Seq(Line)
      BY <1>4, <2>1
    <3>2. QED BY <3>1, <1>2, <2>2
  <2>8. QED BY <1>2, <1>4, <2>1, <2>2, <2>4, <2>6, <2>7
<1>5. QED BY <1>3, <1>4

\* The types after a step of the server with a line in hand.
LEMMA ServesTypes ==
    ASSUME AnyInv, NEW m, NEW text, NEW next, Serves(m, text, next)
    PROVE  /\ AnyTypes' /\ InOrder' /\ m \in Nat /\ m <= Taken' /\ Fits(m)
           /\ spc' \in {next, "closed"}
           /\ spc = "read" => m = Taken + 1
           /\ spc \in {"cont", "ask", "hang"} => m = current.n
           /\ spc \in {"read", "cont", "ask", "hang"}
<1> USE DEF AnyInv
<1>1. /\ Takes(m) /\ UsesLine(m) /\ Send(text, next) /\ FrameOf(text, m, next)
      /\ next \in {"read", "cont", "ask", "hang", "closed"}
      /\ current' \in Line /\ UNCHANGED <<hungUp, typed, greeted>>
      /\ next \in {"ask", "hang"} => performed' # <<>>
  BY DEF Serves
<1>2. up' = up \/ (up # <<>> /\ up' = Tail(up))
  BY <1>1 DEF Takes
<1>3. /\ up' \in Seq(Line) /\ InOrder' /\ Taken \in Nat /\ Taken' \in Nat /\ Taken <= Taken'
      /\ up # <<>> => Head(up).n = Taken + 1 /\ Head(up) \in Line
      /\ up # <<>> /\ up' = Tail(up) => Taken' = Taken + 1
  BY <1>1, <1>2, TakenStep
<1>4. /\ spc = "read" => m = Taken + 1 /\ Taken' = Taken + 1
      /\ spc \in {"cont", "ask", "hang"} => m = current.n
      /\ spc \in {"read", "cont", "ask", "hang"}
  BY <1>1, <1>3 DEF Takes
<1>5. m \in Nat /\ m <= Taken'
  <2>1. CASE spc = "read"
    BY <2>1, <1>3, <1>4
  <2>2. CASE spc \in {"cont", "ask", "hang"}
    <3>1. current.n \in Nat /\ current.n <= Taken
      BY <2>2 DEF AnyTypes, Line, UsedOnce
    <3>2. QED BY <2>2, <3>1, <1>3, <1>4
  <2>3. QED BY <1>4, <2>1, <2>2
<1>6. Fits(m)
  <2>1. CASE spc = "read"
    <3>1. down \in Seq(Token) /\ Len(down) \in 1..Len(down)
      BY LenProperties, EmptySeq DEF AnyTypes, WireTypeOK, Framed
    <3>2. Last(down).n \in Nat
      <4>1. down[Len(down)] \in Token
        BY <3>1, ElementOfSeq
      <4>2. QED BY <4>1 DEF Last, Token
    <3>3. Last(down).t # "login" => Last(down).n <= Taken
      BY DEF Framed
    <3>4. QED BY <2>1, <3>2, <3>3, <1>3, <1>4 DEF Fits
  <2>2. CASE spc \in {"cont", "ask", "hang"}
    BY <2>2, <1>4 DEF Framed
  <2>3. QED BY <1>4, <2>1, <2>2
<1>7. performed' \in Seq(Performance) /\ swallowed' \in Seq(Nat)
  <2>1. performed \in Seq(Performance) /\ swallowed \in Seq(Nat)
    BY DEF AnyTypes
  <2>2. up # <<>> => Head(up).n \in Nat
    BY <1>3 DEF Line
  <2>3. CASE UNCHANGED <<performed, swallowed>>
    BY <2>1, <2>3
  <2>4. CASE UNCHANGED swallowed /\ \E p \in Performance : performed' = Append(performed, p)
    BY <2>1, <2>4, AppendProperties
  <2>5. CASE up # <<>> /\ UNCHANGED performed /\ swallowed' = Append(swallowed, Head(up).n)
    BY <2>1, <2>2, <2>5, AppendProperties
  <2>6. QED BY <1>1, <2>3, <2>4, <2>5 DEF UsesLine
<1>8. spc' \in {next, "closed"}
  BY <1>1 DEF Send, AnyTypes, WireTypeOK
<1>9. down' \in Seq(Token)
  BY <1>1, <1>5, <1>6, SaysFrames
<1>10. AnyTypes'
  <2>1. WireTypeOK' /\ typed' \in Nat /\ greeted' \in Nat
    BY <1>1, <1>3, <1>9 DEF AnyTypes, WireTypeOK
  <2>2. spc' \in {"ask", "hang"} => performed' # <<>>
    BY <1>1, <1>8
  <2>3. spc' \in {"login", "read", "cont", "ask", "hang", "closed"}
    BY <1>1, <1>8
  <2>4. QED BY <1>1, <1>7, <2>1, <2>2, <2>3 DEF AnyTypes
<1>11. QED BY <1>3, <1>4, <1>5, <1>6, <1>8, <1>10

\* Such a step uses its line once.
LEMMA ServesUses ==
    ASSUME AnyInv, NEW m, NEW text, NEW next, Serves(m, text, next)
    PROVE  UsedOnce'
<1> USE DEF AnyInv
<1>1. /\ AnyTypes' /\ InOrder' /\ m \in Nat /\ m <= Taken' /\ spc' \in {next, "closed"}
      /\ spc = "read" => m = Taken + 1
      /\ spc \in {"cont", "ask", "hang"} => m = current.n
      /\ spc \in {"read", "cont", "ask", "hang"}
  BY ServesTypes
<1>2. /\ Takes(m) /\ UsesLine(m) /\ UNCHANGED <<hungUp, typed>>
      /\ next \in {"cont", "ask", "hang"} => current'.n = m
      /\ next = "cont" => spc \in {"read", "cont"} /\ UNCHANGED <<performed, swallowed>>
  BY DEF Serves
<1>3. up' = up \/ (up # <<>> /\ up' = Tail(up))
  BY <1>2 DEF Takes
<1>4. /\ Taken \in Nat /\ Taken' \in Nat /\ Taken <= Taken'
      /\ up # <<>> => Head(up).n = Taken + 1
      /\ up # <<>> /\ up' = Tail(up) => Taken' = Taken + 1
  BY <1>2, <1>3, TakenStep
<1>5. /\ performed \in Seq(Performance) /\ swallowed \in Seq(Nat)
      /\ Len(performed) \in Nat /\ Len(swallowed) \in Nat
  BY LenProperties DEF AnyTypes
<1>6. /\ \A j \in 1..Len(performed) : performed[j].n \in Nat
      /\ \A j \in 1..Len(swallowed) : swallowed[j] \in Nat
  <2>1. \A j \in 1..Len(performed) : performed[j] \in Performance
    BY <1>5, ElementOfSeq
  <2>2. \A j \in 1..Len(swallowed) : swallowed[j] \in Nat
    BY <1>5, ElementOfSeq
  <2>3. QED BY <2>1, <2>2 DEF Performance
<1>7. /\ \A j \in 1..Len(performed) : performed[j].n <= Taken
      /\ \A j \in 1..Len(swallowed) : swallowed[j] <= Taken
      /\ \A i, j \in 1..Len(performed) : i < j => performed[i].n < performed[j].n
      /\ \A i \in 1..Len(swallowed), j \in 1..Len(performed) : swallowed[i] # performed[j].n
  BY <1>5 DEF UsedOnce, OneUsePerLine
<1>8. spc \in {"read", "cont"} =>
        /\ \A j \in 1..Len(performed) : performed[j].n < m
        /\ \A j \in 1..Len(swallowed) : swallowed[j] < m
  BY <1>1, <1>4, <1>6, <1>7 DEF UsedOnce
<1>9. spc' \in {"cont", "ask", "hang"} => current'.n <= Taken'
  BY <1>1, <1>2
<1>10. spc' = "cont" => /\ \A j \in 1..Len(performed') : performed'[j].n < current'.n
                        /\ \A j \in 1..Len(swallowed') : swallowed'[j] < current'.n
  BY <1>1, <1>2, <1>8
<1>11. /\ \A j \in 1..Len(performed) : performed[j].n <= Taken'
       /\ \A j \in 1..Len(swallowed) : swallowed[j] <= Taken'
  <2>1. \A k \in Nat : k <= Taken => k <= Taken'
    BY <1>4
  <2>2. \A j \in 1..Len(performed) : performed[j].n <= Taken'
    BY <2>1, <1>6, <1>7
  <2>3. \A j \in 1..Len(swallowed) : swallowed[j] <= Taken'
    BY <2>1, <1>6, <1>7
  <2>4. QED BY <2>2, <2>3
<1>12. /\ \A j \in 1..Len(performed') : performed'[j].n <= Taken'
       /\ \A j \in 1..Len(swallowed') : swallowed'[j] <= Taken'
       /\ \A i, j \in 1..Len(performed') : i < j => performed'[i].n < performed'[j].n
       /\ \A i \in 1..Len(swallowed'), j \in 1..Len(performed') : swallowed'[i] # performed'[j].n
  <2>1. CASE UNCHANGED <<performed, swallowed>>
    <3>1. performed' = performed /\ swallowed' = swallowed
      BY <2>1
    <3>2. QED BY <3>1, <1>7, <1>11
  <2>2. CASE /\ spc \in {"read", "cont"} /\ UNCHANGED swallowed
             /\ \E p \in Performance : p.n = m /\ performed' = Append(performed, p)
    <3>1. PICK p \in Performance : p.n = m /\ performed' = Append(performed, p)
      BY <2>2
    <3>2. /\ Len(performed') = Len(performed) + 1
          /\ \A j \in 1..Len(performed) : performed'[j] = performed[j]
          /\ performed'[Len(performed) + 1] = p
      BY <3>1, <1>5, AppendProperties
    <3>3. \A j \in 1..Len(performed') : j \in 1..Len(performed) \/ j = Len(performed) + 1
      BY <3>2, <1>5
    <3>4. \A j \in 1..Len(performed') :
            /\ performed'[j].n \in Nat
            /\ j \in 1..Len(performed) => performed'[j].n = performed[j].n /\ performed'[j].n < m
            /\ j \notin 1..Len(performed) => j = Len(performed) + 1 /\ performed'[j].n = m
      BY <1>1, <1>6, <1>8, <2>2, <3>1, <3>2, <3>3
    <3>5. \A j \in 1..Len(performed') : performed'[j].n <= Taken'
      BY <3>4, <1>1, <1>4
    <3>6. \A i, j \in 1..Len(performed') : i < j => performed'[i].n < performed'[j].n
      <4> SUFFICES ASSUME NEW i \in 1..Len(performed'), NEW j \in 1..Len(performed'), i < j
                   PROVE  performed'[i].n < performed'[j].n
        OBVIOUS
      <4>1. i \in 1..Len(performed)
        BY <3>2, <1>5
      <4>2. CASE j \in 1..Len(performed)
        BY <4>1, <4>2, <3>4, <1>7
      <4>3. CASE j \notin 1..Len(performed)
        BY <4>1, <4>3, <3>4
      <4>4. QED BY <4>2, <4>3
    <3>7. \A i \in 1..Len(swallowed), j \in 1..Len(performed') : swallowed[i] # performed'[j].n
      <4> SUFFICES ASSUME NEW i \in 1..Len(swallowed), NEW j \in 1..Len(performed')
                   PROVE  swallowed[i] # performed'[j].n
        OBVIOUS
      <4>1. swallowed[i] < m /\ swallowed[i] \in Nat
        BY <1>6, <1>8, <2>2
      <4>2. CASE j \in 1..Len(performed)
        BY <4>2, <3>4, <1>7
      <4>3. CASE j \notin 1..Len(performed)
        BY <4>1, <4>3, <3>4, <1>1
      <4>4. QED BY <4>2, <4>3
    <3>8. swallowed' = swallowed
      BY <2>2
    <3>9. QED BY <3>5, <3>6, <3>7, <3>8, <1>11
  <2>3. CASE /\ spc = "ask" /\ up # <<>> /\ up' = Tail(up) /\ UNCHANGED performed
             /\ swallowed' = Append(swallowed, Head(up).n)
    <3>1. Head(up).n = Taken + 1 /\ Taken' = Taken + 1 /\ Head(up).n \in Nat
      BY <2>3, <1>4
    <3>2. /\ Len(swallowed') = Len(swallowed) + 1
          /\ \A j \in 1..Len(swallowed) : swallowed'[j] = swallowed[j]
          /\ swallowed'[Len(swallowed) + 1] = Head(up).n
      BY <3>1, <2>3, <1>5, AppendProperties
    <3>3. \A j \in 1..Len(swallowed') :
            swallowed'[j] = Taken + 1 \/ (j \in 1..Len(swallowed) /\ swallowed'[j] = swallowed[j])
      BY <3>1, <3>2, <1>5
    <3>4. \A j \in 1..Len(swallowed') : swallowed'[j] <= Taken'
      BY <3>1, <3>3, <1>4, <1>11
    <3>5. \A i \in 1..Len(swallowed'), j \in 1..Len(performed) : swallowed'[i] # performed[j].n
      <4> SUFFICES ASSUME NEW i \in 1..Len(swallowed'), NEW j \in 1..Len(performed)
                   PROVE  swallowed'[i] # performed[j].n
        OBVIOUS
      <4>1. CASE swallowed'[i] = Taken + 1
        <5>1. performed[j].n \in Nat /\ performed[j].n <= Taken
          BY <1>6, <1>7
        <5>2. QED BY <4>1, <5>1, <1>4
      <4>2. CASE i \in 1..Len(swallowed) /\ swallowed'[i] = swallowed[i]
        BY <4>2, <1>7
      <4>3. QED BY <3>3, <4>1, <4>2
    <3>6. performed' = performed
      BY <2>3
    <3>7. QED BY <3>4, <3>5, <3>6, <1>7, <1>11
  <2>4. QED BY <1>2, <2>1, <2>2, <2>3 DEF UsesLine
<1>13. OneUsePerLine'
  <2>1. DOMAIN performed' = 1..Len(performed') /\ DOMAIN swallowed' = 1..Len(swallowed')
    BY <1>1, LenProperties DEF AnyTypes
  <2>2. QED BY <2>1, <1>12 DEF OneUsePerLine
<1>14. QED BY <1>9, <1>10, <1>12, <1>13 DEF UsedOnce

\* Such a step leaves whole frames, and says what the server waits for.
LEMMA ServesFrames ==
    ASSUME AnyInv, NEW m, NEW text, NEW next, Serves(m, text, next), UNCHANGED atTerminal
    PROVE  Framed' /\ Announced'
<1> USE DEF AnyInv
<1>0. AtTerminal' = AtTerminal
  BY DEF AtTerminal
<1>1. /\ m \in Nat /\ m <= Taken' /\ Fits(m) /\ spc' \in {next, "closed"}
      /\ spc \in {"read", "cont", "ask", "hang"} /\ AnyTypes'
  BY ServesTypes
<1>2. /\ Send(text, next) /\ FrameOf(text, m, next) /\ Announces(text, next)
      /\ next \in {"read", "cont", "ask", "hang", "closed"} /\ UNCHANGED hungUp
      /\ next \in {"cont", "ask", "hang"} => current'.n = m
  BY DEF Serves
<1>3. /\ down' \in Seq(Token) /\ down' # <<>> /\ FramesOf(down')
      /\ Last(down').t \notin {"done", "code"}
      /\ Last(down').t # "login" => Last(down').n <= m
      /\ next # "read" => Fits(m)'
      /\ ~hungUp /\ text # <<>> => Last(down') = Last(text)
  BY <1>1, <1>2, SaysFrames
<1>4. spc' # "login"
  BY <1>1, <1>2
<1>5. Last(down').t # "login" => Last(down').n <= Taken'
  <2>1. Last(down').n \in Nat
    <3>1. Len(down') \in 1..Len(down')
      BY <1>3, LenProperties, EmptySeq
    <3>2. down'[Len(down')] \in Token
      BY <3>1, <1>3, ElementOfSeq
    <3>3. QED BY <3>2 DEF Last, Token
  <2>2. Taken' \in Nat
    <3>1. Len(up') \in Nat /\ typed' \in Nat /\ Len(up') <= typed'
      BY <1>1, ServesTypes, LenProperties DEF AnyTypes, WireTypeOK, InOrder
    <3>2. QED BY <3>1 DEF Taken
  <2>3. QED BY <2>1, <2>2, <1>1, <1>3
<1>6. spc' \in {"cont", "ask", "hang"} => Fits(current.n)'
  <2> SUFFICES ASSUME spc' \in {"cont", "ask", "hang"} PROVE Fits(current.n)'
    OBVIOUS
  <2>1. next \in {"cont", "ask", "hang"}
    BY <1>1
  <2>2. current'.n = m /\ Fits(m)'
    BY <2>1, <1>2, <1>3
  <2>3. QED BY <2>2 DEF Fits
<1>7. Framed'
  BY <1>3, <1>4, <1>5, <1>6 DEF Framed
<1>8. Announced'
  <2> SUFFICES ASSUME ~hungUp PROVE Announced'
    BY <1>2 DEF Announced
  <2>1. spc' = next
    BY <1>2 DEF Send
  <2>2. CASE text # <<>>
    <3>1. Last(down') = Last(text)
      BY <1>3, <2>2
    <3>2. /\ next = "ask" => Last(down').t = "ask"
          /\ next = "cont" /\ AtTerminal => Last(down').t = "more"
          /\ next = "read" => \/ Last(down').t = "prompt"
                              \/ performed' # <<>> /\ Last(performed').kind = "mute"
      BY <3>1, <1>2 DEF Announces
    <3>3. QED BY <3>2, <2>1, <1>2, <1>4, <1>0 DEF Announced
  <2>3. CASE text = <<>>
    <3>1. /\ next # "ask" /\ ~(next = "cont" /\ AtTerminal)
          /\ next = "read" => performed' # <<>> /\ Last(performed').kind = "mute"
      BY <2>3, <1>2 DEF Announces
    <3>2. QED BY <3>1, <2>1, <1>2, <1>4, <1>0 DEF Announced
  <2>4. QED BY <2>2, <2>3
<1>9. QED BY <1>7, <1>8

\* A login prompt is answered.
LEMMA GreetsStep ==
    ASSUME AnyInv, NEW tok, NEW next, Greets(tok, next), UNCHANGED atTerminal
    PROVE  AnyInv'
<1> USE DEF AnyInv
<1>1. /\ spc = "login" /\ up # <<>> /\ up' = Tail(up) /\ Send(<<tok>>, next) /\ tok \in Token
      /\ greeted' \in Nat /\ UNCHANGED <<hungUp, typed, current, performed, swallowed>>
      /\ \/ next = "login" /\ tok.t = "login"
         \/ next = "read" /\ tok.t = "prompt" /\ tok.n = 0
  BY DEF Greets
<1>2. /\ up' \in Seq(Line) /\ InOrder' /\ Taken \in Nat /\ Taken' \in Nat /\ Taken' = Taken + 1
  BY <1>1, TakenStep
<1>3. /\ down \in Seq(Token) /\ down # <<>> /\ Len(down) \in Nat \ {0}
      /\ hungUp \in BOOLEAN /\ \A i \in 1..Len(down) : down[i].t = "login"
  BY <1>1, LenProperties, EmptySeq DEF AnyTypes, WireTypeOK, Framed
<1>4. spc' \in {next, "closed"}
  BY <1>1 DEF Send
<1>5. \/ down' = down
      \/ /\ down' \in Seq(Token) /\ Len(down') = Len(down) + 1 /\ down' # <<>>
         /\ \A i \in 1..Len(down) : down'[i] = down[i]
         /\ down'[Len(down) + 1] = tok /\ Last(down') = tok
  <2>1. CASE hungUp
    BY <2>1, <1>1 DEF Send
  <2>2. CASE ~hungUp
    <3>1. down' = Append(down, tok)
      BY <2>2, <1>1, <1>3, AppendIsConcat DEF Send
    <3>2. /\ down' \in Seq(Token) /\ Len(down') = Len(down) + 1
          /\ \A i \in 1..Len(down) : down'[i] = down[i] /\ down'[Len(down) + 1] = tok
      BY <3>1, <1>1, <1>3, AppendProperties
    <3>3. down' # <<>> /\ Last(down') = tok
      <4>1. Len(down') # 0 /\ down'[Len(down) + 1] = tok
        BY <3>2, <1>3
      <4>2. QED BY <4>1, <3>2, EmptySeq DEF Last
    <3>4. QED BY <3>2, <3>3, <1>3
  <2>3. QED BY <2>1, <2>2
<1>6. AnyTypes'
  <2>1. down' \in Seq(Token)
    BY <1>3, <1>5
  <2>2. WireTypeOK'
    BY <1>1, <1>2, <1>3, <2>1 DEF WireTypeOK
  <2>3. spc' \in {"login", "read", "closed"}
    BY <1>1, <1>4
  <2>4. QED BY <1>1, <2>2, <2>3 DEF AnyTypes
<1>7. UsedOnce'
  <2>1. performed \in Seq(Performance) /\ swallowed \in Seq(Nat)
    BY DEF AnyTypes
  <2>2. /\ \A j \in 1..Len(performed) : performed[j].n \in Nat /\ performed[j].n <= Taken
        /\ \A j \in 1..Len(swallowed) : swallowed[j] \in Nat /\ swallowed[j] <= Taken
    <3>1. /\ \A j \in 1..Len(performed) : performed[j] \in Performance
          /\ \A j \in 1..Len(swallowed) : swallowed[j] \in Nat
      BY <2>1, ElementOfSeq
    <3>2. QED BY <3>1 DEF UsedOnce, Performance
  <2>3. /\ \A j \in 1..Len(performed) : performed[j].n <= Taken'
        /\ \A j \in 1..Len(swallowed) : swallowed[j] <= Taken'
    BY <2>2, <1>2
  <2>4. performed' = performed /\ swallowed' = swallowed /\ spc' \notin {"cont", "ask", "hang"}
    BY <1>1, <1>4
  <2>5. OneUsePerLine'
    BY <2>4 DEF UsedOnce, OneUsePerLine
  <2>6. QED BY <2>3, <2>4, <2>5 DEF UsedOnce
<1>8. Framed'
  <2>1. /\ down' # <<>> /\ \A i \in 1..(Len(down') - 1) : down'[i].t = "login"
        /\ Last(down').t \in {"login", "prompt"}
        /\ Last(down').t = "prompt" => Last(down') = tok /\ tok.n = 0
        /\ next = "login" => \A i \in 1..Len(down') : down'[i].t = "login"
    <3>1. CASE down' = down
      <4>1. Last(down) = down[Len(down)] /\ Len(down) \in 1..Len(down)
        BY <1>3 DEF Last
      <4>2. \A i \in 1..(Len(down) - 1) : i \in 1..Len(down)
        BY <1>3
      <4>3. QED BY <3>1, <4>1, <4>2, <1>3
    <3>2. CASE /\ Len(down') = Len(down) + 1 /\ down' # <<>>
               /\ \A i \in 1..Len(down) : down'[i] = down[i]
               /\ down'[Len(down) + 1] = tok /\ Last(down') = tok
      <4>1. \A i \in 1..(Len(down') - 1) : i \in 1..Len(down)
        BY <3>2, <1>3
      <4>2. \A i \in 1..Len(down') : i \in 1..Len(down) \/ i = Len(down) + 1
        BY <3>2, <1>3
      <4>3. QED BY <3>2, <4>1, <4>2, <1>1, <1>3
    <3>3. QED BY <1>5, <3>1, <3>2
  <2>2. FramesOf(down')
    BY <2>1 DEF FramesOf
  <2>3. spc' = "login" => next = "login"
    BY <1>4
  <2>4. Last(down').t # "login" => Last(down').n <= Taken'
    BY <2>1, <1>2
  <2>5. spc' \notin {"cont", "ask", "hang"}
    BY <1>1, <1>4
  <2>6. QED BY <2>1, <2>2, <2>3, <2>4, <2>5 DEF Framed
<1>9. Announced'
  <2> SUFFICES ASSUME ~hungUp PROVE Announced'
    BY <1>1 DEF Announced
  <2>1. spc' = next
    BY <1>1 DEF Send
  <2>2. down' = Append(down, tok)
    BY <1>1, <1>3, AppendIsConcat DEF Send
  <2>3. Last(down') = tok
    <3>1. Len(down') = Len(down) + 1 /\ down'[Len(down) + 1] = tok
      BY <2>2, <1>1, <1>3, AppendProperties
    <3>2. QED BY <3>1 DEF Last
  <2>4. QED BY <2>1, <2>3, <1>1 DEF Announced
<1>10. QED BY <1>2, <1>6, <1>7, <1>8, <1>9

\* The client sends a line.
LEMMA TypesStep ==
    ASSUME AnyInv, NEW l \in Line, l.n = typed + 1, up' = Append(up, l), typed' = typed + 1,
           UNCHANGED <<hungUp, down, serverVars, atTerminal>>
    PROVE  AnyInv'
<1> USE DEF AnyInv
<1>1. up \in Seq(Line) /\ typed \in Nat /\ Len(up) \in Nat /\ Len(up) <= typed
  BY LenProperties DEF AnyTypes, WireTypeOK, InOrder
<1>2. UNCHANGED <<hungUp, down, spc, greeted, current, performed, swallowed, atTerminal>>
  BY DEF serverVars
<1>3. /\ up' \in Seq(Line) /\ Len(up') = Len(up) + 1
      /\ \A j \in 1..Len(up) : up'[j] = up[j]
      /\ up'[Len(up) + 1] = l
  BY <1>1, AppendProperties
<1>4. Taken' = Taken /\ Taken \in Nat /\ Taken + Len(up) = typed
  <2>1. typed' - Len(up') = typed - Len(up)
    BY <1>1, <1>3
  <2>2. typed - Len(up) \in Nat /\ (typed - Len(up)) + Len(up) = typed
    BY <1>1
  <2>3. QED BY <2>1, <2>2 DEF Taken
<1>5. InOrder'
  <2>1. \A j \in 1..Len(up') : up'[j].n = Taken + j
    <3> TAKE j \in 1..Len(up')
    <3>1. CASE j \in 1..Len(up)
      BY <3>1, <1>3 DEF InOrder
    <3>2. CASE j \notin 1..Len(up)
      <4>1. j = Len(up) + 1
        BY <3>2, <1>1, <1>3
      <4>2. Taken + (Len(up) + 1) = typed + 1
        BY <1>1, <1>4
      <4>3. QED BY <4>1, <4>2, <1>3
    <3>3. QED BY <3>1, <3>2
  <2>2. Len(up') <= typed'
    BY <1>1, <1>3
  <2>3. QED BY <2>1, <2>2, <1>4 DEF InOrder
<1>6. AnyTypes'
  <2>1. WireTypeOK' /\ typed' \in Nat
    BY <1>1, <1>2, <1>3 DEF AnyTypes, WireTypeOK
  <2>2. QED BY <2>1, <1>2 DEF AnyTypes
<1>7. UsedOnce'
  BY <1>2, <1>4 DEF UsedOnce, OneUsePerLine
<1>8. Framed'
  BY <1>2, <1>4 DEF Framed, Fits
<1>9. Announced'
  BY <1>2 DEF Announced, AtTerminal
<1>10. QED BY <1>5, <1>6, <1>7, <1>8, <1>9

\* The channel closes, on either side.
LEMMA ClosesStep ==
    ASSUME AnyInv, UNCHANGED <<up, down, typed, greeted, current, performed, swallowed, atTerminal>>,
           hungUp' \in BOOLEAN,
           \/ spc' = spc /\ (hungUp' = hungUp \/ hungUp' = TRUE)
           \/ spc' = "closed"
    PROVE  AnyInv'
<1> USE DEF AnyInv
<1>1. Taken' = Taken
  BY DEF Taken
<1>2. InOrder'
  BY <1>1 DEF InOrder
<1>3. AnyTypes'
  <2>1. WireTypeOK'
    BY DEF AnyTypes, WireTypeOK
  <2>2. QED BY <2>1 DEF AnyTypes
<1>4. UsedOnce'
  BY <1>1 DEF UsedOnce, OneUsePerLine
<1>5. Framed'
  BY <1>1 DEF Framed, Fits
<1>6. Announced'
  BY DEF Announced, AtTerminal
<1>7. QED BY <1>2, <1>3, <1>4, <1>5, <1>6

\* Every step of either kind of client and of its server preserves the invariant.
LEMMA AnyInvStep == AnyInv /\ [BothNext]_<<anyVars, atTerminal>> => AnyInv'
<1> SUFFICES ASSUME AnyInv, [BothNext]_<<anyVars, atTerminal>> PROVE AnyInv'
  OBVIOUS
<1>1. CASE UNCHANGED <<anyVars, atTerminal>>
  <2>1. UNCHANGED <<up, hungUp, down, typed, spc, greeted, current, performed, swallowed, atTerminal>>
    BY <1>1 DEF anyVars, wire, serverVars
  <2>2. hungUp \in BOOLEAN
    BY DEF AnyInv, AnyTypes, WireTypeOK
  <2>3. QED BY <2>1, <2>2, ClosesStep
<1>2. CASE BothNext
  <2>1. UNCHANGED atTerminal
    BY <1>2 DEF BothNext
  <2>2. ASSUME Handles PROVE AnyInv'
    <3>1. ServerActs
      BY <2>2, HandlesActs DEF AnyInv
    <3>2. CASE GivesUp
      <4>1. /\ UNCHANGED <<up, down, typed, greeted, current, performed, swallowed>>
            /\ hungUp' = hungUp /\ spc' = "closed" /\ hungUp \in BOOLEAN
        BY <3>2 DEF GivesUp, wire, AnyInv, AnyTypes, WireTypeOK
      <4>2. QED BY <4>1, <2>1, ClosesStep
    <3>3. CASE \E tok, next : Greets(tok, next)
      BY <3>3, <2>1, GreetsStep
    <3>4. CASE \E m, text, next : Serves(m, text, next)
      <4>1. PICK m, text, next : Serves(m, text, next)
        BY <3>4
      <4>2. AnyTypes' /\ InOrder'
        BY <4>1, ServesTypes
      <4>3. UsedOnce'
        BY <4>1, ServesUses
      <4>4. Framed' /\ Announced'
        BY <4>1, <2>1, ServesFrames
      <4>5. QED BY <4>2, <4>3, <4>4 DEF AnyInv
    <3>5. QED BY <3>1, <3>2, <3>3, <3>4 DEF ServerActs
  <2>3. ASSUME NEW kind \in EngineKinds \cup ShellKinds, NEW marker \in BOOLEAN,
               NEW open \in BOOLEAN,
               LET l == [n |-> typed + 1, kind |-> kind, marker |-> marker, open |-> open]
               IN  Types(l) \/ Human!Types(l)
        PROVE  AnyInv'
    <3> DEFINE l == [n |-> typed + 1, kind |-> kind, marker |-> marker, open |-> open]
    <3>1. /\ typed' = typed + 1 /\ up' = Append(up, l)
          /\ UNCHANGED <<hungUp, down, serverVars, atTerminal>>
      BY <2>1, <2>3 DEF Types, Human!Types, Human!serverVars, serverVars
    <3>2. l \in Line /\ l.n = typed + 1
      BY DEF Line, AnyInv, AnyTypes
    <3> HIDE DEF l
    <3>3. QED BY <3>1, <3>2, TypesStep
  <2>4. CASE HangsUp \/ Human!HangsUp
    <3>1. /\ UNCHANGED <<up, down, typed, greeted, current, performed, swallowed>>
          /\ hungUp' = TRUE /\ spc' = spc
      BY <2>4 DEF HangsUp, Human!HangsUp, serverVars, Human!serverVars
    <3>2. QED BY <3>1, <2>1, ClosesStep
  <2>5. CASE UNCHANGED anyVars
    <3>1. /\ UNCHANGED <<up, down, typed, greeted, current, performed, swallowed>>
          /\ hungUp' = hungUp /\ spc' = spc /\ hungUp \in BOOLEAN
      BY <2>5 DEF anyVars, wire, serverVars, AnyInv, AnyTypes, WireTypeOK
    <3>2. QED BY <3>1, <2>1, ClosesStep
  <2>6. CASE ~atTerminal /\ AnyNext
    BY <2>2, <2>3, <2>4, <2>5, <2>6, AutomationHandles DEF AnyNext
  <2>7. CASE atTerminal /\ Human!AnyNext
    BY <2>2, <2>3, <2>4, <2>5, <2>7, TerminalHandles
       DEF Human!AnyNext, Human!anyVars, Human!wire, Human!serverVars, anyVars, wire, serverVars,
           Human!EngineKinds, Human!ShellKinds, EngineKinds, ShellKinds
  <2>8. QED BY <1>2, <2>6, <2>7 DEF BothNext
<1>3. QED BY <1>1, <1>2

\* The invariant holds in every state.
LEMMA AnyInvariant == BothSpec => []AnyInv
BY AnyInvInit, AnyInvStep, PTL DEF BothSpec

\* Whatever a client sends and whenever it hangs up, for any number of login prompts, lines and
\* exit codes: the transcript handle_shell leaves consists of whole frames in the order of the
\* commands, and where it goes back to reading it has prompted or muted the prompt.
THEOREM WholeFrames == BothSpec => []FramesWellFormed
<1>1. ASSUME AnyInv PROVE FramesWellFormed
  <2>1. Framed /\ Announced
    BY <1>1 DEF AnyInv
  <2>2. QED BY <2>1 DEF Framed, FramesOf, Announced, FramesWellFormed, Tok, Last
<1>2. QED BY <1>1, AnyInvariant, PTL

\* Whatever a client sends, handle_shell uses each line once: as a command, in the order the
\* lines were sent, or as the reply to a password prompt or the rest of another command.
THEOREM LinesUsedOnce == BothSpec => []OneUsePerLine
<1>1. ASSUME AnyInv PROVE OneUsePerLine
  BY <1>1 DEF AnyInv, UsedOnce
<1>2. QED BY <1>1, AnyInvariant, PTL

\* A client, of either kind, that sees a prompt as the last thing the shell sent knows that its
\* next line is taken as a command.
THEOREM PromptMeansCommand == BothSpec => []ReadyAtPrompt
<1>1. ASSUME AnyInv PROVE ReadyAtPrompt
  <2>1. Announced /\ spc \in {"login", "read", "cont", "ask", "hang", "closed"}
    BY <1>1 DEF AnyInv, AnyTypes
  <2>2. CASE atTerminal
    BY <2>1, <2>2 DEF ReadyAtPrompt, Human!PromptMeansReady, Human!Tok, Announced, AtTerminal, Last
  <2>3. CASE ~atTerminal
    BY <2>1, <2>3 DEF ReadyAtPrompt, PromptMeansReady, Tok, Announced, AtTerminal, Last
  <2>4. QED BY <2>2, <2>3
<1>2. QED BY <1>1, AnyInvariant, PTL
================================================================================
