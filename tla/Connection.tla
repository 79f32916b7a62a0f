------------------------------- MODULE Connection -------------------------------
(***************************************************************************)
(* serve_connection of clicr_sim.py and the callbacks of its SimServer:    *)
(* from the accepted socket to the service a client gets and the end of    *)
(* its thread.                                                             *)
(*                                                                         *)
(* Each connection has two threads: paramiko's, which runs the callbacks   *)
(* as the client's messages arrive, and the one main starts, which waits   *)
(* for a channel and a request and then serves it.  They share the flags   *)
(* of SimServer without a lock.  What handle_shell does with its channel   *)
(* is in ShellServer.  Algorithms, keys and log lines are left out.        *)
(***************************************************************************)
EXTENDS Naturals, TLC

CONSTANTS
    Conns,        \* accepted sockets
    MaxChannels,  \* session channels a client opens: a bound of the model
    Users,        \* user names
    NeIds,        \* NE ids a workflow can configure
    NoName,       \* no user name, no NE id
    Clients,      \* what clients log in with: [user, ne] records
    DefaultProfiles, ScenarioProfiles,         \* names of profiles
    WorkflowUsers, ScenarioUsers, MappedUsers, \* user name -> profile, by where it is said
    NodeNames, ScenarioNodes,                  \* NE id -> profile: DpaWorld.names, ne_ids
    RepoUsers                                  \* DEFAULT_REPO_USERS

ASSUME ChannelsAssumption == MaxChannels \in Nat
ASSUME NamesAssumption ==
    /\ NoName \notin Users /\ NoName \notin NeIds
    /\ Clients \subseteq [user : Users, ne : NeIds \cup {NoName}]
ASSUME ProfilesAssumption == {"sbc", "repo"} \subseteq DefaultProfiles

VARIABLES
    client,    \* what the client of the connection logs in with
    link,      \* the transport
    username,  \* server.username
    ne_id,     \* server.ne_id
    asked,     \* channel -> what was requested on it
    is_sftp,   \* server.is_sftp
    exec_cmd,  \* server.exec_cmd: the channel whose command it is; 0: None or ""
    event,     \* server.event
    callback,  \* the channel whose request is being answered, 0: none
    sftp,      \* the channels served by a thread of paramiko.SFTPServer
    tpc,       \* where serve_connection is
    chan,      \* the channel it accepted, 0: None
    profile,   \* the profile it picked
    overdue,   \* 10 s of its wait have passed without a request
    served,    \* history: the service it gave, as [kind, chan, cmd]
    known      \* history: what had been requested when its wait ended

\* build_profiles and main: the scenario's profiles come on top of the built-in ones, its
\* users override the workflow's, and --map overrides both; ne_ids overrides the nodes'
\* own names.
Profiles == DefaultProfiles \cup ScenarioProfiles
UserMap == MappedUsers @@ ScenarioUsers @@ WorkflowUsers
NeMap == ScenarioNodes @@ NodeNames

Channels == 1..MaxChannels
Requests == {"shell", "exec", "blank", "sftp"}    \* "blank": exec of an empty command
Nothing == [k \in Channels |-> "none"]
NoService == [kind |-> "none", chan |-> 0, cmd |-> 0]

login   == <<client, username, ne_id>>
flags   == <<asked, is_sftp, exec_cmd, event, callback, sftp>>
serving == <<tpc, chan, profile, overdue, served, known>>
vars == <<login, link, flags, serving>>

Init ==
    /\ client \in [Conns -> Clients]
    /\ link = [c \in Conns |-> "new"]
    /\ username = [c \in Conns |-> NoName]
    /\ ne_id = [c \in Conns |-> NoName]
    /\ asked = [c \in Conns |-> Nothing]
    /\ is_sftp = [c \in Conns |-> FALSE]
    /\ exec_cmd = [c \in Conns |-> 0]
    /\ event = [c \in Conns |-> FALSE]
    /\ callback = [c \in Conns |-> 0]
    /\ sftp = [c \in Conns |-> {}]
    /\ tpc = [c \in Conns |-> "start"]
    /\ chan = [c \in Conns |-> 0]
    /\ profile = [c \in Conns |-> "sbc"]
    /\ overdue = [c \in Conns |-> FALSE]
    /\ served = [c \in Conns |-> NoService]
    /\ known = [c \in Conns |-> Nothing]

TypeOK ==
    /\ client \in [Conns -> Clients]
    /\ link \in [Conns -> {"new", "auth", "up", "down"}]
    /\ username \in [Conns -> Users \cup {NoName}]
    /\ ne_id \in [Conns -> NeIds \cup {NoName}]
    /\ asked \in [Conns -> [Channels -> {"none", "open"} \cup Requests]]
    /\ is_sftp \in [Conns -> BOOLEAN]
    /\ exec_cmd \in [Conns -> 0..MaxChannels]
    /\ event \in [Conns -> BOOLEAN]
    /\ callback \in [Conns -> 0..MaxChannels]
    /\ sftp \in [Conns -> SUBSET Channels]
    /\ tpc \in [Conns -> {"start", "accept", "wait", "sftp?", "chan?", "exec?",
                          "exec!", "exec", "answer", "shell", "idle", "close", "done"}]
    /\ chan \in [Conns -> 0..MaxChannels]
    /\ profile \in [Conns -> Profiles]
    /\ overdue \in [Conns -> BOOLEAN]
    /\ served \in [Conns -> [kind : {"none", "shell", "exec"}, chan : 0..MaxChannels,
                             cmd : 0..MaxChannels]]
    /\ known \in [Conns -> [Channels -> {"none", "open"} \cup Requests]]

--------------------------------------------------------------------------------
\* An NE id that is mapped to a profile wins, then the user's, then the default of
\* repository users; a profile that does not exist is the default one.
Named(name) == IF name \in Profiles THEN name ELSE "sbc"

ProfileOfUser(u) ==
    Named(IF u \in DOMAIN UserMap THEN UserMap[u]
          ELSE IF u \in RepoUsers THEN "repo" ELSE "sbc")

HasNode(n) == n \in DOMAIN NeMap /\ NeMap[n] \in Profiles

PickProfile(u, n) == IF HasNode(n) THEN NeMap[n] ELSE ProfileOfUser(u)

--------------------------------------------------------------------------------
(* The client's messages, and paramiko's thread, which answers them. *)

\* start_server returns when the algorithms are negotiated, or raises: the client left.
Negotiate(c) ==
    /\ link[c] = "new" /\ tpc[c] = "start"
    /\ link' = [link EXCEPT ![c] = "auth"]
    /\ tpc' = [tpc EXCEPT ![c] = "accept"]
    /\ UNCHANGED <<login, flags, chan, profile, overdue, served, known>>

\* Mutant: the client is let in without credentials.
AuthNoneSucceeds(c) ==
    /\ link[c] = "auth"
    /\ username' = [username EXCEPT ![c] = client[c].user]
    /\ link' = [link EXCEPT ![c] = "up"]
    /\ UNCHANGED <<client, ne_id, flags, serving>>

\* check_auth_none: a client asks first which methods there are.
AuthNone(c) ==
    /\ link[c] = "auth"
    /\ username' = [username EXCEPT ![c] = client[c].user]
    /\ UNCHANGED <<client, ne_id, link, flags, serving>>

\* check_auth_password, check_auth_publickey: for clients without an NE id.
AuthPassword(c) ==
    /\ link[c] = "auth" /\ client[c].ne = NoName
    /\ username' = [username EXCEPT ![c] = client[c].user]
    /\ link' = [link EXCEPT ![c] = "up"]
    /\ UNCHANGED <<client, ne_id, flags, serving>>

\* check_auth_interactive and its response: the answer to "NE_ID: " may be empty.
AuthInteractive(c) ==
    /\ link[c] = "auth"
    /\ username' = [username EXCEPT ![c] = client[c].user]
    /\ ne_id' = [ne_id EXCEPT ![c] = client[c].ne]
    /\ link' = [link EXCEPT ![c] = "up"]
    /\ UNCHANGED <<client, flags, serving>>

\* check_channel_request: session channels, in the order of their numbers.
OpenChannel(c) ==
    /\ link[c] = "up" /\ callback[c] = 0
    /\ \E k \in Channels :
        /\ \A j \in Channels : asked[c][j] = "none" <=> j >= k
        /\ asked' = [asked EXCEPT ![c][k] = "open"]
    /\ UNCHANGED <<login, link, is_sftp, exec_cmd, event, callback, sftp, serving>>

\* check_channel_{shell,exec,subsystem}_request: the flag.
Request(c, k, r) ==
    /\ link[c] = "up" /\ callback[c] = 0 /\ asked[c][k] = "open"
    /\ asked' = [asked EXCEPT ![c][k] = r]
    /\ is_sftp' = IF r = "sftp" THEN [is_sftp EXCEPT ![c] = TRUE] ELSE is_sftp
    /\ exec_cmd' = [exec_cmd EXCEPT ![c] = IF r = "exec" THEN k ELSE IF r = "blank" THEN 0 ELSE @]
    /\ callback' = [callback EXCEPT ![c] = k]
    /\ UNCHANGED <<login, link, event, sftp, serving>>

\* The event; then paramiko starts the subsystem's thread.
Signal(c) ==
    /\ callback[c] # 0
    /\ event' = [event EXCEPT ![c] = TRUE]
    /\ sftp' = [sftp EXCEPT ![c] =
                   IF asked[c][callback[c]] = "sftp" THEN @ \cup {callback[c]} ELSE @]
    /\ callback' = [callback EXCEPT ![c] = 0]
    /\ UNCHANGED <<login, link, asked, is_sftp, exec_cmd, serving>>

\* The client disconnects, or the network does.
Disconnect(c) ==
    /\ link[c] # "down"
    /\ link' = [link EXCEPT ![c] = "down"]
    /\ UNCHANGED <<login, flags, serving>>

ClientStep(c) ==
    \/ Negotiate(c) \/ AuthNone(c) \/ AuthPassword(c) \/ AuthInteractive(c)
    \/ OpenChannel(c)
    \/ \E k \in Channels, r \in Requests : Request(c, k, r)
    \/ Signal(c)

--------------------------------------------------------------------------------
(* The thread of serve_connection. *)

GoTo(c, place) == tpc' = [tpc EXCEPT ![c] = place]

\* start_server raises when the client is gone.
NegotiationFails(c) ==
    /\ tpc[c] = "start" /\ link[c] = "down" /\ GoTo(c, "close")
    /\ UNCHANGED <<login, link, flags, chan, profile, overdue, served, known>>

\* t.accept(30): the first channel, or None after 30 s.
Accept(c) ==
    /\ tpc[c] = "accept"
    /\ chan' = [chan EXCEPT ![c] =
                   IF \E k \in Channels : asked[c][k] # "none" THEN 1 ELSE 0]
    /\ GoTo(c, "wait")
    /\ UNCHANGED <<login, link, flags, profile, overdue, served, known>>

\* Mutant: the request is not waited for.
WaitSkipped(c) ==
    /\ tpc[c] = "wait" /\ GoTo(c, "sftp?")
    /\ profile' = [profile EXCEPT ![c] = PickProfile(username[c], ne_id[c])]
    /\ known' = [known EXCEPT ![c] = asked[c]]
    /\ UNCHANGED <<login, link, flags, chan, overdue, served>>

TenSeconds(c) ==
    /\ tpc[c] = "wait" /\ ~event[c] /\ ~overdue[c]
    /\ overdue' = [overdue EXCEPT ![c] = TRUE]
    /\ UNCHANGED <<login, link, flags, tpc, chan, profile, served, known>>

\* server.event.wait(10), then the profile.
Wait(c) ==
    /\ tpc[c] = "wait" /\ (event[c] \/ overdue[c]) /\ GoTo(c, "sftp?")
    /\ known' = [known EXCEPT ![c] = asked[c]]
    /\ profile' = [profile EXCEPT ![c] = PickProfile(username[c], ne_id[c])]
    /\ UNCHANGED <<login, link, flags, chan, overdue, served>>

\* Mutant: a command comes before an SFTP session.
CheckSftpAfterExec(c) ==
    /\ tpc[c] = "sftp?" /\ GoTo(c, IF is_sftp[c] /\ exec_cmd[c] = 0 THEN "idle" ELSE "chan?")
    /\ UNCHANGED <<login, link, flags, chan, profile, overdue, served, known>>

\* if server.is_sftp; if chan is None: the thread then only waits for the client to leave.
CheckSftp(c) ==
    /\ tpc[c] = "sftp?" /\ GoTo(c, IF is_sftp[c] THEN "idle" ELSE "chan?")
    /\ UNCHANGED <<login, link, flags, chan, profile, overdue, served, known>>

CheckChannel(c) ==
    /\ tpc[c] = "chan?" /\ GoTo(c, IF chan[c] = 0 THEN "idle" ELSE "exec?")
    /\ UNCHANGED <<login, link, flags, chan, profile, overdue, served, known>>

\* if server.exec_cmd: ..., and the shell for everything else.
CheckExec(c) ==
    /\ tpc[c] = "exec?" /\ GoTo(c, IF exec_cmd[c] # 0 THEN "exec!" ELSE "shell")
    /\ served' = IF exec_cmd[c] # 0 THEN served
                 ELSE [served EXCEPT ![c] = [kind |-> "shell", chan |-> chan[c], cmd |-> 0]]
    /\ UNCHANGED <<login, link, flags, chan, profile, overdue, known>>

\* handle_exec(chan, server.exec_cmd, ...) reads the flag again.
StartExec(c) ==
    /\ tpc[c] = "exec!" /\ GoTo(c, "exec")
    /\ served' = [served EXCEPT ![c] = [kind |-> "exec", chan |-> chan[c], cmd |-> exec_cmd[c]]]
    /\ UNCHANGED <<login, link, flags, chan, profile, overdue, known>>

\* handle_exec calls the engine for its one command.
HandleExec(c) ==
    /\ tpc[c] = "exec" /\ GoTo(c, "answer")
    /\ UNCHANGED <<login, link, flags, chan, profile, overdue, served, known>>

\* handle_exec has sent its answer, or failed to; handle_shell returns when its client
\* leaves or idles out, or on "exit".
EndService(c) ==
    /\ tpc[c] \in {"answer", "shell"} /\ GoTo(c, "close")
    /\ UNCHANGED <<login, link, flags, chan, profile, overdue, served, known>>

\* Mutant: the loop asks the channel, and there may be none.
LeaveIdleOfChannel(c) ==
    /\ tpc[c] = "idle" /\ link[c] = "down" /\ chan[c] # 0 /\ GoTo(c, "close")
    /\ UNCHANGED <<login, link, flags, chan, profile, overdue, served, known>>

\* while t.is_active()
LeaveIdle(c) ==
    /\ tpc[c] = "idle" /\ link[c] = "down" /\ GoTo(c, "close")
    /\ UNCHANGED <<login, link, flags, chan, profile, overdue, served, known>>

\* finally: t.close()
CloseTransport(c) ==
    /\ tpc[c] = "close" /\ GoTo(c, "done")
    /\ link' = [link EXCEPT ![c] = "down"]
    /\ UNCHANGED <<login, flags, chan, profile, overdue, served, known>>

ThreadStep(c) ==
    \/ NegotiationFails(c) \/ Accept(c) \/ TenSeconds(c) \/ Wait(c) \/ CheckSftp(c) \/ CheckChannel(c)
    \/ CheckExec(c) \/ StartExec(c) \/ HandleExec(c) \/ EndService(c) \/ LeaveIdle(c) \/ CloseTransport(c)

--------------------------------------------------------------------------------
\* A session that serves commands has the personality of its node or user, for clients
\* that name their node by the interactive login.  Hence check_auth_none must not succeed:
\* it "would short-circuit the keyboard-interactive exchange that carries ne_id, and both
\* DPA nodes would collapse onto one personality" (clicr_sim.py:114-116).
OwnPersonality ==
    \A c \in Conns : served[c].kind # "none" =>
        profile[c] = PickProfile(client[c].user, client[c].ne)

\* A client with one channel gets the service it asked for, if its request came within
\* the 10 s of the wait (clicr_sim.py:532): an exec request of an empty command opens a
\* shell, and so does every request that comes too late.
ServedAsAsked ==
    \A c \in Conns :
        served[c].kind # "none" /\ ~overdue[c] /\ (\A k \in Channels \ {1} : asked[c][k] = "none")
        => \/ asked[c][1] = "exec" /\ served[c] = [kind |-> "exec", chan |-> 1, cmd |-> 1]
           \/ asked[c][1] \in {"shell", "blank"} /\ served[c] = [kind |-> "shell", chan |-> 1, cmd |-> 0]

\* An SFTP session that was asked for in time is only broken off by its client, whatever
\* was requested on its other channels and whenever: its thread starts no service whose
\* end would close the transport (clicr_sim.py:545-549).
SftpUncut ==
    \A c \in Conns : (\E k \in Channels : known[c][k] = "sftp") =>
        /\ served[c].kind = "none"
        /\ tpc[c] \in {"close", "done"} => link[c] = "down"

--------------------------------------------------------------------------------
Next == \E c \in Conns : ClientStep(c) \/ Disconnect(c) \/ ThreadStep(c)

Spec == Init /\ [][Next]_vars

\* The client may stop anywhere; the server's thread is a thread of its process, and each
\* of its waits but that for the client to leave has a deadline.
FairSpec == Spec /\ \A c \in Conns : WF_vars(ThreadStep(c))

\* Threads do not pile up: whatever a client did before it left, its thread ends.
ThreadsEnd == \A c \in Conns : (link[c] = "down") ~> (tpc[c] = "done")
================================================================================
