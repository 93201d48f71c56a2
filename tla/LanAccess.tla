----------------------------- MODULE LanAccess ------------------------------
(***************************************************************************)
(* LAN access of the desktop app (apps/admin-template/src-tauri/src/       *)
(* lib.rs): the persisted switches for the embedded server and for         *)
(* auth-disabled mode (core/src/settings.rs), the commands that change     *)
(* them, the server that is running because of them, and what a restart of *)
(* the app, planned or not, makes of what was persisted.                   *)
(*                                                                         *)
(* Every key of the settings table is read and written by a statement of   *)
(* its own, and the commands run concurrently: one action is one statement *)
(* or one step on AppState.server.  server_apply keeps the mutex of        *)
(* AppState.server locked while it waits for the old server to stop (the   *)
(* guard is a temporary of its `if let`).  A server that is told to stop   *)
(* closes its listener, and has stopped when its last response has ended;  *)
(* an event stream (crates/banto-server/src/events.rs) ends when its       *)
(* client goes.                                                            *)
(*                                                                         *)
(* Left out: the role check and the audit record of each command, the role *)
(* of auth-disabled mode, and the keyring; the two autologin keys are one. *)
(* Two addresses with one port are taken to clash; port 0 is not modelled. *)
(***************************************************************************)
EXTENDS Integers, Sequences

CONSTANTS
    Commands,   \* commands that can be in progress at the same time
    Binds, Ports,
    Users,      \* accounts autologin can be set up for
    NoUser,
    Clients,    \* browsers that subscribe to /api/events
    NoServer

VARIABLES
    settings,   \* the persisted keys
    pc,         \* where each command is
    call,       \* its arguments
    seen,       \* AuthSettings::disabled, as it read it
    todo,       \* the keys it has still to write
    server,     \* AppState.server
    stopping,   \* the server that RunningServer::stop is waiting for
    sockets,    \* ports this process listens on
    draining,   \* those of servers that have their shutdown signal
    streams,    \* event streams <<client, port>> of the other servers
    held,       \* clients with an event stream of the server `stopping`
    broken,     \* a write of a server_apply has failed since the last start
    overlap     \* two commands have been in progress at the same time

persistence == <<settings, seen, todo>>
lanHistory == <<broken, overlap>>
serving == <<server, stopping, sockets, draining, streams, held>>
lanVars == <<persistence, pc, call, serving, lanHistory>>

Configs == [bind : Binds, port : Ports]

ASSUME ServerAssumption == NoServer \notin Configs

-----------------------------------------------------------------------------
NoCall == [kind |-> "none", enabled |-> FALSE, config |-> NoServer,
           disabled |-> FALSE, user |-> NoUser]

(* A command that has returned is forgotten. *)
Proceed(c, label) ==
    /\ pc' = [pc EXCEPT ![c] = label]
    /\ call' = IF label = "idle" THEN [call EXCEPT ![c] = NoCall] ELSE call

(* The mutex of AppState.server is free. *)
Unlocked == stopping = NoServer

Write(key, value) == [key |-> key, value |-> value]

ServerWrites(enabled, config) ==
    <<Write("enabled", enabled), Write("bind", config.bind), Write("port", config.port)>>

AuthWrites(disabled, user) == <<Write("disabled", disabled), Write("autologin", user)>>

ServerCall(enabled, config) ==
    [NoCall EXCEPT !.kind = "server", !.enabled = enabled, !.config = config]

Persisted == [bind |-> settings.bind, port |-> settings.port]

Idle(c) == pc[c] = "idle"
Quiet == \A c \in Commands : Idle(c)

LanInit ==
    /\ settings \in [enabled : {FALSE}, bind : Binds, port : Ports,
                     disabled : {FALSE}, autologin : {NoUser}]
    /\ pc = [c \in Commands |-> "idle"]
    /\ call = [c \in Commands |-> NoCall]
    /\ seen = [c \in Commands |-> FALSE]
    /\ todo = [c \in Commands |-> <<>>]
    /\ server = NoServer /\ stopping = NoServer
    /\ sockets = {} /\ draining = {}
    /\ streams = {} /\ held = {}
    /\ broken = FALSE /\ overlap = FALSE

-----------------------------------------------------------------------------
Begin(c, record, label) ==
    /\ Idle(c)
    /\ call' = [call EXCEPT ![c] = record]
    /\ pc' = [pc EXCEPT ![c] = label]
    /\ overlap' = (overlap \/ ~Quiet)
    /\ UNCHANGED <<settings, seen, serving, broken>>

(* server_apply: first set_server_config ... *)

ServerApply(c, enabled, config) ==
    /\ Begin(c, ServerCall(enabled, config), IF enabled THEN "checkAuth" ELSE "write")
    /\ todo' = [todo EXCEPT ![c] = ServerWrites(enabled, config)]

(* A slip: the guard of set_server_config is missing. *)
CheckAuthNever(c) ==
    /\ pc[c] = "checkAuth"
    /\ Proceed(c, "write")
    /\ UNCHANGED <<persistence, serving, lanHistory>>

CheckAuth(c) ==
    /\ pc[c] = "checkAuth"
    /\ IF settings.disabled
         THEN Proceed(c, "idle") /\ todo' = [todo EXCEPT ![c] = <<>>]
         ELSE Proceed(c, "write") /\ todo' = todo
    /\ UNCHANGED <<settings, seen, serving, lanHistory>>

(* A command writes its keys one by one. *)
WriteNext(c) ==
    /\ pc[c] = "write"
    /\ settings' = [settings EXCEPT ![Head(todo[c]).key] = Head(todo[c]).value]
    /\ todo' = [todo EXCEPT ![c] = Tail(@)]
    /\ Proceed(c, IF Len(todo[c]) > 1 THEN "write"
               ELSE IF call[c].kind = "server" THEN "take" ELSE "idle")
    /\ UNCHANGED <<seen, serving, lanHistory>>

(* A statement fails: the command ends there, and what it has already      *)
(* written stays.                                                          *)
StatementFails(c) ==
    /\ pc[c] \in {"readMode", "readAutologin", "checkAuth", "checkServer", "write"}
    /\ todo' = [todo EXCEPT ![c] = <<>>]
    /\ seen' = [seen EXCEPT ![c] = FALSE]
    /\ Proceed(c, "idle")
    /\ broken' = (broken \/ (call[c].kind = "server" /\ pc[c] = "write"))
    /\ UNCHANGED <<settings, serving, overlap>>

(* ... then take the running server out, and stop it ... *)
AfterStop(c) == IF call[c].enabled THEN "start" ELSE "store"

(* A slip: the old server is stopped, but not taken out. *)
TakeByRef(c) ==
    /\ pc[c] = "take" /\ Unlocked
    /\ IF server = NoServer
         THEN /\ Proceed(c, AfterStop(c))
              /\ UNCHANGED <<stopping, draining, streams, held>>
         ELSE /\ Proceed(c, "stopping")
              /\ stopping' = server
              /\ draining' = draining \cup {server.port}
              /\ held' = {client \in Clients : <<client, server.port>> \in streams}
              /\ streams' = streams \ (Clients \X {server.port})
    /\ UNCHANGED <<persistence, server, sockets, lanHistory>>

Take(c) ==
    /\ pc[c] = "take" /\ Unlocked
    /\ server' = NoServer
    /\ IF server = NoServer
         THEN /\ Proceed(c, AfterStop(c))
              /\ UNCHANGED <<stopping, draining, streams, held>>
         ELSE /\ Proceed(c, "stopping")
              /\ stopping' = server
              /\ draining' = draining \cup {server.port}
              /\ held' = {client \in Clients : <<client, server.port>> \in streams}
              /\ streams' = streams \ (Clients \X {server.port})
    /\ UNCHANGED <<persistence, sockets, lanHistory>>

(* A slip: the mutex is never unlocked. *)
StoppedLocked(c) ==
    /\ pc[c] = "stopping"
    /\ stopping.port \notin draining /\ held = {}
    /\ Proceed(c, AfterStop(c))
    /\ UNCHANGED <<persistence, serving, lanHistory>>

(* RunningServer::stop returns: the last response has ended. *)
Stopped(c) ==
    /\ pc[c] = "stopping"
    /\ stopping.port \notin draining /\ held = {}
    /\ stopping' = NoServer
    /\ Proceed(c, AfterStop(c))
    /\ UNCHANGED <<persistence, server, sockets, draining, streams, held, lanHistory>>

(* ... then start one if asked to, which fails if the port is taken, here  *)
(* or by another process ...                                               *)
StartServer(c) ==
    /\ pc[c] = "start"
    /\ call[c].config.port \notin sockets
    /\ sockets' = sockets \cup {call[c].config.port}
    /\ Proceed(c, "store")
    /\ UNCHANGED <<persistence, server, stopping, draining, streams, held, lanHistory>>

StartFails(c) ==
    /\ pc[c] = "start"
    /\ Proceed(c, "idle")
    /\ UNCHANGED <<persistence, serving, lanHistory>>

(* ... and keep it.  A server that somebody else has put there meanwhile   *)
(* is dropped, which is its shutdown signal, too.                          *)
Store(c) ==
    /\ pc[c] = "store" /\ Unlocked
    /\ server' = IF call[c].enabled THEN call[c].config ELSE NoServer
    /\ IF server = NoServer
         THEN UNCHANGED <<draining, streams>>
         ELSE /\ draining' = draining \cup {server.port}
              /\ streams' = streams \ (Clients \X {server.port})
    /\ Proceed(c, "idle")
    /\ UNCHANGED <<persistence, stopping, sockets, held, lanHistory>>

(* A slip: the port stays taken. *)
ClosedKeepsPort(port) ==
    /\ port \in draining
    /\ draining' = draining \ {port}
    /\ UNCHANGED <<persistence, pc, call, server, stopping, sockets, streams, held, lanHistory>>

(* A server with its shutdown signal closes its listener. *)
Closed(port) ==
    /\ port \in draining
    /\ draining' = draining \ {port}
    /\ sockets' = sockets \ {port}
    /\ UNCHANGED <<persistence, pc, call, server, stopping, streams, held, lanHistory>>

-----------------------------------------------------------------------------
(* auth_config_apply, autologin_enable and autologin_disable read the      *)
(* whole AuthSettings, change their part and write the whole back.         *)

AuthApply(c, disabled) ==
    /\ Begin(c, [NoCall EXCEPT !.kind = "auth", !.disabled = disabled], "readMode")
    /\ UNCHANGED todo

Autologin(c, user) ==
    /\ Begin(c, [NoCall EXCEPT !.kind = "autologin", !.user = user], "readMode")
    /\ UNCHANGED todo

ReadMode(c) ==
    /\ pc[c] = "readMode"
    /\ seen' = [seen EXCEPT ![c] = settings.disabled]
    /\ Proceed(c, "readAutologin")
    /\ UNCHANGED <<settings, todo, serving, lanHistory>>

(* A slip: the change is applied on top of AuthSettings::default. *)
ReadNothing(c) ==
    /\ pc[c] = "readAutologin"
    /\ seen' = [seen EXCEPT ![c] = FALSE]
    /\ LET disabled == call[c].kind = "auth" /\ call[c].disabled
           user     == IF call[c].kind = "autologin" THEN call[c].user ELSE NoUser
       IN  /\ todo' = [todo EXCEPT ![c] = AuthWrites(disabled, user)]
           /\ Proceed(c, IF disabled THEN "checkServer" ELSE "write")
    /\ UNCHANGED <<settings, serving, lanHistory>>

ReadAutologin(c) ==
    /\ pc[c] = "readAutologin"
    /\ seen' = [seen EXCEPT ![c] = FALSE]
    /\ LET disabled == IF call[c].kind = "auth" THEN call[c].disabled ELSE seen[c]
           user     == IF call[c].kind = "autologin" THEN call[c].user
                                                     ELSE settings.autologin
       IN  /\ todo' = [todo EXCEPT ![c] = AuthWrites(disabled, user)]
           /\ Proceed(c, IF disabled THEN "checkServer" ELSE "write")
    /\ UNCHANGED <<settings, serving, lanHistory>>

(* The guard of set_auth_config *)
CheckServer(c) ==
    /\ pc[c] = "checkServer"
    /\ IF settings.enabled
         THEN Proceed(c, "idle") /\ todo' = [todo EXCEPT ![c] = <<>>]
         ELSE Proceed(c, "write") /\ todo' = todo
    /\ UNCHANGED <<settings, seen, serving, lanHistory>>

-----------------------------------------------------------------------------
(* The world around: browsers, and the end of the process at any moment.   *)

OpenStream(client, port) ==
    /\ port \in sockets \ draining
    /\ streams' = streams \cup {<<client, port>>}
    /\ UNCHANGED <<persistence, pc, call, server, stopping, sockets, draining, held, lanHistory>>

CloseStream(client, port) ==
    /\ streams' = streams \ {<<client, port>>}
    /\ UNCHANGED <<persistence, pc, call, server, stopping, sockets, draining, held, lanHistory>>

CloseHeld(client) ==
    /\ held' = held \ {client}
    /\ UNCHANGED <<persistence, pc, call, server, stopping, sockets, draining, streams, lanHistory>>

(* The app ends, or crashes, and run() starts it anew: the server comes up *)
(* if it was left enabled, unless auth-disabled mode is on as well or the  *)
(* port is taken.                                                          *)
Restart ==
    /\ \/ /\ settings.enabled /\ ~settings.disabled
          /\ server' = Persisted /\ sockets' = {settings.port}
       \/ server' = NoServer /\ sockets' = {}
    /\ stopping' = NoServer /\ draining' = {} /\ streams' = {} /\ held' = {}
    /\ pc' = [c \in Commands |-> "idle"]
    /\ call' = [c \in Commands |-> NoCall]
    /\ seen' = [c \in Commands |-> FALSE]
    /\ todo' = [c \in Commands |-> <<>>]
    /\ broken' = FALSE
    /\ UNCHANGED <<settings, overlap>>

Step(c) ==
    \/ CheckAuth(c) \/ WriteNext(c) \/ Take(c) \/ Stopped(c)
    \/ StartServer(c) \/ StartFails(c) \/ Store(c)
    \/ ReadMode(c) \/ ReadAutologin(c) \/ CheckServer(c)

LanNext ==
    \/ \E c \in Commands :
         \/ \E enabled \in BOOLEAN, config \in Configs : ServerApply(c, enabled, config)
         \/ \E disabled \in BOOLEAN : AuthApply(c, disabled)
         \/ \E user \in Users \cup {NoUser} : Autologin(c, user)
         \/ Step(c)
         \/ StatementFails(c)
    \/ \E port \in Ports : Closed(port)
    \/ \E client \in Clients :
         \/ \E port \in Ports : OpenStream(client, port) \/ CloseStream(client, port)
         \/ CloseHeld(client)
    \/ Restart

LanSpec == LanInit /\ [][LanNext]_lanVars

(* A command that can take a step again and again takes one: the runtime   *)
(* polls what is ready, and the mutex of AppState.server is handed on in   *)
(* the order of arrival, so nobody waits for ever while it is released     *)
(* again and again.  A signalled server closes its listener.  Nothing is   *)
(* assumed of browsers.                                                    *)
Fairness ==
    /\ \A c \in Commands : SF_lanVars(Step(c))
    /\ \A port \in Ports : WF_lanVars(Closed(port))

FairSpec == LanSpec /\ Fairness

-----------------------------------------------------------------------------
(* Properties *)

Settings == [enabled : BOOLEAN, bind : Binds, port : Ports,
             disabled : BOOLEAN, autologin : Users \cup {NoUser}]

CallRecords == [kind : {"none", "server", "auth", "autologin"}, enabled : BOOLEAN,
                config : Configs \cup {NoServer}, disabled : BOOLEAN,
                user : Users \cup {NoUser}]

(* Type invariant: a command has something to write exactly while it is    *)
(* about to, and one at a time keeps the server's mutex locked.            *)
LanTypeOK ==
    /\ settings \in Settings
    /\ pc \in [Commands -> {"idle", "checkAuth", "write", "take", "stopping", "start",
                         "store", "readMode", "readAutologin", "checkServer"}]
    /\ call \in [Commands -> CallRecords]
    /\ seen \in [Commands -> BOOLEAN]
    /\ server \in Configs \cup {NoServer} /\ stopping \in Configs \cup {NoServer}
    /\ sockets \subseteq Ports /\ draining \subseteq sockets
    /\ streams \subseteq Clients \X Ports /\ held \subseteq Clients
    /\ broken \in BOOLEAN /\ overlap \in BOOLEAN
    /\ \A c \in Commands :
         /\ (pc[c] \in {"checkAuth", "checkServer", "write"}) <=> (todo[c] # <<>>)
         /\ pc[c] \in {"take", "stopping", "start", "store"} => call[c].kind = "server"
    /\ Unlocked <=> \A c \in Commands : pc[c] # "stopping"
    /\ \A c, d \in Commands : pc[c] = "stopping" /\ pc[d] = "stopping" => c = d

(* set_server_config: auth-disabled mode "must never be combined with an   *)
(* unauthenticated LAN-exposed server"; run() calls the combination "a     *)
(* state the app itself would never have written".  The code breaks it, if   *)
(* only in an overlap: BothNeedsOverlap.                                   *)
NeverBoth == ~(settings.enabled /\ settings.disabled)

(* It takes an overlap of commands to write it: failed statements and ends *)
(* of the app between two writes of one command never do.                  *)
BothNeedsOverlap == settings.enabled /\ settings.disabled => overlap

(* AppState.server is "`Some` while LAN access is enabled and successfully *)
(* bound; `None` otherwise": once no command is in progress, a running     *)
(* server is one the settings ask for, on the address they name, unless    *)
(* commands have overlapped or a write has failed since the last start.    *)
ServerAsPersisted ==
    Quiet /\ ~overlap /\ ~broken /\ server # NoServer
      => settings.enabled /\ server = Persisted

Started(c, port) == pc[c] = "store" /\ call[c].enabled /\ call[c].config.port = port

(* A socket is a loan to exactly one party: the server in AppState.server, *)
(* which listens as long as it is there, a server on its way down, or the  *)
(* one a command has just started.  So no overlap of commands leaves a     *)
(* server listening that nobody can stop.                                  *)
NoSocketForgotten ==
    \A port \in sockets :
      \/ server # NoServer /\ server.port = port
      \/ port \in draining
      \/ \E c \in Commands : Started(c, port)

(* The server in AppState.server listens, and is the only one to do so on  *)
(* its port: neither shut down already nor started by another command.     *)
ServerListens ==
    server # NoServer =>
      /\ server.port \in sockets \ draining
      /\ \A c \in Commands : ~Started(c, server.port)

(* Setting up or removing autologin leaves the auth mode alone, although   *)
(* autologin_enable and autologin_disable write that key as well (a change *)
(* of the mode that overlaps them may be lost).                            *)
AutologinKeepsMode ==
    [][\A c \in Commands :
         ~overlap /\ pc[c] = "write" /\ todo'[c] # todo[c] /\ call[c].kind = "autologin"
           => settings'.disabled = settings.disabled]_lanVars

(* A command returns: whatever others do, it gets the mutex in the end,    *)
(* and only an event stream that a browser keeps open can hold it up.      *)
CommandsReturn == \A c \in Commands : pc[c] # "idle" ~> pc[c] = "idle" \/ held # {}

(* "Sender dropped (server shutting down): end the stream": the streams of *)
(* a server that is being stopped end, so that stopping it ends.  They do  *)
(* not: what holds is CommandsReturn.                                      *)
StreamsEndOnShutdown == \A c \in Commands : pc[c] = "stopping" ~> pc[c] # "stopping"

=============================================================================
