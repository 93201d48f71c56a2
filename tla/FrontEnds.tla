------------------------------ MODULE FrontEnds ------------------------------
(***************************************************************************)
(* A request's way through a front end: the REST API (core/src/rest/,      *)
(* banto-server/src/csrf.rs, auth.rs) and the desktop window's commands    *)
(* (src-tauri/src/lib.rs), over the same accounts and audit trail.         *)
(*                                                                         *)
(* REST looks the bearer token up again wherever it wants to know who is   *)
(* calling: in require_auth, in the role guard, in some handlers, and when *)
(* the entry is written.  The desktop window has one session for all its   *)
(* commands; a command copies it once.  Everything is concurrent, a token  *)
(* may expire between two lookups, a REST client may hang up between two   *)
(* awaits and the app may be restarted.                                    *)
(*                                                                         *)
(* A service call is one step here: the steps inside are those of Users,   *)
(* Items, Attachments, Backup, LanAccess and AuditLog.  An account is a    *)
(* name with a role; a removed one is not created again, and users_create  *)
(* is a Change.  Left out: throttling, and how tokens age (Sessions).      *)
(***************************************************************************)
EXTENDS Endpoints, FiniteSets

CONSTANTS
    Calls,      \* requests and commands in progress together
    Routes,     \* bound: the routes requested
    Commands,   \* bound: the commands given
    Users,      \* account names
    Tokens,     \* bound: tokens ever issued
    Local,      \* the name the bootstrap makes up in auth-disabled mode
    LocalRole,  \* its role: the stored disabled_role
    Stored,     \* the account tables the app may be started on
    Granted,    \* bound: the roles users_update gives
    Gone,       \* no account of that name
    Unused,     \* a token not issued yet
    Nobody      \* no identity, no token

Identity == [user : Users \cup {Local}, role : Roles]

(* A login that fails is recorded under the name that was tried, which     *)
(* need not be an account's, and without a role.                           *)
Attempts == [user : Users, role : {Gone}]

ASSUME NamesAssumption == Local \notin Users /\ LocalRole \in Roles /\ Gone \notin Roles
ASSUME IdentityAssumption ==
    Nobody # Unused /\ {Nobody, Unused} \cap (Identity \cup Attempts \cup Tokens) = {}
ASSUME StoredAssumption ==
    Stored \subseteq [Users -> Roles \cup {Gone}] /\ Granted \subseteq Roles

ASSUME EndpointsAssumption == Routes \subseteq RestRoutes /\ Commands \subseteq DesktopCommands

VARIABLES
    accounts,   \* the users table: name -> role
    tokens,     \* AuthState of the embedded server
    session,    \* AppState.auth
    disabled,   \* the stored auth.disabled
    call,
    demoted     \* history: accounts that lost a role, or went

vars == <<accounts, tokens, session, disabled, call, demoted>>

NoEntry == [result |-> "none", actor |-> Nobody]
Lost    == [result |-> "lost", actor |-> Nobody]   \* the INSERT failed

NoEndpoint == [floor |-> Public, act |-> "none", audited |-> FALSE, last |-> "none"]

Idle == [step |-> "idle", via |-> "none", on |-> NoEndpoint, token |-> Nobody,
         who |-> Nobody, did |-> FALSE, silent |-> FALSE, entry |-> NoEntry,
         reply |-> "none", raced |-> FALSE]
(* did: it changed something; silent: attachments, with no event since     *)

Fresh(via, endpoint, token, step) ==
    [Idle EXCEPT !.via = via, !.on = endpoint, !.token = token, !.step = step]

Rest(c) == call[c].via = "rest"
Desktop(c) == call[c].via = "tauri"
Act(c) == call[c].on.act
Floor(c) == IF Act(c) = "config" THEN Admin ELSE call[c].on.floor
AtStep(c, step) == call[c].step = step

Goto(c, step) == call' = [call EXCEPT ![c].step = step]
GotoAs(c, who, step) == call' = [call EXCEPT ![c].step = step, ![c].who = who]
Answer(c) == call' = [call EXCEPT ![c] = Idle]
Succeed(c, step, did, silent) ==
    call' = [call EXCEPT ![c].step = step, ![c].did = did, ![c].silent = silent,
                         ![c].reply = "ok"]

state == <<accounts, tokens, session, disabled, demoted>>

Init ==
    /\ accounts \in Stored
    /\ tokens = [t \in Tokens |-> Unused]
    /\ disabled \in BOOLEAN
    /\ session = IF disabled THEN [user |-> Local, role |-> LocalRole] ELSE Nobody
    /\ call = [c \in Calls |-> Idle]
    /\ demoted = {}

-----------------------------------------------------------------------------
(* Arrival *)

(* Where a handler looks the caller up before its service call *)
RestAsks    == {"own", "remove", "password", "logout"}
DesktopAsks == {"password", "logout", "config"}
Handling(via, act) ==
    IF act \in (IF via = "rest" THEN RestAsks ELSE DesktopAsks)
    THEN "handle" ELSE "perform"

Issuing(act) == act \in {"login", "setup"}

(* Under the CSRF check, which every route has around it *)
Request(c) ==
    /\ AtStep(c, "idle")
    /\ \E r \in Routes, t \in Tokens \cup {Nobody}, marked \in BOOLEAN :
         /\ IF Issuing(r.act)
            THEN t # Nobody /\ tokens[t] = Unused /\ \A d \in Calls : call[d].token # t
            ELSE t # Nobody => tokens[t] # Unused
         /\ call' = [call EXCEPT ![c] =
              IF ~marked THEN Idle
              ELSE IF r.floor = Public THEN Fresh("rest", r, t, Handling("rest", r.act))
              ELSE Fresh("rest", r, t, "arrived")]
    /\ UNCHANGED state

(* The desktop's calls that set or clear the session *)
SessionActs == {"login", "setup", "logout"}
Signing(c) == Desktop(c) /\ Act(c) \in SessionActs

Command(c) ==
    /\ AtStep(c, "idle")
    /\ \E d \in Commands :
         LET raced(o) == d.act \in SessionActs /\ Signing(o) IN
         call' = [o \in Calls |->
             IF o = c
             THEN [Fresh("tauri", d, Nobody,
                         IF d.floor = Public THEN Handling("tauri", d.act) ELSE "guard")
                   EXCEPT !.raced = \E p \in Calls : raced(p)]
             ELSE [call[o] EXCEPT !.raced = @ \/ raced(o)]]
    /\ UNCHANGED state

-----------------------------------------------------------------------------
(* Guards *)

RequireAuth(c) ==
    /\ AtStep(c, "arrived")
    /\ LET who == IF call[c].token = Nobody THEN Nobody ELSE tokens[call[c].token] IN
       IF who = Nobody THEN Answer(c)
       ELSE GotoAs(c, who, IF Floor(c) = Viewer THEN Handling("rest", Act(c)) ELSE "guard")
    /\ UNCHANGED state

(* A refusal is recorded if somebody was refused. *)
Guard(c, who, floor, next) ==
    IF who = Nobody THEN Answer(c)
    ELSE IF AtLeast(who.role, floor) THEN GotoAs(c, who, next)
    ELSE \E e \in {[result |-> "denied", actor |-> who], Lost} :
           call' = [call EXCEPT ![c].step = "done", ![c].who = who, ![c].entry = e,
                                ![c].reply = "failed"]

(* A slip: whoever has a live token passes. *)
AnyRoleWillDo(c) ==
    /\ Rest(c) /\ AtStep(c, "guard")
    /\ Guard(c, tokens[call[c].token], Viewer, Handling("rest", Act(c)))
    /\ UNCHANGED state

RequireRoleAtLeast(c) ==
    /\ Rest(c) /\ AtStep(c, "guard")
    /\ Guard(c, tokens[call[c].token], Floor(c), Handling("rest", Act(c)))
    /\ UNCHANGED state

RequireRole(c) ==
    /\ Desktop(c) /\ AtStep(c, "guard")
    /\ Guard(c, session, Floor(c), "perform")
    /\ UNCHANGED state

(* acting_username, acting_user, or the handler's own lookup.  Logout goes *)
(* on without an identity; a removal wants the account of its own, too.    *)
RestLookup(c) ==
    /\ Rest(c) /\ AtStep(c, "handle")
    /\ LET who == IF call[c].token = Nobody THEN Nobody ELSE tokens[call[c].token] IN
       \/ /\ Act(c) = "logout" \/ who # Nobody
          /\ Act(c) = "remove" => accounts[who.user] # Gone
          /\ GotoAs(c, who, "perform")
       \/ /\ Act(c) # "logout" /\ who = Nobody
          /\ Answer(c)
       \/ /\ Act(c) = "remove" /\ who # Nobody /\ accounts[who.user] = Gone
          /\ Answer(c)
    /\ UNCHANGED state

(* What logout and the settings of the mode ask first: is it on? *)
ReadMode(c) ==
    /\ Desktop(c) /\ AtStep(c, "handle") /\ Act(c) \in {"logout", "config"}
    /\ \/ Answer(c)
       \/ /\ Act(c) = "logout" /\ disabled
          /\ Answer(c)
       \/ /\ Act(c) = "logout" /\ ~disabled
          /\ Goto(c, "copy")
       \/ /\ Act(c) = "config" /\ disabled
          /\ Goto(c, "copy")
       \/ /\ Act(c) = "config" /\ ~disabled
          /\ Goto(c, "guard")
    /\ UNCHANGED state

(* The session copied without a role being asked for *)
CopySession(c) ==
    /\ Desktop(c)
    /\ \/ AtStep(c, "copy")
       \/ AtStep(c, "handle") /\ Act(c) = "password"
    /\ IF Act(c) = "password" /\ session = Nobody
       THEN Answer(c)
       ELSE GotoAs(c, session, "perform")
    /\ UNCHANGED state

-----------------------------------------------------------------------------
(* The service call *)

PerformRead(c) ==
    /\ AtStep(c, "perform") /\ Act(c) = "read"
    /\ Answer(c)
    /\ UNCHANGED state

(* Invalid, not found, in conflict, or storage *)
Refuse(c) ==
    /\ AtStep(c, "perform")
    /\ Act(c) \notin {"login", "logout"}
    /\ Answer(c)
    /\ UNCHANGED state

(* It may find everything as it should be: no rows, nothing staged.        *)
PerformChange(c) ==
    /\ AtStep(c, "perform")
    /\ Act(c) \in {"change", "long", "own", "import", "password"}
    /\ \E did \in BOOLEAN :
         /\ Act(c) = "password" => did
         /\ Succeed(c, IF call[c].on.audited THEN "record" ELSE "done",
                    did, did /\ call[c].on.last = "announce")
    /\ UNCHANGED state

(* The item, then its attachments, if it has any: nobody is told of those. *)
PerformDelete(c) ==
    /\ AtStep(c, "perform") /\ Act(c) = "delete"
    /\ \E swept \in BOOLEAN : Succeed(c, "record", TRUE, swept)
    /\ UNCHANGED state

(* A later step fails: `?` leaves before anything is recorded. *)
FailHalfway(c) ==
    /\ AtStep(c, "perform") /\ Act(c) \in {"long", "config"}
    /\ \E mode \in BOOLEAN :
         /\ Act(c) = "long" => mode = disabled
         /\ disabled' = mode
    /\ call' = [call EXCEPT ![c].step = "done", ![c].did = TRUE,
                            ![c].silent = (call[c].on.last = "announce"), ![c].reply = "failed"]
    /\ UNCHANGED <<accounts, tokens, session, demoted>>

RollBackImport(c) ==
    /\ AtStep(c, "perform") /\ Act(c) = "import"
    /\ call' = [call EXCEPT ![c].step = "record", ![c].reply = "rejected"]
    /\ UNCHANGED state

AnotherAdmin(u) == \E v \in Users \ {u} : accounts[v] = Admin

Demote(c) ==
    /\ AtStep(c, "perform") /\ Act(c) = "demote"
    /\ \E u \in Users, role \in Granted :
         /\ accounts[u] # Gone
         /\ accounts[u] = Admin /\ role # Admin => AnotherAdmin(u)
         /\ demoted' = IF role < accounts[u] THEN demoted \cup {u} ELSE demoted
         /\ accounts' = [accounts EXCEPT ![u] = role]
    /\ Succeed(c, "record", TRUE, FALSE)
    /\ UNCHANGED <<tokens, session, disabled>>

Remove(c) ==
    /\ AtStep(c, "perform") /\ Act(c) = "remove"
    /\ \E u \in Users \ {call[c].who.user} :
         /\ accounts[u] # Gone
         /\ accounts[u] = Admin => AnotherAdmin(u)
         /\ accounts' = [accounts EXCEPT ![u] = Gone]
         /\ demoted' = demoted \cup {u}
    /\ Succeed(c, "record", TRUE, FALSE)
    /\ UNCHANGED <<tokens, session, disabled>>

ApplyMode(c) ==
    /\ AtStep(c, "perform") /\ Act(c) = "config"
    /\ disabled' \in BOOLEAN
    /\ \E did \in BOOLEAN :
         /\ disabled' # disabled => did
         /\ Succeed(c, "record", did, FALSE)
    /\ UNCHANGED <<accounts, tokens, session, demoted>>

-----------------------------------------------------------------------------
(* Signing in and out *)

(* UsersService::verify.  A storage error is a failed login to REST and    *)
(* an error, not recorded, to the desktop.                                 *)
Verify(c) ==
    /\ AtStep(c, "perform") /\ Act(c) = "login"
    /\ \/ \E u \in Users :
            /\ accounts[u] # Gone
            /\ GotoAs(c, [user |-> u, role |-> accounts[u]], "record")
       \/ \E tried \in Attempts :
            call' = [call EXCEPT ![c].step = "record", ![c].who = tried,
                                 ![c].reply = "rejected"]
       \/ Desktop(c) /\ Answer(c)
    /\ UNCHANGED state

SetUpFirstUser(c) ==
    /\ AtStep(c, "perform") /\ Act(c) = "setup"
    /\ \A u \in Users : accounts[u] = Gone
    /\ demoted = {}
    /\ \E u \in Users :
         /\ accounts' = [accounts EXCEPT ![u] = Admin]
         /\ GotoAs(c, [user |-> u, role |-> Admin], "record")
    /\ UNCHANGED <<tokens, session, disabled, demoted>>

IssueToken(c) ==
    /\ Rest(c) /\ AtStep(c, "sign")
    /\ tokens' = [tokens EXCEPT ![call[c].token] = call[c].who]
    /\ Succeed(c, "done", TRUE, FALSE)
    /\ UNCHANGED <<accounts, session, disabled, demoted>>

(* A slip: whoever is signed in already stays. *)
SetSessionIfNobody(c) ==
    /\ Desktop(c) /\ AtStep(c, "sign")
    /\ session' = IF session = Nobody THEN call[c].who ELSE session
    /\ Succeed(c, "done", session' # session, FALSE)
    /\ UNCHANGED <<accounts, tokens, disabled, demoted>>

SetSession(c) ==
    /\ Desktop(c) /\ AtStep(c, "sign")
    /\ session' = call[c].who
    /\ Succeed(c, "done", session' # session, FALSE)
    /\ UNCHANGED <<accounts, tokens, disabled, demoted>>

RevokeToken(c) ==
    /\ Rest(c) /\ AtStep(c, "perform") /\ Act(c) = "logout"
    /\ LET t == call[c].token IN
       tokens' = IF t = Nobody THEN tokens ELSE [tokens EXCEPT ![t] = Nobody]
    /\ Succeed(c, "record", tokens' # tokens, FALSE)
    /\ UNCHANGED <<accounts, session, disabled, demoted>>

(* Only somebody's logout is recorded. *)
ClearSession(c) ==
    /\ Desktop(c) /\ AtStep(c, "perform") /\ Act(c) = "logout"
    /\ session' = Nobody
    /\ Succeed(c, IF call[c].who = Nobody THEN "done" ELSE "record",
               session' # session, FALSE)
    /\ UNCHANGED <<accounts, tokens, disabled, demoted>>

-----------------------------------------------------------------------------
(* The entry, and what follows it *)

(* A slip: the desktop asks its session once more, too. *)
WhoeverIsHere(c) == IF Desktop(c) THEN session ELSE call[c].who

(* Who the trail will name: REST asks the token once more, except where    *)
(* the handler has asked itself.                                           *)
Actor(c) ==
    IF Rest(c) /\ Act(c) \notin {"login", "setup", "logout", "password"}
    THEN tokens[call[c].token] ELSE call[c].who

(* A slip: an import is a success whatever its rows. *)
NeverRolledBack(c) ==
    IF Act(c) = "login" /\ call[c].reply = "rejected" THEN "failed" ELSE "ok"

Outcome(c) == IF call[c].reply = "rejected" THEN "failed" ELSE "ok"

AfterRecord(c) ==
    IF Issuing(Act(c)) /\ call[c].reply # "rejected" THEN "sign"
    ELSE IF call[c].on.last = "none" THEN "done" ELSE call[c].on.last

(* AuditLogService::record swallows a failure. *)
Record(c) ==
    /\ AtStep(c, "record")
    /\ \E e \in {[result |-> Outcome(c), actor |-> Actor(c)], Lost} :
         call' = [call EXCEPT ![c].entry = e, ![c].step = AfterRecord(c)]
    /\ UNCHANGED state

Announce(c) ==
    /\ AtStep(c, "announce")
    /\ call' = [call EXCEPT ![c].step = "done", ![c].silent = FALSE]
    /\ UNCHANGED state

(* The stored policy, to answer with *)
ReadBack(c) ==
    /\ AtStep(c, "reread")
    /\ \E reply \in {"ok", "failed"} :
         call' = [call EXCEPT ![c].step = "done", ![c].reply = reply]
    /\ UNCHANGED state

Reply(c) ==
    /\ AtStep(c, "done")
    /\ Answer(c)
    /\ UNCHANGED state

-----------------------------------------------------------------------------
(* The client hangs up; the handler is dropped at its next await. *)
HangUp(c) ==
    /\ Rest(c)
    /\ call' = [call EXCEPT ![c] = Idle]
    /\ UNCHANGED state

(* Expired, or evicted *)
Expire(t) ==
    /\ tokens[t] \in Identity
    /\ tokens' = [tokens EXCEPT ![t] = Nobody]
    /\ UNCHANGED <<accounts, session, disabled, call, demoted>>

(* Tokens are in memory only.  The window starts as nobody, in auth-       *)
(* disabled mode as the local user, with autologin as the account of it.   *)
Restart ==
    /\ call' = [c \in Calls |-> Idle]
    /\ tokens' = [t \in Tokens |-> IF tokens[t] = Unused THEN Unused ELSE Nobody]
    /\ session' \in
         IF disabled THEN {[user |-> Local, role |-> LocalRole]}
         ELSE {Nobody} \cup {[user |-> u, role |-> accounts[u]] :
                               u \in {v \in Users : accounts[v] # Gone}}
    /\ UNCHANGED <<accounts, disabled, demoted>>

Handle(c) ==
    \/ RequireAuth(c) \/ RequireRoleAtLeast(c) \/ RequireRole(c)
    \/ RestLookup(c) \/ ReadMode(c) \/ CopySession(c)
    \/ PerformRead(c) \/ Refuse(c) \/ PerformChange(c) \/ FailHalfway(c)
    \/ PerformDelete(c) \/ RollBackImport(c) \/ Demote(c) \/ Remove(c) \/ ApplyMode(c)
    \/ Verify(c) \/ SetUpFirstUser(c) \/ IssueToken(c) \/ SetSession(c)
    \/ RevokeToken(c) \/ ClearSession(c)
    \/ Record(c) \/ Announce(c) \/ ReadBack(c) \/ Reply(c)

Next ==
    \/ \E c \in Calls : Request(c) \/ Command(c) \/ Handle(c) \/ HangUp(c)
    \/ \E t \in Tokens : Expire(t)
    \/ Restart

Spec == Init /\ [][Next]_vars

-----------------------------------------------------------------------------
(* Properties *)

Entry == [result : {"none", "lost", "ok", "denied", "failed"},
          actor : Identity \cup Attempts \cup {Nobody}]

Steps == {"idle", "arrived", "guard", "handle", "copy", "perform", "record",
          "sign", "announce", "reread", "done"}

(* Types of the state. *)
TypeOK ==
    /\ accounts \in [Users -> Roles \cup {Gone}]
    /\ tokens \in [Tokens -> Identity \cup {Unused, Nobody}]
    /\ session \in Identity \cup {Nobody}
    /\ disabled \in BOOLEAN
    /\ demoted \subseteq Users
    /\ call \in [Calls ->
         [step : Steps, via : {"none", "rest", "tauri"},
          on : Routes \cup Commands \cup {NoEndpoint}, token : Tokens \cup {Nobody},
          who : Identity \cup Attempts \cup {Nobody}, did : BOOLEAN, silent : BOOLEAN,
          entry : Entry, reply : {"none", "ok", "rejected", "failed"}, raced : BOOLEAN]]

Ended(c) == AtStep(c, "done")

(* A call that was not cut short leaves a trace of what it did: a change   *)
(* that should be recorded has its entry unless the INSERT failed or the   *)
(* change itself stopped halfway; an "ok" entry stands for a success,      *)
(* "denied" and "failed" for no change at all; and attachments that        *)
(* changed were announced, unless it stopped halfway or they went with     *)
(* the item they belonged to.                                              *)
TraceOfWhatWasDone ==
    \A c \in Calls : Ended(c) =>
        /\ call[c].did /\ call[c].on.audited /\ call[c].entry.result \notin {"ok", "lost"} =>
             \/ Act(c) \in {"long", "config"} /\ call[c].reply = "failed"
             \/ Desktop(c) /\ Act(c) = "logout" /\ call[c].who = Nobody
        /\ call[c].entry.result = "ok" => call[c].reply = "ok" \/ call[c].on.last = "reread"
        /\ call[c].entry.result \in {"denied", "failed"} => ~call[c].did /\ call[c].reply # "ok"
        /\ call[c].silent => call[c].reply = "failed" \/ Act(c) = "delete"

(* What the trail says was done or refused, it says of who was let through *)
(* or refused, or of nobody: REST asks the token again for the entry,      *)
(* after the change, and by then it may be dead.  It never says it of      *)
(* somebody else, though the desktop's session may have changed hands      *)
(* since, nor of a name that was only tried: a failed login has that.      *)
NamesWhoActed ==
    \A c \in Calls :
        LET e == call[c].entry IN
        /\ e.result \in {"ok", "denied", "failed"} =>
             \/ e.actor = call[c].who
             \/ e.actor = Nobody /\ Rest(c) /\ tokens[call[c].token] = Nobody
        /\ e.actor \in Attempts <=> e.result = "failed" /\ Act(c) = "login"

(* What a call changed, its caller's account has the role for, unless that *)
(* account was demoted or removed: tokens and sessions keep the role they  *)
(* were issued with.  (The local user has no account.)                     *)
BeyondRoleOnlyIfDemoted ==
    \A c \in Calls :
        call[c].did /\ call[c].on.floor # Public =>
            LET who == call[c].who IN
            /\ AtLeast(who.role, call[c].on.floor)
            /\ \/ who.user \in demoted \cup {Local}
               \/ who.user \in Users /\ accounts[who.user] # Gone
                  /\ AtLeast(accounts[who.user], call[c].on.floor)

(* A login, setup or logout of the desktop that ran alone has the last     *)
(* word: the session is what it said.  Two that overlap may end the other  *)
(* way round than the trail says.                                          *)
SessionAsSaid ==
    \A c \in Calls :
        Ended(c) /\ Signing(c) /\ call[c].reply = "ok" /\ ~call[c].raced =>
            session = IF Act(c) = "logout" THEN Nobody ELSE call[c].who
=============================================================================
