---------------------------- MODULE FrontEndsProofs ----------------------------
(***************************************************************************)
(* Proofs about FrontEnds, for every set of accounts, tokens and calls in  *)
(* progress: what the audit trail says of a call, under whose name, and    *)
(* with which role the call has been let through.                          *)
(***************************************************************************)
EXTENDS FrontEnds, TLAPS

-----------------------------------------------------------------------------
(* The endpoints *)

Acts == {"read", "change", "long", "own", "import", "demote", "remove",
         "setup", "password", "login", "logout", "config", "delete"}

(* What the endpoints of either front end have in common                   *)
Sound(e) ==
    /\ e.floor \in {Public, Viewer, Editor, Admin} /\ e.act \in Acts
    /\ e.last \in {"none", "announce", "reread"}
    /\ e.last = "announce" => e.audited /\ e.act \in {"change", "long"}
    /\ e.act \in {"login", "setup", "logout", "import", "demote", "remove", "config"} =>
         e.last = "none"
    /\ e.act \in {"login", "setup", "logout", "password", "config"} <=> e.floor = Public

(* The same of a handler under a router's floor                            *)
Suits(h, floor) ==
    /\ h.act \in Acts /\ h.last \in {"none", "announce", "reread"}
    /\ h.last = "announce" => h.audited /\ h.act \in {"change", "long"}
    /\ h.act \in {"login", "setup", "logout", "import", "demote", "remove", "config"} =>
         h.last = "none"
    /\ h.act \in {"login", "setup", "logout", "password", "config"} <=> floor = Public

LEMMA AtSound ==
    ASSUME NEW floor \in {Public, Viewer, Editor, Admin}, NEW handlers,
           \A h \in handlers : Suits(h, floor)
    PROVE  \A e \in At(floor, handlers) :
             Sound(e) /\ \E h \in handlers : e.act = h.act
<1> SUFFICES ASSUME NEW e \in At(floor, handlers)
             PROVE  Sound(e) /\ \E h \in handlers : e.act = h.act
  OBVIOUS
<1>1. PICK h \in handlers :
        e = [floor |-> floor, act |-> h.act, audited |-> h.audited, last |-> h.last]
  BY DEF At
<1>2. Suits(h, floor)
  OBVIOUS
<1>3. e.floor = floor /\ e.act = h.act /\ e.audited = h.audited /\ e.last = h.last
  BY <1>1
<1> QED  BY <1>2, <1>3 DEF Sound, Suits

LEMMA RestSound == \A e \in RestRoutes : Sound(e) /\ e.act # "config"
<1> USE DEF Suits, Acts, Public, Viewer, Editor, Admin, Handler, Read, Change, LongChange
<1>1. \A e \in RestAuth : Sound(e) /\ e.act # "config"
  <2>1. \A h \in {RestSetup, RestPassword, RestLogin, RestLogout} : Suits(h, Public) /\ h.act # "config"
    BY DEF RestSetup, RestPassword, RestLogin, RestLogout
  <2> HIDE DEF Suits, Acts, Handler, Read, Change, LongChange
  <2> QED  BY <2>1, AtSound DEF RestAuth
<1>2. \A e \in RestItems : Sound(e) /\ e.act # "config"
  <2>1. \A h \in RestItemsReads : Suits(h, Viewer) /\ h.act # "config"
    BY DEF RestItemsReads
  <2>2. \A h \in RestItemsWrites \cup RestItemsImport : Suits(h, Editor) /\ h.act # "config"
    BY DEF RestItemsWrites, RestItemsImport
  <2> HIDE DEF Suits, Acts, Handler, Read, Change, LongChange
  <2> QED  BY <2>1, <2>2, AtSound DEF RestItems
<1>3. \A e \in RestUsers : Sound(e) /\ e.act # "config"
  <2>1. \A h \in RestUsersHandlers : Suits(h, Admin) /\ h.act # "config"
    BY DEF RestUsersHandlers
  <2> HIDE DEF Suits, Acts, Handler, Read, Change, LongChange
  <2> QED  BY <2>1, AtSound DEF RestUsers
<1>4. \A e \in RestAudit : Sound(e) /\ e.act # "config"
  <2>1. \A h \in RestAuditHandlers : Suits(h, Admin) /\ h.act # "config"
    BY DEF RestAuditHandlers
  <2> HIDE DEF Suits, Acts, Handler, Read, Change, LongChange
  <2> QED  BY <2>1, AtSound DEF RestAudit
<1>5. \A e \in RestBackups : Sound(e) /\ e.act # "config"
  <2>1. \A h \in RestBackupsHandlers : Suits(h, Admin) /\ h.act # "config"
    BY DEF RestBackupsHandlers
  <2> HIDE DEF Suits, Acts, Handler, Read, Change, LongChange
  <2> QED  BY <2>1, AtSound DEF RestBackups
<1>6. \A e \in RestAttachments : Sound(e) /\ e.act # "config"
  <2>1. \A h \in RestAttachmentsReads : Suits(h, Viewer) /\ h.act # "config"
    BY DEF RestAttachmentsReads
  <2>2. \A h \in RestAttachmentsWrites : Suits(h, Editor) /\ h.act # "config"
    BY DEF RestAttachmentsWrites
  <2> HIDE DEF Suits, Acts, Handler, Read, Change, LongChange
  <2> QED  BY <2>1, <2>2, AtSound DEF RestAttachments
<1>7. \A e \in RestUiSettings : Sound(e) /\ e.act # "config"
  <2> DEFINE handlers == {Handler("own", FALSE, "none")}
  <2>1. \A h \in handlers : Suits(h, Viewer) /\ h.act # "config"
    OBVIOUS
  <2>2. RestUiSettings = At(Viewer, handlers)
    BY DEF RestUiSettings
  <2> HIDE DEF handlers, Suits, Acts, Handler, Read, Change, LongChange
  <2> QED  BY <2>1, <2>2, AtSound
<1> QED  BY <1>1, <1>2, <1>3, <1>4, <1>5, <1>6, <1>7 DEF RestRoutes

LEMMA DesktopSound == \A e \in DesktopCommands : Sound(e)
<1> USE DEF Suits, Acts, Public, Viewer, Editor, Admin, Handler, Read, Change, LongChange
<1>1. \A e \in ItemsReadCommands : Sound(e)
  <2>1. \A h \in {Read} : Suits(h, Viewer)
    OBVIOUS
  <2> HIDE DEF Suits, Acts, Handler, Read, Change, LongChange
  <2> QED  BY <2>1, AtSound DEF ItemsReadCommands
<1>2. \A e \in ItemsWriteCommands : Sound(e)
  <2>1. \A h \in {Change, Handler("delete", TRUE, "none")} : Suits(h, Editor)
    OBVIOUS
  <2> HIDE DEF Suits, Acts, Handler, Read, Change, LongChange
  <2> QED  BY <2>1, AtSound DEF ItemsWriteCommands
<1>3. \A e \in ItemsImportCommand : Sound(e)
  <2>1. \A h \in {Handler("import", TRUE, "none")} : Suits(h, Editor)
    OBVIOUS
  <2> HIDE DEF Suits, Acts, Handler, Read, Change, LongChange
  <2> QED  BY <2>1, AtSound DEF ItemsImportCommand
<1>4. \A e \in SetupCommand : Sound(e)
  <2>1. \A h \in {Handler("setup", TRUE, "none")} : Suits(h, Public)
    OBVIOUS
  <2> HIDE DEF Suits, Acts, Handler, Read, Change, LongChange
  <2> QED  BY <2>1, AtSound DEF SetupCommand
<1>5. \A e \in LoginCommand : Sound(e)
  <2>1. \A h \in {Handler("login", TRUE, "none")} : Suits(h, Public)
    OBVIOUS
  <2> HIDE DEF Suits, Acts, Handler, Read, Change, LongChange
  <2> QED  BY <2>1, AtSound DEF LoginCommand
<1>6. \A e \in LogoutCommand : Sound(e)
  <2>1. \A h \in {Handler("logout", TRUE, "none")} : Suits(h, Public)
    OBVIOUS
  <2> HIDE DEF Suits, Acts, Handler, Read, Change, LongChange
  <2> QED  BY <2>1, AtSound DEF LogoutCommand
<1>7. \A e \in PasswordCommand : Sound(e)
  <2>1. \A h \in {Handler("password", TRUE, "none")} : Suits(h, Public)
    OBVIOUS
  <2> HIDE DEF Suits, Acts, Handler, Read, Change, LongChange
  <2> QED  BY <2>1, AtSound DEF PasswordCommand
<1>8. \A e \in AuthConfigCommands : Sound(e)
  <2>1. \A h \in {Read} : Suits(h, Viewer)
    OBVIOUS
  <2>2. \A h \in {Handler("config", TRUE, "none")} : Suits(h, Public)
    OBVIOUS
  <2> HIDE DEF Suits, Acts, Handler, Read, Change, LongChange
  <2> QED  BY <2>1, <2>2, AtSound DEF AuthConfigCommands
<1>9. \A e \in AutologinCommands : Sound(e)
  <2>1. \A h \in {LongChange("none")} : Suits(h, Admin)
    OBVIOUS
  <2> HIDE DEF Suits, Acts, Handler, Read, Change, LongChange
  <2> QED  BY <2>1, AtSound DEF AutologinCommands
<1>10. \A e \in ServerCommands : Sound(e)
  <2>1. \A h \in {Read, LongChange("none")} : Suits(h, Admin)
    OBVIOUS
  <2> HIDE DEF Suits, Acts, Handler, Read, Change, LongChange
  <2> QED  BY <2>1, AtSound DEF ServerCommands
<1>11. \A e \in SettingsCommands : Sound(e)
  <2>1. \A h \in {Read, Change} : Suits(h, Admin)
    OBVIOUS
  <2> HIDE DEF Suits, Acts, Handler, Read, Change, LongChange
  <2> QED  BY <2>1, AtSound DEF SettingsCommands
<1>12. \A e \in UiSettingsCommands : Sound(e)
  <2>1. \A h \in {Handler("own", FALSE, "none")} : Suits(h, Viewer)
    OBVIOUS
  <2> HIDE DEF Suits, Acts, Handler, Read, Change, LongChange
  <2> QED  BY <2>1, AtSound DEF UiSettingsCommands
<1>13. \A e \in VibrancyCommands : Sound(e)
  <2>1. \A h \in {Read} : Suits(h, Viewer)
    OBVIOUS
  <2>2. \A h \in {LongChange("none")} : Suits(h, Admin)
    OBVIOUS
  <2> HIDE DEF Suits, Acts, Handler, Read, Change, LongChange
  <2> QED  BY <2>1, <2>2, AtSound DEF VibrancyCommands
<1>14. \A e \in UsersCommands : Sound(e)
  <2>1. \A h \in {Read, Change, Handler("demote", TRUE, "none"), Handler("remove", TRUE, "none")} : Suits(h, Admin)
    OBVIOUS
  <2> HIDE DEF Suits, Acts, Handler, Read, Change, LongChange
  <2> QED  BY <2>1, AtSound DEF UsersCommands
<1>15. \A e \in AuditCommands : Sound(e)
  <2>1. \A h \in {Read, Handler("change", FALSE, "none"), LongChange("reread")} : Suits(h, Admin)
    OBVIOUS
  <2> HIDE DEF Suits, Acts, Handler, Read, Change, LongChange
  <2> QED  BY <2>1, AtSound DEF AuditCommands
<1>16. \A e \in BackupsCommands : Sound(e)
  <2>1. \A h \in {Read, Change} : Suits(h, Admin)
    OBVIOUS
  <2> HIDE DEF Suits, Acts, Handler, Read, Change, LongChange
  <2> QED  BY <2>1, AtSound DEF BackupsCommands
<1>17. \A e \in AttachmentsReadCommands : Sound(e)
  <2>1. \A h \in {Read} : Suits(h, Viewer)
    OBVIOUS
  <2> HIDE DEF Suits, Acts, Handler, Read, Change, LongChange
  <2> QED  BY <2>1, AtSound DEF AttachmentsReadCommands
<1>18. \A e \in AttachmentsWriteCommands : Sound(e)
  <2>1. \A h \in {LongChange("announce"), Handler("change", TRUE, "announce"), Read} : Suits(h, Editor)
    OBVIOUS
  <2> HIDE DEF Suits, Acts, Handler, Read, Change, LongChange
  <2> QED  BY <2>1, AtSound DEF AttachmentsWriteCommands
<1>19. \A e \in ExportCommand : Sound(e)
  <2>1. \A h \in {Handler("change", FALSE, "none")} : Suits(h, Viewer)
    OBVIOUS
  <2> HIDE DEF Suits, Acts, Handler, Read, Change, LongChange
  <2> QED  BY <2>1, AtSound DEF ExportCommand
<1> QED  BY <1>1, <1>2, <1>3, <1>4, <1>5, <1>6, <1>7, <1>8, <1>9, <1>10, <1>11, <1>12, <1>13, <1>14, <1>15, <1>16, <1>17, <1>18, <1>19 DEF DesktopCommands

LEMMA EndpointsSound ==
    /\ \A e \in Routes : Sound(e) /\ e.act # "config"
    /\ \A e \in Commands : Sound(e)
BY RestSound, DesktopSound, EndpointsAssumption

-----------------------------------------------------------------------------
(* How a step moves a call on *)

CallState ==
    [step : Steps, via : {"none", "rest", "tauri"},
     on : Routes \cup Commands \cup {NoEndpoint}, token : Tokens \cup {Nobody},
     who : Identity \cup Attempts \cup {Nobody}, did : BOOLEAN, silent : BOOLEAN,
     entry : Entry, reply : {"none", "ok", "rejected", "failed"}, raced : BOOLEAN]

(* A name that was tried is nobody's identity.                             *)
LEMMA TriedIsNobody ==
    /\ \A i \in Identity : i \notin Attempts
    /\ Nobody \notin Identity \cup Attempts
<1>1. ASSUME NEW i \in Identity PROVE i \notin Attempts
  BY NamesAssumption DEF Identity, Attempts
<1> QED  BY <1>1, IdentityAssumption

(* Only c moves, and stays the same request.                               *)
Moves(c) ==
    /\ call' \in [Calls -> CallState]
    /\ \A d \in Calls \ {c} : call'[d] = call[d]

Same(c) ==
    /\ call'[c].via = call[c].via /\ call'[c].on = call[c].on
    /\ call'[c].token = call[c].token /\ call'[c].raced = call[c].raced

(* The call's new state y, after x: the same request.                      *)
After(y, x, step, who, entry, reply) ==
    /\ y \in CallState
    /\ y.via = x.via /\ y.on = x.on /\ y.token = x.token /\ y.raced = x.raced
    /\ y.step = step /\ y.who = who /\ y.entry = entry /\ y.reply = reply

(* What Goto makes of the call.                                            *)
StepAt(x, s) == [x EXCEPT !.step = s]

LEMMA StepRecord ==
    ASSUME NEW x \in CallState, NEW s \in Steps
    PROVE  /\ After(StepAt(x, s), x, s, x.who, x.entry, x.reply)
           /\ StepAt(x, s).did = x.did /\ StepAt(x, s).silent = x.silent
<1>1. StepAt(x, s) \in CallState
  BY DEF CallState, StepAt
<1>2. After(StepAt(x, s), x, s, x.who, x.entry, x.reply)
  BY <1>1 DEF After, CallState, StepAt
<1>3. StepAt(x, s).did = x.did /\ StepAt(x, s).silent = x.silent
  BY DEF CallState, StepAt
<1> QED  BY <1>2, <1>3

LEMMA GotoMoves ==
    ASSUME TypeOK, NEW c \in Calls, NEW s \in Steps, Goto(c, s)
    PROVE  /\ Moves(c) /\ Same(c) /\ call'[c].step = s /\ call'[c].who = call[c].who
           /\ call'[c].did = call[c].did /\ call'[c].silent = call[c].silent
           /\ call'[c].entry = call[c].entry /\ call'[c].reply = call[c].reply
<1>1. call \in [Calls -> CallState] /\ call[c] \in CallState
  BY DEF TypeOK, CallState
<1>2. call' = [call EXCEPT ![c] = StepAt(call[c], s)]
  BY <1>1 DEF StepAt, Goto
<1>3. call'[c] = StepAt(call[c], s) /\ \A d \in Calls \ {c} : call'[d] = call[d]
  BY <1>1, <1>2
<1>4. After(call'[c], call[c], s, call[c].who, call[c].entry, call[c].reply) /\ call'[c].did = call[c].did /\ call'[c].silent = call[c].silent
  BY <1>1, <1>3, StepRecord
<1>5. Moves(c)
  BY <1>1, <1>2, <1>3, <1>4 DEF Moves, After
<1> QED  BY <1>4, <1>5 DEF After, Same

(* What GotoAs makes of the call.                                          *)
AsAt(x, w, s) == [x EXCEPT !.step = s, !.who = w]

LEMMA AsRecord ==
    ASSUME NEW x \in CallState, NEW w \in Identity \cup Attempts \cup {Nobody}, NEW s \in Steps
    PROVE  /\ After(AsAt(x, w, s), x, s, w, x.entry, x.reply)
           /\ AsAt(x, w, s).did = x.did /\ AsAt(x, w, s).silent = x.silent
<1>1. AsAt(x, w, s) \in CallState
  BY DEF CallState, AsAt
<1>2. After(AsAt(x, w, s), x, s, w, x.entry, x.reply)
  BY <1>1 DEF After, CallState, AsAt
<1>3. AsAt(x, w, s).did = x.did /\ AsAt(x, w, s).silent = x.silent
  BY DEF CallState, AsAt
<1> QED  BY <1>2, <1>3

LEMMA GotoAsMoves ==
    ASSUME TypeOK, NEW c \in Calls, NEW s \in Steps,
           NEW w \in Identity \cup Attempts \cup {Nobody}, GotoAs(c, w, s)
    PROVE  /\ Moves(c) /\ Same(c) /\ call'[c].step = s /\ call'[c].who = w
           /\ call'[c].did = call[c].did /\ call'[c].silent = call[c].silent
           /\ call'[c].entry = call[c].entry /\ call'[c].reply = call[c].reply
<1>1. call \in [Calls -> CallState] /\ call[c] \in CallState
  BY DEF TypeOK, CallState
<1>2. call' = [call EXCEPT ![c] = AsAt(call[c], w, s)]
  BY <1>1 DEF AsAt, GotoAs
<1>3. call'[c] = AsAt(call[c], w, s) /\ \A d \in Calls \ {c} : call'[d] = call[d]
  BY <1>1, <1>2
<1>4. After(call'[c], call[c], s, w, call[c].entry, call[c].reply) /\ call'[c].did = call[c].did /\ call'[c].silent = call[c].silent
  BY <1>1, <1>3, AsRecord
<1>5. Moves(c)
  BY <1>1, <1>2, <1>3, <1>4 DEF Moves, After
<1> QED  BY <1>4, <1>5 DEF After, Same

(* What Succeed makes of the call.                                         *)
DoneAt(x, s, d, q) == [x EXCEPT !.step = s, !.did = d, !.silent = q, !.reply = "ok"]

LEMMA DoneRecord ==
    ASSUME NEW x \in CallState, NEW s \in Steps, NEW d \in BOOLEAN, NEW q \in BOOLEAN
    PROVE  /\ After(DoneAt(x, s, d, q), x, s, x.who, x.entry, "ok")
           /\ DoneAt(x, s, d, q).silent = q
<1>1. DoneAt(x, s, d, q) \in CallState
  BY DEF CallState, DoneAt
<1>2. After(DoneAt(x, s, d, q), x, s, x.who, x.entry, "ok")
  BY <1>1 DEF After, CallState, DoneAt
<1>3. DoneAt(x, s, d, q).silent = q
  BY DEF CallState, DoneAt
<1> QED  BY <1>2, <1>3

LEMMA SucceedMoves ==
    ASSUME TypeOK, NEW c \in Calls, NEW s \in Steps, NEW d \in BOOLEAN, NEW q \in BOOLEAN,
           Succeed(c, s, d, q)
    PROVE  /\ Moves(c) /\ Same(c) /\ call'[c].step = s /\ call'[c].who = call[c].who
           /\ call'[c].silent = q
           /\ call'[c].entry = call[c].entry /\ call'[c].reply = "ok"
<1>1. call \in [Calls -> CallState] /\ call[c] \in CallState
  BY DEF TypeOK, CallState
<1>2. call' = [call EXCEPT ![c] = DoneAt(call[c], s, d, q)]
  BY <1>1 DEF DoneAt, Succeed
<1>3. call'[c] = DoneAt(call[c], s, d, q) /\ \A o \in Calls \ {c} : call'[o] = call[o]
  BY <1>1, <1>2
<1>4. After(call'[c], call[c], s, call[c].who, call[c].entry, "ok") /\ call'[c].silent = q
  BY <1>1, <1>3, DoneRecord
<1>5. Moves(c)
  BY <1>1, <1>2, <1>3, <1>4 DEF Moves, After
<1> QED  BY <1>4, <1>5 DEF After, Same

(* What an answer makes of the call.                                       *)
ReplyAt(x, s, r) == [x EXCEPT !.step = s, !.reply = r]

LEMMA ReplyRecord ==
    ASSUME NEW x \in CallState, NEW s \in Steps, NEW r \in {"ok", "rejected", "failed"}
    PROVE  /\ After(ReplyAt(x, s, r), x, s, x.who, x.entry, r)
           /\ ReplyAt(x, s, r).did = x.did /\ ReplyAt(x, s, r).silent = x.silent
<1>1. ReplyAt(x, s, r) \in CallState
  BY DEF CallState, ReplyAt
<1>2. After(ReplyAt(x, s, r), x, s, x.who, x.entry, r)
  BY <1>1 DEF After, CallState, ReplyAt
<1>3. ReplyAt(x, s, r).did = x.did /\ ReplyAt(x, s, r).silent = x.silent
  BY DEF CallState, ReplyAt
<1> QED  BY <1>2, <1>3

LEMMA ReplyMoves ==
    ASSUME TypeOK, NEW c \in Calls, NEW s \in Steps, NEW r \in {"ok", "rejected", "failed"},
           call' = [call EXCEPT ![c].step = s, ![c].reply = r]
    PROVE  /\ Moves(c) /\ Same(c) /\ call'[c].step = s /\ call'[c].who = call[c].who
           /\ call'[c].did = call[c].did /\ call'[c].silent = call[c].silent
           /\ call'[c].entry = call[c].entry /\ call'[c].reply = r
<1>1. call \in [Calls -> CallState] /\ call[c] \in CallState
  BY DEF TypeOK, CallState
<1>2. call' = [call EXCEPT ![c] = ReplyAt(call[c], s, r)]
  BY <1>1 DEF ReplyAt
<1>3. call'[c] = ReplyAt(call[c], s, r) /\ \A d \in Calls \ {c} : call'[d] = call[d]
  BY <1>1, <1>2
<1>4. After(call'[c], call[c], s, call[c].who, call[c].entry, r) /\ call'[c].did = call[c].did /\ call'[c].silent = call[c].silent
  BY <1>1, <1>3, ReplyRecord
<1>5. Moves(c)
  BY <1>1, <1>2, <1>3, <1>4 DEF Moves, After
<1> QED  BY <1>4, <1>5 DEF After, Same

LEMMA IdleIsCall == Idle \in CallState
BY DEF Idle, CallState, Steps, NoEndpoint, NoEntry, Entry

LEMMA AnswerMoves ==
    ASSUME TypeOK, NEW c \in Calls, Answer(c)
    PROVE  Moves(c) /\ call'[c] = Idle
BY IdleIsCall DEF TypeOK, Answer, Moves, CallState

-----------------------------------------------------------------------------
(* The inductive invariant: what is known of one call ...                  *)

(* A call is a request for a route or a command for one of the desktop's.  *)
Kind(c) ==
    /\ call[c].step = "idle" => call[c] = Idle
    /\ call[c].step # "idle" =>
         \/ Rest(c) /\ call[c].on \in Routes
         \/ Desktop(c) /\ call[c].on \in Commands

Early == {"arrived", "guard", "handle", "copy", "perform"}

(* How far it is, and what it has left behind so far.                      *)
Stage(c) ==
    /\ call[c].step = "arrived" => Rest(c) /\ call[c].on.floor # Public
    /\ call[c].step = "guard" /\ Rest(c) => call[c].on.floor # Public
    /\ call[c].step = "handle" => Act(c) \in RestAsks \cup DesktopAsks
    /\ call[c].step = "copy" => Act(c) \in {"logout", "config"}
    /\ call[c].step \in Early =>
         ~call[c].did /\ ~call[c].silent /\ call[c].entry.result = "none" /\ call[c].reply = "none"
    /\ call[c].step = "record" =>
         /\ call[c].entry.result = "none"
         /\ IF call[c].reply = "rejected"
            THEN ~call[c].did /\ ~call[c].silent /\ Act(c) \in {"login", "import"}
            ELSE IF Issuing(Act(c))
            THEN /\ ~call[c].did /\ ~call[c].silent /\ call[c].reply = "none"
                 /\ call[c].who \in Identity
            ELSE call[c].reply = "ok"
    /\ call[c].step = "sign" =>
         /\ Issuing(Act(c)) /\ call[c].who \in Identity
         /\ call[c].reply = "none" /\ call[c].entry.result \in {"ok", "lost"}
    /\ call[c].step \in {"announce", "reread"} =>
         /\ call[c].on.last = call[c].step
         /\ call[c].reply = "ok" /\ call[c].entry.result \in {"ok", "lost"}
    /\ call[c].silent => Act(c) = "delete" \/ call[c].on.last = "announce"

(* It goes by a name only tried if it is a login that failed.              *)
Tried(c) == call[c].who \in Attempts <=> Act(c) = "login" /\ call[c].reply = "rejected"

Trace(c) ==
    /\ call[c].did /\ call[c].on.audited /\ call[c].entry.result \notin {"ok", "lost"} =>
         \/ Act(c) \in {"long", "config"} /\ call[c].reply = "failed"
         \/ Desktop(c) /\ Act(c) = "logout" /\ call[c].who = Nobody
    /\ call[c].entry.result = "ok" => call[c].reply = "ok" \/ call[c].on.last = "reread"
    /\ call[c].entry.result \in {"denied", "failed"} => ~call[c].did /\ call[c].reply # "ok"
    /\ call[c].silent => call[c].reply = "failed" \/ Act(c) = "delete"

(* Its token: a login's is still to be issued; nobody's is reused, so once *)
(* a guard has found somebody it is that user's, or dead.                  *)
Holds(c) ==
    Rest(c) =>
      /\ Issuing(Act(c)) /\ call[c].step # "done" =>
           call[c].token \in Tokens /\ tokens[call[c].token] = Unused
      /\ ~Issuing(Act(c)) /\ call[c].token # Nobody => tokens[call[c].token] # Unused
      /\ call[c].on.floor # Public /\ call[c].step # "arrived" =>
           /\ call[c].who # Nobody /\ call[c].token \in Tokens
           /\ tokens[call[c].token] \in {call[c].who, Nobody}

Named(c) ==
    /\ call[c].entry.result \in {"ok", "denied", "failed"} =>
        \/ call[c].entry.actor = call[c].who
        \/ /\ call[c].entry.actor = Nobody /\ Rest(c)
           /\ call[c].token \in Tokens /\ tokens[call[c].token] = Nobody
    /\ call[c].entry.actor \in Attempts <=> call[c].entry.result = "failed" /\ Act(c) = "login"

(* Whom it has let through                                                 *)
Passed(c) ==
    /\ call[c].step \in {"handle", "perform", "record", "sign", "announce", "reread"}
       \/ call[c].did
    /\ call[c].on.floor # Public
    => call[c].who # Nobody /\ AtLeast(call[c].who.role, call[c].on.floor)

Said(c) ==
    Signing(c) /\ call[c].reply = "ok" /\ ~call[c].raced =>
        session = IF Act(c) = "logout" THEN Nobody ELSE call[c].who

Own(c) ==
    /\ Kind(c) /\ Stage(c) /\ Tried(c) /\ (call[c].step = "done" => Trace(c))
    /\ Holds(c) /\ Named(c) /\ Passed(c) /\ Said(c)

(* ... of two, ...                                                         *)
Apart(c, d) ==
    /\ Rest(c) /\ Rest(d) /\ Issuing(Act(c)) /\ call[c].step # "done" =>
         call[c].token # call[d].token
    /\ Signing(c) /\ Signing(d) => call[c].raced

(* ... and of the identities that are about: each has a role its account   *)
(* has, or had before it was demoted.                                      *)
Honest(i) ==
    \/ i.user \in demoted \cup {Local}
    \/ /\ i.user \in Users /\ accounts[i.user] # Gone
       /\ AtLeast(accounts[i.user], i.role)

AllHonest ==
    /\ \A t \in Tokens : tokens[t] \in Identity => Honest(tokens[t])
    /\ session \in Identity => Honest(session)
    /\ \A c \in Calls : call[c].who \in Identity => Honest(call[c].who)

IInv ==
    /\ TypeOK
    /\ \A c \in Calls : Own(c)
    /\ \A c, d \in Calls : c # d => Apart(c, d)
    /\ AllHonest

LEMMA EndpointOf ==
    ASSUME IInv, NEW c \in Calls, call[c].step # "idle"
    PROVE  Sound(call[c].on) /\ (Rest(c) => Act(c) # "config")
BY EndpointsSound DEF IInv, Own, Kind, Act, Rest, Desktop

-----------------------------------------------------------------------------
(* What a step of c leaves as it was *)

Advances(c) ==
    /\ Moves(c) /\ Same(c)
    /\ call[c].step \notin {"idle", "done"} /\ call'[c].step # "idle"

Ends(c) == Moves(c) /\ call'[c] = Idle

(* A step of c issues the token c came for, or kills some.                 *)
TokensBy(c) ==
    /\ tokens' \in [Tokens -> Identity \cup {Unused, Nobody}]
    /\ \A t \in Tokens :
         \/ tokens'[t] = tokens[t]
         \/ tokens[t] # Unused /\ tokens'[t] = Nobody
         \/ Rest(c) /\ Issuing(Act(c)) /\ call[c].step # "done" /\ t = call[c].token

SessionBy(c) == session' \in Identity \cup {Nobody} /\ (session' = session \/ Signing(c))

IdleFacts ==
    /\ Idle.step = "idle" /\ Idle.via = "none" /\ Idle.on = NoEndpoint /\ Idle.token = Nobody
    /\ Idle.who = Nobody /\ ~Idle.did /\ ~Idle.silent /\ Idle.reply = "none"
    /\ Idle.entry = NoEntry /\ NoEntry.result = "none" /\ NoEntry.actor = Nobody

LEMMA IdleIs == IdleFacts
BY DEF IdleFacts, Idle, NoEntry

LEMMA IdleIsFine ==
    ASSUME NEW c \in Calls, call[c] = Idle
    PROVE  Own(c)
BY IdleIs, TriedIsNobody DEF IdleFacts, Own, Kind, Stage, Tried, Trace, Holds, Named, Passed, Said, Early, Rest, Desktop,
   Signing

LEMMA PairsKeep ==
    ASSUME IInv, NEW c \in Calls, Advances(c) \/ Ends(c), NEW x \in Calls, NEW y \in Calls, x # y
    PROVE  Apart(x, y)'
<1>1. \A d \in Calls \ {c} : call'[d] = call[d]
  BY DEF Advances, Ends, Moves
<1>2. Apart(x, y)
  BY DEF IInv
<1>3. CASE Advances(c)
  <2>1. \A d \in Calls : Same(d) /\ (call[d].step = "done" => call'[d].step = "done")
    BY <1>1, <1>3 DEF Advances, Same
  <2> QED  BY <1>2, <2>1 DEF Apart, Same, Rest, Desktop, Issuing, Signing, Act
<1>4. CASE Ends(c)
  <2>1. call'[c].via = "none"
    BY <1>4, IdleIs DEF Ends, IdleFacts
  <2> QED  BY <1>1, <1>2, <2>1 DEF Apart, Rest, Desktop, Issuing, Signing, Act
<1> QED  BY <1>3, <1>4

LEMMA OthersKeep ==
    ASSUME IInv, NEW c \in Calls, Moves(c), TokensBy(c), SessionBy(c),
           NEW d \in Calls, d # c
    PROVE  Own(d)'
<1>1. call'[d] = call[d]
  BY DEF Moves
<1>2. Own(d) /\ Apart(c, d) /\ Apart(d, c)
  BY DEF IInv
<1>3. Kind(d)' /\ Stage(d)' /\ Tried(d)' /\ (call'[d].step = "done" => Trace(d)') /\ Passed(d)'
  BY <1>1, <1>2 DEF Own, Kind, Stage, Tried, Trace, Passed, Issuing, Rest, Desktop, Act, Early
<1>4. ASSUME Rest(d), call[d].token \in Tokens
      PROVE  \/ tokens'[call[d].token] = tokens[call[d].token]
             \/ tokens[call[d].token] # Unused /\ tokens'[call[d].token] = Nobody
  BY <1>2, <1>4 DEF TokensBy, Apart
<1>5. call[d].token \in Tokens \cup {Nobody} /\ Unused # Nobody
  BY IdentityAssumption DEF IInv, TypeOK
<1>6. Rest(d)' = Rest(d) /\ Act(d)' = Act(d) /\ Signing(d)' = Signing(d)
  BY <1>1 DEF Rest, Act, Signing, Desktop
<1>7. Holds(d)'
  BY <1>1, <1>2, <1>4, <1>5, <1>6 DEF Own, Holds, Issuing
<1>8. Named(d)'
  BY <1>1, <1>2, <1>4, <1>5, <1>6 DEF Own, Named
<1>9. Said(d)'
  BY <1>1, <1>2, <1>6 DEF Own, Said, SessionBy, Apart
<1> QED  BY <1>3, <1>7, <1>8, <1>9 DEF Own

(* So a step of c keeps the invariant if it keeps what is known of c, and  *)
(* of the identities.                                                      *)
LEMMA StepKeeps ==
    ASSUME IInv, NEW c \in Calls, Advances(c) \/ Ends(c), TokensBy(c), SessionBy(c),
           accounts' \in [Users -> Roles \cup {Gone}], disabled' \in BOOLEAN,
           demoted' \subseteq Users, Own(c)', AllHonest'
    PROVE  IInv'
<1>1. Moves(c)
  BY DEF Advances, Ends
<1>2. TypeOK'
  BY <1>1 DEF Moves, CallState, TypeOK, TokensBy, SessionBy
<1>3. \A d \in Calls : Own(d)'
  BY <1>1, OthersKeep
<1>4. \A x, y \in Calls : x # y => Apart(x, y)'
  BY PairsKeep
<1> QED  BY <1>2, <1>3, <1>4 DEF IInv

(* ... in particular if it changes nothing but the call,                   *)
LEMMA QuietKeeps ==
    ASSUME IInv, NEW c \in Calls, Advances(c) \/ Ends(c), UNCHANGED state, Own(c)',
           call'[c].who \in Identity => Honest(call'[c].who)
    PROVE  IInv'
<1>1. /\ accounts' = accounts /\ tokens' = tokens /\ session' = session
      /\ disabled' = disabled /\ demoted' = demoted
  BY DEF state
<1>2. TokensBy(c) /\ SessionBy(c) /\ accounts' \in [Users -> Roles \cup {Gone}]
      /\ disabled' \in BOOLEAN /\ demoted' \subseteq Users
  BY <1>1 DEF IInv, TypeOK, TokensBy, SessionBy
<1>3. \A d \in Calls \ {c} : call'[d] = call[d]
  BY DEF Advances, Ends, Moves
<1>4. \A i : Honest(i)' <=> Honest(i)
  BY <1>1 DEF Honest
<1>5. AllHonest'
  BY <1>1, <1>3, <1>4 DEF IInv, AllHonest
<1> QED  BY <1>2, <1>5, StepKeeps

(* ... and if it gives the call up.                                        *)
LEMMA AnswerKeeps ==
    ASSUME IInv, NEW c \in Calls, Answer(c), UNCHANGED state
    PROVE  IInv'
<1>1. Ends(c)
  BY AnswerMoves DEF IInv, Ends
<1>2. Own(c)'
  BY <1>1, IdleIs, TriedIsNobody DEF Ends, IdleFacts, Own, Kind, Stage, Tried, Trace, Holds, Named, Passed, Said, Early,
     Rest, Desktop, Signing
<1>3. call'[c].who \notin Identity
  BY <1>1, IdleIs, IdentityAssumption DEF Ends, IdleFacts
<1> QED  BY <1>1, <1>2, <1>3, QuietKeeps

-----------------------------------------------------------------------------
(* Guards *)

(* Where Handling leads                                                    *)
LEMMA HandlingIs ==
    ASSUME NEW via, NEW act
    PROVE  /\ Handling(via, act) \in {"handle", "perform"}
           /\ Handling(via, act) = "handle" => act \in RestAsks \cup DesktopAsks
BY DEF Handling

(* A call that goes on as somebody, before it has done anything            *)
LEMMA GoOnKeeps ==
    ASSUME IInv, NEW c \in Calls, NEW s \in {"guard", "handle", "perform"},
           NEW w \in Identity \cup {Nobody}, GotoAs(c, w, s), UNCHANGED state,
           call[c].step \in Early, w \in Identity => Honest(w),
           s = "guard" /\ Rest(c) => call[c].on.floor # Public,
           s = "handle" => Act(c) \in RestAsks \cup DesktopAsks,
           Rest(c) /\ call[c].on.floor # Public =>
             w # Nobody /\ call[c].token \in Tokens /\ tokens[call[c].token] = w,
           s # "guard" /\ call[c].on.floor # Public =>
             w # Nobody /\ AtLeast(w.role, call[c].on.floor)
    PROVE  IInv'
<1>1. /\ Moves(c) /\ Same(c) /\ call'[c].step = s /\ call'[c].who = w
      /\ call'[c].did = call[c].did /\ call'[c].silent = call[c].silent
      /\ call'[c].entry = call[c].entry /\ call'[c].reply = call[c].reply
  BY GotoAsMoves DEF IInv, Steps
<1>2. Advances(c)
  BY <1>1 DEF Advances, Early
<1>3. tokens' = tokens /\ session' = session
  BY DEF state
<1>4. Own(c) /\ ~call[c].did /\ ~call[c].silent /\ call[c].entry.result = "none"
      /\ call[c].reply = "none"
  BY DEF IInv, Own, Stage
<1>5. /\ Rest(c)' = Rest(c) /\ Act(c)' = Act(c) /\ Desktop(c)' = Desktop(c)
      /\ Issuing(Act(c))' = Issuing(Act(c))
  BY <1>1 DEF Same, Rest, Act, Desktop, Issuing
<1>6. Kind(c)' /\ Stage(c)' /\ Tried(c)'
  BY <1>1, <1>4, <1>5, TriedIsNobody DEF Own, Kind, Stage, Tried, Same, Early
<1>7. Holds(c)'
  BY <1>1, <1>3, <1>4, <1>5 DEF Own, Holds, Same, Early
<1>8. Named(c)' /\ Passed(c)' /\ Said(c)'
  BY <1>1, <1>4, <1>5 DEF Own, Named, Passed, Same, Said
<1>9. Own(c)'
  BY <1>1, <1>6, <1>7, <1>8 DEF Own
<1> QED  BY <1>1, <1>2, <1>9, QuietKeeps

LEMMA PutMoves ==
    ASSUME TypeOK, NEW c \in Calls, NEW r \in CallState, call' = [call EXCEPT ![c] = r]
    PROVE  Moves(c) /\ call'[c] = r
BY DEF TypeOK, Moves, CallState

Denies(c, w, e) ==
    call' = [call EXCEPT ![c].step = "done", ![c].who = w, ![c].entry = e, ![c].reply = "failed"]

LEMMA DenialMoves ==
    ASSUME TypeOK, NEW c \in Calls, NEW w \in Identity, NEW e \in Entry,
           Denies(c, w, e)
    PROVE  /\ Moves(c) /\ Same(c) /\ call'[c].step = "done" /\ call'[c].who = w
           /\ call'[c].did = call[c].did /\ call'[c].silent = call[c].silent
           /\ call'[c].entry = e /\ call'[c].reply = "failed"
<1> DEFINE r == [call[c] EXCEPT !.step = "done", !.who = w, !.entry = e, !.reply = "failed"]
<1>1. call[c] \in CallState /\ call \in [Calls -> CallState]
  BY DEF TypeOK, CallState
<1>2. /\ r \in CallState /\ r.step = "done" /\ r.who = w /\ r.entry = e /\ r.did = call[c].did
      /\ r.silent = call[c].silent /\ r.reply = "failed"
      /\ r.via = call[c].via /\ r.on = call[c].on /\ r.token = call[c].token
      /\ r.raced = call[c].raced
  BY <1>1 DEF CallState, Steps
<1>3. call' = [call EXCEPT ![c] = r]
  BY DEF Denies
<1> HIDE DEF r
<1>4. Moves(c) /\ call'[c] = r
  BY <1>2, <1>3, PutMoves
<1> QED  BY <1>2, <1>4 DEF Same

(* A refusal leaves nothing but its entry.                                 *)
LEMMA DenialKeeps ==
    ASSUME IInv, NEW c \in Calls, call[c].step = "guard", UNCHANGED state,
           NEW w \in Identity, Honest(w),
           NEW e \in {[result |-> "denied", actor |-> w], Lost},
           Denies(c, w, e),
           Rest(c) => call[c].token \in Tokens /\ tokens[call[c].token] = w
    PROVE  IInv'
<1>1. e \in Entry /\ e.result \in {"denied", "lost"} /\ (e.result = "denied" => e.actor = w)
      /\ e.actor \notin Attempts
  <2>1. CASE e = [result |-> "denied", actor |-> w]
    BY <2>1, TriedIsNobody DEF Entry
  <2>2. CASE e = Lost
    BY <2>2, TriedIsNobody DEF Entry, Lost
  <2> QED  BY <2>1, <2>2
<1>2. /\ Moves(c) /\ Same(c) /\ call'[c].step = "done" /\ call'[c].who = w
      /\ call'[c].did = call[c].did /\ call'[c].silent = call[c].silent
      /\ call'[c].entry = e /\ call'[c].reply = "failed"
  BY <1>1, DenialMoves DEF IInv
<1>3. Advances(c)
  BY <1>2 DEF Advances
<1>4. tokens' = tokens /\ session' = session
  BY DEF state
<1>5. Own(c) /\ ~call[c].did /\ ~call[c].silent
  BY DEF IInv, Own, Stage, Early
<1>6. /\ Rest(c)' = Rest(c) /\ Act(c)' = Act(c) /\ Desktop(c)' = Desktop(c)
      /\ Issuing(Act(c))' = Issuing(Act(c))
  BY <1>2 DEF Same, Rest, Act, Desktop, Issuing
<1>7. Kind(c)' /\ Stage(c)' /\ Tried(c)' /\ Trace(c)'
  BY <1>1, <1>2, <1>5, <1>6, TriedIsNobody DEF Own, Kind, Stage, Tried, Same, Early, Trace
<1>8. Holds(c)'
  BY <1>2, <1>4, <1>5, <1>6, IdentityAssumption DEF Own, Holds, Same
<1>9. Named(c)' /\ Passed(c)' /\ Said(c)'
  BY <1>1, <1>2, <1>5, <1>6 DEF Named, Passed, Said
<1>10. Own(c)'
  BY <1>2, <1>7, <1>8, <1>9 DEF Own
<1> QED  BY <1>2, <1>3, <1>10, QuietKeeps

LEMMA HonestTokens ==
    ASSUME IInv, NEW t \in Tokens, tokens[t] # Nobody, tokens[t] # Unused
    PROVE  tokens[t] \in Identity /\ Honest(tokens[t])
BY DEF IInv, TypeOK, AllHonest

LEMMA HonestSession ==
    ASSUME IInv
    PROVE  session # Nobody => session \in Identity /\ Honest(session)
BY DEF IInv, TypeOK, AllHonest

(* A request past require_auth, and one that is still to get there, has a  *)
(* token that was issued.                                                  *)
LEMMA GuardedToken ==
    ASSUME IInv, NEW c \in Calls, Rest(c), call[c].step \in Early, ~Issuing(Act(c))
    PROVE  call[c].token = Nobody \/ (call[c].token \in Tokens /\ tokens[call[c].token] # Unused)
<1>1. call[c].token \in Tokens \cup {Nobody}
  BY DEF IInv, TypeOK
<1>2. Holds(c)
  BY DEF IInv, Own
<1> QED  BY <1>1, <1>2 DEF Holds

LEMMA RequireAuthKeeps ==
    ASSUME IInv, NEW c \in Calls, RequireAuth(c)
    PROVE  IInv'
<1> DEFINE who == IF call[c].token = Nobody THEN Nobody ELSE tokens[call[c].token]
<1>1. call[c].step = "arrived" /\ UNCHANGED state
  BY DEF RequireAuth, AtStep
<1>2. Rest(c) /\ call[c].on.floor # Public /\ Sound(call[c].on) /\ Act(c) # "config"
  BY <1>1, EndpointOf DEF IInv, Own, Stage
<1>3. ~Issuing(Act(c))
  BY <1>2 DEF Sound, Issuing, Act
<1>4. CASE who = Nobody
  BY <1>1, <1>4, AnswerKeeps DEF RequireAuth
<1>5. CASE who # Nobody
  <2> DEFINE next == IF Floor(c) = Viewer THEN Handling("rest", Act(c)) ELSE "guard"
  <2>1. GotoAs(c, who, next)
    BY <1>5 DEF RequireAuth
  <2>2. call[c].token \in Tokens /\ who = tokens[call[c].token] /\ who # Unused
    BY <1>1, <1>2, <1>3, <1>5, GuardedToken DEF Early
  <2>3. who \in Identity /\ Honest(who)
    BY <1>5, <2>2, HonestTokens
  <2>4. /\ next \in {"guard", "handle", "perform"}
        /\ next = "handle" => Act(c) \in RestAsks \cup DesktopAsks
        /\ next # "guard" => call[c].on.floor = Viewer
    BY <1>2, HandlingIs DEF Floor
  <2>5. who.role \in Roles
    BY <2>3 DEF Identity
  <2>6. AtLeast(who.role, Viewer)
    BY <2>5 DEF AtLeast, Roles, Viewer, Editor, Admin
  <2>7. call[c].step \in Early
    BY <1>1 DEF Early
  <2> HIDE DEF who, next
  <2> QED  BY <1>1, <1>2, <1>5, <2>1, <2>2, <2>3, <2>4, <2>6, <2>7, GoOnKeeps
<1> QED  BY <1>4, <1>5

LEMMA GuardKeeps ==
    ASSUME IInv, NEW c \in Calls, call[c].step = "guard", UNCHANGED state,
           NEW w \in Identity \cup {Nobody}, NEW s \in {"handle", "perform"},
           Guard(c, w, Floor(c), s), w # Nobody => w \in Identity /\ Honest(w),
           s = "handle" => Act(c) \in RestAsks \cup DesktopAsks,
           Rest(c) /\ w # Nobody => call[c].token \in Tokens /\ tokens[call[c].token] = w
    PROVE  IInv'
<1>1. CASE w = Nobody
  BY <1>1, AnswerKeeps DEF Guard
<1>2. CASE w # Nobody /\ ~AtLeast(w.role, Floor(c))
  <2>1. PICK e \in {[result |-> "denied", actor |-> w], Lost} :
           Denies(c, w, e)
    BY <1>2 DEF Guard, Denies
  <2> QED  BY <1>2, <2>1, DenialKeeps
<1>3. CASE w # Nobody /\ AtLeast(w.role, Floor(c))
  <2>1. GotoAs(c, w, s)
    BY <1>3 DEF Guard
  <2>2. Sound(call[c].on) /\ call[c].step \in Early
    BY EndpointOf DEF Early
  <2>3. call[c].on.floor # Public => AtLeast(w.role, call[c].on.floor)
    BY <1>3, <2>2 DEF Floor, Sound, Act
  <2> QED  BY <1>3, <2>1, <2>2, <2>3, GoOnKeeps
<1> QED  BY <1>1, <1>2, <1>3

LEMMA RequireRoleKeeps ==
    ASSUME IInv, NEW c \in Calls, RequireRoleAtLeast(c) \/ RequireRole(c)
    PROVE  IInv'
<1>1. CASE RequireRoleAtLeast(c)
  <2> DEFINE w == tokens[call[c].token]
             s == Handling("rest", Act(c))
  <2>1. call[c].step = "guard" /\ Rest(c) /\ UNCHANGED state /\ Guard(c, w, Floor(c), s)
    BY <1>1 DEF RequireRoleAtLeast, AtStep
  <2>2. call[c].on.floor # Public /\ Own(c)
    BY <2>1 DEF IInv, Own, Stage
  <2>3. call[c].who # Nobody /\ call[c].token \in Tokens /\ w \in {call[c].who, Nobody}
    BY <2>1, <2>2 DEF Own, Holds
  <2>4. w # Nobody => w \in Identity /\ Honest(w)
    BY <2>3, TriedIsNobody, IdentityAssumption DEF IInv, TypeOK, AllHonest
  <2>5. s \in {"handle", "perform"} /\ (s = "handle" => Act(c) \in RestAsks \cup DesktopAsks)
    BY HandlingIs
  <2> HIDE DEF s
  <2> QED  BY <2>1, <2>3, <2>4, <2>5, GuardKeeps
<1>2. CASE RequireRole(c)
  <2>1. call[c].step = "guard" /\ Desktop(c) /\ UNCHANGED state
        /\ Guard(c, session, Floor(c), "perform")
    BY <1>2 DEF RequireRole, AtStep
  <2>2. ~Rest(c) /\ session \in Identity \cup {Nobody}
    BY <2>1 DEF Rest, Desktop, IInv, TypeOK
  <2> QED  BY <2>1, <2>2, HonestSession, GuardKeeps
<1> QED  BY <1>1, <1>2

LEMMA RestLookupKeeps ==
    ASSUME IInv, NEW c \in Calls, RestLookup(c)
    PROVE  IInv'
<1> DEFINE who == IF call[c].token = Nobody THEN Nobody ELSE tokens[call[c].token]
<1>1. call[c].step = "handle" /\ Rest(c) /\ UNCHANGED state /\ call[c].step \in Early
  BY DEF RestLookup, AtStep, Early
<1>2. Own(c) /\ Act(c) \in RestAsks \cup DesktopAsks /\ Sound(call[c].on)
  BY <1>1, EndpointOf DEF IInv, Own, Stage
<1>3. ~Issuing(Act(c))
  BY <1>2 DEF RestAsks, DesktopAsks, Issuing
<1>4. /\ who # Nobody => /\ call[c].token \in Tokens /\ tokens[call[c].token] = who
                         /\ who \in Identity /\ Honest(who)
  BY <1>1, <1>3, GuardedToken, HonestTokens
<1>5. CASE Answer(c)
  BY <1>1, <1>5, AnswerKeeps
<1>6. CASE (Act(c) = "logout" \/ who # Nobody) /\ GotoAs(c, who, "perform")
  <2>1. CASE call[c].on.floor # Public
    <3>1. who # Nobody
      BY <1>2, <1>6, <2>1 DEF Sound, Act
    <3>2. who = call[c].who /\ AtLeast(who.role, call[c].on.floor)
      BY <1>1, <1>2, <1>4, <2>1, <3>1 DEF Own, Holds, Passed
    <3> HIDE DEF who
    <3> QED  BY <1>1, <1>2, <1>4, <1>6, <3>1, <3>2, GoOnKeeps
  <2>2. CASE call[c].on.floor = Public
    <3> HIDE DEF who
    <3>1. who \in Identity \cup {Nobody}
      BY <1>4
    <3>2. who \in Identity => Honest(who)
      BY <1>4, IdentityAssumption
    <3> QED  BY <1>1, <1>6, <2>2, <3>1, <3>2, GoOnKeeps
  <2> QED  BY <2>1, <2>2
<1> QED  BY <1>5, <1>6 DEF RestLookup

LEMMA CopySessionKeeps ==
    ASSUME IInv, NEW c \in Calls, CopySession(c)
    PROVE  IInv'
<1>1. Desktop(c) /\ UNCHANGED state /\ call[c].step \in Early /\ ~Rest(c)
  BY DEF CopySession, AtStep, Early, Desktop, Rest
<1>2. Own(c) /\ Sound(call[c].on)
  BY <1>1, EndpointOf DEF IInv, Early
<1>3. call[c].on.floor = Public
  BY <1>2 DEF CopySession, AtStep, Own, Stage, Sound, Act
<1>4. session \in Identity \cup {Nobody} /\ (session \in Identity => Honest(session))
  BY DEF IInv, TypeOK, AllHonest
<1>5. CASE Answer(c)
  BY <1>1, <1>5, AnswerKeeps
<1>6. CASE GotoAs(c, session, "perform")
  BY <1>1, <1>3, <1>4, <1>6, GoOnKeeps
<1> QED  BY <1>5, <1>6 DEF CopySession

LEMMA StaysItself ==
    ASSUME NEW c, Same(c)
    PROVE  /\ Rest(c)' = Rest(c) /\ Desktop(c)' = Desktop(c) /\ Act(c)' = Act(c)
           /\ Issuing(Act(c))' = Issuing(Act(c)) /\ Signing(c)' = Signing(c)
BY DEF Same, Rest, Desktop, Act, Issuing, Signing

LEMMA ReadModeKeeps ==
    ASSUME IInv, NEW c \in Calls, ReadMode(c)
    PROVE  IInv'
<1>1. call[c].step = "handle" /\ Desktop(c) /\ UNCHANGED state
      /\ Act(c) \in {"logout", "config"}
  BY DEF ReadMode, AtStep
<1>2. CASE Answer(c)
  BY <1>1, <1>2, AnswerKeeps
<1>3. ASSUME NEW s \in {"copy", "guard"}, Goto(c, s) PROVE IInv'
  <2>1. /\ Moves(c) /\ Same(c) /\ call'[c].step = s /\ call'[c].who = call[c].who
        /\ call'[c].did = call[c].did /\ call'[c].silent = call[c].silent
        /\ call'[c].entry = call[c].entry /\ call'[c].reply = call[c].reply
    BY <1>3, GotoMoves DEF IInv, Steps
  <2>2. /\ Rest(c)' = Rest(c) /\ Desktop(c)' = Desktop(c) /\ Act(c)' = Act(c)
        /\ Signing(c)' = Signing(c) /\ ~Rest(c)
    BY <1>1, <2>1, StaysItself DEF Rest, Desktop
  <2>3. Own(c) /\ ~call[c].did /\ ~call[c].silent /\ call[c].reply = "none"
        /\ call[c].entry.result = "none"
    BY <1>1 DEF IInv, Own, Stage, Early
  <2>4. Advances(c)
    BY <1>1, <2>1 DEF Advances
  <2>5. Own(c)'
    BY <1>1, <2>1, <2>2, <2>3
    DEF Own, Kind, Stage, Tried, Holds, Named, Passed, Said, Early, Same, Issuing
  <2>6. call'[c].who \in Identity => Honest(call'[c].who)
    BY <2>1 DEF IInv, AllHonest
  <2> QED  BY <1>1, <2>4, <2>5, <2>6, QuietKeeps
<1> QED  BY <1>2, <1>3 DEF ReadMode

-----------------------------------------------------------------------------
(* The service call *)

(* A call that has not lost its token since the guard goes on holding it.  *)
LEMMA HoldsOn ==
    ASSUME IInv, NEW c \in Calls, Same(c), call[c].step # "arrived",
           call'[c].who = call[c].who \/ call[c].on.floor = Public,
           call'[c].step = "done" \/ call[c].step # "done", tokens' = tokens
    PROVE  Holds(c)'
<1>1. Own(c)
  BY DEF IInv
<1> QED  BY <1>1, StaysItself DEF Own, Holds, Same

(* A service call that has succeeded                                       *)
LEMMA PerformedOwn ==
    ASSUME IInv, NEW c \in Calls, NEW s \in {"record", "done"},
           NEW d \in BOOLEAN, NEW q \in BOOLEAN, Succeed(c, s, d, q),
           call[c].step = "perform", ~Issuing(Act(c)),
           q => Act(c) = "delete" \/ call[c].on.last = "announce",
           s = "done" =>
               \/ ~call[c].on.audited
               \/ Desktop(c) /\ Act(c) = "logout" /\ call[c].who = Nobody,
           Holds(c)' \/ tokens' = tokens,
           Said(c)' \/ ~Signing(c)
    PROVE  Own(c)' /\ Advances(c) /\ call'[c].who = call[c].who
<1>1. /\ Moves(c) /\ Same(c) /\ call'[c].step = s /\ call'[c].who = call[c].who
      /\ call'[c].silent = q /\ call'[c].entry = call[c].entry /\ call'[c].reply = "ok"
  BY SucceedMoves DEF IInv, Steps
<1>2. /\ Rest(c)' = Rest(c) /\ Desktop(c)' = Desktop(c) /\ Act(c)' = Act(c)
      /\ Issuing(Act(c))' = Issuing(Act(c)) /\ Signing(c)' = Signing(c)
      /\ call'[c].on = call[c].on
  BY <1>1, StaysItself DEF Same
<1>3. Own(c) /\ call[c].reply = "none" /\ call[c].entry.result = "none" /\ Sound(call[c].on)
  BY EndpointOf DEF IInv, Own, Stage, Early
<1>4. Kind(c)' /\ Stage(c)' /\ Tried(c)'
  BY <1>1, <1>2, <1>3 DEF Own, Kind, Stage, Tried, Early
<1>5. s = "done" => Trace(c)'
  <2>1. q => call[c].on.audited \/ Act(c) = "delete"
    BY <1>3 DEF Sound
  <2>2. Act(c) = "logout" => call[c].on.last = "none"
    BY <1>3 DEF Sound, Act
  <2> QED  BY <1>1, <1>2, <1>3, <2>1, <2>2 DEF Trace
<1>6. Holds(c)'
  BY <1>1, HoldsOn
<1>7. Named(c)' /\ Passed(c)' /\ Said(c)'
  BY <1>1, <1>2, <1>3 DEF Own, Named, Passed, Said
<1>8. Advances(c)
  BY <1>1 DEF Advances
<1> QED  BY <1>1, <1>4, <1>5, <1>6, <1>7, <1>8 DEF Own

LEMMA PerformChangeKeeps ==
    ASSUME IInv, NEW c \in Calls, PerformChange(c)
    PROVE  IInv'
<1> DEFINE s == IF call[c].on.audited THEN "record" ELSE "done"
<1>1. /\ call[c].step = "perform" /\ UNCHANGED state /\ tokens' = tokens
      /\ Act(c) \in {"change", "long", "own", "import", "password"}
  BY DEF PerformChange, AtStep, state
<1>5. PICK d \in BOOLEAN : Succeed(c, s, d, d /\ call[c].on.last = "announce")
  BY DEF PerformChange
<1> DEFINE q == d /\ call[c].on.last = "announce"
<1>6. q \in BOOLEAN /\ (q => call[c].on.last = "announce") /\ Succeed(c, s, d, q)
  BY <1>5
<1>2. s \in {"record", "done"} /\ (s = "done" => ~call[c].on.audited)
  OBVIOUS
<1>3. ~Issuing(Act(c)) /\ ~Signing(c)
  BY <1>1 DEF Issuing, Signing, SessionActs
<1> HIDE DEF s, q
<1>4. Own(c)' /\ Advances(c) /\ call'[c].who = call[c].who
  BY <1>1, <1>2, <1>3, <1>6, PerformedOwn
<1> QED  BY <1>1, <1>4, QuietKeeps DEF IInv, AllHonest

LEMMA PerformDeleteKeeps ==
    ASSUME IInv, NEW c \in Calls, PerformDelete(c)
    PROVE  IInv'
<1>1. /\ call[c].step = "perform" /\ UNCHANGED state /\ tokens' = tokens /\ Act(c) = "delete"
  BY DEF PerformDelete, AtStep, state
<1>2. PICK swept \in BOOLEAN : Succeed(c, "record", TRUE, swept)
  BY DEF PerformDelete
<1>3. ~Issuing(Act(c)) /\ ~Signing(c)
  BY <1>1 DEF Issuing, Signing, SessionActs
<1>4. Own(c)' /\ Advances(c) /\ call'[c].who = call[c].who
  BY <1>1, <1>2, <1>3, PerformedOwn
<1> QED  BY <1>1, <1>4, QuietKeeps DEF IInv, AllHonest

(* Accounts that lose a role are remembered as demoted, so every identity  *)
(* stays honest.                                                           *)
LEMMA DemotingIsHonest ==
    ASSUME IInv, NEW u \in Users, NEW r \in Roles \cup {Gone}, accounts[u] # Gone,
           accounts' = [accounts EXCEPT ![u] = r],
           demoted' = demoted \/ demoted' = demoted \cup {u},
           u \notin demoted' => r # Gone /\ r >= accounts[u],
           NEW i, Honest(i), i \in Identity
    PROVE  Honest(i)'
<1>1. accounts \in [Users -> Roles \cup {Gone}]
  BY DEF IInv, TypeOK
<1>2. i.role \in Nat /\ accounts[u] \in Nat /\ (r # Gone => r \in Nat)
  BY <1>1 DEF Identity, Roles, Viewer, Editor, Admin
<1> QED  BY <1>1, <1>2 DEF Honest, AtLeast

LEMMA MutatingKeeps ==
    ASSUME IInv, NEW c \in Calls, call[c].step = "perform",
           NEW d \in BOOLEAN, Succeed(c, "record", d, FALSE),
           ~Issuing(Act(c)), ~Signing(c), tokens' = tokens, session' = session,
           accounts' \in [Users -> Roles \cup {Gone}], disabled' \in BOOLEAN,
           demoted' \subseteq Users, \A i \in Identity : Honest(i) => Honest(i)'
    PROVE  IInv'
<1>1. Own(c)' /\ Advances(c) /\ call'[c].who = call[c].who
  BY PerformedOwn
<1>2. TokensBy(c) /\ SessionBy(c)
  BY DEF IInv, TypeOK, TokensBy, SessionBy
<1>3. \A o \in Calls : call'[o].who = call[o].who
  BY <1>1 DEF Advances, Moves
<1>4. AllHonest'
  BY <1>3 DEF IInv, AllHonest
<1> QED  BY <1>1, <1>2, <1>4, StepKeeps

LEMMA DemoteKeeps == ASSUME IInv, NEW c \in Calls, Demote(c) PROVE IInv'
<1>1. /\ call[c].step = "perform" /\ Act(c) = "demote" /\ Succeed(c, "record", TRUE, FALSE)
      /\ tokens' = tokens /\ session' = session /\ disabled' = disabled
  BY DEF Demote, AtStep
<1>2. PICK u \in Users, role \in Granted :
         /\ accounts[u] # Gone
         /\ demoted' = IF role < accounts[u] THEN demoted \cup {u} ELSE demoted
         /\ accounts' = [accounts EXCEPT ![u] = role]
  BY DEF Demote
<1>3. role \in Roles /\ accounts \in [Users -> Roles \cup {Gone}] /\ demoted \subseteq Users
      /\ disabled \in BOOLEAN
  BY StoredAssumption DEF IInv, TypeOK
<1>4. role # Gone /\ role \in Nat /\ accounts[u] \in Nat
  BY <1>2, <1>3, NamesAssumption DEF Roles, Viewer, Editor, Admin
<1>5. accounts' \in [Users -> Roles \cup {Gone}] /\ demoted' \subseteq Users
  BY <1>2, <1>3
<1>6. \A i \in Identity : Honest(i) => Honest(i)'
  <2>1. demoted' = demoted \/ demoted' = demoted \cup {u}
    BY <1>2
  <2>2. u \notin demoted' => role >= accounts[u]
    BY <1>2, <1>4
  <2>3. role \in Roles \cup {Gone}
    BY <1>3
  <2> QED  BY <1>2, <1>4, <2>1, <2>2, <2>3, DemotingIsHonest
<1>7. ~Issuing(Act(c)) /\ ~Signing(c)
  BY <1>1 DEF Issuing, Signing, SessionActs
<1> QED  BY <1>1, <1>3, <1>5, <1>6, <1>7, MutatingKeeps

LEMMA RemoveKeeps == ASSUME IInv, NEW c \in Calls, Remove(c) PROVE IInv'
<1>1. /\ call[c].step = "perform" /\ Act(c) = "remove" /\ Succeed(c, "record", TRUE, FALSE)
      /\ tokens' = tokens /\ session' = session /\ disabled' = disabled
  BY DEF Remove, AtStep
<1>2. PICK u \in Users :
         /\ accounts[u] # Gone
         /\ accounts' = [accounts EXCEPT ![u] = Gone]
         /\ demoted' = demoted \cup {u}
  BY DEF Remove
<1>3. accounts \in [Users -> Roles \cup {Gone}] /\ demoted \subseteq Users /\ disabled \in BOOLEAN
  BY DEF IInv, TypeOK
<1>4. accounts' \in [Users -> Roles \cup {Gone}] /\ demoted' \subseteq Users
  BY <1>2, <1>3
<1>5. \A i \in Identity : Honest(i) => Honest(i)'
  BY <1>2, <1>3, DemotingIsHonest
<1>6. ~Issuing(Act(c)) /\ ~Signing(c)
  BY <1>1 DEF Issuing, Signing, SessionActs
<1> QED  BY <1>1, <1>3, <1>4, <1>5, <1>6, MutatingKeeps

LEMMA ApplyModeKeeps == ASSUME IInv, NEW c \in Calls, ApplyMode(c) PROVE IInv'
<1>5. PICK d \in BOOLEAN : Succeed(c, "record", d, FALSE)
  BY DEF ApplyMode
<1>1. /\ call[c].step = "perform" /\ Act(c) = "config"
      /\ tokens' = tokens /\ session' = session /\ disabled' \in BOOLEAN
      /\ accounts' = accounts /\ demoted' = demoted
  BY DEF ApplyMode, AtStep
<1>2. accounts' \in [Users -> Roles \cup {Gone}] /\ demoted' \subseteq Users
  BY <1>1 DEF IInv, TypeOK
<1>3. \A i \in Identity : Honest(i) => Honest(i)'
  BY <1>1 DEF Honest
<1>4. ~Issuing(Act(c)) /\ ~Signing(c)
  BY <1>1 DEF Issuing, Signing, SessionActs
<1> QED  BY <1>1, <1>2, <1>3, <1>4, <1>5, MutatingKeeps

LEMMA FailHalfwayKeeps == ASSUME IInv, NEW c \in Calls, FailHalfway(c) PROVE IInv'
<1> DEFINE q == (call[c].on.last = "announce")
           r == [call[c] EXCEPT !.step = "done", !.did = TRUE, !.silent = q, !.reply = "failed"]
<1>1. /\ call[c].step = "perform" /\ Act(c) \in {"long", "config"}
      /\ accounts' = accounts /\ tokens' = tokens /\ session' = session /\ demoted' = demoted
      /\ disabled \in BOOLEAN
  BY DEF FailHalfway, AtStep, IInv, TypeOK
<1>2. disabled' \in BOOLEAN
  BY <1>1 DEF FailHalfway
<1>3. call[c] \in CallState
  BY DEF IInv, TypeOK, CallState
<1>5. call' = [call EXCEPT ![c] = r]
  BY DEF FailHalfway
<1>16. q \in BOOLEAN /\ (q => call[c].on.last = "announce")
  OBVIOUS
<1> HIDE DEF q
<1>4. /\ r \in CallState /\ r.step = "done" /\ r.who = call[c].who /\ r.entry = call[c].entry
      /\ r.silent = q /\ r.reply = "failed" /\ r.via = call[c].via /\ r.on = call[c].on
      /\ r.token = call[c].token /\ r.raced = call[c].raced
  BY <1>3, <1>16 DEF CallState, Steps
<1> HIDE DEF r
<1>6. Moves(c) /\ call'[c] = r
  BY <1>4, <1>5, PutMoves DEF IInv
<1>7. Advances(c) /\ Same(c)
  BY <1>1, <1>4, <1>6 DEF Advances, Same
<1>8. Own(c) /\ Sound(call[c].on) /\ call[c].entry.result = "none"
      /\ call[c].reply = "none"
  BY <1>1, EndpointOf DEF IInv, Own, Stage, Early
<1>9. ~Signing(c)
  BY <1>1 DEF Signing, SessionActs
<1>10. /\ Kind(c)' /\ Stage(c)' /\ Tried(c)' /\ Trace(c)' /\ Named(c)' /\ Passed(c)'
       /\ Said(c)'
  BY <1>1, <1>4, <1>6, <1>7, <1>8, <1>9, <1>16, StaysItself
  DEF Own, Kind, Stage, Tried, Trace, Named, Passed, Said, Same, Early
<1>11. Holds(c)'
  BY <1>1, <1>4, <1>6, <1>7, HoldsOn
<1>12. TokensBy(c) /\ SessionBy(c) /\ accounts' \in [Users -> Roles \cup {Gone}]
       /\ demoted' \subseteq Users
  BY <1>1 DEF IInv, TypeOK, TokensBy, SessionBy
<1>13. \A d \in Calls : call'[d].who = call[d].who
  BY <1>4, <1>6 DEF Moves
<1>14. AllHonest'
  BY <1>1, <1>13 DEF IInv, AllHonest, Honest
<1>15. Own(c)'
  BY <1>10, <1>11 DEF Own
<1> QED  BY <1>2, <1>7, <1>12, <1>14, <1>15, StepKeeps

LEMMA RollBackImportKeeps == ASSUME IInv, NEW c \in Calls, RollBackImport(c) PROVE IInv'
<1>1. call[c].step = "perform" /\ Act(c) = "import" /\ UNCHANGED state /\ tokens' = tokens
      /\ session' = session
      /\ call' = [call EXCEPT ![c].step = "record", ![c].reply = "rejected"]
  BY DEF RollBackImport, AtStep, state
<1>2. /\ Moves(c) /\ Same(c) /\ call'[c].step = "record" /\ call'[c].who = call[c].who
      /\ call'[c].did = call[c].did /\ call'[c].silent = call[c].silent
      /\ call'[c].entry = call[c].entry /\ call'[c].reply = "rejected"
  BY <1>1, ReplyMoves DEF IInv, Steps
<1>3. Advances(c)
  BY <1>1, <1>2 DEF Advances
<1>4. Own(c) /\ ~call[c].did /\ ~call[c].silent /\ call[c].entry.result = "none"
  BY <1>1 DEF IInv, Own, Stage, Early
<1>5. Kind(c)' /\ Stage(c)' /\ Tried(c)' /\ Named(c)' /\ Passed(c)' /\ Said(c)'
  BY <1>1, <1>2, <1>4, StaysItself DEF Own, Kind, Stage, Tried, Named, Passed, Said, Same, Early
<1>6. Holds(c)'
  BY <1>1, <1>2, HoldsOn
<1>7. Own(c)'
  BY <1>2, <1>5, <1>6 DEF Own
<1> QED  BY <1>1, <1>2, <1>3, <1>7, QuietKeeps DEF IInv, AllHonest

-----------------------------------------------------------------------------
(* Signing in and out *)

(* A login or setup that has found out whom it is for, or that it fails.   *)
LEMMA VerifiedOwn ==
    ASSUME IInv, NEW c \in Calls, call[c].step = "perform", Issuing(Act(c)),
           Moves(c), Same(c), call'[c].step = "record", call'[c].did = call[c].did,
           call'[c].silent = call[c].silent, call'[c].entry = call[c].entry,
           \/ call'[c].who \in Identity /\ call'[c].reply = call[c].reply
           \/ Act(c) = "login" /\ call'[c].who \in Attempts /\ call'[c].reply = "rejected",
           tokens' = tokens
    PROVE  Advances(c) /\ Own(c)'
<1>1. Advances(c)
  BY DEF Advances
<1>2. /\ Own(c) /\ ~call[c].did /\ ~call[c].silent /\ call[c].entry.result = "none"
      /\ call[c].reply = "none" /\ Sound(call[c].on)
  BY EndpointOf DEF IInv, Own, Stage, Early
<1>3. call[c].on.floor = Public
  BY <1>2 DEF Sound, Issuing, Act
<1>4. Kind(c)' /\ Stage(c)' /\ Tried(c)' /\ Named(c)' /\ Passed(c)' /\ Said(c)'
  BY <1>2, <1>3, StaysItself, TriedIsNobody DEF Own, Kind, Stage, Tried, Named, Passed, Said, Same, Early
<1>5. Holds(c)'
  BY <1>3, HoldsOn
<1> QED  BY <1>1, <1>4, <1>5 DEF Own

(* What a failed login makes of the call.                                  *)
Fails(c, tried) ==
    call' = [call EXCEPT ![c].step = "record", ![c].who = tried, ![c].reply = "rejected"]

LEMMA FailMoves ==
    ASSUME TypeOK, NEW c \in Calls, NEW tried \in Attempts, Fails(c, tried)
    PROVE  /\ Moves(c) /\ Same(c) /\ call'[c].step = "record" /\ call'[c].who = tried
           /\ call'[c].did = call[c].did /\ call'[c].silent = call[c].silent
           /\ call'[c].entry = call[c].entry /\ call'[c].reply = "rejected"
<1> DEFINE r == [call[c] EXCEPT !.step = "record", !.who = tried, !.reply = "rejected"]
<1>1. call[c] \in CallState /\ call \in [Calls -> CallState]
  BY DEF TypeOK, CallState
<1>2. /\ r \in CallState /\ r.step = "record" /\ r.who = tried /\ r.reply = "rejected"
      /\ r.did = call[c].did /\ r.silent = call[c].silent /\ r.entry = call[c].entry
      /\ r.via = call[c].via /\ r.on = call[c].on /\ r.token = call[c].token
      /\ r.raced = call[c].raced
  BY <1>1 DEF CallState, Steps
<1>3. call' = [call EXCEPT ![c] = r]
  BY DEF Fails
<1> HIDE DEF r
<1>4. Moves(c) /\ call'[c] = r
  BY <1>2, <1>3, PutMoves
<1> QED  BY <1>2, <1>4 DEF Same

LEMMA VerifyKeeps == ASSUME IInv, NEW c \in Calls, Verify(c) PROVE IInv'
<1>1. /\ call[c].step = "perform" /\ Act(c) = "login" /\ UNCHANGED state /\ tokens' = tokens
      /\ Issuing(Act(c))
  BY DEF Verify, AtStep, state, Issuing
<1>2. CASE Answer(c)
  BY <1>1, <1>2, AnswerKeeps
<1>3. ASSUME NEW tried \in Attempts, Fails(c, tried) PROVE IInv'
  <2>1. /\ Moves(c) /\ Same(c) /\ call'[c].step = "record" /\ call'[c].who = tried
        /\ call'[c].did = call[c].did /\ call'[c].silent = call[c].silent
        /\ call'[c].entry = call[c].entry /\ call'[c].reply = "rejected"
    BY <1>3, FailMoves DEF IInv
  <2>2. Advances(c) /\ Own(c)'
    BY <1>1, <2>1, VerifiedOwn
  <2>3. call'[c].who \notin Identity
    BY <2>1, TriedIsNobody
  <2> QED  BY <1>1, <2>2, <2>3, QuietKeeps
<1>4. ASSUME NEW u \in Users, accounts[u] # Gone,
             GotoAs(c, [user |-> u, role |-> accounts[u]], "record")
      PROVE  IInv'
  <2> DEFINE w == [user |-> u, role |-> accounts[u]]
  <2>1. accounts[u] \in Roles
    BY <1>4 DEF IInv, TypeOK
  <2>2. w \in Identity /\ w.user = u /\ w.role = accounts[u]
    BY <2>1 DEF Identity
  <2>3. GotoAs(c, w, "record")
    BY <1>4
  <2> HIDE DEF w
  <2>4. Honest(w)
    BY <1>4, <2>1, <2>2 DEF Honest, AtLeast, Roles, Viewer, Editor, Admin
  <2>5. /\ Moves(c) /\ Same(c) /\ call'[c].step = "record" /\ call'[c].who = w
        /\ call'[c].did = call[c].did /\ call'[c].silent = call[c].silent
        /\ call'[c].entry = call[c].entry /\ call'[c].reply = call[c].reply
    BY <2>2, <2>3, GotoAsMoves DEF IInv, Steps
  <2>6. Advances(c) /\ Own(c)'
    BY <1>1, <2>2, <2>5, VerifiedOwn
  <2> QED  BY <1>1, <2>4, <2>5, <2>6, QuietKeeps
<1> QED  BY <1>2, <1>3, <1>4 DEF Verify, Fails

LEMMA SetUpKeeps == ASSUME IInv, NEW c \in Calls, SetUpFirstUser(c) PROVE IInv'
<1>1. /\ call[c].step = "perform" /\ Act(c) = "setup" /\ Issuing(Act(c))
      /\ \A u \in Users : accounts[u] = Gone
      /\ tokens' = tokens /\ session' = session /\ disabled' = disabled /\ demoted' = demoted
  BY DEF SetUpFirstUser, AtStep, Issuing
<1>2. PICK u \in Users :
         /\ accounts' = [accounts EXCEPT ![u] = Admin]
         /\ GotoAs(c, [user |-> u, role |-> Admin], "record")
  BY DEF SetUpFirstUser
<1> DEFINE w == [user |-> u, role |-> Admin]
<1>3. w \in Identity /\ w.user = u /\ w.role = Admin /\ w # Nobody /\ GotoAs(c, w, "record")
  <2>1. Admin \in Roles
    BY DEF Roles
  <2> QED  BY <1>2, <2>1, IdentityAssumption DEF Identity
<1> HIDE DEF w
<1>4. /\ Moves(c) /\ Same(c) /\ call'[c].step = "record" /\ call'[c].who = w
      /\ call'[c].did = call[c].did /\ call'[c].silent = call[c].silent
      /\ call'[c].entry = call[c].entry /\ call'[c].reply = call[c].reply
  BY <1>3, GotoAsMoves DEF IInv, Steps
<1>5. Advances(c) /\ Own(c)'
  BY <1>1, <1>3, <1>4, VerifiedOwn
<1>6. /\ accounts \in [Users -> Roles \cup {Gone}] /\ disabled \in BOOLEAN /\ demoted \subseteq Users
      /\ TokensBy(c) /\ SessionBy(c)
  BY <1>1 DEF IInv, TypeOK, TokensBy, SessionBy
<1>7. /\ accounts' \in [Users -> Roles \cup {Gone}]
      /\ accounts'[u] = Admin /\ \A v \in Users \ {u} : accounts'[v] = accounts[v]
  BY <1>2, <1>6 DEF Roles
<1>8. \A i : Honest(i) => Honest(i)'
  BY <1>1 DEF Honest
<1>9. Honest(w)'
  BY <1>3, <1>7, NamesAssumption DEF Honest, AtLeast, Roles, Viewer, Editor, Admin
<1>10. AllHonest'
  BY <1>1, <1>4, <1>8, <1>9 DEF IInv, AllHonest, Moves
<1> QED  BY <1>1, <1>5, <1>6, <1>7, <1>10, StepKeeps

(* The entry names whom the login or setup was for: its token is still to  *)
(* be issued.                                                              *)
LEMMA SigningOwn ==
    ASSUME IInv, NEW c \in Calls, call[c].step = "sign",
           NEW d \in BOOLEAN, Succeed(c, "done", d, FALSE),
           Desktop(c) => session' = call[c].who
    PROVE  /\ Own(c)' /\ Advances(c) /\ call'[c].who = call[c].who
           /\ Issuing(Act(c)) /\ call[c].who \in Identity
           /\ Rest(c) => call[c].token \in Tokens /\ tokens[call[c].token] = Unused
<1>1. /\ Moves(c) /\ Same(c) /\ call'[c].step = "done" /\ call'[c].who = call[c].who
      /\ call'[c].silent = FALSE
      /\ call'[c].entry = call[c].entry /\ call'[c].reply = "ok"
  BY SucceedMoves DEF IInv, Steps
<1>11. ~call'[c].silent
  BY <1>1
<1>2. Own(c) /\ Sound(call[c].on) /\ Issuing(Act(c)) /\ call[c].who \in Identity
      /\ call[c].entry.result \in {"ok", "lost"}
  BY EndpointOf DEF IInv, Own, Stage
<1>3. call[c].on.floor = Public
  BY <1>2 DEF Sound, Issuing, Act
<1>4. Rest(c) => call[c].token \in Tokens /\ tokens[call[c].token] = Unused
  BY <1>2 DEF Own, Holds
<1>5. call[c].entry.result = "ok" => call[c].entry.actor = call[c].who
  BY <1>2, <1>4, IdentityAssumption DEF Own, Named
<1>6. Advances(c)
  BY <1>1 DEF Advances
<1>7. Kind(c)' /\ Stage(c)' /\ Tried(c)' /\ Trace(c)'
  BY <1>1, <1>2, <1>11, StaysItself, TriedIsNobody
     DEF Own, Kind, Stage, Tried, Trace, Same, Early
<1>8. Holds(c)' /\ Named(c)' /\ Passed(c)'
  BY <1>1, <1>2, <1>3, <1>5, StaysItself DEF Own, Holds, Named, Passed, Same
<1>9. Said(c)'
  BY <1>1, <1>2, StaysItself DEF Said, Issuing, Signing
<1> QED  BY <1>1, <1>2, <1>4, <1>6, <1>7, <1>8, <1>9 DEF Own

LEMMA IssueTokenKeeps == ASSUME IInv, NEW c \in Calls, IssueToken(c) PROVE IInv'
<1>1. /\ call[c].step = "sign" /\ Rest(c) /\ Succeed(c, "done", TRUE, FALSE) /\ ~Desktop(c)
      /\ tokens' = [tokens EXCEPT ![call[c].token] = call[c].who]
      /\ accounts' = accounts /\ session' = session /\ disabled' = disabled /\ demoted' = demoted
  BY DEF IssueToken, AtStep, Rest, Desktop
<1>2. /\ Own(c)' /\ Advances(c) /\ call'[c].who = call[c].who
      /\ Issuing(Act(c)) /\ call[c].who \in Identity
      /\ call[c].token \in Tokens
  BY <1>1, SigningOwn
<1>3. TokensBy(c)
  BY <1>1, <1>2 DEF IInv, TypeOK, TokensBy
<1>4. SessionBy(c) /\ accounts' \in [Users -> Roles \cup {Gone}] /\ disabled' \in BOOLEAN
      /\ demoted' \subseteq Users
  BY <1>1 DEF IInv, TypeOK, SessionBy
<1>5. \A d \in Calls : call'[d].who = call[d].who
  BY <1>2 DEF Advances, Moves
<1>6. \A i : Honest(i)' <=> Honest(i)
  BY <1>1 DEF Honest
<1>7. \A t \in Tokens : tokens'[t] = tokens[t] \/ tokens'[t] = call[c].who
  BY <1>1 DEF IInv, TypeOK
<1>8. AllHonest'
  BY <1>1, <1>5, <1>6, <1>7 DEF IInv, AllHonest
<1> QED  BY <1>2, <1>3, <1>4, <1>8, StepKeeps

LEMMA SetSessionKeeps == ASSUME IInv, NEW c \in Calls, SetSession(c) PROVE IInv'
<1> DEFINE d == session' # session
<1>1. /\ call[c].step = "sign" /\ Desktop(c) /\ Succeed(c, "done", d, FALSE)
      /\ d \in BOOLEAN /\ session' = call[c].who
      /\ accounts' = accounts /\ tokens' = tokens /\ disabled' = disabled /\ demoted' = demoted
  BY DEF SetSession, AtStep
<1> HIDE DEF d
<1>2. /\ Own(c)' /\ Advances(c) /\ call'[c].who = call[c].who
      /\ Issuing(Act(c)) /\ call[c].who \in Identity
  BY <1>1, SigningOwn
<1>3. Signing(c)
  BY <1>1, <1>2 DEF Signing, SessionActs, Issuing
<1>4. TokensBy(c) /\ SessionBy(c) /\ accounts' \in [Users -> Roles \cup {Gone}]
      /\ disabled' \in BOOLEAN /\ demoted' \subseteq Users
  BY <1>1, <1>2, <1>3 DEF IInv, TypeOK, TokensBy, SessionBy
<1>5. \A o \in Calls : call'[o].who = call[o].who
  BY <1>2 DEF Advances, Moves
<1>6. \A i : Honest(i)' <=> Honest(i)
  BY <1>1 DEF Honest
<1>7. AllHonest'
  BY <1>1, <1>5, <1>6 DEF IInv, AllHonest
<1> QED  BY <1>2, <1>4, <1>7, StepKeeps

LEMMA RevokeTokenKeeps == ASSUME IInv, NEW c \in Calls, RevokeToken(c) PROVE IInv'
<1> DEFINE d == tokens' # tokens
<1>1. /\ call[c].step = "perform" /\ Rest(c) /\ Act(c) = "logout"
      /\ Succeed(c, "record", d, FALSE) /\ d \in BOOLEAN
      /\ tokens' = IF call[c].token = Nobody THEN tokens
                   ELSE [tokens EXCEPT ![call[c].token] = Nobody]
      /\ accounts' = accounts /\ session' = session /\ disabled' = disabled /\ demoted' = demoted
  BY DEF RevokeToken, AtStep
<1> HIDE DEF d
<1>2. ~Issuing(Act(c)) /\ ~Signing(c) /\ call[c].step \in Early /\ Unused # Nobody
  BY <1>1, IdentityAssumption DEF Issuing, Signing, Rest, Desktop, Early
<1>3. call[c].token = Nobody \/ (call[c].token \in Tokens /\ tokens[call[c].token] # Unused)
  BY <1>1, <1>2, GuardedToken
<1>4. /\ tokens' \in [Tokens -> Identity \cup {Unused, Nobody}]
      /\ \A t \in Tokens : \/ tokens'[t] = tokens[t]
                           \/ tokens[t] # Unused /\ tokens'[t] = Nobody
  BY <1>1, <1>3 DEF IInv, TypeOK
<1>5. TokensBy(c)
  BY <1>4 DEF TokensBy
<1>6. Sound(call[c].on) /\ Same(c)
  BY <1>1, EndpointOf, SucceedMoves DEF IInv, Steps
<1>7. Holds(c)'
  <2>1. call'[c].on.floor = Public /\ call'[c].token = call[c].token
    BY <1>1, <1>6 DEF Sound, Act, Same
  <2>2. call[c].token # Nobody => tokens'[call[c].token] # Unused
    BY <1>2, <1>3, <1>4
  <2> QED  BY <1>2, <1>6, <2>1, <2>2, StaysItself DEF Holds
<1>8. Own(c)' /\ Advances(c) /\ call'[c].who = call[c].who
  BY <1>1, <1>2, <1>7, PerformedOwn
<1>9. SessionBy(c) /\ accounts' \in [Users -> Roles \cup {Gone}] /\ disabled' \in BOOLEAN
      /\ demoted' \subseteq Users
  BY <1>1 DEF IInv, TypeOK, SessionBy
<1>10. \A o \in Calls : call'[o].who = call[o].who
  BY <1>8 DEF Advances, Moves
<1>11. \A i : Honest(i)' <=> Honest(i)
  BY <1>1 DEF Honest
<1>12. AllHonest'
  BY <1>1, <1>4, <1>10, <1>11, IdentityAssumption DEF IInv, AllHonest
<1> QED  BY <1>5, <1>8, <1>9, <1>12, StepKeeps

LEMMA ClearSessionKeeps == ASSUME IInv, NEW c \in Calls, ClearSession(c) PROVE IInv'
<1> DEFINE s == IF call[c].who = Nobody THEN "done" ELSE "record"
           d == session' # session
<1>1. /\ call[c].step = "perform" /\ Desktop(c) /\ Act(c) = "logout"
      /\ Succeed(c, s, d, FALSE) /\ d \in BOOLEAN
      /\ session' = Nobody
      /\ accounts' = accounts /\ tokens' = tokens /\ disabled' = disabled /\ demoted' = demoted
  BY DEF ClearSession, AtStep
<1>2. ~Issuing(Act(c)) /\ Signing(c)
  BY <1>1 DEF Issuing, Signing, SessionActs
<1>3. s \in {"record", "done"} /\ (s = "done" => call[c].who = Nobody)
  OBVIOUS
<1> HIDE DEF s, d
<1>4. Same(c)
  BY <1>1, <1>3, SucceedMoves DEF IInv, Steps
<1>5. Said(c)'
  BY <1>1, <1>4, StaysItself DEF Said
<1>6. Own(c)' /\ Advances(c) /\ call'[c].who = call[c].who
  BY <1>1, <1>2, <1>3, <1>5, PerformedOwn
<1>7. TokensBy(c) /\ SessionBy(c) /\ accounts' \in [Users -> Roles \cup {Gone}]
      /\ disabled' \in BOOLEAN /\ demoted' \subseteq Users
  BY <1>1, <1>2 DEF IInv, TypeOK, TokensBy, SessionBy
<1>8. \A o \in Calls : call'[o].who = call[o].who
  BY <1>6 DEF Advances, Moves
<1>9. \A i : Honest(i)' <=> Honest(i)
  BY <1>1 DEF Honest
<1>10. AllHonest'
  BY <1>1, <1>8, <1>9, IdentityAssumption DEF IInv, AllHonest
<1> QED  BY <1>6, <1>7, <1>10, StepKeeps

-----------------------------------------------------------------------------
(* The entry, and what follows it *)

(* What a written entry makes of the call.                                 *)
EntryAt(x, e, s) == [x EXCEPT !.entry = e, !.step = s]

LEMMA EntryRecord ==
    ASSUME NEW x \in CallState, NEW e \in Entry, NEW s \in Steps
    PROVE  /\ After(EntryAt(x, e, s), x, s, x.who, e, x.reply)
           /\ EntryAt(x, e, s).did = x.did /\ EntryAt(x, e, s).silent = x.silent
<1>1. EntryAt(x, e, s) \in CallState
  BY DEF CallState, EntryAt
<1>2. After(EntryAt(x, e, s), x, s, x.who, e, x.reply)
  BY <1>1 DEF After, CallState, EntryAt
<1>3. EntryAt(x, e, s).did = x.did /\ EntryAt(x, e, s).silent = x.silent
  BY DEF CallState, EntryAt
<1> QED  BY <1>2, <1>3

LEMMA EntryMoves ==
    ASSUME TypeOK, NEW c \in Calls, NEW e \in Entry, NEW s \in Steps,
           call' = [call EXCEPT ![c].entry = e, ![c].step = s]
    PROVE  /\ Moves(c) /\ Same(c) /\ call'[c].step = s /\ call'[c].who = call[c].who
           /\ call'[c].did = call[c].did /\ call'[c].silent = call[c].silent
           /\ call'[c].entry = e /\ call'[c].reply = call[c].reply
<1>1. call \in [Calls -> CallState] /\ call[c] \in CallState
  BY DEF TypeOK, CallState
<1>2. call' = [call EXCEPT ![c] = EntryAt(call[c], e, s)]
  BY <1>1 DEF EntryAt
<1>3. call'[c] = EntryAt(call[c], e, s) /\ \A d \in Calls \ {c} : call'[d] = call[d]
  BY <1>1, <1>2
<1>4. After(call'[c], call[c], s, call[c].who, e, call[c].reply) /\ call'[c].did = call[c].did /\ call'[c].silent = call[c].silent
  BY <1>1, <1>3, EntryRecord
<1>5. Moves(c)
  BY <1>1, <1>2, <1>3, <1>4 DEF Moves, After
<1> QED  BY <1>4, <1>5 DEF After, Same

(* Whom the entry names                                                    *)
LEMMA ActorIs ==
    ASSUME IInv, NEW c \in Calls, call[c].step = "record"
    PROVE  /\ Actor(c) \in Identity \cup Attempts \cup {Nobody}
           /\ Actor(c) \in Attempts <=> Act(c) = "login" /\ Outcome(c) = "failed"
           /\ \/ Actor(c) = call[c].who
              \/ /\ Actor(c) = Nobody /\ Rest(c)
                 /\ call[c].token \in Tokens /\ tokens[call[c].token] = Nobody
<1>1. Own(c) /\ Sound(call[c].on) /\ (Rest(c) => Act(c) # "config")
  BY EndpointOf DEF IInv
<1>2. call[c].who \in Identity \cup Attempts \cup {Nobody} /\ Tried(c) /\ Nobody \notin Attempts
  BY <1>1, TriedIsNobody DEF IInv, TypeOK, Own
<1>5. call[c].who \in Attempts <=> Act(c) = "login" /\ Outcome(c) = "failed"
  BY <1>2 DEF Tried, Outcome
<1>3. CASE Rest(c) /\ Act(c) \notin {"login", "setup", "logout", "password"}
  <2>1. call[c].on.floor # Public
    BY <1>1, <1>3 DEF Sound, Act
  <2>2. call[c].token \in Tokens /\ tokens[call[c].token] \in {call[c].who, Nobody}
    BY <1>1, <1>3, <2>1 DEF Own, Holds
  <2> QED  BY <1>2, <1>3, <1>5, <2>2 DEF Actor
<1>4. CASE ~(Rest(c) /\ Act(c) \notin {"login", "setup", "logout", "password"})
  BY <1>2, <1>4, <1>5 DEF Actor
<1> QED  BY <1>3, <1>4

LEMMA RecordKeeps == ASSUME IInv, NEW c \in Calls, Record(c) PROVE IInv'
<1>1. call[c].step = "record" /\ UNCHANGED state /\ tokens' = tokens /\ session' = session
  BY DEF Record, AtStep, state
<1>2. PICK e \in {[result |-> Outcome(c), actor |-> Actor(c)], Lost} :
         call' = [call EXCEPT ![c].entry = e, ![c].step = AfterRecord(c)]
  BY DEF Record
<1>3. Outcome(c) \in {"ok", "failed"}
  BY DEF Outcome
<1>4. /\ e \in Entry /\ e.result \in {Outcome(c), "lost"}
      /\ e.result # "lost" => e.actor = Actor(c)
      /\ e.result = "lost" => e.actor \notin Attempts
  <2>1. CASE e = [result |-> Outcome(c), actor |-> Actor(c)]
    BY <1>1, <1>3, <2>1, ActorIs DEF Entry
  <2>2. CASE e = Lost
    BY <2>2, TriedIsNobody DEF Lost, Entry
  <2> QED  BY <2>1, <2>2
<1>5. Own(c) /\ Sound(call[c].on)
  BY <1>1, EndpointOf DEF IInv
<1>6. AfterRecord(c) \in {"sign", "done", "announce", "reread"}
  BY <1>5 DEF AfterRecord, Sound
<1>7. /\ Moves(c) /\ Same(c) /\ call'[c].step = AfterRecord(c) /\ call'[c].who = call[c].who
      /\ call'[c].did = call[c].did /\ call'[c].silent = call[c].silent
      /\ call'[c].entry = e /\ call'[c].reply = call[c].reply
  <2>1. TypeOK /\ e \in Entry /\ AfterRecord(c) \in Steps
    BY <1>4, <1>6 DEF IInv, Steps
  <2> QED  BY <1>2, <2>1, EntryMoves
<1>8. Advances(c)
  BY <1>1, <1>6, <1>7 DEF Advances
<1>9. Kind(c)' /\ Tried(c)' /\ Passed(c)' /\ Said(c)'
  BY <1>1, <1>5, <1>6, <1>7, StaysItself DEF Own, Kind, Tried, Passed, Said, Same
<1>10. Named(c)'
  BY <1>1, <1>3, <1>4, <1>7, ActorIs, StaysItself DEF Named, Same
<1>11. Holds(c)'
  BY <1>1, <1>7, HoldsOn
<1>12. Stage(c)' /\ (call'[c].step = "done" => Trace(c)')
  <2>1. CASE call[c].reply = "rejected"
    <3>1. ~call[c].did /\ ~call[c].silent /\ Act(c) \in {"login", "import"}
      BY <1>1, <1>5, <2>1 DEF Own, Stage
    <3>2. call'[c].step = "done" /\ Outcome(c) = "failed"
      BY <1>5, <1>7, <2>1, <3>1 DEF AfterRecord, Outcome, Sound, Act
    <3> QED  BY <1>4, <1>7, <2>1, <3>1, <3>2, StaysItself DEF Stage, Trace, Early
  <2>2. CASE call[c].reply # "rejected" /\ Issuing(Act(c))
    <3>1. call'[c].step = "sign" /\ Outcome(c) = "ok"
      BY <1>7, <2>2 DEF AfterRecord, Outcome
    <3> QED  BY <1>1, <1>4, <1>5, <1>7, <2>2, <3>1, StaysItself DEF Own, Stage, Early
  <2>3. CASE call[c].reply # "rejected" /\ ~Issuing(Act(c))
    <3>1. call[c].reply = "ok" /\ Outcome(c) = "ok"
      BY <1>1, <1>5, <2>3 DEF Own, Stage, Outcome
    <3>2. call[c].silent => Act(c) = "delete" \/ call[c].on.last = "announce"
      BY <1>5 DEF Own, Stage
    <3>3. call'[c].step = IF call[c].on.last = "none" THEN "done" ELSE call[c].on.last
      BY <1>7, <2>3 DEF AfterRecord
    <3>4. call[c].on.last \in {"none", "announce", "reread"}
      BY <1>5 DEF Sound
    <3>5. CASE call[c].on.last = "none"
      BY <1>4, <1>7, <3>1, <3>2, <3>3, <3>5, StaysItself DEF Stage, Trace, Early, Same
    <3>6. CASE call[c].on.last # "none"
      BY <1>4, <1>7, <3>1, <3>2, <3>3, <3>4, <3>6, StaysItself DEF Stage, Early, Same
    <3> QED  BY <3>5, <3>6
  <2> QED  BY <2>1, <2>2, <2>3
<1>13. Own(c)'
  BY <1>9, <1>10, <1>11, <1>12 DEF Own
<1> QED  BY <1>1, <1>7, <1>8, <1>13, QuietKeeps DEF IInv, AllHonest

(* What an announcement makes of the call.                                 *)
ToldAt(x, s) == [x EXCEPT !.step = s, !.silent = FALSE]

LEMMA ToldRecord ==
    ASSUME NEW x \in CallState, NEW s \in Steps
    PROVE  /\ After(ToldAt(x, s), x, s, x.who, x.entry, x.reply)
           /\ ToldAt(x, s).did = x.did
<1>1. ToldAt(x, s) \in CallState
  BY DEF CallState, ToldAt
<1>2. After(ToldAt(x, s), x, s, x.who, x.entry, x.reply)
  BY <1>1 DEF After, CallState, ToldAt
<1>3. ToldAt(x, s).did = x.did
  BY DEF CallState, ToldAt
<1> QED  BY <1>2, <1>3

LEMMA ToldIsTold ==
    ASSUME NEW x \in CallState, NEW s \in Steps
    PROVE  ToldAt(x, s).silent = FALSE
BY DEF CallState, ToldAt

LEMMA AnnounceMoves ==
    ASSUME TypeOK, NEW c \in Calls, NEW s \in Steps,
           call' = [call EXCEPT ![c].step = s, ![c].silent = FALSE]
    PROVE  /\ Moves(c) /\ Same(c) /\ call'[c].step = s /\ call'[c].who = call[c].who
           /\ call'[c].did = call[c].did /\ call'[c].entry = call[c].entry
           /\ call'[c].silent = FALSE /\ call'[c].reply = call[c].reply
<1>1. call \in [Calls -> CallState] /\ call[c] \in CallState
  BY DEF TypeOK, CallState
<1>2. call' = [call EXCEPT ![c] = ToldAt(call[c], s)]
  BY <1>1 DEF ToldAt
<1>3. call'[c] = ToldAt(call[c], s) /\ \A d \in Calls \ {c} : call'[d] = call[d]
  BY <1>1, <1>2
<1>4. After(call'[c], call[c], s, call[c].who, call[c].entry, call[c].reply) /\ call'[c].did = call[c].did
  BY <1>1, <1>3, ToldRecord
<1>5. Moves(c)
  BY <1>1, <1>2, <1>3, <1>4 DEF Moves, After
<1>6. call'[c].silent = FALSE
  BY <1>1, <1>3, ToldIsTold, Zenon
<1> QED  BY <1>4, <1>5, <1>6 DEF After, Same

LEMMA AnnounceKeeps == ASSUME IInv, NEW c \in Calls, Announce(c) PROVE IInv'
<1>1. /\ call[c].step = "announce" /\ UNCHANGED state /\ tokens' = tokens /\ session' = session
      /\ call' = [call EXCEPT ![c].step = "done", ![c].silent = FALSE]
  BY DEF Announce, AtStep, state
<1>2. /\ Moves(c) /\ Same(c) /\ call'[c].step = "done" /\ call'[c].who = call[c].who
      /\ call'[c].did = call[c].did /\ call'[c].entry = call[c].entry
      /\ call'[c].silent = FALSE /\ call'[c].reply = call[c].reply
  BY <1>1, AnnounceMoves DEF IInv, Steps
<1>8. ~call'[c].silent
  BY <1>2
<1>3. Own(c) /\ call[c].reply = "ok" /\ call[c].entry.result \in {"ok", "lost"}
  BY <1>1 DEF IInv, Own, Stage
<1>4. Advances(c)
  BY <1>1, <1>2 DEF Advances
<1>5. /\ Kind(c)' /\ Stage(c)' /\ Tried(c)' /\ Trace(c)' /\ Passed(c)' /\ Said(c)'
      /\ Named(c)'
  BY <1>1, <1>2, <1>3, <1>8, StaysItself
     DEF Own, Kind, Stage, Tried, Trace, Passed, Said, Named, Same, Early
<1>6. Holds(c)'
  BY <1>1, <1>2, HoldsOn
<1>7. Own(c)'
  BY <1>5, <1>6 DEF Own
<1> QED  BY <1>1, <1>2, <1>4, <1>7, QuietKeeps DEF IInv, AllHonest

LEMMA ReadBackKeeps == ASSUME IInv, NEW c \in Calls, ReadBack(c) PROVE IInv'
<1>1. /\ call[c].step = "reread" /\ UNCHANGED state /\ tokens' = tokens /\ session' = session
  BY DEF ReadBack, AtStep, state
<1>2. PICK reply \in {"ok", "failed"} :
         call' = [call EXCEPT ![c].step = "done", ![c].reply = reply]
  BY DEF ReadBack
<1>3. /\ Moves(c) /\ Same(c) /\ call'[c].step = "done" /\ call'[c].who = call[c].who
      /\ call'[c].did = call[c].did /\ call'[c].silent = call[c].silent
      /\ call'[c].entry = call[c].entry /\ call'[c].reply = reply
  BY <1>2, ReplyMoves DEF IInv, Steps
<1>4. /\ Own(c) /\ call[c].reply = "ok" /\ call[c].entry.result \in {"ok", "lost"}
      /\ call[c].on.last = "reread"
  BY <1>1 DEF IInv, Own, Stage
<1>9. ~Signing(c)
  BY <1>1, <1>4, EndpointOf DEF Sound, Signing, SessionActs, Act
<1>5. Advances(c)
  BY <1>1, <1>3 DEF Advances
<1>6. /\ Kind(c)' /\ Stage(c)' /\ Tried(c)' /\ Trace(c)' /\ Passed(c)' /\ Said(c)'
      /\ Named(c)'
  BY <1>1, <1>2, <1>3, <1>4, <1>9, StaysItself
     DEF Own, Kind, Stage, Tried, Trace, Passed, Said, Named, Same, Early
<1>7. Holds(c)'
  BY <1>1, <1>3, HoldsOn
<1>8. Own(c)'
  BY <1>6, <1>7 DEF Own
<1> QED  BY <1>1, <1>3, <1>5, <1>8, QuietKeeps DEF IInv, AllHonest

(* What gives the call up *)
LEMMA AnswersKeep ==
    ASSUME IInv, NEW c \in Calls,
           PerformRead(c) \/ Refuse(c) \/ Reply(c) \/ HangUp(c)
    PROVE  IInv'
BY AnswerKeeps DEF PerformRead, Refuse, Reply, HangUp, Answer

-----------------------------------------------------------------------------
(* Arrival, expiry, restart *)

LEMMA ExpireKeeps == ASSUME IInv, NEW t \in Tokens, Expire(t) PROVE IInv'
<1>1. /\ tokens[t] \in Identity /\ tokens' = [tokens EXCEPT ![t] = Nobody]
      /\ accounts' = accounts /\ session' = session /\ disabled' = disabled
      /\ call' = call /\ demoted' = demoted
  BY DEF Expire
<1>2. Unused \notin Identity /\ Nobody \notin Identity /\ Nobody \notin Tokens /\ Nobody # Unused
  BY IdentityAssumption
<1>3. /\ tokens' \in [Tokens -> Identity \cup {Unused, Nobody}]
      /\ \A u \in Tokens : \/ tokens'[u] = tokens[u]
                           \/ tokens[u] # Unused /\ tokens'[u] = Nobody
  BY <1>1, <1>2 DEF IInv, TypeOK
<1>4. TypeOK'
  BY <1>1, <1>3 DEF IInv, TypeOK
<1>5. ASSUME NEW c \in Calls PROVE Own(c)'
  <2>1. Own(c) /\ call[c].token \in Tokens \cup {Nobody} /\ Same(c)
    BY <1>1 DEF IInv, TypeOK, Same
  <2>2. /\ Kind(c)' /\ Stage(c)' /\ Tried(c)' /\ (call'[c].step = "done" => Trace(c)')
        /\ Passed(c)' /\ Said(c)'
    BY <1>1, <2>1, StaysItself DEF Own, Kind, Stage, Tried, Trace, Passed, Said
  <2>3. Holds(c)'
    BY <1>1, <1>2, <1>3, <2>1, StaysItself DEF Own, Holds
  <2>4. Named(c)'
    BY <1>1, <1>2, <1>3, <2>1, StaysItself DEF Own, Named
  <2> QED  BY <2>2, <2>3, <2>4 DEF Own
<1>6. \A c, d \in Calls : c # d => Apart(c, d)'
  BY <1>1 DEF IInv, Apart, Rest, Desktop, Issuing, Signing, Act
<1>7. \A i : Honest(i)' <=> Honest(i)
  BY <1>1 DEF Honest
<1>8. AllHonest'
  BY <1>1, <1>2, <1>3, <1>7 DEF IInv, AllHonest
<1> QED  BY <1>4, <1>5, <1>6, <1>8 DEF IInv

LEMMA RestartKeeps == ASSUME IInv, Restart PROVE IInv'
<1>1. /\ call' = [c \in Calls |-> Idle]
      /\ tokens' = [t \in Tokens |-> IF tokens[t] = Unused THEN Unused ELSE Nobody]
      /\ accounts' = accounts /\ disabled' = disabled /\ demoted' = demoted
  BY DEF Restart
<1>2. Unused \notin Identity /\ Nobody \notin Identity /\ LocalRole \in Roles
  BY IdentityAssumption, NamesAssumption
<1>3. ASSUME NEW i, i = [user |-> Local, role |-> LocalRole]
      PROVE  i \in Identity /\ Honest(i)
  BY <1>2, <1>3 DEF Identity, Honest
<1>10. ASSUME NEW i, NEW u \in Users, accounts[u] # Gone, i = [user |-> u, role |-> accounts[u]]
       PROVE  i \in Identity /\ Honest(i)
  <2>1. accounts[u] \in Roles /\ i.user = u /\ i.role = accounts[u]
    BY <1>10 DEF IInv, TypeOK
  <2> QED  BY <1>10, <2>1 DEF Identity, Honest, AtLeast, Roles, Viewer, Editor, Admin
<1>11. session' = Nobody \/ (session' \in Identity /\ Honest(session'))
  BY <1>3, <1>10 DEF Restart
<1>12. \A i : Honest(i)' <=> Honest(i)
  BY <1>1 DEF Honest
<1>4. /\ tokens' \in [Tokens -> Identity \cup {Unused, Nobody}]
      /\ \A t \in Tokens : tokens'[t] \notin Identity
  BY <1>1, <1>2
<1>5. call' \in [Calls -> CallState]
  BY <1>1, IdleIsCall
<1>6. TypeOK'
  BY <1>1, <1>4, <1>5, <1>11 DEF IInv, TypeOK, CallState
<1>7. ASSUME NEW c \in Calls PROVE Own(c)' /\ call'[c].via = "none" /\ call'[c].who = Nobody
  <2>1. call'[c] = Idle
    BY <1>1
  <2> QED
    BY <2>1, IdleIs, TriedIsNobody DEF IdleFacts, Own, Kind, Stage, Tried, Trace, Holds, Named, Passed, Said, Early,
       Rest, Desktop, Signing
<1>8. \A c, d \in Calls : c # d => Apart(c, d)'
  BY <1>7 DEF Apart, Rest, Desktop, Signing
<1>9. AllHonest'
  BY <1>2, <1>4, <1>7, <1>11, <1>12 DEF AllHonest
<1> QED  BY <1>6, <1>7, <1>8, <1>9 DEF IInv

FreshFacts(x, via, e, t, s) ==
    /\ x.step = s /\ x.via = via /\ x.on = e /\ x.token = t /\ x.who = Nobody
    /\ ~x.did /\ ~x.silent /\ x.entry.result = "none" /\ x.entry.actor = Nobody
    /\ x.reply = "none"

LEMMA FreshIs ==
    ASSUME NEW via \in {"rest", "tauri"}, NEW e \in Routes \cup Commands,
           NEW t \in Tokens \cup {Nobody}, NEW s \in Steps
    PROVE  Fresh(via, e, t, s) \in CallState /\ FreshFacts(Fresh(via, e, t, s), via, e, t, s)
BY DEF FreshFacts, Fresh, Idle, CallState, NoEntry, Entry

(* A fresh call is fine, wherever the front end starts it.                 *)
LEMMA FreshOwn ==
    ASSUME IInv, NEW c \in Calls, NEW via \in {"rest", "tauri"}, NEW e,
           NEW t \in Tokens \cup {Nobody}, NEW s \in {"arrived", "guard", "handle", "perform"},
           FreshFacts(call'[c], via, e, t, s), tokens' = tokens,
           e \in (IF via = "rest" THEN Routes ELSE Commands),
           s = "arrived" => via = "rest" /\ e.floor # Public,
           s = "guard" => via = "tauri",
           s \in {"handle", "perform"} => e.floor = Public,
           s = "handle" => e.act \in RestAsks \cup DesktopAsks,
           via = "rest" /\ Issuing(e.act) => t \in Tokens /\ tokens[t] = Unused,
           via = "rest" /\ ~Issuing(e.act) /\ t # Nobody => tokens[t] # Unused
    PROVE  Own(c)'
<1>1. /\ Rest(c)' <=> via = "rest"
      /\ Desktop(c)' <=> via = "tauri"
      /\ Act(c)' = e.act
      /\ Issuing(Act(c))' = Issuing(e.act)
  BY DEF FreshFacts, Rest, Desktop, Act, Issuing
<1>2. Kind(c)' /\ Stage(c)' /\ Tried(c)'
  BY <1>1, TriedIsNobody DEF FreshFacts, Kind, Stage, Tried, Early
<1>3. Holds(c)'
  BY <1>1 DEF FreshFacts, Holds
<1>4. Named(c)' /\ Passed(c)' /\ Said(c)' /\ call'[c].step # "done"
  BY <1>1, TriedIsNobody DEF FreshFacts, Named, Passed, Said
<1> QED  BY <1>2, <1>3, <1>4 DEF Own

LEMMA RequestKeeps == ASSUME IInv, NEW c \in Calls, Request(c) PROVE IInv'
<1>1. /\ UNCHANGED state /\ tokens' = tokens /\ session' = session /\ accounts' = accounts
      /\ disabled' = disabled /\ demoted' = demoted /\ Nobody \notin Tokens
  BY IdentityAssumption DEF Request, state
<1>2. PICK r \in Routes, t \in Tokens \cup {Nobody}, marked \in BOOLEAN :
         /\ IF Issuing(r.act)
            THEN t # Nobody /\ tokens[t] = Unused /\ \A d \in Calls : call[d].token # t
            ELSE t # Nobody => tokens[t] # Unused
         /\ call' = [call EXCEPT ![c] =
              IF ~marked THEN Idle
              ELSE IF r.floor = Public THEN Fresh("rest", r, t, Handling("rest", r.act))
              ELSE Fresh("rest", r, t, "arrived")]
  BY DEF Request
<1>3. CASE ~marked
  BY <1>1, <1>2, <1>3, AnswerKeeps DEF Answer
<1>4. CASE marked
  <2> DEFINE s == IF r.floor = Public THEN Handling("rest", r.act) ELSE "arrived"
             x == Fresh("rest", r, t, s)
  <2>1. call' = [call EXCEPT ![c] = x]
    BY <1>2, <1>4
  <2>2. /\ s \in {"arrived", "handle", "perform"} /\ (s = "arrived" => r.floor # Public)
        /\ s \in {"handle", "perform"} => r.floor = Public
        /\ s = "handle" => r.act \in RestAsks \cup DesktopAsks
    BY HandlingIs
  <2> HIDE DEF s
  <2>3. x \in CallState /\ FreshFacts(x, "rest", r, t, s)
    BY <2>2, FreshIs DEF Steps
  <2> HIDE DEF x
  <2>4. Moves(c) /\ call'[c] = x
    BY <2>1, <2>3, PutMoves DEF IInv
  <2>5. Own(c)'
    BY <1>1, <1>2, <2>2, <2>3, <2>4, FreshOwn
  <2>6. TokensBy(c) /\ SessionBy(c)
    BY <1>1 DEF IInv, TypeOK, TokensBy, SessionBy
  <2>7. \A d \in Calls : Own(d)'
    BY <2>4, <2>5, <2>6, OthersKeep
  <2>8. \A d \in Calls \ {c} :
           /\ Apart(d, c)' /\ Apart(c, d)'
           /\ \A e \in Calls \ {c, d} : Apart(d, e)'
    <3> SUFFICES ASSUME NEW d \in Calls \ {c}
                 PROVE  /\ Apart(d, c)' /\ Apart(c, d)'
                        /\ \A e \in Calls \ {c, d} : Apart(d, e)'
      OBVIOUS
    <3>1. call'[d] = call[d] /\ Own(d) /\ \A e \in Calls \ {c, d} : call'[e] = call[e] /\ Apart(d, e)
      BY <2>4 DEF IInv, Moves
    <3>2. /\ Rest(d)' = Rest(d) /\ Act(d)' = Act(d) /\ ~Signing(c)'
          /\ call'[c].token = t /\ Issuing(Act(c))' = Issuing(r.act)
          /\ Issuing(Act(d))' = Issuing(Act(d))
      BY <2>3, <2>4, <3>1 DEF FreshFacts, Rest, Desktop, Act, Signing, Issuing
    <3>3. Apart(c, d)'
      BY <1>2, <3>1, <3>2 DEF Apart
    <3>4. Apart(d, c)'
      <4>1. Rest(d) /\ Issuing(Act(d)) /\ call[d].step # "done" =>
               call[d].token \in Tokens /\ tokens[call[d].token] = Unused
        BY <3>1 DEF Own, Holds
      <4> QED  BY <1>1, <1>2, <3>1, <3>2, <4>1 DEF Apart
    <3>5. \A e \in Calls \ {c, d} : Apart(d, e)'
      BY <3>1 DEF Apart, Rest, Desktop, Act, Signing, Issuing
    <3> QED  BY <3>3, <3>4, <3>5
  <2>9. \A i : Honest(i)' <=> Honest(i)
    BY <1>1 DEF Honest
  <2>10. call'[c].who = Nobody /\ Nobody \notin Identity
    BY <2>3, <2>4, IdentityAssumption DEF FreshFacts
  <2>11. AllHonest'
    BY <1>1, <2>4, <2>9, <2>10 DEF IInv, AllHonest, Moves
  <2>12. TypeOK'
    BY <1>1, <2>4 DEF IInv, TypeOK, Moves, CallState
  <2> QED  BY <2>7, <2>8, <2>11, <2>12 DEF IInv
<1> QED  BY <1>3, <1>4

(* What a command marks in the other calls is that they overlap.           *)
Marks(c, d) ==
    /\ call'[d].step = call[d].step /\ call'[d].via = call[d].via /\ call'[d].on = call[d].on
    /\ call'[d].token = call[d].token /\ call'[d].who = call[d].who
    /\ call'[d].did = call[d].did /\ call'[d].silent = call[d].silent
    /\ call'[d].entry = call[d].entry /\ call'[d].reply = call[d].reply
    /\ call'[d].raced = (call[d].raced \/ (Signing(c)' /\ Signing(d)))
    /\ call[d] = Idle => call'[d] = Idle

LEMMA CommandMoves ==
    ASSUME IInv, NEW c \in Calls, Command(c)
    PROVE  /\ call' \in [Calls -> CallState]
           /\ \A d \in Calls \ {c} : Marks(c, d)
           /\ \E e \in Commands :
                FreshFacts(call'[c], "tauri", e, Nobody,
                           IF e.floor = Public THEN Handling("tauri", e.act) ELSE "guard")
           /\ Signing(c)' => \A d \in Calls : d # c /\ Signing(d) => call'[c].raced
<1>1. PICK e \in Commands :
         LET raced(o) == e.act \in SessionActs /\ Signing(o) IN
         call' = [o \in Calls |->
             IF o = c
             THEN [Fresh("tauri", e, Nobody,
                         IF e.floor = Public THEN Handling("tauri", e.act) ELSE "guard")
                   EXCEPT !.raced = \E p \in Calls : raced(p)]
             ELSE [call[o] EXCEPT !.raced = @ \/ raced(o)]]
  BY DEF Command
<1> DEFINE raced(o) == e.act \in SessionActs /\ Signing(o)
           s == IF e.floor = Public THEN Handling("tauri", e.act) ELSE "guard"
           some == \E p \in Calls : raced(p)
           x == [Fresh("tauri", e, Nobody, s) EXCEPT !.raced = some]
           y(o) == [call[o] EXCEPT !.raced = @ \/ raced(o)]
<1>2. call' = [o \in Calls |-> IF o = c THEN x ELSE y(o)]
  BY <1>1
<1>3. s \in Steps
  BY HandlingIs DEF Steps
<1>4. some \in BOOLEAN
  OBVIOUS
<1>5. x \in CallState /\ FreshFacts(x, "tauri", e, Nobody, s) /\ x.raced = some
  <2> HIDE DEF s, some
  <2> DEFINE f == Fresh("tauri", e, Nobody, s)
  <2>1. f \in CallState /\ FreshFacts(f, "tauri", e, Nobody, s)
    BY <1>3, FreshIs
  <2>2. x = [f EXCEPT !.raced = some]
    OBVIOUS
  <2> HIDE DEF f, x
  <2> QED  BY <1>4, <2>1, <2>2 DEF FreshFacts, CallState
<1> HIDE DEF s, some, x
<1>6. call'[c] = x /\ \A d \in Calls \ {c} : call'[d] = y(d)
  BY <1>2
<1>7. Signing(c)' <=> e.act \in SessionActs
  BY <1>5, <1>6 DEF FreshFacts, Signing, Desktop, Act
<1>8. ASSUME NEW d \in Calls \ {c} PROVE Marks(c, d) /\ call'[d] \in CallState
  <2> DEFINE m == call[d].raced \/ (e.act \in SessionActs /\ Signing(d))
  <2>1. call'[d] = [call[d] EXCEPT !.raced = m] /\ call[d] \in CallState
    BY <1>6, <1>8 DEF IInv, TypeOK, CallState
  <2>2. m \in BOOLEAN
    BY <2>1 DEF CallState, Signing, Desktop
  <2>3. m = (call[d].raced \/ (Signing(c)' /\ Signing(d)))
    BY <1>7
  <2>4. call[d] = Idle => call[d].raced = m
    <3> SUFFICES ASSUME call[d] = Idle PROVE call[d].raced = m
      OBVIOUS
    <3>1. call[d].via = "none" /\ call[d].raced = FALSE
      BY DEF Idle
    <3>2. ~Signing(d)
      BY <3>1 DEF Signing, Desktop
    <3> QED  BY <3>1, <3>2
  <2> HIDE DEF m
  <2>5. call'[d] \in CallState /\ call'[d].raced = m
    BY <2>1, <2>2 DEF CallState
  <2>6. call[d] = Idle => call'[d] = Idle
    BY <2>1, <2>4 DEF Idle
  <2> QED  BY <2>1, <2>3, <2>5, <2>6 DEF Marks, CallState
<1>9. call' \in [Calls -> CallState]
  BY <1>2, <1>5, <1>6, <1>8
<1>10. Signing(c)' => \A d \in Calls : d # c /\ Signing(d) => call'[c].raced
  BY <1>5, <1>6, <1>7 DEF some
<1>11. FreshFacts(call'[c], "tauri", e, Nobody,
                  IF e.floor = Public THEN Handling("tauri", e.act) ELSE "guard")
  BY <1>5, <1>6 DEF s
<1> QED  BY <1>8, <1>9, <1>10, <1>11

LEMMA CommandKeeps == ASSUME IInv, NEW c \in Calls, Command(c) PROVE IInv'
<1>1. /\ UNCHANGED state /\ tokens' = tokens /\ session' = session /\ accounts' = accounts
      /\ disabled' = disabled /\ demoted' = demoted
  BY DEF Command, state
<1>2. PICK e \in Commands :
         FreshFacts(call'[c], "tauri", e, Nobody,
                    IF e.floor = Public THEN Handling("tauri", e.act) ELSE "guard")
  BY CommandMoves
<1>3. Own(c)'
  <2> DEFINE s == IF e.floor = Public THEN Handling("tauri", e.act) ELSE "guard"
  <2>1. /\ s \in {"guard", "handle", "perform"}
        /\ s \in {"handle", "perform"} => e.floor = Public
        /\ s = "handle" => e.act \in RestAsks \cup DesktopAsks
    BY HandlingIs
  <2>2. FreshFacts(call'[c], "tauri", e, Nobody, s)
    BY <1>2
  <2> HIDE DEF s
  <2> QED  BY <1>1, <2>1, <2>2, FreshOwn
<1>4. ASSUME NEW d \in Calls \ {c}
      PROVE  /\ Own(d)' /\ Rest(d)' = Rest(d) /\ Act(d)' = Act(d) /\ Signing(d)' = Signing(d)
             /\ Issuing(Act(d))' = Issuing(Act(d))
  <2>1. Marks(c, d) /\ Own(d)
    BY <1>4, CommandMoves DEF IInv
  <2>2. /\ Rest(d)' = Rest(d) /\ Desktop(d)' = Desktop(d) /\ Act(d)' = Act(d)
        /\ Signing(d)' = Signing(d) /\ Issuing(Act(d))' = Issuing(Act(d))
    BY <2>1 DEF Marks, Rest, Desktop, Act, Signing, Issuing
  <2>3. Kind(d)' /\ Stage(d)' /\ Tried(d)' /\ (call'[d].step = "done" => Trace(d)')
    BY <2>1, <2>2 DEF Marks, Own, Kind, Stage, Tried, Trace
  <2>4. Holds(d)' /\ Named(d)' /\ Passed(d)'
    BY <1>1, <2>1, <2>2 DEF Marks, Own, Holds, Named, Passed
  <2>5. Said(d)'
    BY <1>1, <2>1, <2>2 DEF Marks, Own, Said
  <2> QED  BY <2>2, <2>3, <2>4, <2>5 DEF Own
<1>5. ASSUME NEW d \in Calls, NEW f \in Calls, d # f PROVE Apart(d, f)'
  <2>1. Apart(d, f) /\ ~Rest(c)'
    BY <1>2, <1>5 DEF IInv, FreshFacts, Rest
  <2>2. CASE d = c
    BY <1>4, <1>5, <2>1, <2>2, CommandMoves DEF Apart
  <2>3. CASE d # c /\ f = c
    BY <1>4, <2>1, <2>3, CommandMoves DEF Apart, Marks
  <2>4. CASE d # c /\ f # c
    <3>1. Marks(c, d) /\ Marks(c, f)
      BY <2>4, CommandMoves
    <3>2. /\ Rest(d)' = Rest(d) /\ Rest(f)' = Rest(f) /\ Signing(d)' = Signing(d)
          /\ Signing(f)' = Signing(f) /\ Issuing(Act(d))' = Issuing(Act(d))
      BY <1>4, <2>4
    <3> QED  BY <2>1, <3>1, <3>2 DEF Apart, Marks
  <2> QED  BY <2>2, <2>3, <2>4
<1>6. \A i : Honest(i)' <=> Honest(i)
  BY <1>1 DEF Honest
<1>7. call'[c].who \notin Identity
  BY <1>2, IdentityAssumption DEF FreshFacts
<1>8. AllHonest'
  BY <1>1, <1>6, <1>7, CommandMoves DEF IInv, AllHonest, Marks
<1>9. TypeOK'
  BY <1>1, CommandMoves DEF IInv, TypeOK, CallState
<1> QED  BY <1>3, <1>4, <1>5, <1>8, <1>9 DEF IInv

-----------------------------------------------------------------------------
(* The invariant *)

LEMMA InitInv == Init => IInv
<1> SUFFICES ASSUME Init PROVE IInv
  OBVIOUS
<1>1. /\ call = [c \in Calls |-> Idle] /\ tokens = [t \in Tokens |-> Unused]
      /\ accounts \in Stored /\ disabled \in BOOLEAN /\ demoted = {}
      /\ session = IF disabled THEN [user |-> Local, role |-> LocalRole] ELSE Nobody
  BY DEF Init
<1>2. Unused \notin Identity /\ Nobody \notin Identity /\ LocalRole \in Roles
  BY IdentityAssumption, NamesAssumption
<1>3. session \in Identity \cup {Nobody} /\ (session \in Identity => Honest(session))
  BY <1>1, <1>2 DEF Identity, Honest
<1>4. call \in [Calls -> CallState]
  BY <1>1, IdleIsCall
<1>5. TypeOK
  BY <1>1, <1>3, <1>4, StoredAssumption DEF TypeOK, CallState
<1>6. \A c \in Calls : Own(c) /\ call[c].via = "none" /\ call[c].who = Nobody
  BY <1>1, IdleIs, IdleIsFine DEF IdleFacts
<1>7. \A c, d \in Calls : c # d => Apart(c, d)
  BY <1>6 DEF Apart, Rest, Desktop, Signing
<1>8. AllHonest
  BY <1>1, <1>2, <1>3, <1>6 DEF AllHonest
<1> QED  BY <1>5, <1>6, <1>7, <1>8 DEF IInv

LEMMA StutterKeeps == ASSUME IInv, UNCHANGED vars PROVE IInv'
BY DEF vars, IInv, TypeOK, Own, Kind, Stage, Tried, Trace, Holds, Named, Passed, Said, Apart, AllHonest,
   Honest, Rest, Desktop, Act, Signing, Issuing

LEMMA NextKeeps == ASSUME IInv, [Next]_vars PROVE IInv'
<1>1. ASSUME NEW c \in Calls, Handle(c) PROVE IInv'
  BY <1>1, RequireAuthKeeps, RequireRoleKeeps, RestLookupKeeps, ReadModeKeeps, CopySessionKeeps,
     AnswersKeep, PerformChangeKeeps, PerformDeleteKeeps, FailHalfwayKeeps, RollBackImportKeeps, DemoteKeeps,
     RemoveKeeps, ApplyModeKeeps, VerifyKeeps, SetUpKeeps, IssueTokenKeeps, SetSessionKeeps,
     RevokeTokenKeeps, ClearSessionKeeps, RecordKeeps, AnnounceKeeps, ReadBackKeeps DEF Handle
<1>2. ASSUME NEW c \in Calls, Request(c) \/ Command(c) \/ HangUp(c) PROVE IInv'
  BY <1>2, RequestKeeps, CommandKeeps, AnswersKeep
<1>3. ASSUME NEW t \in Tokens, Expire(t) PROVE IInv'
  BY <1>3, ExpireKeeps
<1> QED  BY <1>1, <1>2, <1>3, RestartKeeps, StutterKeeps DEF Next

(* What is known of every call, token and session, in every reachable      *)
(* state: the strengthening the theorems below follow from.                *)
THEOREM Invariant == Spec => []IInv
<1>1. IInv /\ [Next]_vars => IInv'
  BY NextKeeps
<1> QED  BY <1>1, InitInv, PTL DEF Spec

(* The state has its types.                                                *)
THEOREM TypeCorrect == Spec => []TypeOK
<1>1. IInv => TypeOK
  BY DEF IInv
<1> QED  BY <1>1, Invariant, PTL

(* Whatever the handler does in between, a call that came to its end left  *)
(* the entries and the announcement of what it did, and of nothing else.   *)
THEOREM TraceLeft == Spec => []TraceOfWhatWasDone
<1>1. IInv => TraceOfWhatWasDone
  BY DEF IInv, Own, Trace, TraceOfWhatWasDone, Ended, AtStep
<1> QED  BY <1>1, Invariant, PTL

(* An entry names whom the guard let through or refused, or nobody when    *)
(* the token has died in between; never who is signed in by the time it is *)
(* written; and a failed login, and nothing else, names what was tried.    *)
THEOREM ActorNamed == Spec => []NamesWhoActed
<1>1. IInv => NamesWhoActed
  BY DEF IInv, Own, Named, NamesWhoActed, TypeOK
<1> QED  BY <1>1, Invariant, PTL

(* What a call changed, its caller's account had the role for when it was  *)
(* signed in, and has still unless it was demoted or removed meanwhile.    *)
THEOREM WithinRole == Spec => []BeyondRoleOnlyIfDemoted
<1>1. IInv => BeyondRoleOnlyIfDemoted
  <2> SUFFICES ASSUME IInv, NEW c \in Calls, call[c].did, call[c].on.floor # Public
               PROVE  LET who == call[c].who IN
                      /\ AtLeast(who.role, call[c].on.floor)
                      /\ \/ who.user \in demoted \cup {Local}
                         \/ who.user \in Users /\ accounts[who.user] # Gone
                            /\ AtLeast(accounts[who.user], call[c].on.floor)
    BY DEF BeyondRoleOnlyIfDemoted
  <2> DEFINE who == call[c].who
  <2>1. who # Nobody /\ AtLeast(who.role, call[c].on.floor)
    BY DEF IInv, Own, Passed
  <2>5. who \notin Attempts
    <3>1. call[c].step # "idle"
      BY IdleIs DEF IdleFacts, IInv, Own, Kind
    <3>2. Act(c) # "login" /\ Tried(c)
      BY <3>1, EndpointOf DEF Sound, Act, IInv, Own
    <3> QED  BY <3>2 DEF Tried
  <2>2. who \in Identity /\ Honest(who)
    BY <2>1, <2>5 DEF IInv, TypeOK, AllHonest
  <2>3. who.role \in Nat /\ call[c].on.floor \in Nat /\ \A r \in Roles : r \in Nat
    <3>1. call[c].step # "idle"
      BY IdleIs, TriedIsNobody DEF IdleFacts, IInv, Own, Kind
    <3>2. Sound(call[c].on)
      BY <3>1, EndpointOf
    <3> QED  BY <2>2, <3>2 DEF Sound, Identity, Roles, Public, Viewer, Editor, Admin
  <2>4. ASSUME who.user \in Users, accounts[who.user] # Gone,
               AtLeast(accounts[who.user], who.role)
        PROVE  AtLeast(accounts[who.user], call[c].on.floor)
    <3>1. accounts[who.user] \in Nat
      BY <2>3, <2>4 DEF IInv, TypeOK
    <3> QED  BY <2>1, <2>3, <2>4, <3>1 DEF AtLeast
  <2> QED  BY <2>1, <2>2, <2>4 DEF Honest
<1> QED  BY <1>1, Invariant, PTL

(* A login, setup or logout of the desktop that no other overlapped leaves *)
(* the window signed in as it said.                                        *)
THEOREM SessionKept == Spec => []SessionAsSaid
<1>1. IInv => SessionAsSaid
  BY DEF IInv, Own, Said, SessionAsSaid
<1> QED  BY <1>1, Invariant, PTL
================================================================================
