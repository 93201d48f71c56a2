------------------------------ MODULE Endpoints ------------------------------
(***************************************************************************)
(* What the two front ends offer: the routes of the REST API               *)
(* (core/src/rest/) and the commands of the desktop window                 *)
(* (src-tauri/src/lib.rs).  An endpoint is how it is guarded and what its  *)
(* handler goes through, so two that go through the same are one:          *)
(*   floor    the lowest role it serves; Public has no guard               *)
(*   act      what its service call does                                   *)
(*   audited  whether success leaves an entry in the audit trail           *)
(*   last     what follows the entry: a change event, a second read        *)
(* Left out: the values passed and returned, and the endpoints that only   *)
(* are open to all and change nothing (/api/auth/status, check, identity). *)
(***************************************************************************)
EXTENDS Naturals

Public == 0
Viewer == 1
Editor == 2
Admin  == 3

Roles == {Viewer, Editor, Admin}
AtLeast(role, floor) == role >= floor

Handler(act, audited, last) ==
    [act |-> act, audited |-> audited, last |-> last]

Read   == Handler("read", FALSE, "none")
Change == Handler("change", TRUE, "none")

(* A change made in several steps, a later one of which may fail *)
LongChange(last) == Handler("long", TRUE, last)

At(floor, handlers) ==
    {[floor |-> floor, act |-> h.act, audited |-> h.audited, last |-> h.last] :
        h \in handlers}

-----------------------------------------------------------------------------
(* REST: the handlers, then the routers that guard them *)

RestItemsReads   == {Read}
RestItemsWrites  == {Change, Handler("delete", TRUE, "none")}
RestItemsImport  == {Handler("import", TRUE, "none")}
RestItems ==
    At(Viewer, RestItemsReads) \cup At(Editor, RestItemsWrites \cup RestItemsImport)

RestUsersHandlers ==
    {Read, Change, Handler("demote", TRUE, "none"), Handler("remove", TRUE, "none")}
RestUsers == At(Admin, RestUsersHandlers)

(* Viewing the trail prunes it, which leaves no entry. *)
RestAuditHandlers ==
    {Read, Handler("change", FALSE, "none"), LongChange("reread")}
RestAudit == At(Admin, RestAuditHandlers)

RestBackupsHandlers == {Read, Change}
RestBackups == At(Admin, RestBackupsHandlers)

RestAttachmentsReads  == {Read}
RestAttachmentsWrites ==
    {LongChange("announce"), Handler("change", TRUE, "announce")}
RestAttachments ==
    At(Viewer, RestAttachmentsReads) \cup At(Editor, RestAttachmentsWrites)

RestUiSettings ==
    At(Viewer, {Handler("own", FALSE, "none")})

(* Guarded, where they are, by their own handlers *)
RestSetup    == Handler("setup", TRUE, "none")
RestPassword == Handler("password", TRUE, "none")
RestLogin    == Handler("login", TRUE, "none")
RestLogout   == Handler("logout", TRUE, "none")
RestAuth == At(Public, {RestSetup, RestPassword, RestLogin, RestLogout})

RestRoutes ==
    RestAuth \cup RestItems \cup RestUsers \cup RestAudit \cup RestBackups
    \cup RestAttachments \cup RestUiSettings

-----------------------------------------------------------------------------
(* Desktop commands *)

ItemsReadCommands  == At(Viewer, {Read})
ItemsWriteCommands == At(Editor, {Change, Handler("delete", TRUE, "none")})
ItemsImportCommand == At(Editor, {Handler("import", TRUE, "none")})

SetupCommand    == At(Public, {Handler("setup", TRUE, "none")})
LoginCommand    == At(Public, {Handler("login", TRUE, "none")})
LogoutCommand   == At(Public, {Handler("logout", TRUE, "none")})
PasswordCommand == At(Public, {Handler("password", TRUE, "none")})

(* auth_config_apply asks for its role itself, if it does *)
AuthConfigCommands ==
    At(Viewer, {Read}) \cup At(Public, {Handler("config", TRUE, "none")})
AutologinCommands  == At(Admin, {LongChange("none")})
ServerCommands     == At(Admin, {Read, LongChange("none")})
SettingsCommands   == At(Admin, {Read, Change})
UiSettingsCommands == At(Viewer, {Handler("own", FALSE, "none")})
VibrancyCommands   == At(Viewer, {Read}) \cup At(Admin, {LongChange("none")})

UsersCommands ==
    At(Admin, {Read, Change, Handler("demote", TRUE, "none"),
               Handler("remove", TRUE, "none")})
AuditCommands ==
    At(Admin, {Read, Handler("change", FALSE, "none"),
               LongChange("reread")})
BackupsCommands == At(Admin, {Read, Change})

AttachmentsReadCommands  == At(Viewer, {Read})
AttachmentsWriteCommands ==
    At(Editor, {LongChange("announce"), Handler("change", TRUE, "announce"), Read})

(* Writes a file of its own, and leaves no entry *)
ExportCommand == At(Viewer, {Handler("change", FALSE, "none")})

DesktopCommands ==
    ItemsReadCommands \cup ItemsWriteCommands \cup ItemsImportCommand
    \cup SetupCommand \cup LoginCommand \cup LogoutCommand \cup PasswordCommand
    \cup AuthConfigCommands \cup AutologinCommands \cup ServerCommands
    \cup SettingsCommands \cup UiSettingsCommands \cup VibrancyCommands \cup UsersCommands \cup AuditCommands
    \cup BackupsCommands \cup AttachmentsReadCommands
    \cup AttachmentsWriteCommands \cup ExportCommand
=============================================================================
