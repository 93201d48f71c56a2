-------------------------------- MODULE Backup --------------------------------
(***************************************************************************)
(* Backups and staged restores (core/src/backup.rs, and the startup of     *)
(* bin/banto-serve.rs and src-tauri).  A running app makes backups and     *)
(* stages a file as restore-pending.sqlite3; only the next start, before   *)
(* any pool exists, applies it: validate, checkpoint, safety copy, delete  *)
(* the log, rename.  The app may end between any two steps, and the steps  *)
(* on files that MayFail names may fail.                                   *)
(*                                                                         *)
(* A database is its content: a version the app committed, or a foreign    *)
(* database that was uploaded.  A file that is not all there, or pages of  *)
(* two versions without the log that makes them one, is `Broken`;          *)
(* validate_sqlite_file tells Broken from the rest.  All names are given   *)
(* in one second, the worst case for unique_path.                          *)
(*                                                                         *)
(* Left out: a start before any database exists, migrations, the temporary *)
(* files of uploads (private to each), refused requests, and loss of power *)
(* (nothing is fsynced).                                                   *)
(***************************************************************************)
EXTENDS Integers, FiniteSets

CONSTANTS
    Calls,       \* backup commands that can be in progress together
    Nothing,     \* no such file
    Broken,
    Foreign,     \* the database that uploads bring
    MayFail,     \* steps that can fail: see Faults
    MaxVersion,  \* bound: versions the app commits
    MaxSuffix    \* bound: suffixes unique_path tries

Faults == {"checkpoint", "copy", "unlink", "rename", "vacuum"}

ASSUME FaultsAssumption == MayFail \subseteq Faults
ASSUME BoundAssumption == MaxVersion \in Nat \ {0} /\ MaxSuffix \in Nat

Whole == (1..MaxVersion) \cup {Foreign}
Contents == Whole \cup {Broken}

ASSUME ContentAssumption ==
    /\ Nothing \notin Contents
    /\ Broken \notin Whole
    /\ Foreign \notin 1..MaxVersion

Kinds == {"banto", "pre-restore"}
Names == Kinds \X (0..MaxSuffix)

VARIABLES
    main,       \* the database file
    wal,        \* its -wal: the version that file and log make together
    latest,     \* the last version committed
    backups,    \* backups/, by name
    pending,    \* restore-pending.sqlite3
    mode,       \* the app: down, a step of its startup, or up
    step, op,   \* the calls
    before,     \* content of the database when the app was last started
    outcome,    \* of the restore at the last start
    promised,   \* content last reported as staged, and not cancelled or applied
    spoiled,    \* since that report, a copy onto the staged file has failed,
                \* been cut short, or shared the file with another command
    faulty      \* a checkpoint, or the deletion of a log, has failed

database == <<main, wal, latest>>
calls == <<step, op>>
history == <<before, outcome, promised, spoiled, faulty>>
vars == <<database, backups, pending, mode, calls, history>>

-----------------------------------------------------------------------------
(* What a pool that opens the database sees. *)
Content == IF wal = Nothing THEN main ELSE wal

(* A staged file with the copies that have it open, and what those that    *)
(* overlapped have written into it.                                        *)
NoPending == [file |-> Nothing, writers |-> {}, parts |-> {}]

NoOp == [name |-> <<"banto", 0>>, content |-> Nothing]

Goto(c, label) == step' = [step EXCEPT ![c] = label]
Finish(c) == Goto(c, "idle") /\ op' = [op EXCEPT ![c] = NoOp]

Init ==
    /\ main = 1 /\ wal = Nothing /\ latest = 1
    /\ backups = [n \in Names |-> Nothing]
    /\ pending = NoPending
    /\ mode = "down"
    /\ step = [c \in Calls |-> "idle"]
    /\ op = [c \in Calls |-> NoOp]
    /\ before = 1 /\ outcome = "none" /\ promised = Nothing
    /\ spoiled = FALSE /\ faulty = FALSE

(* A slip: the name is taken without looking whether it is in use. *)
FirstName(kind, name) == name = <<kind, 0>>

(* unique_path: the first name that is not in use *)
UniquePath(kind, name) ==
    \E n \in 0..MaxSuffix :
      /\ name = <<kind, n>>
      /\ backups[name] = Nothing
      /\ \A m \in 0..(n - 1) : backups[<<kind, m>>] # Nothing

-----------------------------------------------------------------------------
(* The running app on its database *)

Commit ==
    /\ mode = "up"
    /\ Content # Broken
    /\ latest < MaxVersion
    /\ latest' = latest + 1
    /\ wal' = latest'
    /\ UNCHANGED <<main, backups, pending, mode, calls, history>>

(* SQLite's own checkpoint writes the log back page by page. *)
AutoCheckpoint ==
    /\ mode = "up"
    /\ wal # Nothing
    /\ main' \in {Broken, wal}
    /\ UNCHANGED <<wal, latest, backups, pending, mode, calls, history>>

(* The app ends; it may or may not have closed its pool.  What its calls   *)
(* were doing stays as far as it got: a copy is cut short.                 *)
End ==
    /\ mode # "down"
    /\ mode' = "down"
    /\ \/ UNCHANGED <<main, wal>>
       \/ mode = "up" /\ main' = Content /\ wal' = Nothing
    /\ step' = [c \in Calls |-> "idle"]
    /\ op' = [c \in Calls |-> NoOp]
    /\ pending' = [pending EXCEPT !.writers = {}, !.parts = {}]
    /\ spoiled' = (spoiled \/ pending.writers # {})
    /\ UNCHANGED <<latest, backups, before, outcome, promised, faulty>>

-----------------------------------------------------------------------------
(* create_at *)

Create(c) ==
    /\ mode = "up" /\ step[c] = "idle"
    /\ \E name \in Names :
         /\ UniquePath("banto", name)
         /\ op' = [op EXCEPT ![c].name = name]
    /\ Goto(c, "vacuum")
    /\ UNCHANGED <<database, backups, pending, mode, history>>

(* VACUUM INTO refuses a file that exists: another call took the name. *)
NameTaken(c) ==
    /\ step[c] = "vacuum"
    /\ backups[op[c].name] # Nothing
    /\ Finish(c)
    /\ UNCHANGED <<database, backups, pending, mode, history>>

VacuumBegin(c) ==
    /\ step[c] = "vacuum"
    /\ backups[op[c].name] = Nothing
    /\ backups' = [backups EXCEPT ![op[c].name] = Broken]
    /\ op' = [op EXCEPT ![c].content = Content]
    /\ Goto(c, "vacuuming")
    /\ UNCHANGED <<database, pending, mode, history>>

VacuumEnd(c) ==
    /\ step[c] = "vacuuming"
    /\ backups' = [backups EXCEPT ![op[c].name] = op[c].content]
    /\ Finish(c)
    /\ UNCHANGED <<database, pending, mode, history>>

VacuumFails(c) ==
    /\ "vacuum" \in MayFail
    /\ step[c] = "vacuuming"
    /\ Finish(c)
    /\ UNCHANGED <<database, backups, pending, mode, history>>

-----------------------------------------------------------------------------
(* stage_restore_from_file: validate the backup, copy it into place *)

StageFile(c) ==
    /\ mode = "up" /\ step[c] = "idle"
    /\ \E name \in Names :
         /\ backups[name] \in Whole
         /\ op' = [op EXCEPT ![c].content = backups[name]]
    /\ Goto(c, "copy")
    /\ UNCHANGED <<database, backups, pending, mode, history>>

(* fs::copy truncates the file that is staged, if there is one: what was   *)
(* reported as staged before is gone, though nothing is reported yet.      *)
CopyBegin(c) ==
    /\ step[c] = "copy"
    /\ pending' = [file |-> Broken,
                   writers |-> pending.writers \cup {c},
                   parts |-> IF pending.writers = {} THEN {op[c].content}
                             ELSE pending.parts \cup {op[c].content}]
    /\ Goto(c, "copying")
    /\ UNCHANGED <<database, backups, mode, op, history>>

(* What two copies into one file leave is known only if they agree. *)
Result(parts) == IF Cardinality(parts) = 1 THEN parts ELSE parts \cup {Broken}

(* The copy's file may have been cancelled or replaced under it. *)
CopyClosed(c, parts) ==
    IF c \notin pending.writers THEN pending' = pending
    ELSE IF pending.writers # {c}
      THEN pending' = [file |-> Broken, writers |-> pending.writers \ {c}, parts |-> parts]
      ELSE \E file \in Result(parts) :
             pending' = [file |-> file, writers |-> {}, parts |-> {}]

(* The copy has the file to itself, and has had it. *)
SoleWriter(c) == pending.writers = {c} /\ pending.parts = {op[c].content}

CopyEnd(c) ==
    /\ step[c] = "copying"
    /\ CopyClosed(c, pending.parts)
    /\ promised' = op[c].content
    /\ spoiled' = ~SoleWriter(c)
    /\ Finish(c)
    /\ UNCHANGED <<database, backups, mode, before, outcome, faulty>>

CopyFails(c) ==
    /\ "copy" \in MayFail
    /\ step[c] = "copying"
    /\ CopyClosed(c, IF SoleWriter(c) THEN {Broken} ELSE pending.parts \cup {Broken})
    /\ spoiled' = (spoiled \/ c \in pending.writers)
    /\ Finish(c)
    /\ UNCHANGED <<database, backups, mode, before, outcome, promised, faulty>>

-----------------------------------------------------------------------------
(* stage_restore_from_bytes: a temporary file, validated, then renamed *)

StageBytes(c) ==
    /\ mode = "up" /\ step[c] = "idle"
    /\ op' = [op EXCEPT ![c].content = Foreign]
    /\ Goto(c, "rename")
    /\ UNCHANGED <<database, backups, pending, mode, history>>

RenameUpload(c) ==
    /\ step[c] = "rename"
    /\ pending' = [NoPending EXCEPT !.file = op[c].content]
    /\ promised' = op[c].content /\ spoiled' = FALSE
    /\ Finish(c)
    /\ UNCHANGED <<database, backups, mode, before, outcome, faulty>>

(* A slip: the error path removes the staged file, not the temporary one. *)
StagingFailsWrongFile(c) ==
    /\ step[c] \in {"copy", "rename"}
    /\ pending' = NoPending
    /\ Finish(c)
    /\ UNCHANGED <<database, backups, mode, history>>

(* Writing, validation or the rename failed, or the client went away, or   *)
(* the copy of a backup could not begin: what was staged before stands.    *)
StagingFails(c) ==
    /\ step[c] \in {"copy", "rename"}
    /\ Finish(c)
    /\ UNCHANGED <<database, backups, pending, mode, history>>

(* With nothing staged it succeeds just the same. *)
CancelPending ==
    /\ mode = "up"
    /\ pending' = IF pending.file = Nothing THEN pending ELSE NoPending
    /\ promised' = Nothing /\ spoiled' = FALSE
    /\ UNCHANGED <<database, backups, mode, calls, before, outcome, faulty>>

-----------------------------------------------------------------------------
(* apply_pending_restore_at_startup, and init_db after it *)

Start ==
    /\ mode = "down"
    /\ mode' = IF pending.file = Nothing THEN "open" ELSE "validate"
    /\ before' = Content
    /\ outcome' = "none"
    /\ UNCHANGED <<database, backups, pending, calls, promised, spoiled, faulty>>

DropPending ==
    /\ mode = "validate"
    /\ pending.file = Broken
    /\ pending' \in {NoPending, pending}
    /\ mode' = "open"
    /\ UNCHANGED <<database, backups, calls, history>>

(* A slip: the staged file is trusted. *)
Unvalidated ==
    /\ mode = "validate"
    /\ mode' = "checkpoint"
    /\ UNCHANGED <<database, backups, pending, calls, history>>

Validated ==
    /\ mode = "validate"
    /\ pending.file # Broken
    /\ mode' = "checkpoint"
    /\ UNCHANGED <<database, backups, pending, calls, history>>

(* A slip: no checkpoint. *)
NoCheckpoint ==
    /\ mode = "checkpoint"
    /\ mode' = "safety"
    /\ UNCHANGED <<database, backups, pending, calls, history>>

(* Best effort: every error is swallowed. *)
Checkpoint ==
    /\ mode = "checkpoint"
    /\ \/ main' = Content /\ wal' = Nothing /\ faulty' = faulty
       \/ /\ "checkpoint" \in MayFail /\ wal # Nothing
          /\ main' \in {main, Broken} /\ wal' = wal /\ faulty' = TRUE
    /\ mode' = "safety"
    /\ UNCHANGED <<latest, backups, pending, calls, before, outcome, promised, spoiled>>

SafetyCopy ==
    /\ mode = "safety"
    /\ \E name \in Names :
         /\ UniquePath("pre-restore", name)
         /\ backups' = [backups EXCEPT ![name] = main]
    /\ mode' = "unlink"
    /\ UNCHANGED <<database, pending, calls, history>>

(* The copy fails, and the start goes on with the old database; or the app *)
(* ends in the middle of it.                                               *)
SafetyCopyFails ==
    /\ mode = "safety"
    /\ \E name \in Names :
         /\ UniquePath("pre-restore", name)
         /\ backups' = [backups EXCEPT ![name] = Broken]
    /\ \/ "copy" \in MayFail /\ mode' = "open" /\ outcome' = "error"
       \/ mode' = "down" /\ outcome' = outcome
    /\ UNCHANGED <<database, pending, calls, before, promised, spoiled, faulty>>

(* Errors are ignored here too. *)
DeleteLog ==
    /\ mode = "unlink"
    /\ \/ wal' = Nothing /\ faulty' = faulty
       \/ "unlink" \in MayFail /\ wal' = wal /\ faulty' = TRUE
    /\ mode' = "swap"
    /\ UNCHANGED <<main, latest, backups, pending, calls, before, outcome, promised, spoiled>>

(* A log that is still there would be replayed into the new file. *)
Swap ==
    /\ mode = "swap"
    /\ main' = IF wal = Nothing THEN pending.file ELSE Broken
    /\ wal' = Nothing
    /\ pending' = NoPending
    /\ promised' = Nothing /\ spoiled' = FALSE
    /\ outcome' = "applied"
    /\ mode' = "open"
    /\ UNCHANGED <<latest, backups, calls, before, faulty>>

SwapFails ==
    /\ "rename" \in MayFail
    /\ mode = "swap"
    /\ outcome' = "error"
    /\ mode' = "open"
    /\ UNCHANGED <<database, backups, pending, calls, before, promised, spoiled, faulty>>

(* Whatever came of the restore, the app starts. *)
Open ==
    /\ mode = "open"
    /\ mode' = "up"
    /\ UNCHANGED <<database, backups, pending, calls, history>>

Next ==
    \/ Commit \/ AutoCheckpoint \/ End
    \/ \E c \in Calls :
         \/ Create(c) \/ NameTaken(c) \/ VacuumBegin(c) \/ VacuumEnd(c) \/ VacuumFails(c)
         \/ StageFile(c) \/ CopyBegin(c) \/ CopyEnd(c) \/ CopyFails(c)
         \/ StageBytes(c) \/ RenameUpload(c) \/ StagingFails(c)
    \/ CancelPending
    \/ Start \/ DropPending \/ Validated \/ Checkpoint \/ SafetyCopy \/ SafetyCopyFails
    \/ DeleteLog \/ Swap \/ SwapFails \/ Open

Spec == Init /\ [][Next]_vars

-----------------------------------------------------------------------------
(* Properties *)

Modes == {"down", "validate", "checkpoint", "safety", "unlink", "swap", "open", "up"}
Steps == {"idle", "vacuum", "vacuuming", "copy", "copying", "rename"}

(* Type invariant: only a running app has calls, a file that copies have   *)
(* open is not whole yet, and the log holds the last version committed.    *)
TypeOK ==
    /\ main \in Contents /\ wal \in (1..MaxVersion) \cup {Nothing} /\ latest \in 1..MaxVersion
    /\ wal # Nothing => wal = latest
    /\ backups \in [Names -> Contents \cup {Nothing}]
    /\ pending \in [file : Contents \cup {Nothing}, writers : SUBSET Calls, parts : SUBSET Contents]
    /\ pending.writers # {} => pending.file = Broken
    /\ mode \in Modes
    /\ step \in [Calls -> Steps]
    /\ op \in [Calls -> [name : Names, content : Contents \cup {Nothing}]]
    /\ mode # "up" => \A c \in Calls : step[c] = "idle"
    /\ before \in Contents /\ promised \in Whole \cup {Nothing}
    /\ outcome \in {"none", "applied", "error"}
    /\ spoiled \in BOOLEAN /\ faulty \in BOOLEAN

(* However a restore or the app itself ended before, the app runs on a     *)
(* whole database: never on a half copied one, never on an old log (unless *)
(* an error in dealing with the log was swallowed).                        *)
DatabaseWhole == mode = "up" /\ ~faulty => Content \in Whole

(* What a restore replaces, the log included, is kept in backups/ (with    *)
(* the same reservation).                                                  *)
NothingLost ==
    [][outcome = "none" /\ outcome' = "applied" /\ ~faulty =>
         \E name \in Names : backups[name] = before]_vars

(* What was last reported as staged is what a start applies, and no start  *)
(* goes on without it.                                                     *)
PromiseMet ==
    /\ mode = "swap" /\ outcome' = "applied" /\ ~faulty => promised = main'
    /\ mode \in {"down", "validate"} /\ mode' = "open" => promised = Nothing

(* A start applies the restore that was last reported as staged, no other  *)
(* and none that was cancelled, and never finds it gone, damaged or        *)
(* replaced: whatever uploads failed since, whenever the app ended, and    *)
(* however often a start was cut short.  Only a copy straight onto the     *)
(* staged file that fails, is cut short or shares it breaks the promise.   *)
StagedIsApplied == [][~spoiled => PromiseMet]_vars

(* Without that exception, which fs::copy onto the staged file needs.      *)
ReportedIsApplied == [][PromiseMet]_vars

(* A complete backup is never overwritten, by another backup or by the     *)
(* safety copy of a start, though all are named by the second.             *)
BackupsKept ==
    [][\A name \in Names : backups[name] \in Whole => backups'[name] = backups[name]]_vars

(* "the old db, if any, is left untouched on error": it is not, if the     *)
(* checkpoint was not complete and the rename fails.                       *)
UntouchedOnError == mode = "open" /\ outcome = "error" => Content = before

=============================================================================
