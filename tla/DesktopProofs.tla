---------------------------- MODULE DesktopProofs ----------------------------
(***************************************************************************)
(* Proofs about what the desktop app keeps besides its database's rows:    *)
(* the database file itself, its backups and a staged restore (Backup),    *)
(* and the embedded server and its persisted switches (LanAccess); for any *)
(* number of concurrent commands, any set of steps that may fail, and any  *)
(* addresses, accounts and browsers.                                       *)
(*                                                                         *)
(* Backup: the inductive invariant says whose each unfinished file is, and *)
(* what each step of a start may rely on as long as no error in dealing    *)
(* with the log was swallowed.                                             *)
(*                                                                         *)
(* LanAccess: that of the server treats a socket as a loan to one party;   *)
(* that of the settings says how far the one command that is running has   *)
(* come, as long as commands have not overlapped.                          *)
(***************************************************************************)
EXTENDS Backup, LanAccess, FiniteSetTheorems, TLAPS

-----------------------------------------------------------------------------
(* Backup: the inductive invariant *)

(* A copy or a rename that is under way has something whole to put there.  *)
Staging(c) == step[c] \in {"copy", "copying", "rename"} => op[c].content \in Whole

(* The file a backup is being written to is its own.                       *)
Vacuuming(c) ==
    step[c] = "vacuuming" =>
      /\ backups[op[c].name] = Broken
      /\ op[c].content \in Contents

OwnFile(c, d) ==
    step[c] = "vacuuming" /\ step[d] = "vacuuming" /\ c # d => op[c].name # op[d].name

(* What was last reported as staged is what is staged, unless a copy onto  *)
(* it is under way or has spoiled it.                                      *)
PromiseStaged == ~spoiled /\ pending.writers = {} => pending.file = promised

(* A start finds no copy under way, and one that applies a restore has     *)
(* found it whole.                                                         *)
StagedWhole ==
    /\ mode # "up" => pending.writers = {}
    /\ mode = "validate" => pending.file # Nothing
    /\ mode \in {"checkpoint", "safety", "unlink", "swap"} => pending.file \in Whole

(* Unless an error was swallowed, the database is whole at every moment of *)
(* the app's life, a start first folds its log into it, and keeps a copy.  *)
LogFolded ==
    ~faulty =>
      /\ Content \in Whole
      /\ mode \in {"validate", "checkpoint"} => Content = before
      /\ mode \in {"safety", "unlink", "swap"} => wal = Nothing /\ main = before
      /\ mode \in {"unlink", "swap"} => \E name \in Names : backups[name] = before

BackupInv ==
    /\ TypeOK
    /\ \A c \in Calls : Staging(c) /\ Vacuuming(c)
    /\ \A c, d \in Calls : OwnFile(c, d)
    /\ PromiseStaged /\ StagedWhole /\ LogFolded

-----------------------------------------------------------------------------
(* TypeOK, in the parts that steps disturb one at a time *)

DatabaseOK ==
    /\ main \in Contents /\ wal \in (1..MaxVersion) \cup {Nothing} /\ latest \in 1..MaxVersion
    /\ wal # Nothing => wal = latest

BackupsOK == backups \in [Names -> Contents \cup {Nothing}]

PendingOK ==
    /\ pending \in [file : Contents \cup {Nothing}, writers : SUBSET Calls, parts : SUBSET Contents]
    /\ pending.writers # {} => pending.file = Broken

CallsOK ==
    /\ mode \in Modes
    /\ step \in [Calls -> Steps]
    /\ op \in [Calls -> [name : Names, content : Contents \cup {Nothing}]]
    /\ mode # "up" => \A c \in Calls : step[c] = "idle"

HistoryOK ==
    /\ before \in Contents /\ promised \in Whole \cup {Nothing}
    /\ outcome \in {"none", "applied", "error"}
    /\ spoiled \in BOOLEAN /\ faulty \in BOOLEAN

LEMMA TypeParts == TypeOK <=> DatabaseOK /\ BackupsOK /\ PendingOK /\ CallsOK /\ HistoryOK
BY DEF TypeOK, DatabaseOK, BackupsOK, PendingOK, CallsOK, HistoryOK

LEMMA TypePartsNext ==
    TypeOK' <=> DatabaseOK' /\ BackupsOK' /\ PendingOK' /\ CallsOK' /\ HistoryOK'
BY DEF TypeOK, DatabaseOK, BackupsOK, PendingOK, CallsOK, HistoryOK

LEMMA ContentKinds ==
    /\ 1..MaxVersion \subseteq Whole /\ Foreign \in Whole /\ Whole \subseteq Contents
    /\ Broken \in Contents /\ Broken \notin Whole
    /\ Nothing \notin Contents /\ Nothing \notin Whole /\ Nothing # Broken
    /\ 1 \in 1..MaxVersion /\ 1 \in Whole /\ Nothing \notin 1..MaxVersion
<1>1. 1 \in 1..MaxVersion
  BY BoundAssumption
<1>2. 1..MaxVersion \subseteq Whole /\ Foreign \in Whole
  BY DEF Whole
<1>3. Whole \subseteq Contents /\ Broken \in Contents
  BY DEF Contents
<1> QED  BY <1>1, <1>2, <1>3, ContentAssumption

LEMMA ContentIs == DatabaseOK => Content \in Contents
BY ContentKinds DEF DatabaseOK, Content

LEMMA NoOpIs == NoOp \in [name : Names, content : Contents \cup {Nothing}]
BY BoundAssumption DEF NoOp, Names, Kinds

(* Steps that leave a part's variables alone                               *)
LEMMA SameDatabase == DatabaseOK /\ UNCHANGED database => DatabaseOK' /\ Content' = Content
BY DEF DatabaseOK, Content, database

LEMMA SameBackups == BackupsOK /\ backups' = backups => BackupsOK'
BY DEF BackupsOK

LEMMA SamePending == PendingOK /\ pending' = pending => PendingOK'
BY DEF PendingOK

LEMMA SameHistory == HistoryOK /\ UNCHANGED history => HistoryOK'
BY DEF HistoryOK, history

LEMMA SameCalls == CallsOK /\ UNCHANGED calls /\ mode' = mode => CallsOK'
BY DEF CallsOK, calls

(* A call moves on: the others stay where they are.                        *)
LEMMA CallMovesOn ==
    ASSUME CallsOK, mode = "up", mode' = mode, NEW c \in Calls, NEW label \in Steps, Goto(c, label)
    PROVE  /\ step' \in [Calls -> Steps] /\ step'[c] = label
           /\ \A d \in Calls \ {c} : step'[d] = step[d]
           /\ op' \in [Calls -> [name : Names, content : Contents \cup {Nothing}]] => CallsOK'
BY DEF CallsOK, Goto

LEMMA CallFinishes ==
    ASSUME CallsOK, mode = "up", mode' = mode, NEW c \in Calls, Finish(c)
    PROVE  /\ CallsOK' /\ step'[c] = "idle"
           /\ \A d \in Calls \ {c} : step'[d] = step[d] /\ op'[d] = op[d]
<1>1. op' \in [Calls -> [name : Names, content : Contents \cup {Nothing}]]
      /\ \A d \in Calls \ {c} : op'[d] = op[d]
  BY NoOpIs DEF CallsOK, Finish
<1> QED  BY <1>1, CallMovesOn DEF Finish, Steps

(* Calls run in a running app only.                                        *)
LEMMA Running == ASSUME CallsOK, NEW c \in Calls, step[c] # "idle" PROVE mode = "up"
BY DEF CallsOK

-----------------------------------------------------------------------------
(* The parts of the inductive invariant, step by step *)

CallsInv ==
    /\ \A c \in Calls : Staging(c) /\ Vacuuming(c)
    /\ \A c, d \in Calls : OwnFile(c, d)

LEMMA InvParts ==
    BackupInv <=> /\ DatabaseOK /\ BackupsOK /\ PendingOK /\ CallsOK /\ HistoryOK
                  /\ CallsInv /\ PromiseStaged /\ StagedWhole /\ LogFolded
BY TypeParts DEF BackupInv, CallsInv

LEMMA InvPartsNext ==
    BackupInv' <=> /\ DatabaseOK' /\ BackupsOK' /\ PendingOK' /\ CallsOK' /\ HistoryOK'
                   /\ CallsInv' /\ PromiseStaged' /\ StagedWhole' /\ LogFolded'
BY TypePartsNext DEF BackupInv, CallsInv

(* A running app whose database stands as it was                           *)
LEMMA UpKeeps ==
    ASSUME LogFolded, mode = "up", mode' = mode, Content' = Content, faulty' = faulty
    PROVE  StagedWhole' /\ LogFolded'
BY DEF StagedWhole, LogFolded

LEMMA PromiseKept ==
    PromiseStaged /\ pending' = pending /\ promised' = promised /\ spoiled' = spoiled
      => PromiseStaged'
BY DEF PromiseStaged

LEMMA CallsStay ==
    CallsInv /\ UNCHANGED calls /\ backups' = backups => CallsInv'
BY DEF CallsInv, Staging, Vacuuming, OwnFile, calls

(* One call's step that changes no backup                                  *)
LEMMA CallKeeps ==
    ASSUME CallsInv, backups' = backups, NEW c \in Calls, step'[c] # "vacuuming",
           \A d \in Calls \ {c} : step'[d] = step[d] /\ op'[d] = op[d],
           Staging(c)'
    PROVE  CallsInv'
<1>1. Vacuuming(c)' /\ \A d \in Calls : OwnFile(c, d)' /\ OwnFile(d, c)'
  BY DEF Vacuuming, OwnFile
<1>2. \A d \in Calls \ {c} : Staging(d)' /\ Vacuuming(d)'
  BY DEF CallsInv, Staging, Vacuuming
<1>3. \A d, e \in Calls \ {c} : OwnFile(d, e)'
  BY DEF CallsInv, OwnFile
<1> QED  BY <1>1, <1>2, <1>3 DEF CallsInv

LEMMA FinishKeeps ==
    ASSUME CallsOK, CallsInv, mode = "up", mode' = mode, backups' = backups,
           NEW c \in Calls, Finish(c)
    PROVE  CallsOK' /\ CallsInv'
<1>1. /\ CallsOK' /\ step'[c] = "idle"
      /\ \A d \in Calls \ {c} : step'[d] = step[d] /\ op'[d] = op[d]
  BY CallFinishes
<1>2. Staging(c)'
  BY <1>1 DEF Staging
<1> QED  BY <1>1, <1>2, CallKeeps

(* With nothing in progress there is nothing to say of calls.              *)
LEMMA NoCalls ==
    ASSUME \A c \in Calls : step'[c] = "idle"
    PROVE  CallsInv'
BY DEF CallsInv, Staging, Vacuuming, OwnFile

-----------------------------------------------------------------------------
(* The running app on its database *)

LEMMA CommitKeeps == ASSUME BackupInv, Commit PROVE BackupInv'
<1> USE InvParts
<1>1. /\ mode = "up" /\ mode' = mode /\ main' = main /\ wal' = latest' /\ latest' = latest + 1
      /\ latest < MaxVersion /\ UNCHANGED <<calls, history>>
      /\ backups' = backups /\ pending' = pending /\ faulty' = faulty
      /\ promised' = promised /\ spoiled' = spoiled
  BY DEF Commit, history
<1>2. latest' \in 1..MaxVersion
  BY <1>1, BoundAssumption DEF DatabaseOK
<1>3. DatabaseOK' /\ Content' = latest'
  BY <1>1, <1>2, ContentKinds DEF DatabaseOK, Content
<1>4. StagedWhole' /\ LogFolded'
  BY <1>1, <1>2, <1>3, ContentKinds DEF StagedWhole, LogFolded
<1> QED
  BY <1>1, <1>3, <1>4, SameBackups, SamePending, SameCalls, SameHistory, CallsStay, PromiseKept,
     InvPartsNext

LEMMA AutoCheckpointKeeps == ASSUME BackupInv, AutoCheckpoint PROVE BackupInv'
<1> USE InvParts
<1>1. /\ mode = "up" /\ mode' = mode /\ main' \in {Broken, wal} /\ wal' = wal /\ latest' = latest
      /\ wal # Nothing /\ UNCHANGED <<calls, history>>
      /\ backups' = backups /\ pending' = pending /\ faulty' = faulty
      /\ promised' = promised /\ spoiled' = spoiled
  BY DEF AutoCheckpoint, history
<1>2. DatabaseOK' /\ Content' = Content
  BY <1>1, ContentKinds DEF DatabaseOK, Content
<1> QED
  BY <1>1, <1>2, SameBackups, SamePending, SameCalls, SameHistory, CallsStay, PromiseKept, UpKeeps,
     InvPartsNext

LEMMA EndKeeps == ASSUME BackupInv, End PROVE BackupInv'
<1> USE InvParts
<1>1. /\ mode # "down" /\ mode' = "down" /\ latest' = latest /\ backups' = backups
      /\ UNCHANGED <<before, outcome, promised, faulty>>
      /\ spoiled' = (spoiled \/ pending.writers # {})
      /\ \A c \in Calls : step'[c] = "idle"
      /\ pending' = [pending EXCEPT !.writers = {}, !.parts = {}]
  BY DEF End
<1>2. \/ main' = main /\ wal' = wal
      \/ mode = "up" /\ main' = Content /\ wal' = Nothing
  BY DEF End
<1>3. DatabaseOK' /\ Content' = Content
  BY <1>1, <1>2, ContentIs, ContentKinds DEF DatabaseOK, Content
<1>4. CallsOK'
  BY <1>1, NoOpIs DEF End, CallsOK, Modes, Steps
<1>5. PendingOK' /\ pending'.file = pending.file /\ pending'.writers = {}
  BY <1>1 DEF PendingOK
<1>6. ~faulty => Content \in Whole
  BY DEF LogFolded
<1>7. StagedWhole' /\ LogFolded'
  BY <1>1, <1>3, <1>5, <1>6 DEF StagedWhole, LogFolded
<1>8. spoiled' \in BOOLEAN /\ HistoryOK'
  BY <1>1 DEF HistoryOK
<1>9. PromiseStaged'
  <2>1. ASSUME ~spoiled' PROVE pending'.file = promised'
    <3>1. ~spoiled /\ pending.writers = {}
      BY <1>1, <2>1
    <3> QED  BY <1>1, <1>5, <3>1 DEF PromiseStaged
  <2> QED  BY <2>1 DEF PromiseStaged
<1> QED
  BY <1>1, <1>3, <1>4, <1>5, <1>7, <1>8, <1>9, SameBackups, NoCalls, InvPartsNext

-----------------------------------------------------------------------------
(* create_at *)

(* A call's step leaves the database, the start and its history alone.     *)
LEMMA AppGoesOn ==
    ASSUME BackupInv, mode = "up", UNCHANGED <<database, mode, history>>
    PROVE  DatabaseOK' /\ HistoryOK' /\ StagedWhole' /\ LogFolded'
<1>1. faulty' = faulty
  BY DEF history
<1> QED  BY <1>1, InvParts, SameDatabase, SameHistory, UpKeeps

LEMMA VacuumStays ==
    ASSUME BackupInv, mode = "up", UNCHANGED <<database, pending, mode, history>>
    PROVE  /\ DatabaseOK' /\ HistoryOK' /\ StagedWhole' /\ LogFolded'
           /\ PendingOK' /\ PromiseStaged'
BY AppGoesOn, InvParts, SamePending, PromiseKept DEF history

LEMMA CreateKeeps == ASSUME BackupInv, NEW c \in Calls, Create(c) PROVE BackupInv'
<1> USE InvParts
<1>1. /\ mode = "up" /\ mode' = mode /\ Goto(c, "vacuum") /\ backups' = backups
      /\ UNCHANGED <<database, pending, mode, history>>
  BY DEF Create
<1>2. PICK name \in Names : op' = [op EXCEPT ![c].name = name]
  BY DEF Create
<1>3. /\ op' \in [Calls -> [name : Names, content : Contents \cup {Nothing}]]
      /\ \A d \in Calls \ {c} : op'[d] = op[d]
  BY <1>2 DEF CallsOK
<1>4. /\ step' \in [Calls -> Steps] /\ step'[c] = "vacuum"
      /\ \A d \in Calls \ {c} : step'[d] = step[d]
      /\ CallsOK'
  BY <1>1, <1>3, CallMovesOn DEF Steps
<1>5. Staging(c)'
  BY <1>4 DEF Staging
<1>6. CallsInv'
  BY <1>1, <1>3, <1>4, <1>5, CallKeeps
<1> QED  BY <1>1, <1>4, <1>6, VacuumStays, SameBackups, InvPartsNext

LEMMA NameTakenKeeps ==
    ASSUME BackupInv, NEW c \in Calls, NameTaken(c) \/ VacuumFails(c)
    PROVE  BackupInv'
<1> USE InvParts
<1>1. /\ step[c] # "idle" /\ mode' = mode /\ Finish(c) /\ backups' = backups
      /\ UNCHANGED <<database, pending, mode, history>>
  BY DEF NameTaken, VacuumFails
<1>2. mode = "up"
  BY <1>1, Running
<1> QED  BY <1>1, <1>2, VacuumStays, FinishKeeps, SameBackups, InvPartsNext

LEMMA VacuumBeginKeeps == ASSUME BackupInv, NEW c \in Calls, VacuumBegin(c) PROVE BackupInv'
<1> USE InvParts
<1> DEFINE name == op[c].name
<1>1. /\ step[c] = "vacuum" /\ mode' = mode /\ Goto(c, "vacuuming")
      /\ backups[name] = Nothing /\ backups' = [backups EXCEPT ![name] = Broken]
      /\ op' = [op EXCEPT ![c].content = Content]
      /\ UNCHANGED <<database, pending, mode, history>>
  BY DEF VacuumBegin
<1>2. mode = "up" /\ name \in Names
  BY <1>1, Running DEF CallsOK
<1>3. Content \in Contents
  BY ContentIs
<1>4. /\ op' \in [Calls -> [name : Names, content : Contents \cup {Nothing}]]
      /\ op'[c].name = name /\ op'[c].content = Content
      /\ \A d \in Calls \ {c} : op'[d] = op[d]
  BY <1>1, <1>3 DEF CallsOK
<1>5. /\ step'[c] = "vacuuming" /\ \A d \in Calls \ {c} : step'[d] = step[d]
      /\ CallsOK'
  BY <1>1, <1>2, <1>4, CallMovesOn DEF Steps
<1>6. BackupsOK' /\ backups'[name] = Broken /\ \A n \in Names \ {name} : backups'[n] = backups[n]
  BY <1>1, <1>2, ContentKinds DEF BackupsOK
<1>7. Staging(c)' /\ Vacuuming(c)'
  BY <1>3, <1>4, <1>5, <1>6 DEF Staging, Vacuuming
<1>8. ASSUME NEW d \in Calls, d # c PROVE Staging(d)' /\ Vacuuming(d)' /\ OwnFile(c, d)' /\ OwnFile(d, c)'
  <2>1. op[d].name \in Names /\ Staging(d) /\ Vacuuming(d) /\ op'[d] = op[d] /\ step'[d] = step[d]
    BY <1>4, <1>5, <1>8 DEF CallsOK, CallsInv
  <2>2. step[d] = "vacuuming" => op[d].name # name
    BY <1>1, <2>1, ContentKinds DEF Vacuuming
  <2> QED  BY <1>4, <1>6, <2>1, <2>2 DEF Staging, Vacuuming, OwnFile
<1>9. CallsInv'
  BY <1>4, <1>5, <1>7, <1>8 DEF CallsInv, OwnFile
<1> QED  BY <1>1, <1>2, <1>5, <1>6, <1>9, VacuumStays, InvPartsNext

LEMMA VacuumEndKeeps == ASSUME BackupInv, NEW c \in Calls, VacuumEnd(c) PROVE BackupInv'
<1> USE InvParts
<1> DEFINE name == op[c].name
<1>1. /\ step[c] = "vacuuming" /\ mode' = mode /\ Finish(c)
      /\ backups' = [backups EXCEPT ![name] = op[c].content]
      /\ UNCHANGED <<database, pending, mode, history>>
  BY DEF VacuumEnd
<1>2. mode = "up" /\ name \in Names
  BY <1>1, Running DEF CallsOK
<1>3. Vacuuming(c) /\ op[c].content \in Contents
  BY <1>1 DEF CallsInv, Vacuuming
<1>4. BackupsOK' /\ \A n \in Names \ {name} : backups'[n] = backups[n]
  BY <1>1, <1>2, <1>3 DEF BackupsOK
<1>5. /\ CallsOK' /\ step'[c] = "idle"
      /\ \A d \in Calls \ {c} : step'[d] = step[d] /\ op'[d] = op[d]
  BY <1>1, <1>2, CallFinishes
<1>6. ASSUME NEW d \in Calls, d # c PROVE Staging(d)' /\ Vacuuming(d)'
  <2>1. /\ op[d].name \in Names /\ Staging(d) /\ Vacuuming(d) /\ OwnFile(c, d)
        /\ op'[d] = op[d] /\ step'[d] = step[d]
    BY <1>5, <1>6 DEF CallsOK, CallsInv
  <2>2. step[d] = "vacuuming" => op[d].name # name
    BY <1>1, <1>6, <2>1 DEF OwnFile
  <2> QED  BY <1>4, <2>1, <2>2 DEF Staging, Vacuuming
<1>7. CallsInv'
  BY <1>5, <1>6 DEF CallsInv, Staging, Vacuuming, OwnFile
<1> QED  BY <1>1, <1>2, <1>4, <1>5, <1>7, VacuumStays, InvPartsNext

-----------------------------------------------------------------------------
(* Staging a restore *)

LEMMA StageKeeps ==
    ASSUME BackupInv, NEW c \in Calls, StageFile(c) \/ StageBytes(c)
    PROVE  BackupInv'
<1> USE InvParts
<1>1. /\ mode = "up" /\ mode' = mode /\ backups' = backups
      /\ UNCHANGED <<database, pending, mode, history>>
  BY DEF StageFile, StageBytes
<1>2. PICK content \in Whole : op' = [op EXCEPT ![c].content = content]
  BY ContentKinds DEF StageFile, StageBytes
<1>3. PICK label \in {"copy", "rename"} : Goto(c, label)
  BY DEF StageFile, StageBytes
<1>4. /\ op' \in [Calls -> [name : Names, content : Contents \cup {Nothing}]]
      /\ op'[c].content = content /\ \A d \in Calls \ {c} : op'[d] = op[d]
  BY <1>2, ContentKinds DEF CallsOK
<1>5. CallsOK' /\ step'[c] = label /\ \A d \in Calls \ {c} : step'[d] = step[d]
  BY <1>1, <1>3, <1>4, CallMovesOn DEF Steps
<1>6. CallsInv'
  BY <1>1, <1>3, <1>4, <1>5, CallKeeps DEF Staging
<1> QED  BY <1>1, <1>5, <1>6, VacuumStays, SameBackups, InvPartsNext

(* A step on the staged file                                               *)
LEMMA StagingGoesOn ==
    ASSUME BackupInv, mode = "up",
           UNCHANGED <<database, backups, mode, before, outcome, faulty>>,
           promised' \in Whole \cup {Nothing}, spoiled' \in BOOLEAN
    PROVE  DatabaseOK' /\ BackupsOK' /\ HistoryOK' /\ StagedWhole' /\ LogFolded'
<1>1. HistoryOK'
  BY InvParts DEF HistoryOK
<1> QED  BY <1>1, InvParts, SameDatabase, SameBackups, UpKeeps

LEMMA CopyBeginKeeps == ASSUME BackupInv, NEW c \in Calls, CopyBegin(c) PROVE BackupInv'
<1> USE InvParts
<1>1. /\ step[c] = "copy" /\ mode' = mode /\ Goto(c, "copying") /\ op' = op
      /\ pending'.file = Broken /\ pending'.writers = pending.writers \cup {c}
      /\ backups' = backups /\ UNCHANGED <<database, backups, mode, history>>
      /\ UNCHANGED <<before, outcome, promised, spoiled, faulty>>
  BY DEF CopyBegin, history
<1>2. mode = "up" /\ op[c].content \in Whole
  BY <1>1, Running DEF CallsInv, Staging
<1>3. /\ CallsOK' /\ step'[c] = "copying"
      /\ \A d \in Calls \ {c} : step'[d] = step[d] /\ op'[d] = op[d]
  BY <1>1, <1>2, CallMovesOn DEF CallsOK, Steps
<1>4. CallsInv'
  BY <1>1, <1>2, <1>3, CallKeeps DEF Staging
<1>5. PendingOK'
  <2>1. pending.writers \cup {c} \in SUBSET Calls
    BY DEF PendingOK
  <2>2. (IF pending.writers = {} THEN {op[c].content} ELSE pending.parts \cup {op[c].content})
          \in SUBSET Contents
    BY <1>2, ContentKinds DEF PendingOK
  <2> QED  BY <2>1, <2>2, ContentKinds DEF PendingOK, CopyBegin
<1>6. PromiseStaged'
  BY <1>1 DEF PromiseStaged
<1>7. promised' \in Whole \cup {Nothing} /\ spoiled' \in BOOLEAN
  BY <1>1 DEF HistoryOK
<1> QED  BY <1>1, <1>2, <1>3, <1>4, <1>5, <1>6, <1>7, StagingGoesOn, InvPartsNext

(* What a copy leaves: a file of its own is whole only if no other copy    *)
(* wrote into it.                                                          *)
LEMMA ClosedFile ==
    ASSUME PendingOK, NEW c \in Calls, NEW parts \in SUBSET Contents, CopyClosed(c, parts)
    PROVE  /\ PendingOK'
           /\ c \notin pending.writers => pending'.file = pending.file
           /\ \A content \in Contents :
                pending.writers = {c} /\ parts = {content} => pending'.file = content
<1>1. CASE c \notin pending.writers
  <2>1. pending' = pending
    BY <1>1 DEF CopyClosed
  <2> QED  BY <1>1, <2>1, SamePending
<1>2. CASE c \in pending.writers /\ pending.writers # {c}
  <2>1. pending' = [file |-> Broken, writers |-> pending.writers \ {c}, parts |-> parts]
    BY <1>2 DEF CopyClosed
  <2>2. PendingOK'
    BY <2>1, ContentKinds DEF PendingOK
  <2> QED  BY <1>2, <2>2
<1>3. CASE pending.writers = {c}
  <2>1. PICK file \in Result(parts) : pending' = [file |-> file, writers |-> {}, parts |-> {}]
    BY <1>3 DEF CopyClosed
  <2>2. file \in Contents
    BY <2>1, ContentKinds DEF Result
  <2>3. PendingOK'
    BY <2>1, <2>2 DEF PendingOK
  <2>4. ASSUME NEW content \in Contents, parts = {content} PROVE file = content
    BY <2>1, <2>4, FS_Singleton DEF Result
  <2> QED  BY <1>3, <2>1, <2>3, <2>4
<1> QED  BY <1>1, <1>2, <1>3

LEMMA CopyEndKeeps == ASSUME BackupInv, NEW c \in Calls, CopyEnd(c) PROVE BackupInv'
<1> USE InvParts
<1>1. /\ step[c] = "copying" /\ mode' = mode /\ Finish(c) /\ backups' = backups
      /\ CopyClosed(c, pending.parts)
      /\ promised' = op[c].content /\ spoiled' = ~SoleWriter(c)
      /\ UNCHANGED <<database, backups, mode, before, outcome, faulty>>
  BY DEF CopyEnd
<1>2. mode = "up" /\ op[c].content \in Whole /\ op[c].content \in Contents
  BY <1>1, Running, ContentKinds DEF CallsInv, Staging
<1>3. /\ PendingOK'
      /\ SoleWriter(c) => pending'.file = op[c].content
  BY <1>1, <1>2, ClosedFile DEF PendingOK, SoleWriter
<1>4. spoiled' \in BOOLEAN
  BY <1>1
<1>5. PromiseStaged'
  <2>1. ASSUME ~spoiled' PROVE pending'.file = promised'
    <3>1. SoleWriter(c)
      BY <1>1, <2>1
    <3> QED  BY <1>1, <1>3, <3>1
  <2> QED  BY <2>1 DEF PromiseStaged
<1> QED  BY <1>1, <1>2, <1>3, <1>4, <1>5, FinishKeeps, StagingGoesOn, InvPartsNext

LEMMA CopyFailsKeeps == ASSUME BackupInv, NEW c \in Calls, CopyFails(c) PROVE BackupInv'
<1> USE InvParts
<1> DEFINE parts == IF SoleWriter(c) THEN {Broken} ELSE pending.parts \cup {Broken}
<1>1. /\ step[c] = "copying" /\ mode' = mode /\ Finish(c) /\ backups' = backups
      /\ CopyClosed(c, parts) /\ promised' = promised
      /\ spoiled' = (spoiled \/ c \in pending.writers)
      /\ UNCHANGED <<database, backups, mode, before, outcome, faulty>>
  BY DEF CopyFails
<1>2. mode = "up" /\ promised' \in Whole \cup {Nothing} /\ spoiled' \in BOOLEAN
  BY <1>1, Running DEF HistoryOK
<1>3. parts \in SUBSET Contents
  BY ContentKinds DEF PendingOK
<1> HIDE DEF parts
<1>4. PendingOK'
  BY <1>1, <1>3, ClosedFile
<1>5. PromiseStaged'
  <2>1. ASSUME ~spoiled', pending'.writers = {} PROVE pending'.file = promised'
    <3>1. ~spoiled /\ c \notin pending.writers
      BY <1>1, <2>1
    <3>2. pending' = pending
      BY <1>1, <3>1 DEF CopyClosed
    <3> QED  BY <1>1, <2>1, <3>1, <3>2 DEF PromiseStaged
  <2> QED  BY <2>1 DEF PromiseStaged
<1> QED  BY <1>1, <1>2, <1>4, <1>5, FinishKeeps, StagingGoesOn, InvPartsNext

LEMMA RenameKeeps == ASSUME BackupInv, NEW c \in Calls, RenameUpload(c) PROVE BackupInv'
<1> USE InvParts
<1>1. /\ step[c] = "rename" /\ mode' = mode /\ Finish(c) /\ backups' = backups
      /\ promised' = op[c].content /\ spoiled' = FALSE
      /\ pending' = [NoPending EXCEPT !.file = op[c].content]
      /\ UNCHANGED <<database, backups, mode, before, outcome, faulty>>
  BY DEF RenameUpload
<1>2. mode = "up" /\ op[c].content \in Whole
  BY <1>1, Running DEF CallsInv, Staging
<1>3. PendingOK' /\ PromiseStaged'
  BY <1>1, <1>2, ContentKinds DEF PendingOK, PromiseStaged, NoPending
<1> QED  BY <1>1, <1>2, <1>3, FinishKeeps, StagingGoesOn, InvPartsNext

LEMMA StagingFailsKeeps == ASSUME BackupInv, NEW c \in Calls, StagingFails(c) PROVE BackupInv'
<1> USE InvParts
<1>1. /\ step[c] # "idle" /\ mode' = mode /\ Finish(c) /\ backups' = backups
      /\ UNCHANGED <<database, pending, mode, history>>
  BY DEF StagingFails
<1>2. mode = "up"
  BY <1>1, Running
<1> QED  BY <1>1, <1>2, VacuumStays, FinishKeeps, SameBackups, InvPartsNext

LEMMA CancelKeeps == ASSUME BackupInv, CancelPending PROVE BackupInv'
<1> USE InvParts
<1>1. /\ mode = "up" /\ mode' = mode /\ backups' = backups /\ UNCHANGED calls
      /\ pending' = (IF pending.file = Nothing THEN pending ELSE NoPending)
      /\ promised' = Nothing /\ spoiled' = FALSE
      /\ UNCHANGED <<database, backups, mode, before, outcome, faulty>>
  BY DEF CancelPending
<1>2. PendingOK' /\ PromiseStaged'
  BY <1>1 DEF PendingOK, PromiseStaged, NoPending
<1> QED  BY <1>1, <1>2, SameCalls, CallsStay, StagingGoesOn, InvPartsNext

-----------------------------------------------------------------------------
(* The startup: no call is in progress *)

LEMMA StartupCalls ==
    ASSUME CallsOK, mode # "up", UNCHANGED calls, mode' \in Modes
    PROVE  CallsOK' /\ CallsInv'
<1>1. CallsOK' /\ \A c \in Calls : step'[c] = "idle"
  BY DEF CallsOK, calls
<1> QED  BY <1>1, NoCalls

LEMMA StartKeeps == ASSUME BackupInv, Start PROVE BackupInv'
<1> USE InvParts
<1>1. /\ mode = "down" /\ mode' = (IF pending.file = Nothing THEN "open" ELSE "validate")
      /\ before' = Content /\ outcome' = "none" /\ faulty' = faulty
      /\ promised' = promised /\ spoiled' = spoiled
      /\ backups' = backups /\ pending' = pending /\ UNCHANGED <<database, calls>>
  BY DEF Start
<1>2. CallsOK' /\ CallsInv'
  BY <1>1, StartupCalls DEF Modes
<1>3. DatabaseOK' /\ Content' = Content
  BY <1>1, SameDatabase
<1>4. HistoryOK'
  BY <1>1, ContentIs DEF HistoryOK
<1>5. StagedWhole' /\ LogFolded'
  BY <1>1, <1>3 DEF StagedWhole, LogFolded
<1> QED
  BY <1>1, <1>2, <1>3, <1>4, <1>5, SameBackups, SamePending, PromiseKept, InvPartsNext

LEMMA DropPendingKeeps == ASSUME BackupInv, DropPending PROVE BackupInv'
<1> USE InvParts
<1>1. /\ mode = "validate" /\ mode' = "open" /\ pending.file = Broken
      /\ pending' \in {NoPending, pending} /\ backups' = backups
      /\ UNCHANGED <<database, calls, history>>
      /\ promised' = promised /\ spoiled' = spoiled /\ faulty' = faulty /\ before' = before
  BY DEF DropPending, history
<1>2. CallsOK' /\ CallsInv'
  BY <1>1, StartupCalls DEF Modes
<1>3. DatabaseOK' /\ Content' = Content
  BY <1>1, SameDatabase
<1>4. PendingOK'
  BY <1>1 DEF PendingOK, NoPending
<1>5. spoiled /\ pending'.writers = {}
  BY <1>1, ContentKinds DEF HistoryOK, PromiseStaged, StagedWhole, NoPending
<1>6. PromiseStaged' /\ StagedWhole' /\ LogFolded'
  BY <1>1, <1>3, <1>5 DEF PromiseStaged, StagedWhole, LogFolded
<1> QED  BY <1>1, <1>2, <1>3, <1>4, <1>6, SameBackups, SameHistory, InvPartsNext

LEMMA ValidatedKeeps == ASSUME BackupInv, Validated PROVE BackupInv'
<1> USE InvParts
<1>1. /\ mode = "validate" /\ mode' = "checkpoint" /\ pending.file # Broken
      /\ pending' = pending /\ backups' = backups
      /\ UNCHANGED <<database, calls, history>>
      /\ promised' = promised /\ spoiled' = spoiled /\ faulty' = faulty /\ before' = before
  BY DEF Validated, history
<1>2. CallsOK' /\ CallsInv'
  BY <1>1, StartupCalls DEF Modes
<1>3. DatabaseOK' /\ Content' = Content
  BY <1>1, SameDatabase
<1>4. pending.file \in Whole
  BY <1>1 DEF PendingOK, StagedWhole, Contents
<1>5. StagedWhole' /\ LogFolded'
  BY <1>1, <1>3, <1>4 DEF StagedWhole, LogFolded
<1> QED
  BY <1>1, <1>2, <1>3, <1>5, SameBackups, SamePending, SameHistory, PromiseKept, InvPartsNext

LEMMA CheckpointKeeps == ASSUME BackupInv, Checkpoint PROVE BackupInv'
<1> USE InvParts
<1>1. /\ mode = "checkpoint" /\ mode' = "safety" /\ latest' = latest
      /\ pending' = pending /\ backups' = backups /\ UNCHANGED calls
      /\ promised' = promised /\ spoiled' = spoiled /\ before' = before /\ outcome' = outcome
  BY DEF Checkpoint
<1>2. \/ main' = Content /\ wal' = Nothing /\ faulty' = faulty
      \/ wal # Nothing /\ main' \in {main, Broken} /\ wal' = wal /\ faulty' = TRUE
  BY DEF Checkpoint
<1>3. CallsOK' /\ CallsInv'
  BY <1>1, StartupCalls DEF Modes
<1>4. DatabaseOK'
  BY <1>1, <1>2, ContentIs, ContentKinds DEF DatabaseOK
<1>5. HistoryOK'
  BY <1>1, <1>2 DEF HistoryOK
<1>6. StagedWhole'
  BY <1>1 DEF StagedWhole
<1>7. ASSUME ~faulty' PROVE Content' \in Whole /\ wal' = Nothing /\ main' = before'
  <2>1. main' = Content /\ wal' = Nothing /\ ~faulty
    BY <1>2, <1>7
  <2>2. Content \in Whole /\ Content = before
    BY <1>1, <2>1 DEF LogFolded
  <2> QED  BY <1>1, <2>1, <2>2 DEF Content
<1>8. LogFolded'
  BY <1>1, <1>7 DEF LogFolded
<1> QED
  BY <1>1, <1>3, <1>4, <1>5, <1>6, <1>8, SameBackups, SamePending, PromiseKept, InvPartsNext

LEMMA SafetyCopyKeeps == ASSUME BackupInv, SafetyCopy PROVE BackupInv'
<1> USE InvParts
<1>1. /\ mode = "safety" /\ mode' = "unlink" /\ pending' = pending
      /\ UNCHANGED <<database, calls, history>>
      /\ promised' = promised /\ spoiled' = spoiled /\ faulty' = faulty /\ before' = before
      /\ main' = main /\ wal' = wal
  BY DEF SafetyCopy, history, database
<1>2. PICK name \in Names : backups' = [backups EXCEPT ![name] = main]
  BY DEF SafetyCopy
<1>3. BackupsOK' /\ backups'[name] = main
  BY <1>2 DEF BackupsOK, DatabaseOK
<1>4. CallsOK' /\ CallsInv'
  BY <1>1, StartupCalls DEF Modes
<1>5. DatabaseOK' /\ Content' = Content
  BY <1>1, SameDatabase
<1>6. StagedWhole' /\ LogFolded'
  BY <1>1, <1>3, <1>5 DEF StagedWhole, LogFolded
<1> QED
  BY <1>1, <1>3, <1>4, <1>5, <1>6, SamePending, SameHistory, PromiseKept, InvPartsNext

LEMMA SafetyCopyFailsKeeps == ASSUME BackupInv, SafetyCopyFails PROVE BackupInv'
<1> USE InvParts
<1>1. /\ mode = "safety" /\ mode' \in {"open", "down"} /\ pending' = pending
      /\ UNCHANGED <<database, calls>> /\ outcome' \in {outcome, "error"}
      /\ promised' = promised /\ spoiled' = spoiled /\ faulty' = faulty /\ before' = before
  BY DEF SafetyCopyFails
<1>2. PICK name \in Names : backups' = [backups EXCEPT ![name] = Broken]
  BY DEF SafetyCopyFails
<1>3. BackupsOK'
  BY <1>2, ContentKinds DEF BackupsOK
<1>4. CallsOK' /\ CallsInv'
  BY <1>1, StartupCalls DEF Modes
<1>5. DatabaseOK' /\ Content' = Content
  BY <1>1, SameDatabase
<1>6. HistoryOK'
  BY <1>1 DEF HistoryOK
<1>7. StagedWhole' /\ LogFolded'
  BY <1>1, <1>5 DEF StagedWhole, LogFolded
<1> QED  BY <1>1, <1>3, <1>4, <1>5, <1>6, <1>7, SamePending, PromiseKept, InvPartsNext

LEMMA DeleteLogKeeps == ASSUME BackupInv, DeleteLog PROVE BackupInv'
<1> USE InvParts
<1>1. /\ mode = "unlink" /\ mode' = "swap" /\ main' = main /\ latest' = latest
      /\ backups' = backups /\ pending' = pending /\ UNCHANGED calls
      /\ promised' = promised /\ spoiled' = spoiled /\ before' = before /\ outcome' = outcome
  BY DEF DeleteLog
<1>2. \/ wal' = Nothing /\ faulty' = faulty
      \/ wal' = wal /\ faulty' = TRUE
  BY DEF DeleteLog
<1>3. CallsOK' /\ CallsInv'
  BY <1>1, StartupCalls DEF Modes
<1>4. DatabaseOK' /\ HistoryOK' /\ StagedWhole'
  BY <1>1, <1>2 DEF DatabaseOK, HistoryOK, StagedWhole
<1>5. ASSUME ~faulty' PROVE /\ Content' \in Whole /\ wal' = Nothing /\ main' = before'
                            /\ \E name \in Names : backups'[name] = before'
  <2>1. wal' = Nothing /\ ~faulty
    BY <1>2, <1>5
  <2>2. Content \in Whole /\ wal = Nothing /\ main = before
        /\ \E name \in Names : backups[name] = before
    BY <1>1, <2>1 DEF LogFolded
  <2> QED  BY <1>1, <2>1, <2>2 DEF Content
<1>6. LogFolded'
  BY <1>1, <1>5 DEF LogFolded
<1> QED  BY <1>1, <1>3, <1>4, <1>6, SameBackups, SamePending, PromiseKept, InvPartsNext

LEMMA SwapKeeps == ASSUME BackupInv, Swap PROVE BackupInv'
<1> USE InvParts
<1>1. /\ mode = "swap" /\ mode' = "open" /\ wal' = Nothing /\ latest' = latest
      /\ main' = (IF wal = Nothing THEN pending.file ELSE Broken) /\ pending' = NoPending
      /\ promised' = Nothing /\ spoiled' = FALSE /\ outcome' = "applied" /\ before' = before /\ faulty' = faulty
      /\ backups' = backups /\ UNCHANGED calls
  BY DEF Swap
<1>2. CallsOK' /\ CallsInv'
  BY <1>1, StartupCalls DEF Modes
<1>3. pending.file \in Whole
  BY <1>1 DEF StagedWhole
<1>4. DatabaseOK'
  BY <1>1, <1>3, ContentKinds DEF DatabaseOK
<1>5. PendingOK' /\ HistoryOK' /\ PromiseStaged' /\ StagedWhole'
  BY <1>1 DEF PendingOK, NoPending, HistoryOK, PromiseStaged, StagedWhole
<1>6. ASSUME ~faulty' PROVE Content' \in Whole
  <2>1. wal = Nothing
    BY <1>1, <1>6 DEF LogFolded
  <2> QED  BY <1>1, <1>3, <2>1 DEF Content
<1>7. LogFolded'
  BY <1>1, <1>6 DEF LogFolded
<1> QED  BY <1>1, <1>2, <1>4, <1>5, <1>7, SameBackups, InvPartsNext

LEMMA OpenKeeps == ASSUME BackupInv, SwapFails \/ Open PROVE BackupInv'
<1> USE InvParts
<1>1. /\ mode \in {"swap", "open"} /\ mode' \in {"open", "up"}
      /\ backups' = backups /\ pending' = pending /\ UNCHANGED <<database, calls>>
      /\ promised' = promised /\ spoiled' = spoiled /\ faulty' = faulty /\ before' = before
      /\ outcome' \in {outcome, "error"}
  BY DEF SwapFails, Open, history
<1>2. CallsOK' /\ CallsInv'
  BY <1>1, StartupCalls DEF Modes
<1>3. DatabaseOK' /\ Content' = Content
  BY <1>1, SameDatabase
<1>4. HistoryOK'
  BY <1>1 DEF HistoryOK
<1>5. StagedWhole' /\ LogFolded'
  BY <1>1, <1>3 DEF StagedWhole, LogFolded
<1> QED
  BY <1>1, <1>2, <1>3, <1>4, <1>5, SameBackups, SamePending, PromiseKept, InvPartsNext

-----------------------------------------------------------------------------
(* Backup: what follows *)

LEMMA BackupInitInv == Init => BackupInv
<1> SUFFICES ASSUME Init PROVE BackupInv
  OBVIOUS
<1>1. DatabaseOK /\ HistoryOK
  BY ContentKinds, BoundAssumption DEF Init, DatabaseOK, HistoryOK
<1>2. BackupsOK /\ PendingOK
  BY DEF Init, BackupsOK, PendingOK, NoPending
<1>3. CallsOK
  BY NoOpIs DEF Init, CallsOK, Modes, Steps
<1>4. CallsInv
  BY DEF Init, CallsInv, Staging, Vacuuming, OwnFile
<1>5. PromiseStaged /\ StagedWhole /\ LogFolded
  BY ContentKinds DEF Init, PromiseStaged, StagedWhole, LogFolded, Content, NoPending
<1> QED  BY <1>1, <1>2, <1>3, <1>4, <1>5, InvParts

LEMMA BackupNextInv == BackupInv /\ [Next]_vars => BackupInv'
<1> SUFFICES ASSUME BackupInv, [Next]_vars PROVE BackupInv'
  OBVIOUS
<1>1. CASE Commit \/ AutoCheckpoint \/ End
  BY <1>1, CommitKeeps, AutoCheckpointKeeps, EndKeeps
<1>2. ASSUME NEW c \in Calls,
             Create(c) \/ NameTaken(c) \/ VacuumBegin(c) \/ VacuumEnd(c) \/ VacuumFails(c)
      PROVE  BackupInv'
  BY <1>2, CreateKeeps, NameTakenKeeps, VacuumBeginKeeps, VacuumEndKeeps
<1>3. ASSUME NEW c \in Calls,
             \/ StageFile(c) \/ CopyBegin(c) \/ CopyEnd(c) \/ CopyFails(c)
             \/ StageBytes(c) \/ RenameUpload(c) \/ StagingFails(c)
      PROVE  BackupInv'
  BY <1>3, StageKeeps, CopyBeginKeeps, CopyEndKeeps, CopyFailsKeeps, RenameKeeps, StagingFailsKeeps
<1>4. CASE CancelPending \/ Start \/ DropPending \/ Validated \/ Checkpoint
  BY <1>4, CancelKeeps, StartKeeps, DropPendingKeeps, ValidatedKeeps, CheckpointKeeps
<1>5. CASE SafetyCopy \/ SafetyCopyFails \/ DeleteLog \/ Swap \/ SwapFails \/ Open
  BY <1>5, SafetyCopyKeeps, SafetyCopyFailsKeeps, DeleteLogKeeps, SwapKeeps, OpenKeeps
<1>6. CASE UNCHANGED vars
  BY <1>6 DEF vars, database, calls, history, BackupInv, TypeOK, Staging, Vacuuming, OwnFile,
              PromiseStaged, StagedWhole, LogFolded, Content
<1> QED  BY <1>1, <1>2, <1>3, <1>4, <1>5, <1>6 DEF Next

LEMMA BackupInvariant == Spec => []BackupInv
BY BackupInitInv, BackupNextInv, PTL DEF Spec

(* The files, the calls and the start are well-typed, and only a running   *)
(* app has calls.                                                          *)
THEOREM BackupTypeCorrect == Spec => []TypeOK
<1>1. BackupInv => TypeOK
  BY DEF BackupInv
<1> QED  BY <1>1, BackupInvariant, PTL

(* However starts, restores and the app's life were cut short, the app     *)
(* runs on a whole database, unless an error on the log was swallowed.     *)
THEOREM RunsOnWholeDatabase == Spec => []DatabaseWhole
<1>1. BackupInv => DatabaseWhole
  BY DEF BackupInv, LogFolded, DatabaseWhole
<1> QED  BY <1>1, BackupInvariant, PTL

(* A restore that replaces the database has put what it replaces, with the *)
(* log folded in, into backups/.                                           *)
THEOREM ReplacedIsKept == Spec => NothingLost
<1>1. ASSUME BackupInv, [Next]_vars, outcome = "none", outcome' = "applied", ~faulty
      PROVE  \E name \in Names : backups[name] = before
  <2>1. mode = "swap"
    BY <1>1 DEF Next, vars, database, calls, history, Commit, AutoCheckpoint, End, Create, NameTaken,
                VacuumBegin, VacuumEnd, VacuumFails, StageFile, CopyBegin, CopyEnd, CopyFails,
                StageBytes, RenameUpload, StagingFails, CancelPending, Start, DropPending, Validated,
                Checkpoint, SafetyCopy, SafetyCopyFails, DeleteLog, Swap, SwapFails, Open
  <2> QED  BY <1>1, <2>1 DEF BackupInv, LogFolded
<1>2. BackupInv /\ [Next]_vars =>
        [outcome = "none" /\ outcome' = "applied" /\ ~faulty =>
           \E name \in Names : backups[name] = before]_vars
  BY <1>1
<1> QED  BY <1>2, BackupInvariant, PTL DEF Spec, NothingLost

(* While a restore is being applied, its outcome is open.                  *)
Undecided ==
    mode \in {"validate", "checkpoint", "safety", "unlink", "swap"} => outcome = "none"

LEMMA UndecidedNext == Undecided /\ [Next]_vars => Undecided'
<1> SUFFICES ASSUME Undecided, [Next]_vars PROVE Undecided'
  OBVIOUS
<1>1. CASE \E c \in Calls :
             \/ Create(c) \/ NameTaken(c) \/ VacuumBegin(c) \/ VacuumEnd(c) \/ VacuumFails(c)
             \/ StageFile(c) \/ CopyBegin(c) \/ CopyEnd(c) \/ CopyFails(c)
             \/ StageBytes(c) \/ RenameUpload(c) \/ StagingFails(c)
  <2>1. mode' = mode /\ outcome' = outcome
    BY <1>1 DEF Create, NameTaken, VacuumBegin, VacuumEnd, VacuumFails, StageFile, CopyBegin,
                CopyEnd, CopyFails, StageBytes, RenameUpload, StagingFails, history
  <2> QED  BY <2>1 DEF Undecided
<1>2. CASE Commit \/ AutoCheckpoint \/ End \/ CancelPending \/ UNCHANGED vars
  BY <1>2 DEF Undecided, Commit, AutoCheckpoint, End, CancelPending, vars, history
<1>3. CASE Start \/ DropPending \/ Validated \/ Checkpoint \/ SafetyCopy \/ SafetyCopyFails
  BY <1>3 DEF Undecided, Start, DropPending, Validated, Checkpoint, SafetyCopy, SafetyCopyFails,
              history
<1>4. CASE DeleteLog \/ Swap \/ SwapFails \/ Open
  BY <1>4 DEF Undecided, DeleteLog, Swap, SwapFails, Open, history
<1> QED  BY <1>1, <1>2, <1>3, <1>4 DEF Next

LEMMA AlwaysUndecided == Spec => []Undecided
<1>1. Init => Undecided
  BY DEF Init, Undecided
<1> QED  BY <1>1, UndecidedNext, PTL DEF Spec

(* Of the steps of a start only Swap applies a restore, and only a start   *)
(* that finds nothing staged, or nothing whole, opens the database at once.*)
LEMMA StartupSteps ==
    ASSUME BackupInv, [Next]_vars
    PROVE  /\ mode = "swap" /\ outcome' = "applied" /\ outcome # "applied" => Swap
           /\ mode \in {"down", "validate"} /\ mode' = "open" =>
                pending.file \in {Nothing, Broken}
<1>1. CASE \E c \in Calls :
             \/ Create(c) \/ NameTaken(c) \/ VacuumBegin(c) \/ VacuumEnd(c) \/ VacuumFails(c)
             \/ StageFile(c) \/ CopyBegin(c) \/ CopyEnd(c) \/ CopyFails(c)
             \/ StageBytes(c) \/ RenameUpload(c) \/ StagingFails(c)
  BY <1>1 DEF Create, NameTaken, VacuumBegin, VacuumEnd, VacuumFails, StageFile, CopyBegin, CopyEnd,
              CopyFails, StageBytes, RenameUpload, StagingFails, history
<1>2. CASE Commit \/ AutoCheckpoint \/ End \/ CancelPending \/ UNCHANGED vars
  BY <1>2 DEF Commit, AutoCheckpoint, End, CancelPending, vars, history
<1>3. CASE Start \/ DropPending \/ Validated \/ Checkpoint \/ SafetyCopy \/ SafetyCopyFails
  BY <1>3 DEF Start, DropPending, Validated, Checkpoint, SafetyCopy, SafetyCopyFails, history
<1>4. CASE DeleteLog \/ Swap \/ SwapFails \/ Open
  BY <1>4 DEF DeleteLog, Swap, SwapFails, Open, history
<1> QED  BY <1>1, <1>2, <1>3, <1>4 DEF Next

(* Unless a copy onto the staged file was spoiled, what was last reported  *)
(* as staged is what the next start that gets to its last step applies,    *)
(* and no start passes it over.                                            *)
THEOREM PromiseIsKept == Spec => StagedIsApplied
<1>1. ASSUME BackupInv, Undecided, [Next]_vars, ~spoiled
      PROVE  PromiseMet
  <2>1. ASSUME mode = "swap", outcome' = "applied", ~faulty
        PROVE  promised = main'
    <3>1. Swap
      BY <1>1, <2>1, StartupSteps DEF Undecided
    <3>2. wal = Nothing /\ pending.writers = {}
      BY <1>1, <2>1 DEF BackupInv, LogFolded, StagedWhole
    <3> QED  BY <1>1, <3>1, <3>2 DEF Swap, BackupInv, PromiseStaged
  <2>2. ASSUME mode \in {"down", "validate"}, mode' = "open"
        PROVE  promised = Nothing
    <3>1. pending.file \in {Nothing, Broken} /\ promised \in Whole \cup {Nothing}
          /\ pending.writers = {}
      BY <1>1, <2>2, StartupSteps DEF BackupInv, TypeOK, StagedWhole
    <3> QED  BY <1>1, <3>1, ContentKinds DEF BackupInv, PromiseStaged
  <2> QED  BY <2>1, <2>2 DEF PromiseMet
<1>2. BackupInv /\ Undecided /\ [Next]_vars => [~spoiled => PromiseMet]_vars
  BY <1>1
<1> QED  BY <1>2, BackupInvariant, AlwaysUndecided, PTL DEF Spec, StagedIsApplied

(* A complete backup keeps its content for ever: names are taken by files  *)
(* that are not there, and each is written by one call.                    *)
THEOREM BackupsAreKept == Spec => BackupsKept
<1>1. ASSUME BackupInv, [Next]_vars, NEW name \in Names, backups[name] \in Whole
      PROVE  backups'[name] = backups[name]
  <2>1. backups[name] # Nothing /\ backups[name] # Broken
    BY <1>1, ContentKinds
  <2>2. ASSUME NEW c \in Calls, VacuumBegin(c) \/ VacuumEnd(c) PROVE backups'[name] = backups[name]
    <3>1. op[c].name # name
      BY <1>1, <2>1, <2>2 DEF VacuumBegin, VacuumEnd, BackupInv, Vacuuming
    <3>2. backups \in [Names -> Contents \cup {Nothing}]
      BY <1>1 DEF BackupInv, TypeOK
    <3> QED  BY <2>2, <3>1, <3>2 DEF VacuumBegin, VacuumEnd
  <2>3. CASE SafetyCopy \/ SafetyCopyFails
    <3>1. backups \in [Names -> Contents \cup {Nothing}]
      BY <1>1 DEF BackupInv, TypeOK
    <3>2. PICK copy \in Names, content \in {main, Broken} :
            backups[copy] = Nothing /\ backups' = [backups EXCEPT ![copy] = content]
      BY <2>3 DEF SafetyCopy, SafetyCopyFails, UniquePath
    <3> QED  BY <2>1, <3>1, <3>2
  <2>4. CASE UNCHANGED backups
    BY <2>4
  <2>5. \/ SafetyCopy \/ SafetyCopyFails \/ UNCHANGED backups
        \/ \E c \in Calls : VacuumBegin(c) \/ VacuumEnd(c)
    BY <1>1 DEF Next, vars, Commit, AutoCheckpoint, End, Create, NameTaken, VacuumFails, StageFile,
                CopyBegin, CopyEnd, CopyFails, StageBytes, RenameUpload, StagingFails, CancelPending,
                Start, DropPending, Validated, Checkpoint, DeleteLog, Swap, SwapFails, Open
  <2> QED  BY <2>2, <2>3, <2>4, <2>5
<1>2. BackupInv /\ [Next]_vars =>
        [\A name \in Names : backups[name] \in Whole => backups'[name] = backups[name]]_vars
  BY <1>1
<1> QED  BY <1>2, BackupInvariant, PTL DEF Spec, BackupsKept

-----------------------------------------------------------------------------
(* LanAccess: the inductive invariant of the commands and the settings *)

Serves(c) == call[c].kind = "server"
Auths(c) == call[c].kind \in {"auth", "autologin"}

(* What a command has still to write: the keys it writes, from one of them *)
(* on, each with its argument.                                             *)
ToWrite(c) ==
    IF Serves(c)
      THEN todo[c] \in {ServerWrites(call[c].enabled, call[c].config),
                        <<Write("bind", call[c].config.bind), Write("port", call[c].config.port)>>,
                        <<Write("port", call[c].config.port)>>}
      ELSE \E disabled \in BOOLEAN, user \in Users \cup {NoUser} :
             todo[c] \in {AuthWrites(disabled, user), <<Write("autologin", user)>>}

(* Where a command is, what it is and what it has to write belong          *)
(* together.                                                               *)
Stage(c) ==
    /\ pc[c] = "idle" => call[c] = NoCall
    /\ pc[c] = "checkAuth" =>
         /\ Serves(c) /\ call[c].enabled
         /\ todo[c] = ServerWrites(call[c].enabled, call[c].config)
    /\ pc[c] = "write" => (Serves(c) \/ Auths(c)) /\ ToWrite(c)
    /\ pc[c] \in {"take", "stopping", "start", "store"} => Serves(c)
    /\ pc[c] = "start" => call[c].enabled
    /\ pc[c] \in {"readMode", "readAutologin", "checkServer"} => Auths(c)
    /\ pc[c] = "checkServer" =>
         \E user \in Users \cup {NoUser} : todo[c] = AuthWrites(TRUE, user)
    /\ pc[c] \notin {"checkAuth", "checkServer", "write"} => todo[c] = <<>>
    /\ Serves(c) => call[c].config \in Configs

(* The one command that runs while none have overlapped: what it has       *)
(* checked still holds, what it has written stands, and while it changes   *)
(* servers there is none.                                                  *)
Alone(c) ==
    /\ Serves(c) /\ pc[c] = "write" /\ call[c].enabled => ~settings.disabled
    /\ Auths(c) /\ pc[c] = "write" /\ Len(todo[c]) = 2 /\ todo[c][1].value => ~settings.enabled
    /\ call[c].kind = "autologin" =>
         /\ pc[c] = "readAutologin" => seen[c] = settings.disabled
         /\ pc[c] \in {"checkServer", "write"} /\ Len(todo[c]) = 2 =>
              todo[c][1].value = settings.disabled
    /\ Serves(c) /\ pc[c] = "write" /\ Len(todo[c]) <= 2 => settings.enabled = call[c].enabled
    /\ Serves(c) /\ pc[c] = "write" /\ Len(todo[c]) = 1 => settings.bind = call[c].config.bind
    /\ pc[c] \in {"take", "stopping", "start", "store"} =>
         settings.enabled = call[c].enabled /\ Persisted = call[c].config
    /\ pc[c] \in {"stopping", "start", "store"} => server = NoServer

ChangesServer(c) == Serves(c) /\ pc[c] \in {"write", "take", "stopping", "start", "store"}

Unoverlapped ==
    ~overlap =>
      /\ \A c, d \in Commands : Idle(c) \/ Idle(d) \/ c = d
      /\ \A c \in Commands : Alone(c)
      /\ ~(settings.enabled /\ settings.disabled)
      /\ ~broken /\ (\A c \in Commands : ~ChangesServer(c)) /\ server # NoServer
           => settings.enabled /\ server = Persisted

(* A listening socket: who has started it answers for it alone.            *)
Loans ==
    /\ \A c \in Commands, port \in Ports : Started(c, port) => port \in sockets \ draining
    /\ \A c, d \in Commands, port \in Ports : Started(c, port) /\ Started(d, port) => c = d

(* LanTypeOK's sets, and that of todo *)
Typed ==
    /\ settings \in Settings
    /\ pc \in [Commands -> {"idle", "checkAuth", "write", "take", "stopping", "start",
                         "store", "readMode", "readAutologin", "checkServer"}]
    /\ call \in [Commands -> CallRecords]
    /\ seen \in [Commands -> BOOLEAN]
    /\ todo = [c \in Commands |-> todo[c]]
    /\ server \in Configs \cup {NoServer} /\ stopping \in Configs \cup {NoServer}
    /\ sockets \subseteq Ports /\ draining \subseteq sockets
    /\ streams \subseteq Clients \X Ports /\ held \subseteq Clients
    /\ broken \in BOOLEAN /\ overlap \in BOOLEAN

(* The mutex of AppState.server is with the one command that is stopping a *)
(* server.                                                                 *)
OneStops ==
    /\ Unlocked <=> \A c \in Commands : pc[c] # "stopping"
    /\ \A c, d \in Commands : pc[c] = "stopping" /\ pc[d] = "stopping" => c = d

Staged == \A c \in Commands : Stage(c)

Owned == Loans /\ NoSocketForgotten /\ ServerListens

LanInv == Typed /\ OneStops /\ Staged /\ Unoverlapped /\ Owned

-----------------------------------------------------------------------------
(* LanAccess: what the proofs keep needing *)

LEMMA Lists ==
    ASSUME NEW a, NEW b, NEW c
    PROVE  /\ Head(<<a, b, c>>) = a /\ Tail(<<a, b, c>>) = <<b, c>> /\ Len(<<a, b, c>>) = 3
           /\ Head(<<a, b>>) = a /\ Tail(<<a, b>>) = <<b>> /\ Len(<<a, b>>) = 2
           /\ Head(<<a>>) = a /\ Tail(<<a>>) = <<>> /\ Len(<<a>>) = 1
           /\ Len(<<>>) = 0 /\ <<a, b>>[1] = a
           /\ <<a, b, c>> # <<>> /\ <<a, b>> # <<>> /\ <<a>> # <<>>
OBVIOUS

(* What a stage says of todo is what the type invariant says of it.        *)
LEMMA StageTodo ==
    ASSUME NEW c \in Commands, Stage(c), Typed
    PROVE  /\ (pc[c] \in {"checkAuth", "checkServer", "write"}) <=> (todo[c] # <<>>)
           /\ pc[c] \in {"take", "stopping", "start", "store"} => call[c].kind = "server"
<1>a. \A enabled, config : ServerWrites(enabled, config) # <<>>
  BY Lists DEF ServerWrites
<1>b. \A disabled, user : AuthWrites(disabled, user) # <<>>
  BY Lists DEF AuthWrites
<1>c. \A a, b : <<a, b>> # <<>> /\ <<a>> # <<>>
  BY Lists
<1>1. CASE pc[c] \in {"checkAuth", "checkServer"}
  <2>1. todo[c] # <<>>
    BY <1>1, <1>a, <1>b DEF Stage
  <2> QED BY <1>1, <2>1
<1>2. CASE pc[c] = "write"
  <2>1. ToWrite(c)
    BY <1>2 DEF Stage
  <2>2. CASE Serves(c)
    BY <1>2, <2>1, <2>2, <1>a, <1>c DEF ToWrite
  <2>3. CASE ~Serves(c)
    BY <1>2, <2>1, <2>3, <1>b, <1>c DEF ToWrite
  <2> QED BY <2>2, <2>3
<1>3. CASE pc[c] \notin {"checkAuth", "checkServer", "write"}
  BY <1>3 DEF Stage, Serves
<1> QED BY <1>1, <1>2, <1>3

LEMMA TypeFromParts ==
    Typed /\ OneStops /\ Staged => LanTypeOK
<1> SUFFICES ASSUME Typed, OneStops, Staged PROVE LanTypeOK
  OBVIOUS
<1>1. \A c \in Commands :
         /\ (pc[c] \in {"checkAuth", "checkServer", "write"}) <=> (todo[c] # <<>>)
         /\ pc[c] \in {"take", "stopping", "start", "store"} => call[c].kind = "server"
  BY StageTodo DEF Staged
<1> QED BY <1>1 DEF LanTypeOK, Typed, OneStops

(* A step of command c concerns no other command.                          *)
OthersStay(c) ==
    \A d \in Commands \ {c} :
      pc'[d] = pc[d] /\ call'[d] = call[d] /\ todo'[d] = todo[d] /\ seen'[d] = seen[d]

LEMMA ProceedEffect ==
    ASSUME Typed, NEW c \in Commands, NEW label, Proceed(c, label)
    PROVE  /\ pc'[c] = label
           /\ label # "idle" => call'[c] = call[c] /\ call' = call
           /\ label = "idle" => call'[c] = NoCall
           /\ \A d \in Commands \ {c} : pc'[d] = pc[d] /\ call'[d] = call[d]
           /\ pc' = [pc EXCEPT ![c] = label]
           /\ call' \in [Commands -> CallRecords]
<1>1. NoCall \in CallRecords
  BY DEF NoCall, CallRecords
<1> QED BY <1>1 DEF Proceed, Typed

(* Stage and Alone only look at their own command.                         *)
LEMMA StagedStep ==
    ASSUME Staged, NEW c \in Commands, OthersStay(c), Stage(c)'
    PROVE  Staged'
<1> SUFFICES ASSUME NEW d \in Commands PROVE Stage(d)'
  BY DEF Staged
<1>1. CASE d = c
  BY <1>1
<1>2. CASE d # c
  <2>1. pc'[d] = pc[d] /\ call'[d] = call[d] /\ todo'[d] = todo[d]
    BY <1>2 DEF OthersStay
  <2>2. Stage(d)
    BY DEF Staged
  <2> QED BY <2>1, <2>2 DEF Stage, Serves, Auths, ToWrite
<1> QED BY <1>1, <1>2

(* Unless it enters or leaves RunningServer::stop, a step leaves the mutex *)
(* alone.                                                                  *)
LEMMA MutexStep ==
    ASSUME OneStops, NEW c \in Commands, OthersStay(c),
           pc[c] # "stopping", pc'[c] # "stopping", stopping' = stopping
    PROVE  OneStops'
BY DEF OneStops, OthersStay, Unlocked

(* Owned only looks at the sockets, the server and who has started one.    *)
LEMMA OwnedStep ==
    ASSUME Owned, UNCHANGED <<server, sockets, draining>>,
           \A d \in Commands, port \in Ports : Started(d, port)' <=> Started(d, port),
           Typed
    PROVE  Owned'
<1>1. Loans'
  BY DEF Owned, Loans
<1>2. NoSocketForgotten'
  BY DEF Owned, NoSocketForgotten, Typed
<1>3. ServerListens'
  BY DEF Owned, ServerListens, Typed, Configs
<1> QED BY <1>1, <1>2, <1>3 DEF Owned

LEMMA StartedElsewhere ==
    ASSUME NEW c \in Commands, OthersStay(c), NEW d \in Commands \ {c}, NEW port
    PROVE  Started(d, port)' <=> Started(d, port)
BY DEF OthersStay, Started

(* A command that is not about to store a started server has none.         *)
LEMMA OwnedElsewhere ==
    ASSUME Owned, Typed, UNCHANGED <<server, sockets, draining>>,
           NEW c \in Commands, OthersStay(c),
           pc[c] # "store" \/ ~call[c].enabled,
           pc'[c] # "store" \/ ~call'[c].enabled
    PROVE  Owned'
<1>1. \A port \in Ports : ~Started(c, port) /\ ~Started(c, port)'
  BY DEF Started
<1> QED BY <1>1, OwnedStep, StartedElsewhere

-----------------------------------------------------------------------------
(* LanAccess: what a write writes *)

BindWrite(c) == Write("bind", call[c].config.bind)
PortWrite(c) == Write("port", call[c].config.port)

LEMMA WriteKeeps ==
    ASSUME Typed, NEW c \in Commands, WriteNext(c)
    PROVE  /\ OthersStay(c)
           /\ todo' = [todo EXCEPT ![c] = Tail(todo[c])] /\ todo'[c] = Tail(todo[c])
           /\ call' \in [Commands -> CallRecords]
<1>1. \A d \in Commands \ {c} : pc'[d] = pc[d] /\ call'[d] = call[d]
  BY ProceedEffect DEF WriteNext
<1>2. call' \in [Commands -> CallRecords]
  BY ProceedEffect DEF WriteNext
<1>3. todo' = [todo EXCEPT ![c] = Tail(todo[c])]
  BY DEF WriteNext
<1>4. DOMAIN todo = Commands
  BY DEF Typed
<1>5. todo'[c] = Tail(todo[c]) /\ \A d \in Commands \ {c} : todo'[d] = todo[d]
  BY <1>3, <1>4
<1>6. seen' = seen
  BY DEF WriteNext
<1> QED BY <1>1, <1>2, <1>3, <1>5, <1>6 DEF OthersStay

(* set_server_config writes `enabled`, then `bind`, then `port`; with the  *)
(* last one the command goes on to AppState.server.                        *)
LEMMA ServerWriteEffect ==
    ASSUME Typed, Staged, NEW c \in Commands, WriteNext(c), Serves(c)
    PROVE  /\ call' = call
           /\ \/ /\ todo[c] = ServerWrites(call[c].enabled, call[c].config)
                 /\ settings' = [settings EXCEPT !.enabled = call[c].enabled]
                 /\ pc'[c] = "write" /\ todo'[c] = <<BindWrite(c), PortWrite(c)>>
              \/ /\ todo[c] = <<BindWrite(c), PortWrite(c)>>
                 /\ settings' = [settings EXCEPT !.bind = call[c].config.bind]
                 /\ pc'[c] = "write" /\ todo'[c] = <<PortWrite(c)>>
              \/ /\ todo[c] = <<PortWrite(c)>>
                 /\ settings' = [settings EXCEPT !.port = call[c].config.port]
                 /\ pc'[c] = "take" /\ todo'[c] = <<>>
<1>1. pc[c] = "write" /\ ToWrite(c)
  BY DEF WriteNext, Staged, Stage
<1>2. /\ settings' = [settings EXCEPT ![Head(todo[c]).key] = Head(todo[c]).value]
      /\ Proceed(c, IF Len(todo[c]) > 1 THEN "write" ELSE "take")
  BY DEF WriteNext, Serves
<1>3. todo'[c] = Tail(todo[c])
  BY WriteKeeps
<1>4. call' = call
  BY <1>2, ProceedEffect
<1>5. CASE todo[c] = ServerWrites(call[c].enabled, call[c].config)
  <2>1. /\ Head(todo[c]) = Write("enabled", call[c].enabled)
        /\ Tail(todo[c]) = <<BindWrite(c), PortWrite(c)>> /\ Len(todo[c]) = 3
    BY <1>5, Lists DEF ServerWrites, BindWrite, PortWrite
  <2>2. Head(todo[c]).key = "enabled" /\ Head(todo[c]).value = call[c].enabled
    BY <2>1 DEF Write
  <2>3. settings' = [settings EXCEPT !.enabled = call[c].enabled]
    BY <1>2, <2>2
  <2>4. Proceed(c, "write")
    BY <1>2, <2>1
  <2>5. pc'[c] = "write"
    BY <2>4, ProceedEffect
  <2> QED BY <1>3, <1>4, <1>5, <2>1, <2>3, <2>5
<1>6. CASE todo[c] = <<BindWrite(c), PortWrite(c)>>
  <2>1. Head(todo[c]) = BindWrite(c) /\ Tail(todo[c]) = <<PortWrite(c)>> /\ Len(todo[c]) = 2
    BY <1>6, Lists
  <2>2. Head(todo[c]).key = "bind" /\ Head(todo[c]).value = call[c].config.bind
    BY <2>1 DEF Write, BindWrite
  <2>3. settings' = [settings EXCEPT !.bind = call[c].config.bind]
    BY <1>2, <2>2
  <2>4. Proceed(c, "write")
    BY <1>2, <2>1
  <2>5. pc'[c] = "write"
    BY <2>4, ProceedEffect
  <2> QED BY <1>3, <1>4, <1>6, <2>1, <2>3, <2>5
<1>7. CASE todo[c] = <<PortWrite(c)>>
  <2>1. Head(todo[c]) = PortWrite(c) /\ Tail(todo[c]) = <<>> /\ Len(todo[c]) = 1
    BY <1>7, Lists
  <2>2. Head(todo[c]).key = "port" /\ Head(todo[c]).value = call[c].config.port
    BY <2>1 DEF Write, PortWrite
  <2>3. settings' = [settings EXCEPT !.port = call[c].config.port]
    BY <1>2, <2>2
  <2>4. Proceed(c, "take")
    BY <1>2, <2>1
  <2>5. pc'[c] = "take"
    BY <2>4, ProceedEffect
  <2> QED BY <1>3, <1>4, <1>7, <2>1, <2>3, <2>5
<1> QED BY <1>1, <1>5, <1>6, <1>7 DEF ToWrite, BindWrite, PortWrite

(* set_auth_settings writes `disabled`, then the autologin keys.           *)
LEMMA AuthWriteEffect ==
    ASSUME Typed, Staged, NEW c \in Commands, WriteNext(c), ~Serves(c)
    PROVE  \/ \E disabled \in BOOLEAN, user \in Users \cup {NoUser} :
                /\ todo[c] = AuthWrites(disabled, user)
                /\ settings' = [settings EXCEPT !.disabled = disabled]
                /\ pc'[c] = "write" /\ call' = call
                /\ todo'[c] = <<Write("autologin", user)>>
           \/ \E user \in Users \cup {NoUser} :
                /\ todo[c] = <<Write("autologin", user)>>
                /\ settings' = [settings EXCEPT !.autologin = user]
                /\ pc'[c] = "idle" /\ call'[c] = NoCall
                /\ todo'[c] = <<>>
<1>1. pc[c] = "write" /\ ToWrite(c)
  BY DEF WriteNext, Staged, Stage
<1>2. /\ settings' = [settings EXCEPT ![Head(todo[c]).key] = Head(todo[c]).value]
      /\ Proceed(c, IF Len(todo[c]) > 1 THEN "write" ELSE "idle")
  BY DEF WriteNext, Serves
<1>3. todo'[c] = Tail(todo[c])
  BY WriteKeeps
<1>4. PICK disabled \in BOOLEAN, user \in Users \cup {NoUser} :
        todo[c] \in {AuthWrites(disabled, user), <<Write("autologin", user)>>}
  BY <1>1 DEF ToWrite
<1>5. CASE todo[c] = AuthWrites(disabled, user)
  <2>1. /\ Head(todo[c]) = Write("disabled", disabled)
        /\ Tail(todo[c]) = <<Write("autologin", user)>> /\ Len(todo[c]) = 2
    BY <1>5, Lists DEF AuthWrites
  <2>2. Head(todo[c]).key = "disabled" /\ Head(todo[c]).value = disabled
    BY <2>1 DEF Write
  <2>3. settings' = [settings EXCEPT !.disabled = disabled]
    BY <1>2, <2>2
  <2>4. Proceed(c, "write")
    BY <1>2, <2>1
  <2>5. pc'[c] = "write" /\ call' = call
    BY <2>4, ProceedEffect
  <2> QED BY <1>3, <1>5, <2>1, <2>3, <2>5
<1>6. CASE todo[c] = <<Write("autologin", user)>>
  <2>1. /\ Head(todo[c]) = Write("autologin", user)
        /\ Tail(todo[c]) = <<>> /\ Len(todo[c]) = 1
    BY <1>6, Lists
  <2>2. Head(todo[c]).key = "autologin" /\ Head(todo[c]).value = user
    BY <2>1 DEF Write
  <2>3. settings' = [settings EXCEPT !.autologin = user]
    BY <1>2, <2>2
  <2>4. Proceed(c, "idle")
    BY <1>2, <2>1
  <2>5. pc'[c] = "idle" /\ call'[c] = NoCall
    BY <2>4, ProceedEffect
  <2> QED BY <1>3, <1>6, <2>1, <2>3, <2>5
<1> QED BY <1>4, <1>5, <1>6

-----------------------------------------------------------------------------
(* LanAccess: types, stages and the mutex, one step after the other *)

Control == Typed /\ OneStops /\ Staged

Labels == {"idle", "checkAuth", "write", "take", "stopping", "start",
           "store", "readMode", "readAutologin", "checkServer"}

LEMMA TodoEffect ==
    ASSUME Typed, NEW c \in Commands, NEW keys, todo' = [todo EXCEPT ![c] = keys]
    PROVE  /\ todo'[c] = keys
           /\ \A d \in Commands \ {c} : todo'[d] = todo[d]
           /\ todo' = [d \in Commands |-> todo'[d]]
BY DEF Typed

LEMMA SeenEffect ==
    ASSUME Typed, NEW c \in Commands, NEW disabled \in BOOLEAN,
           seen' = [seen EXCEPT ![c] = disabled]
    PROVE  /\ seen'[c] = disabled
           /\ \A d \in Commands \ {c} : seen'[d] = seen[d]
           /\ seen' \in [Commands -> BOOLEAN]
BY DEF Typed

(* A step of a command that leaves the settings and the servers alone.     *)
LEMMA OwnStep ==
    ASSUME Control, NEW c \in Commands, OthersStay(c),
           UNCHANGED <<settings, server, stopping, sockets, draining, streams, held>>,
           broken' \in BOOLEAN, overlap' \in BOOLEAN,
           pc' = [pc EXCEPT ![c] = pc'[c]], pc'[c] \in Labels,
           call' \in [Commands -> CallRecords], seen' \in [Commands -> BOOLEAN],
           todo' = [d \in Commands |-> todo'[d]],
           pc[c] # "stopping", pc'[c] # "stopping", Stage(c)'
    PROVE  Control'
<1>1. Typed'
  BY DEF Control, Typed, Labels
<1>2. OneStops'
  BY MutexStep DEF Control
<1>3. Staged'
  BY StagedStep DEF Control
<1> QED BY <1>1, <1>2, <1>3 DEF Control

LEMMA BeginEffect ==
    ASSUME Typed, NEW c \in Commands, NEW record \in CallRecords, NEW label \in Labels,
           Begin(c, record, label)
    PROVE  /\ pc' = [pc EXCEPT ![c] = pc'[c]] /\ pc'[c] = label /\ call'[c] = record
           /\ \A d \in Commands \ {c} : pc'[d] = pc[d] /\ call'[d] = call[d]
           /\ call' \in [Commands -> CallRecords]
           /\ pc[c] = "idle" /\ overlap' \in BOOLEAN /\ broken' \in BOOLEAN
           /\ seen' = seen /\ seen' \in [Commands -> BOOLEAN]
           /\ UNCHANGED <<settings, server, stopping, sockets, draining, streams, held>>
BY DEF Begin, Idle, Typed, serving, Labels

LEMMA ServerApplyControl ==
    ASSUME Control, NEW c \in Commands, NEW enabled \in BOOLEAN, NEW config \in Configs,
           ServerApply(c, enabled, config)
    PROVE  Control' /\ OthersStay(c)
<1> DEFINE record == ServerCall(enabled, config)
<1> DEFINE label == IF enabled THEN "checkAuth" ELSE "write"
<1>1. record \in CallRecords
  BY DEF ServerCall, NoCall, CallRecords
<1>2. record.kind = "server" /\ record.enabled = enabled /\ record.config = config
  BY DEF ServerCall, NoCall
<1>3. Begin(c, record, label) /\ label \in Labels /\ label # "stopping"
  BY DEF ServerApply, Labels
<1>4. Typed
  BY DEF Control
<1> HIDE DEF record, label
<1>5. pc'[c] = label /\ call'[c] = record /\ pc[c] = "idle"
  BY <1>1, <1>3, <1>4, BeginEffect
<1>6. todo' = [todo EXCEPT ![c] = ServerWrites(enabled, config)]
  BY DEF ServerApply
<1>7. todo'[c] = ServerWrites(enabled, config)
  BY <1>4, <1>6, TodoEffect
<1>8. OthersStay(c)
  BY <1>1, <1>3, <1>4, <1>6, BeginEffect, TodoEffect DEF OthersStay
<1>9. Stage(c)'
  <2>1. CASE enabled
    BY <1>2, <1>5, <1>7, <2>1 DEF Stage, Serves, label
  <2>2. CASE ~enabled
    BY <1>2, <1>5, <1>7, <2>2 DEF Stage, Serves, ToWrite, label
  <2> QED BY <2>1, <2>2
<1> QED
  <2>1. /\ UNCHANGED <<settings, server, stopping, sockets, draining, streams, held>>
        /\ broken' \in BOOLEAN /\ overlap' \in BOOLEAN
        /\ pc' = [pc EXCEPT ![c] = pc'[c]]
        /\ call' \in [Commands -> CallRecords] /\ seen' \in [Commands -> BOOLEAN]
    BY <1>1, <1>3, <1>4, BeginEffect
  <2>2. todo' = [d \in Commands |-> todo'[d]]
    BY <1>4, <1>6, TodoEffect
  <2> QED BY <1>3, <1>5, <1>8, <1>9, <2>1, <2>2, OwnStep

(* auth_config_apply and the two autologin commands begin alike.           *)
LEMMA AuthBegins ==
    ASSUME Control, NEW c \in Commands, NEW record \in CallRecords,
           record.kind \in {"auth", "autologin"},
           Begin(c, record, "readMode"), UNCHANGED todo
    PROVE  Control' /\ OthersStay(c)
<1>1. Typed
  BY DEF Control
<1>2. "readMode" \in Labels
  BY DEF Labels
<1>3. pc'[c] = "readMode" /\ call'[c] = record /\ pc[c] = "idle"
  BY <1>1, <1>2, BeginEffect
<1>4. OthersStay(c)
  BY <1>1, <1>2, BeginEffect DEF OthersStay
<1>5. Stage(c)'
  <2>1. todo[c] = <<>>
    BY <1>3 DEF Control, Staged, Stage
  <2> QED BY <1>3, <2>1 DEF Stage, Serves, Auths
<1>6. /\ UNCHANGED <<settings, server, stopping, sockets, draining, streams, held>>
      /\ broken' \in BOOLEAN /\ overlap' \in BOOLEAN
      /\ pc' = [pc EXCEPT ![c] = pc'[c]]
      /\ call' \in [Commands -> CallRecords] /\ seen' \in [Commands -> BOOLEAN]
  BY <1>1, <1>2, BeginEffect
<1>7. todo' = [d \in Commands |-> todo'[d]]
  BY <1>1 DEF Typed
<1> QED BY <1>2, <1>3, <1>4, <1>5, <1>6, <1>7, OwnStep

LEMMA AuthApplyControl ==
    ASSUME Control, NEW c \in Commands, NEW disabled \in BOOLEAN, AuthApply(c, disabled)
    PROVE  Control' /\ OthersStay(c)
<1> DEFINE record == [NoCall EXCEPT !.kind = "auth", !.disabled = disabled]
<1>1. record \in CallRecords /\ record.kind = "auth"
  BY DEF NoCall, CallRecords
<1>2. Begin(c, record, "readMode") /\ UNCHANGED todo
  BY DEF AuthApply
<1> HIDE DEF record
<1> QED BY <1>1, <1>2, AuthBegins

LEMMA AutologinControl ==
    ASSUME Control, NEW c \in Commands, NEW user \in Users \cup {NoUser}, Autologin(c, user)
    PROVE  Control' /\ OthersStay(c)
<1> DEFINE record == [NoCall EXCEPT !.kind = "autologin", !.user = user]
<1>1. record \in CallRecords /\ record.kind = "autologin"
  BY DEF NoCall, CallRecords
<1>2. Begin(c, record, "readMode") /\ UNCHANGED todo
  BY DEF Autologin
<1> HIDE DEF record
<1> QED BY <1>1, <1>2, AuthBegins

(* A command that is turned away, or whose statement fails, is forgotten.  *)
LEMMA IdleStage ==
    ASSUME NEW c \in Commands, pc'[c] = "idle", call'[c] = NoCall, todo'[c] = <<>>
    PROVE  Stage(c)'
BY DEF Stage, Serves, NoCall

LEMMA CheckAuthControl ==
    ASSUME Control, NEW c \in Commands, CheckAuth(c)
    PROVE  Control' /\ OthersStay(c)
<1>1. Typed /\ Stage(c) /\ pc[c] = "checkAuth"
  BY DEF Control, Staged, CheckAuth
<1>2. /\ UNCHANGED <<settings, seen, server, stopping, sockets, draining, streams, held>>
      /\ UNCHANGED <<broken, overlap>>
  BY DEF CheckAuth, serving, lanHistory
<1>3. CASE settings.disabled
  <2>1. Proceed(c, "idle") /\ todo' = [todo EXCEPT ![c] = <<>>]
    BY <1>3 DEF CheckAuth
  <2>2. pc'[c] = "idle" /\ call'[c] = NoCall /\ todo'[c] = <<>>
    BY <1>1, <2>1, ProceedEffect, TodoEffect
  <2>3. OthersStay(c)
    BY <1>1, <1>2, <2>1, ProceedEffect, TodoEffect DEF OthersStay
  <2>4. /\ pc' = [pc EXCEPT ![c] = pc'[c]] /\ pc'[c] \in Labels
        /\ call' \in [Commands -> CallRecords]
        /\ todo' = [d \in Commands |-> todo'[d]]
    BY <1>1, <2>1, <2>2, ProceedEffect, TodoEffect DEF Labels
  <2>5. seen' \in [Commands -> BOOLEAN] /\ broken' \in BOOLEAN /\ overlap' \in BOOLEAN
    BY <1>1, <1>2 DEF Typed
  <2> QED BY <1>1, <1>2, <2>2, <2>3, <2>4, <2>5, IdleStage, OwnStep
<1>4. CASE ~settings.disabled
  <2>1. Proceed(c, "write") /\ todo' = todo
    BY <1>4 DEF CheckAuth
  <2>2. pc'[c] = "write" /\ call'[c] = call[c]
    BY <1>1, <2>1, ProceedEffect
  <2>3. OthersStay(c)
    BY <1>1, <1>2, <2>1, ProceedEffect DEF OthersStay
  <2>4. /\ pc' = [pc EXCEPT ![c] = pc'[c]] /\ pc'[c] \in Labels
        /\ call' \in [Commands -> CallRecords]
        /\ todo' = [d \in Commands |-> todo'[d]]
    BY <1>1, <2>1, <2>2, ProceedEffect DEF Labels, Typed
  <2>5. seen' \in [Commands -> BOOLEAN] /\ broken' \in BOOLEAN /\ overlap' \in BOOLEAN
    BY <1>1, <1>2 DEF Typed
  <2>6. Stage(c)'
    BY <1>1, <2>1, <2>2 DEF Stage, Serves, ToWrite
  <2> QED BY <1>1, <1>2, <2>2, <2>3, <2>4, <2>5, <2>6, OwnStep
<1> QED BY <1>3, <1>4

LEMMA CheckServerControl ==
    ASSUME Control, NEW c \in Commands, CheckServer(c)
    PROVE  Control' /\ OthersStay(c)
<1>1. Typed /\ Stage(c) /\ pc[c] = "checkServer"
  BY DEF Control, Staged, CheckServer
<1>2. /\ UNCHANGED <<settings, seen, server, stopping, sockets, draining, streams, held>>
      /\ UNCHANGED <<broken, overlap>>
  BY DEF CheckServer, serving, lanHistory
<1>3. CASE settings.enabled
  <2>1. Proceed(c, "idle") /\ todo' = [todo EXCEPT ![c] = <<>>]
    BY <1>3 DEF CheckServer
  <2>2. pc'[c] = "idle" /\ call'[c] = NoCall /\ todo'[c] = <<>>
    BY <1>1, <2>1, ProceedEffect, TodoEffect
  <2>3. OthersStay(c)
    BY <1>1, <1>2, <2>1, ProceedEffect, TodoEffect DEF OthersStay
  <2>4. /\ pc' = [pc EXCEPT ![c] = pc'[c]] /\ pc'[c] \in Labels
        /\ call' \in [Commands -> CallRecords]
        /\ todo' = [d \in Commands |-> todo'[d]]
    BY <1>1, <2>1, <2>2, ProceedEffect, TodoEffect DEF Labels
  <2>5. seen' \in [Commands -> BOOLEAN] /\ broken' \in BOOLEAN /\ overlap' \in BOOLEAN
    BY <1>1, <1>2 DEF Typed
  <2> QED BY <1>1, <1>2, <2>2, <2>3, <2>4, <2>5, IdleStage, OwnStep
<1>4. CASE ~settings.enabled
  <2>1. Proceed(c, "write") /\ todo' = todo
    BY <1>4 DEF CheckServer
  <2>2. pc'[c] = "write" /\ call'[c] = call[c]
    BY <1>1, <2>1, ProceedEffect
  <2>3. OthersStay(c)
    BY <1>1, <1>2, <2>1, ProceedEffect DEF OthersStay
  <2>4. /\ pc' = [pc EXCEPT ![c] = pc'[c]] /\ pc'[c] \in Labels
        /\ call' \in [Commands -> CallRecords]
        /\ todo' = [d \in Commands |-> todo'[d]]
    BY <1>1, <2>1, <2>2, ProceedEffect DEF Labels, Typed
  <2>5. seen' \in [Commands -> BOOLEAN] /\ broken' \in BOOLEAN /\ overlap' \in BOOLEAN
    BY <1>1, <1>2 DEF Typed
  <2>6. Stage(c)'
    <3>1. Auths(c) /\ ~Serves(c)
      BY <1>1 DEF Stage, Auths, Serves
    <3>2. PICK user \in Users \cup {NoUser} : todo[c] = AuthWrites(TRUE, user)
      BY <1>1 DEF Stage
    <3>3. ToWrite(c)'
      BY <2>1, <2>2, <3>1, <3>2 DEF ToWrite, Serves
    <3> QED BY <2>2, <3>1, <3>3 DEF Stage, Auths, Serves
  <2> QED BY <1>1, <1>2, <2>2, <2>3, <2>4, <2>5, <2>6, OwnStep
<1> QED BY <1>3, <1>4

LEMMA StatementFailsControl ==
    ASSUME Control, NEW c \in Commands, StatementFails(c)
    PROVE  Control' /\ OthersStay(c)
<1>1. Typed /\ Proceed(c, "idle") /\ pc[c] # "stopping"
  BY DEF Control, StatementFails
<1>2. /\ todo' = [todo EXCEPT ![c] = <<>>] /\ seen' = [seen EXCEPT ![c] = FALSE]
      /\ UNCHANGED <<settings, server, stopping, sockets, draining, streams, held, overlap>>
  BY DEF StatementFails, serving
<1>3. pc'[c] = "idle" /\ call'[c] = NoCall /\ todo'[c] = <<>>
  BY <1>1, <1>2, ProceedEffect, TodoEffect
<1>4. seen' \in [Commands -> BOOLEAN] /\ \A d \in Commands \ {c} : seen'[d] = seen[d]
  BY <1>1, <1>2, SeenEffect
<1>5. OthersStay(c)
  BY <1>1, <1>2, <1>4, ProceedEffect, TodoEffect DEF OthersStay
<1>6. /\ pc' = [pc EXCEPT ![c] = pc'[c]] /\ pc'[c] \in Labels
      /\ call' \in [Commands -> CallRecords]
      /\ todo' = [d \in Commands |-> todo'[d]]
  BY <1>1, <1>2, <1>3, ProceedEffect, TodoEffect DEF Labels
<1>7. broken' \in BOOLEAN /\ overlap' \in BOOLEAN
  BY <1>1, <1>2 DEF Typed, StatementFails
<1> QED BY <1>1, <1>2, <1>3, <1>4, <1>5, <1>6, <1>7, IdleStage, OwnStep

LEMMA StartFailsControl ==
    ASSUME Control, NEW c \in Commands, StartFails(c)
    PROVE  Control' /\ OthersStay(c)
<1>1. Typed /\ Proceed(c, "idle") /\ pc[c] = "start" /\ Stage(c)
  BY DEF Control, Staged, StartFails
<1>2. /\ UNCHANGED <<todo, seen, settings, server, stopping, sockets, draining, streams, held>>
      /\ UNCHANGED <<broken, overlap>>
  BY DEF StartFails, persistence, serving, lanHistory
<1>3. pc'[c] = "idle" /\ call'[c] = NoCall /\ todo'[c] = <<>>
  BY <1>1, <1>2, ProceedEffect DEF Stage
<1>4. OthersStay(c)
  BY <1>1, <1>2, ProceedEffect DEF OthersStay
<1>5. /\ pc' = [pc EXCEPT ![c] = pc'[c]] /\ pc'[c] \in Labels
      /\ call' \in [Commands -> CallRecords]
  BY <1>1, <1>3, ProceedEffect DEF Labels
<1>6. /\ seen' \in [Commands -> BOOLEAN] /\ broken' \in BOOLEAN /\ overlap' \in BOOLEAN
      /\ todo' = [d \in Commands |-> todo'[d]]
  BY <1>1, <1>2 DEF Typed
<1> QED BY <1>1, <1>2, <1>3, <1>4, <1>5, <1>6, IdleStage, OwnStep

LEMMA ReadModeControl ==
    ASSUME Control, NEW c \in Commands, ReadMode(c)
    PROVE  Control' /\ OthersStay(c)
<1>1. Typed /\ Proceed(c, "readAutologin") /\ pc[c] = "readMode" /\ Stage(c)
  BY DEF Control, Staged, ReadMode
<1>2. /\ UNCHANGED <<todo, settings, server, stopping, sockets, draining, streams, held>>
      /\ UNCHANGED <<broken, overlap>>
      /\ seen' = [seen EXCEPT ![c] = settings.disabled]
  BY DEF ReadMode, serving, lanHistory
<1>3. pc'[c] = "readAutologin" /\ call'[c] = call[c]
  BY <1>1, ProceedEffect
<1>4. settings.disabled \in BOOLEAN
  BY <1>1 DEF Typed, Settings
<1>5. seen' \in [Commands -> BOOLEAN] /\ \A d \in Commands \ {c} : seen'[d] = seen[d]
  BY <1>1, <1>2, <1>4, SeenEffect
<1>6. OthersStay(c)
  BY <1>1, <1>2, <1>5, ProceedEffect DEF OthersStay
<1>7. /\ pc' = [pc EXCEPT ![c] = pc'[c]] /\ pc'[c] \in Labels
      /\ call' \in [Commands -> CallRecords]
  BY <1>1, <1>3, ProceedEffect DEF Labels
<1>8. /\ broken' \in BOOLEAN /\ overlap' \in BOOLEAN
      /\ todo' = [d \in Commands |-> todo'[d]]
  BY <1>1, <1>2 DEF Typed
<1>9. Stage(c)'
  BY <1>1, <1>2, <1>3 DEF Stage, Serves, Auths
<1> QED BY <1>1, <1>2, <1>3, <1>5, <1>6, <1>7, <1>8, <1>9, OwnStep

(* What ReadAutologin makes of AuthSettings *)
NewMode(c) == IF call[c].kind = "auth" THEN call[c].disabled ELSE seen[c]
NewUser(c) == IF call[c].kind = "autologin" THEN call[c].user ELSE settings.autologin

LEMMA ReadAutologinEffect ==
    ASSUME Control, NEW c \in Commands, ReadAutologin(c)
    PROVE  /\ Control' /\ OthersStay(c)
           /\ pc'[c] = IF NewMode(c) THEN "checkServer" ELSE "write"
           /\ call'[c] = call[c]
           /\ NewMode(c) \in BOOLEAN
           /\ todo'[c] = AuthWrites(NewMode(c), NewUser(c))
           /\ Auths(c) /\ ~Serves(c)
<1> DEFINE label == IF NewMode(c) THEN "checkServer" ELSE "write"
<1>1. Typed /\ pc[c] = "readAutologin" /\ Stage(c)
  BY DEF Control, Staged, ReadAutologin
<1>2. Proceed(c, label) /\ todo' = [todo EXCEPT ![c] = AuthWrites(NewMode(c), NewUser(c))]
  BY DEF ReadAutologin, NewMode, NewUser
<1>3. /\ UNCHANGED <<settings, server, stopping, sockets, draining, streams, held>>
      /\ UNCHANGED <<broken, overlap>> /\ seen' = [seen EXCEPT ![c] = FALSE]
  BY DEF ReadAutologin, serving, lanHistory
<1>4. NewMode(c) \in BOOLEAN /\ NewUser(c) \in Users \cup {NoUser}
  <2>1. call[c] \in CallRecords /\ seen[c] \in BOOLEAN /\ settings \in Settings
    BY <1>1 DEF Typed
  <2>2. /\ call[c].disabled \in BOOLEAN /\ call[c].user \in Users \cup {NoUser}
        /\ settings.autologin \in Users \cup {NoUser}
    BY <2>1 DEF CallRecords, Settings
  <2>3. NewMode(c) \in BOOLEAN
    <3>1. CASE call[c].kind = "auth"
      <4>1. NewMode(c) = call[c].disabled
        BY <3>1 DEF NewMode
      <4> QED BY <2>2, <4>1
    <3>2. CASE call[c].kind # "auth"
      <4>1. NewMode(c) = seen[c]
        BY <3>2 DEF NewMode
      <4> QED BY <2>1, <4>1
    <3> QED BY <3>1, <3>2
  <2> QED BY <2>2, <2>3 DEF NewUser
<1>5. label \in Labels /\ label # "idle" /\ label # "stopping"
  BY DEF Labels
<1> HIDE DEF label
<1>6. pc'[c] = label /\ call'[c] = call[c]
  BY <1>1, <1>2, <1>5, ProceedEffect
<1>7. todo'[c] = AuthWrites(NewMode(c), NewUser(c))
  BY <1>1, <1>2, TodoEffect
<1>8. seen' \in [Commands -> BOOLEAN] /\ \A d \in Commands \ {c} : seen'[d] = seen[d]
  BY <1>1, <1>3, SeenEffect
<1>9. OthersStay(c)
  BY <1>1, <1>2, <1>8, ProceedEffect, TodoEffect DEF OthersStay
<1>10. Auths(c) /\ ~Serves(c)
  BY <1>1 DEF Stage, Auths, Serves
<1>11. Stage(c)'
  <2>1. Auths(c)' /\ ~Serves(c)'
    BY <1>6, <1>10 DEF Auths, Serves
  <2>2. ToWrite(c)'
    <3>1. \E disabled \in BOOLEAN, user \in Users \cup {NoUser} :
             todo'[c] \in {AuthWrites(disabled, user), <<Write("autologin", user)>>}
      BY <1>4, <1>7
    <3> QED BY <2>1, <3>1 DEF ToWrite
  <2>3. CASE NewMode(c)
    <3>1. pc'[c] = "checkServer"
      BY <1>6, <2>3 DEF label
    <3>2. NewMode(c) = TRUE
      BY <2>3, <1>4
    <3>3. \E user \in Users \cup {NoUser} : todo'[c] = AuthWrites(TRUE, user)
      BY <1>4, <1>7, <3>2
    <3> QED BY <2>1, <3>1, <3>3 DEF Stage
  <2>4. CASE ~NewMode(c)
    <3>1. pc'[c] = "write"
      BY <1>6, <2>4 DEF label
    <3> QED BY <2>1, <2>2, <3>1 DEF Stage
  <2> QED BY <2>3, <2>4
<1>12. /\ pc' = [pc EXCEPT ![c] = pc'[c]] /\ pc'[c] \in Labels
       /\ call' \in [Commands -> CallRecords] /\ todo' = [d \in Commands |-> todo'[d]]
  BY <1>1, <1>2, <1>5, <1>6, ProceedEffect, TodoEffect
<1>13. broken' \in BOOLEAN /\ overlap' \in BOOLEAN
  BY <1>1, <1>3 DEF Typed
<1>14. Control'
  BY <1>1, <1>3, <1>5, <1>6, <1>8, <1>9, <1>11, <1>12, <1>13, OwnStep
<1> QED BY <1>4, <1>6, <1>7, <1>9, <1>10, <1>14 DEF label

LEMMA WriteNextControl ==
    ASSUME Control, NEW c \in Commands, WriteNext(c)
    PROVE  Control' /\ OthersStay(c)
<1>1. Typed /\ Staged /\ Stage(c) /\ pc[c] = "write"
  BY DEF Control, Staged, WriteNext
<1>2. OthersStay(c) /\ call' \in [Commands -> CallRecords]
  BY <1>1, WriteKeeps
<1>3. /\ UNCHANGED <<seen, server, stopping, sockets, draining, streams, held>>
      /\ UNCHANGED <<broken, overlap>>
  BY DEF WriteNext, serving, lanHistory
<1>4. call[c] \in CallRecords
  BY <1>1 DEF Typed
<1>5. settings \in Settings
  BY <1>1 DEF Typed
<1>6. /\ Stage(c)' /\ settings' \in Settings
      /\ pc'[c] \in {"write", "take", "idle"}
  <2>1. CASE Serves(c)
    <3>1. call' = call /\ call[c].enabled \in BOOLEAN /\ call[c].config \in Configs
      BY <1>1, <1>4, <2>1, ServerWriteEffect DEF CallRecords, Stage
    <3>2. call[c].config.bind \in Binds /\ call[c].config.port \in Ports
      BY <3>1 DEF Configs
    <3>3. CASE /\ settings' = [settings EXCEPT !.enabled = call[c].enabled]
               /\ pc'[c] = "write" /\ todo'[c] = <<BindWrite(c), PortWrite(c)>>
      <4>1. settings' \in Settings
        BY <1>5, <3>1, <3>3 DEF Settings
      <4>2. Serves(c)' /\ ToWrite(c)'
        BY <2>1, <3>1, <3>3 DEF Serves, ToWrite, BindWrite, PortWrite
      <4> QED BY <3>1, <3>3, <4>1, <4>2 DEF Stage
    <3>4. CASE /\ settings' = [settings EXCEPT !.bind = call[c].config.bind]
               /\ pc'[c] = "write" /\ todo'[c] = <<PortWrite(c)>>
      <4>1. settings' \in Settings
        BY <1>5, <3>2, <3>4 DEF Settings
      <4>2. Serves(c)' /\ ToWrite(c)'
        BY <2>1, <3>1, <3>4 DEF Serves, ToWrite, BindWrite, PortWrite
      <4> QED BY <3>1, <3>4, <4>1, <4>2 DEF Stage
    <3>5. CASE /\ settings' = [settings EXCEPT !.port = call[c].config.port]
               /\ pc'[c] = "take" /\ todo'[c] = <<>>
      <4>1. settings' \in Settings
        BY <1>5, <3>2, <3>5 DEF Settings
      <4>2. Serves(c)'
        BY <2>1, <3>1 DEF Serves
      <4> QED BY <3>1, <3>5, <4>1, <4>2 DEF Stage
    <3> QED BY <1>1, <2>1, <3>3, <3>4, <3>5, ServerWriteEffect
  <2>2. CASE ~Serves(c)
    <3>1. CASE \E disabled \in BOOLEAN, user \in Users \cup {NoUser} :
                 /\ settings' = [settings EXCEPT !.disabled = disabled]
                 /\ pc'[c] = "write" /\ call' = call
                 /\ todo'[c] = <<Write("autologin", user)>>
      <4>1. PICK disabled \in BOOLEAN, user \in Users \cup {NoUser} :
                 /\ settings' = [settings EXCEPT !.disabled = disabled]
                 /\ pc'[c] = "write" /\ call' = call
                 /\ todo'[c] = <<Write("autologin", user)>>
        BY <3>1
      <4>2. settings' \in Settings
        BY <1>5, <4>1 DEF Settings
      <4>3. Auths(c)' /\ ~Serves(c)'
        BY <1>1, <2>2, <4>1 DEF Stage, Auths, Serves
      <4>4. ToWrite(c)'
        <5>1. \E mode2 \in BOOLEAN, user2 \in Users \cup {NoUser} :
                 todo'[c] \in {AuthWrites(mode2, user2), <<Write("autologin", user2)>>}
          BY <4>1
        <5> QED BY <4>3, <5>1 DEF ToWrite
      <4> QED BY <4>1, <4>2, <4>3, <4>4 DEF Stage
    <3>2. CASE \E user \in Users \cup {NoUser} :
                 /\ settings' = [settings EXCEPT !.autologin = user]
                 /\ pc'[c] = "idle" /\ call'[c] = NoCall
                 /\ todo'[c] = <<>>
      <4>1. settings' \in Settings
        BY <1>5, <3>2 DEF Settings
      <4> QED BY <3>2, <4>1, IdleStage
    <3> QED
      <4>1. \/ \E disabled \in BOOLEAN, user \in Users \cup {NoUser} :
                 /\ settings' = [settings EXCEPT !.disabled = disabled]
                 /\ pc'[c] = "write" /\ call' = call
                 /\ todo'[c] = <<Write("autologin", user)>>
            \/ \E user \in Users \cup {NoUser} :
                 /\ settings' = [settings EXCEPT !.autologin = user]
                 /\ pc'[c] = "idle" /\ call'[c] = NoCall
                 /\ todo'[c] = <<>>
        BY <1>1, <2>2, AuthWriteEffect
      <4> QED BY <3>1, <3>2, <4>1
  <2> QED BY <2>1, <2>2
<1>7. pc' \in [Commands -> Labels]
  <2>1. pc' = [pc EXCEPT ![c] = pc'[c]]
    BY <1>1, ProceedEffect DEF WriteNext
  <2> QED BY <1>1, <1>6, <2>1 DEF Typed, Labels
<1>8. todo' = [d \in Commands |-> todo'[d]]
  <2>1. todo' = [todo EXCEPT ![c] = Tail(todo[c])]
    BY <1>1, WriteKeeps
  <2> QED BY <1>1, <2>1, TodoEffect
<1>9. Typed'
  BY <1>1, <1>2, <1>3, <1>6, <1>7, <1>8 DEF Typed, Labels
<1>10. OneStops'
  BY <1>1, <1>2, <1>3, <1>6, MutexStep DEF Control
<1>11. Staged'
  BY <1>1, <1>2, <1>6, StagedStep
<1> QED BY <1>2, <1>9, <1>10, <1>11 DEF Control

LEMMA AfterStopLabel ==
    ASSUME NEW c
    PROVE  /\ AfterStop(c) \in Labels /\ AfterStop(c) \in {"start", "store"}
           /\ AfterStop(c) = "start" => call[c].enabled
           /\ AfterStop(c) = "store" => ~call[c].enabled
BY DEF AfterStop, Labels

(* The steps of server_apply after its writes change pc and the servers.   *)
LEMMA ServingStep ==
    ASSUME Control, NEW c \in Commands, NEW label \in {"stopping", "start", "store"},
           pc[c] \in {"take", "stopping", "start"}, Proceed(c, label),
           UNCHANGED persistence, label = "start" => call[c].enabled
    PROVE  /\ OthersStay(c) /\ Staged' /\ call' = call /\ pc'[c] = label
           /\ pc' \in [Commands -> Labels]
<1>1. Typed /\ Staged /\ Stage(c)
  BY DEF Control, Staged
<1>2. pc'[c] = label /\ call' = call /\ \A d \in Commands \ {c} : pc'[d] = pc[d]
  BY <1>1, ProceedEffect
<1>3. OthersStay(c)
  BY <1>2 DEF OthersStay, persistence
<1>4. Stage(c)'
  BY <1>1, <1>2 DEF Stage, Serves, persistence
<1>5. pc' = [pc EXCEPT ![c] = label]
  BY DEF Proceed
<1>6. pc' \in [Commands -> Labels]
  BY <1>1, <1>5 DEF Typed, Labels
<1> QED BY <1>1, <1>2, <1>3, <1>4, <1>6, StagedStep

LEMMA TypedServing ==
    ASSUME Typed, pc' \in [Commands -> Labels], call' \in [Commands -> CallRecords],
           UNCHANGED <<persistence, lanHistory>>,
           server' \in Configs \cup {NoServer}, stopping' \in Configs \cup {NoServer},
           sockets' \subseteq Ports, draining' \subseteq sockets',
           streams' \subseteq Clients \X Ports, held' \subseteq Clients
    PROVE  Typed'
BY DEF Typed, Labels, persistence, lanHistory

LEMMA StreamsOf ==
    ASSUME NEW X, X \subseteq Clients \X Ports, NEW port
    PROVE  X \ (Clients \X {port}) \subseteq Clients \X Ports
OBVIOUS

LEMMA TakeControl ==
    ASSUME Control, ServerListens, NEW c \in Commands, Take(c)
    PROVE  Control' /\ OthersStay(c) /\ call' = call
<1>1. Typed /\ OneStops /\ Staged /\ pc[c] = "take" /\ stopping = NoServer /\ server' = NoServer
  BY DEF Control, Take, Unlocked
<1>2. UNCHANGED <<persistence, sockets, lanHistory>>
  BY DEF Take
<1>3. CASE server = NoServer
  <2>1. Proceed(c, AfterStop(c)) /\ UNCHANGED <<stopping, draining, streams, held>>
    BY <1>3 DEF Take
  <2>2. /\ OthersStay(c) /\ Staged' /\ call' = call /\ pc'[c] = AfterStop(c)
        /\ pc' \in [Commands -> Labels]
    BY <1>1, <1>2, <2>1, AfterStopLabel, ServingStep
  <2>3. Typed'
    BY <1>1, <1>2, <2>1, <2>2, TypedServing DEF Typed
  <2>4. OneStops'
    BY <1>1, <2>1, <2>2, AfterStopLabel, MutexStep
  <2> QED BY <2>2, <2>3, <2>4 DEF Control
<1>4. CASE server # NoServer
  <2>1. /\ Proceed(c, "stopping") /\ stopping' = server
        /\ draining' = draining \cup {server.port}
        /\ held' = {client \in Clients : <<client, server.port>> \in streams}
        /\ streams' = streams \ (Clients \X {server.port})
    BY <1>4 DEF Take
  <2>2. /\ OthersStay(c) /\ Staged' /\ call' = call /\ pc'[c] = "stopping"
        /\ pc' \in [Commands -> Labels]
    BY <1>1, <1>2, <2>1, ServingStep
  <2>3. server.port \in sockets
    BY <1>4 DEF ServerListens
  <2>4. streams' \subseteq Clients \X Ports
    BY <1>1, <2>1, StreamsOf DEF Typed
  <2>5. /\ server' \in Configs \cup {NoServer} /\ stopping' \in Configs \cup {NoServer}
        /\ sockets' \subseteq Ports /\ draining' \subseteq sockets' /\ held' \subseteq Clients
        /\ call' \in [Commands -> CallRecords]
    BY <1>1, <1>2, <2>1, <2>2, <2>3 DEF Typed
  <2>6. Typed'
    BY <1>1, <1>2, <2>2, <2>4, <2>5, TypedServing
  <2>7. OneStops'
    BY <1>1, <1>4, <2>1, <2>2 DEF OneStops, OthersStay, Unlocked
  <2> QED BY <2>2, <2>6, <2>7 DEF Control
<1> QED BY <1>3, <1>4

LEMMA StoppedControl ==
    ASSUME Control, NEW c \in Commands, Stopped(c)
    PROVE  Control' /\ OthersStay(c) /\ call' = call
<1>1. Typed /\ OneStops /\ Staged /\ pc[c] = "stopping" /\ stopping' = NoServer
  BY DEF Control, Stopped
<1>2. /\ UNCHANGED <<persistence, server, sockets, draining, streams, held, lanHistory>>
      /\ Proceed(c, AfterStop(c))
  BY DEF Stopped
<1>3. UNCHANGED persistence
  BY <1>2
<1>4. /\ OthersStay(c) /\ Staged' /\ call' = call /\ pc'[c] = AfterStop(c)
      /\ pc' \in [Commands -> Labels]
  BY <1>1, <1>2, <1>3, AfterStopLabel, ServingStep
<1>5. Typed'
  BY <1>1, <1>2, <1>4, TypedServing DEF Typed
<1>6. OneStops'
  BY <1>1, <1>4, AfterStopLabel DEF OneStops, OthersStay, Unlocked
<1> QED BY <1>4, <1>5, <1>6 DEF Control

LEMMA StartServerControl ==
    ASSUME Control, NEW c \in Commands, StartServer(c)
    PROVE  Control' /\ OthersStay(c) /\ call' = call /\ call[c].config.port \in Ports
<1>1. Typed /\ OneStops /\ Staged /\ Stage(c) /\ pc[c] = "start" /\ Proceed(c, "store")
  BY DEF Control, Staged, StartServer
<1>2. /\ UNCHANGED <<persistence, server, stopping, draining, streams, held, lanHistory>>
      /\ sockets' = sockets \cup {call[c].config.port}
  BY DEF StartServer
<1>3. UNCHANGED persistence
  BY <1>2
<1>4. /\ OthersStay(c) /\ Staged' /\ call' = call /\ pc'[c] = "store"
      /\ pc' \in [Commands -> Labels]
  BY <1>1, <1>3, ServingStep
<1>5. call[c].config.port \in Ports
  BY <1>1 DEF Stage, Configs
<1>6. Typed'
  BY <1>1, <1>2, <1>4, <1>5, TypedServing DEF Typed
<1>7. OneStops'
  BY <1>1, <1>2, <1>4, MutexStep
<1> QED BY <1>4, <1>5, <1>6, <1>7 DEF Control

LEMMA StoreControl ==
    ASSUME Control, ServerListens, NEW c \in Commands, Store(c)
    PROVE  /\ Control' /\ OthersStay(c) /\ pc'[c] = "idle" /\ call'[c] = NoCall
<1>1. /\ Typed /\ OneStops /\ Staged /\ Stage(c) /\ pc[c] = "store" /\ Proceed(c, "idle")
      /\ UNCHANGED <<persistence, stopping, sockets, held, lanHistory>>
  BY DEF Control, Staged, Store
<1>2. UNCHANGED persistence
  BY <1>1
<1>3. pc'[c] = "idle" /\ call'[c] = NoCall /\ todo'[c] = <<>>
  BY <1>1, <1>2, ProceedEffect DEF Stage, persistence
<1>4. OthersStay(c)
  BY <1>1, <1>2, ProceedEffect DEF OthersStay, persistence
<1>5. Staged'
  BY <1>1, <1>3, <1>4, IdleStage, StagedStep
<1>6. /\ pc' \in [Commands -> Labels] /\ call' \in [Commands -> CallRecords]
  BY <1>1, ProceedEffect DEF Typed, Labels
<1>7. server' \in Configs \cup {NoServer}
  BY <1>1 DEF Store, Stage
<1>8. draining' \subseteq sockets' /\ streams' \subseteq Clients \X Ports
  <2>1. CASE server = NoServer
    BY <1>1, <2>1 DEF Store, Typed
  <2>2. CASE server # NoServer
    <3>1. /\ draining' = draining \cup {server.port}
          /\ streams' = streams \ (Clients \X {server.port})
      BY <2>2 DEF Store
    <3>2. server.port \in sockets
      BY <2>2 DEF ServerListens
    <3> QED BY <1>1, <3>1, <3>2, StreamsOf DEF Typed
  <2> QED BY <2>1, <2>2
<1>9. Typed'
  BY <1>1, <1>6, <1>7, <1>8, TypedServing DEF Typed
<1>10. OneStops'
  BY <1>1, <1>3, <1>4, MutexStep
<1> QED BY <1>3, <1>4, <1>5, <1>9, <1>10 DEF Control

(* The world around the commands: sockets and streams come and go.         *)
Around == UNCHANGED <<persistence, pc, call, server, stopping, lanHistory>>

LEMMA AroundControl ==
    ASSUME Control, Around, sockets' \subseteq Ports, draining' \subseteq sockets',
           streams' \subseteq Clients \X Ports, held' \subseteq Clients
    PROVE  Control'
<1>1. Typed'
  BY DEF Control, Typed, Around, persistence, lanHistory
<1>2. OneStops'
  BY DEF Control, OneStops, Unlocked, Around
<1>3. Staged'
  BY DEF Control, Staged, Stage, Serves, Auths, ToWrite, Around, persistence
<1> QED BY <1>1, <1>2, <1>3 DEF Control

LEMMA AroundStep ==
    ASSUME Control, Owned,
           \/ \E port \in Ports : Closed(port)
           \/ \E client \in Clients, port \in Ports :
                OpenStream(client, port) \/ CloseStream(client, port)
           \/ \E client \in Clients : CloseHeld(client)
    PROVE  Control' /\ Owned' /\ Around
<1> USE DEF Around, persistence
<1>1. Typed
  BY DEF Control
<1>2. CASE \E port \in Ports : Closed(port)
  <2>1. PICK port \in Ports : Closed(port)
    BY <1>2
  <2>2. /\ Around /\ port \in draining
        /\ draining' = draining \ {port} /\ sockets' = sockets \ {port}
        /\ UNCHANGED <<streams, held>>
    BY <2>1 DEF Closed
  <2>3. Control'
    BY <1>1, <2>2, AroundControl DEF Typed
  <2>4. \A d \in Commands, other \in Ports : Started(d, other)' <=> Started(d, other)
    BY <2>2 DEF Started
  <2>5. Loans'
    BY <2>2, <2>4 DEF Owned, Loans
  <2>6. NoSocketForgotten'
    BY <1>1, <2>2, <2>4 DEF Owned, NoSocketForgotten, Typed
  <2>7. ServerListens'
    BY <1>1, <2>2, <2>4 DEF Owned, ServerListens, Typed, Configs
  <2> QED BY <2>2, <2>3, <2>5, <2>6, <2>7 DEF Owned
<1>3. CASE \/ \E client \in Clients, port \in Ports :
                OpenStream(client, port) \/ CloseStream(client, port)
           \/ \E client \in Clients : CloseHeld(client)
  <2>1. /\ Around /\ UNCHANGED <<sockets, draining>>
        /\ streams' \subseteq Clients \X Ports /\ held' \subseteq Clients
    <3>1. CASE \E client \in Clients, port \in Ports : OpenStream(client, port)
      <4>1. PICK client \in Clients, port \in Ports : OpenStream(client, port)
        BY <3>1
      <4>2. streams' = streams \cup {<<client, port>>} /\ held' = held
        BY <4>1 DEF OpenStream
      <4>3. Around /\ UNCHANGED <<sockets, draining>>
        BY <4>1 DEF OpenStream
      <4> QED BY <1>1, <4>2, <4>3 DEF Typed
    <3>2. CASE \E client \in Clients, port \in Ports : CloseStream(client, port)
      BY <1>1, <3>2 DEF CloseStream, Typed
    <3>3. CASE \E client \in Clients : CloseHeld(client)
      BY <1>1, <3>3 DEF CloseHeld, Typed
    <3> QED BY <1>3, <3>1, <3>2, <3>3
  <2>2. Control'
    BY <1>1, <2>1, AroundControl DEF Typed
  <2>3. \A d \in Commands, other \in Ports : Started(d, other)' <=> Started(d, other)
    BY <2>1 DEF Started
  <2>4. Owned'
    BY <1>1, <2>1, <2>3, OwnedStep
  <2> QED BY <2>1, <2>2, <2>4
<1> QED BY <1>2, <1>3

LEMMA RestartStep ==
    ASSUME Control, Restart
    PROVE  Control' /\ Owned'
<1>1. Typed
  BY DEF Control
<1>2. /\ settings' = settings /\ overlap' = overlap /\ broken' = FALSE
      /\ stopping' = NoServer /\ draining' = {} /\ streams' = {} /\ held' = {}
      /\ pc' = [c \in Commands |-> "idle"] /\ call' = [c \in Commands |-> NoCall]
      /\ seen' = [c \in Commands |-> FALSE] /\ todo' = [c \in Commands |-> <<>>]
  BY DEF Restart
<1>3. /\ Persisted \in Configs /\ settings.port \in Ports /\ Persisted.port = settings.port
  BY <1>1 DEF Typed, Settings, Persisted, Configs
<1>4. \/ server' = Persisted /\ sockets' = {settings.port}
      \/ server' = NoServer /\ sockets' = {}
  BY DEF Restart
<1>5. NoCall \in CallRecords
  BY DEF NoCall, CallRecords
<1>6. Typed'
  <2>1. server' \in Configs \cup {NoServer} /\ sockets' \subseteq Ports
    BY <1>3, <1>4
  <2>2. todo' = [c \in Commands |-> todo'[c]]
    BY <1>2
  <2>3. settings' \in Settings /\ overlap' \in BOOLEAN
    BY <1>1, <1>2 DEF Typed
  <2> QED BY <1>2, <1>5, <2>1, <2>2, <2>3 DEF Typed
<1>7. OneStops'
  BY <1>2 DEF OneStops, Unlocked
<1>8. Staged'
  <2> SUFFICES ASSUME NEW c \in Commands PROVE Stage(c)'
    BY DEF Staged
  <2> QED BY <1>2, IdleStage
<1>9. \A d \in Commands : \A port : ~Started(d, port)'
  BY <1>2 DEF Started
<1>10. Loans'
  BY <1>9 DEF Loans
<1>11. NoSocketForgotten'
  BY <1>3, <1>4, ServerAssumption DEF NoSocketForgotten
<1>12. ServerListens'
  BY <1>2, <1>3, <1>4, <1>9 DEF ServerListens
<1> QED BY <1>6, <1>7, <1>8, <1>10, <1>11, <1>12 DEF Control, Owned

-----------------------------------------------------------------------------
(* LanAccess: the steps that hand a socket on *)

LEMMA StartedOthers ==
    ASSUME NEW c \in Commands, OthersStay(c)
    PROVE  \A d \in Commands \ {c} : \A port : Started(d, port)' <=> Started(d, port)
BY StartedElsewhere

LEMMA TakeOwned ==
    ASSUME Control, Owned, NEW c \in Commands, Take(c)
    PROVE  Owned'
<1>1. Typed /\ OthersStay(c) /\ call' = call
  BY TakeControl DEF Control, Owned
<1>2. pc[c] = "take" /\ server' = NoServer /\ sockets' = sockets
  BY DEF Take
<1>3. ServerListens'
  BY <1>2 DEF ServerListens
<1>4. \A port : ~Started(c, port)
  BY <1>2 DEF Started
<1>5. \A port : ~Started(c, port)'
  <2>1. CASE server = NoServer
    <3>1. pc'[c] = AfterStop(c)
      BY <1>1, <2>1, AfterStopLabel, ProceedEffect DEF Take
    <3> QED BY <1>1, <3>1, AfterStopLabel DEF Started
  <2>2. CASE server # NoServer
    <3>1. pc'[c] = "stopping"
      BY <1>1, <2>2, ProceedEffect DEF Take
    <3> QED BY <3>1 DEF Started
  <2> QED BY <2>1, <2>2
<1>6. \A d \in Commands : \A port : Started(d, port)' <=> Started(d, port)
  BY <1>1, <1>4, <1>5, StartedOthers
<1>7. CASE server = NoServer
  <2>1. draining' = draining
    BY <1>7 DEF Take
  <2> QED BY <1>1, <1>2, <1>6, <1>7, <2>1, OwnedStep
<1>8. CASE server # NoServer
  <2>1. draining' = draining \cup {server.port}
    BY <1>8 DEF Take
  <2>2. /\ server.port \in sockets \ draining
        /\ \A d \in Commands : ~Started(d, server.port)
    BY <1>8 DEF Owned, ServerListens
  <2>3. Loans'
    BY <1>2, <1>6, <2>1, <2>2 DEF Owned, Loans
  <2>4. NoSocketForgotten'
    BY <1>2, <1>6, <2>1 DEF Owned, NoSocketForgotten
  <2> QED BY <1>3, <2>3, <2>4 DEF Owned
<1> QED BY <1>7, <1>8

LEMMA StoppedOwned ==
    ASSUME Control, Owned, NEW c \in Commands, Stopped(c)
    PROVE  Owned'
<1>1. Typed /\ OthersStay(c) /\ call' = call
  BY StoppedControl DEF Control
<1>2. pc[c] = "stopping" /\ UNCHANGED <<server, sockets, draining>>
  BY DEF Stopped
<1>3. pc'[c] = AfterStop(c)
  BY <1>1, AfterStopLabel, ProceedEffect DEF Stopped
<1>4. pc'[c] # "store" \/ ~call'[c].enabled
  BY <1>1, <1>3, AfterStopLabel
<1> QED BY <1>1, <1>2, <1>4, OwnedElsewhere

(* A started server's socket is new: its port was free.                    *)
LEMMA StartServerOwned ==
    ASSUME Control, Owned, NEW c \in Commands, StartServer(c)
    PROVE  Owned'
<1> DEFINE new == call[c].config.port
<1>1. Typed /\ OthersStay(c) /\ call' = call /\ new \in Ports
  BY StartServerControl DEF Control
<1>2. /\ pc[c] = "start" /\ new \notin sockets /\ sockets' = sockets \cup {new}
      /\ UNCHANGED <<server, draining>>
  BY DEF StartServer
<1>3. pc'[c] = "store"
  BY <1>1, ProceedEffect DEF StartServer
<1>4. call[c].enabled
  BY <1>2 DEF Control, Staged, Stage
<1>5. \A port : Started(c, port)' <=> port = new
  BY <1>1, <1>3, <1>4 DEF Started
<1>6. \A port : ~Started(c, port)
  BY <1>2 DEF Started
<1> HIDE DEF new
<1>7. \A d \in Commands \ {c} : \A port : Started(d, port)' <=> Started(d, port)
  BY <1>1, StartedOthers
<1>8. \A d \in Commands : ~Started(d, new)
  BY <1>1, <1>2 DEF Owned, Loans
<1>9. new \notin draining
  BY <1>1, <1>2 DEF Typed
<1>10. Loans'
  BY <1>2, <1>5, <1>7, <1>8, <1>9 DEF Owned, Loans
<1>11. NoSocketForgotten'
  <2> SUFFICES ASSUME NEW port \in sockets'
               PROVE  \/ server # NoServer /\ server.port = port
                      \/ port \in draining
                      \/ \E d \in Commands : Started(d, port)'
    BY <1>2 DEF NoSocketForgotten
  <2>1. CASE port = new
    BY <1>5, <2>1
  <2>2. CASE port # new
    <3>1. port \in sockets
      BY <1>2, <2>2
    <3>2. \A d \in Commands : Started(d, port) => Started(d, port)'
      BY <1>6, <1>7
    <3> QED BY <3>1, <3>2 DEF Owned, NoSocketForgotten
  <2> QED BY <2>1, <2>2
<1>12. ServerListens'
  <2> SUFFICES ASSUME server # NoServer
               PROVE  /\ server.port \in sockets' \ draining
                      /\ \A d \in Commands : ~Started(d, server.port)'
    BY <1>2 DEF ServerListens
  <2>1. /\ server.port \in sockets \ draining
        /\ \A d \in Commands : ~Started(d, server.port)
    BY DEF Owned, ServerListens
  <2>2. server.port # new
    BY <1>2, <2>1
  <2> QED BY <1>2, <1>5, <1>7, <2>1, <2>2
<1> QED BY <1>10, <1>11, <1>12 DEF Owned

(* Storing it hands the socket over to AppState.server; a server that was  *)
(* there is dropped, and has its shutdown signal with it.                  *)
LEMMA StoreOwned ==
    ASSUME Control, Owned, NEW c \in Commands, Store(c)
    PROVE  Owned'
<1>0. PICK new : new = call[c].config.port
  OBVIOUS
<1>1. /\ Typed /\ Stage(c) /\ OthersStay(c) /\ pc'[c] = "idle"
      /\ pc[c] = "store" /\ sockets' = sockets
  BY StoreControl DEF Control, Staged, Owned, Store
<1>2. \A port : ~Started(c, port)'
  BY <1>1 DEF Started
<1>3. \A d \in Commands \ {c} : \A port : Started(d, port)' <=> Started(d, port)
  BY <1>1, StartedOthers
<1>4. \A d \in Commands : \A port : Started(d, port)' => Started(d, port) /\ d # c
  BY <1>2, <1>3
<1>5. call[c].config \in Configs /\ new \in Ports
  BY <1>0, <1>1 DEF Stage, Configs
<1>6. call[c].enabled => Started(c, new)
  BY <1>0, <1>1 DEF Started
<1>7. \A port : Started(c, port) => call[c].enabled /\ port = new
  BY <1>0 DEF Started
<1>8. server' = IF call[c].enabled THEN call[c].config ELSE NoServer
  BY DEF Store
<1>9. server # NoServer => /\ server.port \in sockets \ draining
                           /\ \A d \in Commands : ~Started(d, server.port)
  BY DEF Owned, ServerListens
<1>10. draining' = IF server = NoServer THEN draining ELSE draining \cup {server.port}
  BY DEF Store
<1>11. \A d \in Commands : \A port \in Ports :
          Started(d, port) => port \in sockets \ draining'
  BY <1>9, <1>10 DEF Owned, Loans
<1>12. Loans'
  <2>1. \A d \in Commands, port \in Ports : Started(d, port)' => port \in sockets' \ draining'
    BY <1>1, <1>4, <1>11
  <2>2. \A d, e \in Commands, port \in Ports :
          Started(d, port)' /\ Started(e, port)' => d = e
    BY <1>4 DEF Owned, Loans
  <2> QED BY <2>1, <2>2 DEF Loans
<1>13. call[c].enabled => server' # NoServer /\ server'.port = new
  BY <1>0, <1>5, <1>8, ServerAssumption
<1>14. NoSocketForgotten'
  <2> SUFFICES ASSUME NEW port \in sockets
               PROVE  \/ server' # NoServer /\ server'.port = port
                      \/ port \in draining'
                      \/ \E d \in Commands : Started(d, port)'
    BY <1>1 DEF NoSocketForgotten
  <2>1. CASE server # NoServer /\ server.port = port
    BY <1>10, <2>1
  <2>2. CASE port \in draining
    BY <1>10, <2>2
  <2>3. CASE \E d \in Commands : Started(d, port)
    <3>1. PICK d \in Commands : Started(d, port)
      BY <2>3
    <3>2. CASE d = c
      BY <1>7, <1>13, <3>1, <3>2
    <3>3. CASE d # c
      BY <1>3, <3>1, <3>3
    <3> QED BY <3>2, <3>3
  <2> QED BY <2>1, <2>2, <2>3 DEF Owned, NoSocketForgotten
<1>15. ServerListens'
  <2> SUFFICES ASSUME server' # NoServer
               PROVE  /\ server'.port \in sockets \ draining'
                      /\ \A d \in Commands : ~Started(d, server.port)'
    BY <1>1 DEF ServerListens
  <2>1. call[c].enabled /\ server'.port = new
    BY <1>8, <1>13
  <2>2. Started(c, new) /\ new \in sockets \ draining'
    BY <1>5, <1>6, <1>11, <2>1
  <2>3. \A d \in Commands : ~Started(d, new)'
    BY <1>4, <1>5, <2>2 DEF Owned, Loans
  <2> QED BY <2>1, <2>2, <2>3 DEF Started
<1> QED BY <1>12, <1>14, <1>15 DEF Owned

(* No other step changes who owns a socket.                                *)
LEMMA OwnedNext ==
    ASSUME Control, Owned, LanNext
    PROVE  Owned'
<1> USE DEF Control
<1>1. ASSUME NEW c \in Commands, NEW enabled \in BOOLEAN, NEW config \in Configs,
             ServerApply(c, enabled, config)
      PROVE  Owned'
  <2>1. OthersStay(c)
    BY <1>1, ServerApplyControl
  <2>2. /\ pc[c] # "store" /\ pc'[c] # "store" /\ UNCHANGED <<server, sockets, draining>>
    BY <1>1 DEF ServerApply, Begin, Idle, serving, Typed
  <2> QED BY <2>1, <2>2, OwnedElsewhere
<1>2. ASSUME NEW c \in Commands, NEW disabled \in BOOLEAN, AuthApply(c, disabled)
      PROVE  Owned'
  <2>1. OthersStay(c)
    BY <1>2, AuthApplyControl
  <2>2. /\ pc[c] # "store" /\ pc'[c] # "store" /\ UNCHANGED <<server, sockets, draining>>
    BY <1>2 DEF AuthApply, Begin, Idle, serving, Typed
  <2> QED BY <2>1, <2>2, OwnedElsewhere
<1>3. ASSUME NEW c \in Commands, NEW user \in Users \cup {NoUser}, Autologin(c, user)
      PROVE  Owned'
  <2>1. OthersStay(c)
    BY <1>3, AutologinControl
  <2>2. /\ pc[c] # "store" /\ pc'[c] # "store" /\ UNCHANGED <<server, sockets, draining>>
    BY <1>3 DEF Autologin, Begin, Idle, serving, Typed
  <2> QED BY <2>1, <2>2, OwnedElsewhere
<1>4. ASSUME NEW c \in Commands, CheckAuth(c)
      PROVE  Owned'
  <2>1. OthersStay(c)
    BY <1>4, CheckAuthControl
  <2>2. /\ pc[c] # "store" /\ pc'[c] # "store" /\ UNCHANGED <<server, sockets, draining>>
    BY <1>4, ProceedEffect DEF CheckAuth, serving
  <2> QED BY <2>1, <2>2, OwnedElsewhere
<1>5. ASSUME NEW c \in Commands, CheckServer(c)
      PROVE  Owned'
  <2>1. OthersStay(c)
    BY <1>5, CheckServerControl
  <2>2. /\ pc[c] # "store" /\ pc'[c] # "store" /\ UNCHANGED <<server, sockets, draining>>
    BY <1>5, ProceedEffect DEF CheckServer, serving
  <2> QED BY <2>1, <2>2, OwnedElsewhere
<1>6. ASSUME NEW c \in Commands, WriteNext(c)
      PROVE  Owned'
  <2>1. OthersStay(c)
    BY <1>6, WriteNextControl
  <2>2. pc[c] # "store" /\ UNCHANGED <<server, sockets, draining>>
    BY <1>6 DEF WriteNext, serving
  <2>3. pc'[c] # "store"
    BY <1>6, ProceedEffect DEF WriteNext
  <2> QED BY <2>1, <2>2, <2>3, OwnedElsewhere
<1>7. ASSUME NEW c \in Commands, StatementFails(c) \/ StartFails(c)
      PROVE  Owned'
  <2>1. OthersStay(c)
    BY <1>7, StatementFailsControl, StartFailsControl
  <2>2. /\ pc[c] # "store" /\ pc'[c] # "store" /\ UNCHANGED <<server, sockets, draining>>
    BY <1>7, ProceedEffect DEF StatementFails, StartFails, serving
  <2> QED BY <2>1, <2>2, OwnedElsewhere
<1>8. ASSUME NEW c \in Commands, ReadMode(c)
      PROVE  Owned'
  <2>1. OthersStay(c)
    BY <1>8, ReadModeControl
  <2>2. /\ pc[c] # "store" /\ pc'[c] # "store" /\ UNCHANGED <<server, sockets, draining>>
    BY <1>8, ProceedEffect DEF ReadMode, serving
  <2> QED BY <2>1, <2>2, OwnedElsewhere
<1>9. ASSUME NEW c \in Commands, ReadAutologin(c)
      PROVE  Owned'
  <2>1. OthersStay(c) /\ pc'[c] # "store"
    BY <1>9, ReadAutologinEffect
  <2>2. /\ pc[c] # "store" /\ UNCHANGED <<server, sockets, draining>>
    BY <1>9 DEF ReadAutologin, serving
  <2> QED BY <2>1, <2>2, OwnedElsewhere
<1> QED
  BY <1>1, <1>2, <1>3, <1>4, <1>5, <1>6, <1>7, <1>8, <1>9, TakeOwned, StoppedOwned,
     StartServerOwned, StoreOwned, AroundStep, RestartStep DEF LanNext, Step

LEMMA ControlNext ==
    ASSUME Control, Owned, LanNext
    PROVE  Control'
<1>1. ASSUME NEW c \in Commands, Step(c)
      PROVE  Control'
  <2> SUFFICES ASSUME ServerListens PROVE Control'
    BY DEF Owned
  <2> QED
    BY <1>1, CheckAuthControl, WriteNextControl, TakeControl, StoppedControl,
       StartServerControl, StartFailsControl, StoreControl, ReadModeControl,
       ReadAutologinEffect, CheckServerControl DEF Step
<1> QED
  BY <1>1, ServerApplyControl, AuthApplyControl, AutologinControl, StatementFailsControl,
     AroundStep, RestartStep DEF LanNext

-----------------------------------------------------------------------------
(* LanAccess: the settings, while commands do not overlap *)

(* What holds of the one command that is not idle, and of the settings and *)
(* the server next to it.                                                  *)
Consistent(c) ==
    /\ Alone(c)
    /\ ~(settings.enabled /\ settings.disabled)
    /\ ~broken /\ ~ChangesServer(c) /\ server # NoServer
         => settings.enabled /\ server = Persisted

LEMMA AuthLists ==
    ASSUME NEW disabled, NEW user
    PROVE  /\ Len(AuthWrites(disabled, user)) = 2
           /\ AuthWrites(disabled, user)[1].value = disabled
           /\ Len(<<Write("autologin", user)>>) = 1
<1>1. AuthWrites(disabled, user)[1] = Write("disabled", disabled)
  BY Lists DEF AuthWrites
<1> QED BY <1>1, Lists DEF AuthWrites, Write

LEMMA ServerLists ==
    ASSUME NEW enabled, NEW config
    PROVE  Len(ServerWrites(enabled, config)) = 3
BY Lists DEF ServerWrites

LEMMA AloneIdle ==
    ASSUME NEW c, pc[c] = "idle", call[c] = NoCall
    PROVE  Alone(c) /\ ~ChangesServer(c)
BY DEF Alone, Serves, Auths, NoCall, ChangesServer

LEMMA IdleForgets ==
    ASSUME Control, NEW c \in Commands, Idle(c)
    PROVE  call[c] = NoCall
BY DEF Control, Staged, Stage, Idle

(* While commands have not overlapped, a command that is not idle is the   *)
(* only one.                                                               *)
LEMMA OnlyOne ==
    ASSUME Control, Unoverlapped, ~overlap, NEW c \in Commands,
           ~Idle(c) \/ Quiet
    PROVE  /\ \A d \in Commands \ {c} : Idle(d)
           /\ Consistent(c)
<1>1. \A d \in Commands \ {c} : Idle(d)
  BY DEF Unoverlapped, Quiet
<1>2. \A d \in Commands \ {c} : ~ChangesServer(d)
  BY <1>1, IdleForgets, AloneIdle DEF Idle
<1>3. Alone(c) /\ ~(settings.enabled /\ settings.disabled)
  BY DEF Unoverlapped
<1>4. ASSUME ~broken, ~ChangesServer(c), server # NoServer
      PROVE  settings.enabled /\ server = Persisted
  BY <1>2, <1>4 DEF Unoverlapped
<1> QED BY <1>1, <1>3, <1>4 DEF Consistent

LEMMA ConsistentStep ==
    ASSUME Control, NEW c \in Commands, OthersStay(c),
           \A d \in Commands \ {c} : Idle(d), Consistent(c)'
    PROVE  Unoverlapped'
<1>1. ASSUME NEW d \in Commands \ {c}
      PROVE  Idle(d)' /\ Alone(d)'
  <2>1. pc[d] = "idle" /\ call[d] = NoCall
    BY IdleForgets DEF Idle
  <2>2. pc'[d] = "idle" /\ call'[d] = NoCall
    BY <2>1 DEF OthersStay
  <2> QED BY <2>2 DEF Idle, Alone, Serves, Auths, NoCall
<1>2. \A d \in Commands : Alone(d)'
  BY <1>1 DEF Consistent
<1>3. \A d, e \in Commands : Idle(d)' \/ Idle(e)' \/ d = e
  BY <1>1
<1>4. /\ ~(settings'.enabled /\ settings'.disabled)
      /\ ~broken' /\ (\A d \in Commands : ~ChangesServer(d)') /\ server' # NoServer
           => settings'.enabled /\ server' = Persisted'
  BY DEF Consistent
<1> QED BY <1>2, <1>3, <1>4 DEF Unoverlapped

(* A command that has only just begun, or has ended, promises nothing.     *)
LEMMA NothingPromised ==
    ASSUME NEW c \in Commands, Consistent(c), ~ChangesServer(c),
           UNCHANGED <<settings, server, broken>>,
           \/ pc'[c] = "idle" /\ call'[c] = NoCall
           \/ pc'[c] \in {"readMode", "checkAuth"}
    PROVE  Consistent(c)'
<1>1. Alone(c)'
  <2>1. CASE pc'[c] = "idle" /\ call'[c] = NoCall
    BY <2>1 DEF Alone, Serves, Auths, NoCall
  <2>2. CASE pc'[c] \in {"readMode", "checkAuth"}
    BY <2>2 DEF Alone
  <2> QED BY <2>1, <2>2
<1> QED BY <1>1 DEF Consistent, Persisted

(* server_apply begins.                                                    *)
LEMMA ServerApplyAlone ==
    ASSUME Control, Unoverlapped, NEW c \in Commands, NEW enabled \in BOOLEAN,
           NEW config \in Configs, ServerApply(c, enabled, config), ~overlap'
    PROVE  Unoverlapped'
<1>1. Typed /\ OthersStay(c) /\ Idle(c)
  BY ServerApplyControl DEF Control, ServerApply, Begin
<1>2. ~overlap /\ Quiet
  BY DEF ServerApply, Begin
<1>3. Consistent(c) /\ \A d \in Commands \ {c} : Idle(d)
  BY <1>2, OnlyOne
<1>4. ~ChangesServer(c)
  BY <1>1 DEF ChangesServer, Idle
<1>5. UNCHANGED <<settings, server, broken>>
  BY DEF ServerApply, Begin, serving
<1>6. /\ pc'[c] = (IF enabled THEN "checkAuth" ELSE "write")
      /\ call'[c] = ServerCall(enabled, config)
      /\ todo'[c] = ServerWrites(enabled, config)
  BY <1>1 DEF ServerApply, Begin, Typed
<1>7. Consistent(c)'
  <2>1. CASE enabled
    <3>1. pc'[c] = "checkAuth"
      BY <1>6, <2>1
    <3> QED BY <1>3, <1>4, <1>5, <3>1, NothingPromised
  <2>2. CASE ~enabled
    <3>1. pc'[c] = "write"
      BY <1>6, <2>2
    <3>2. call'[c].kind = "server" /\ call'[c].enabled = enabled
      BY <1>6 DEF ServerCall, NoCall
    <3>3. Len(todo'[c]) = 3
      BY <1>6, ServerLists
    <3>4. Alone(c)'
      BY <2>2, <3>1, <3>2, <3>3 DEF Alone, Serves, Auths
    <3>5. ChangesServer(c)'
      BY <3>1, <3>2 DEF ChangesServer, Serves
    <3> QED BY <1>3, <1>5, <3>4, <3>5 DEF Consistent
  <2> QED BY <2>1, <2>2
<1> QED BY <1>1, <1>3, <1>7, ConsistentStep

LEMMA AuthBeginAlone ==
    ASSUME Control, Unoverlapped, NEW c \in Commands, NEW record,
           Begin(c, record, "readMode"), OthersStay(c), ~overlap'
    PROVE  Unoverlapped'
<1>1. Typed /\ Idle(c) /\ ~overlap /\ Quiet
  BY DEF Control, Begin
<1>2. Consistent(c) /\ \A d \in Commands \ {c} : Idle(d)
  BY <1>1, OnlyOne
<1>3. ~ChangesServer(c)
  BY <1>1 DEF ChangesServer, Idle
<1>4. UNCHANGED <<settings, server, broken>> /\ pc'[c] = "readMode"
  BY <1>1 DEF Begin, serving, Typed
<1>5. Consistent(c)'
  BY <1>2, <1>3, <1>4, NothingPromised
<1> QED BY <1>2, <1>5, ConsistentStep

(* The guard of set_server_config: with nobody else around, what it has    *)
(* seen still holds when the first key is written.                         *)
LEMMA CheckAuthAlone ==
    ASSUME Control, Unoverlapped, NEW c \in Commands, CheckAuth(c), ~overlap'
    PROVE  Unoverlapped'
<1>1. Typed /\ Stage(c) /\ OthersStay(c) /\ pc[c] = "checkAuth"
  BY CheckAuthControl DEF Control, Staged, CheckAuth
<1>2. ~overlap /\ UNCHANGED <<settings, server, broken>>
  BY DEF CheckAuth, serving, lanHistory
<1>3. Consistent(c) /\ \A d \in Commands \ {c} : Idle(d)
  BY <1>1, <1>2, OnlyOne DEF Idle
<1>4. ~ChangesServer(c)
  BY <1>1 DEF ChangesServer
<1>5. Consistent(c)'
  <2>1. CASE settings.disabled
    <3>1. pc'[c] = "idle" /\ call'[c] = NoCall
      BY <1>1, <2>1, ProceedEffect DEF CheckAuth
    <3> QED BY <1>2, <1>3, <1>4, <3>1, NothingPromised
  <2>2. CASE ~settings.disabled
    <3>1. pc'[c] = "write" /\ call'[c] = call[c] /\ todo' = todo
      BY <1>1, <2>2, ProceedEffect DEF CheckAuth
    <3>2. call[c].kind = "server" /\ Len(todo[c]) = 3
      BY <1>1, ServerLists DEF Stage, Serves
    <3>3. Alone(c)'
      BY <1>2, <2>2, <3>1, <3>2 DEF Alone, Serves, Auths
    <3>4. ChangesServer(c)'
      BY <3>1, <3>2 DEF ChangesServer, Serves
    <3> QED BY <1>2, <1>3, <3>3, <3>4 DEF Consistent
  <2> QED BY <2>1, <2>2
<1> QED BY <1>1, <1>3, <1>5, ConsistentStep

(* That of set_auth_config *)
LEMMA CheckServerAlone ==
    ASSUME Control, Unoverlapped, NEW c \in Commands, CheckServer(c), ~overlap'
    PROVE  Unoverlapped'
<1>1. Typed /\ Stage(c) /\ OthersStay(c) /\ pc[c] = "checkServer"
  BY CheckServerControl DEF Control, Staged, CheckServer
<1>2. ~overlap /\ UNCHANGED <<settings, server, broken>>
  BY DEF CheckServer, serving, lanHistory
<1>3. Consistent(c) /\ \A d \in Commands \ {c} : Idle(d)
  BY <1>1, <1>2, OnlyOne DEF Idle
<1>4. ~ChangesServer(c)
  BY <1>1 DEF ChangesServer
<1>5. Consistent(c)'
  <2>1. CASE settings.enabled
    <3>1. pc'[c] = "idle" /\ call'[c] = NoCall
      BY <1>1, <2>1, ProceedEffect DEF CheckServer
    <3> QED BY <1>2, <1>3, <1>4, <3>1, NothingPromised
  <2>2. CASE ~settings.enabled
    <3>1. pc'[c] = "write" /\ call'[c] = call[c] /\ todo' = todo
      BY <1>1, <2>2, ProceedEffect DEF CheckServer
    <3>2. call[c].kind # "server"
      BY <1>1 DEF Stage, Auths
    <3>3. call[c].kind = "autologin" /\ Len(todo[c]) = 2 => todo[c][1].value = settings.disabled
      BY <1>1, <1>3 DEF Consistent, Alone
    <3>4. Alone(c)'
      BY <1>2, <2>2, <3>1, <3>2, <3>3 DEF Alone, Serves, Auths
    <3>5. ~ChangesServer(c)'
      BY <3>1, <3>2 DEF ChangesServer, Serves
    <3> QED BY <1>2, <1>3, <1>4, <3>4, <3>5 DEF Consistent, Persisted
  <2> QED BY <2>1, <2>2
<1> QED BY <1>1, <1>3, <1>5, ConsistentStep

LEMMA ReadModeAlone ==
    ASSUME Control, Unoverlapped, NEW c \in Commands, ReadMode(c), ~overlap'
    PROVE  Unoverlapped'
<1>1. Typed /\ Stage(c) /\ OthersStay(c) /\ pc[c] = "readMode"
  BY ReadModeControl DEF Control, Staged, ReadMode
<1>2. ~overlap /\ UNCHANGED <<settings, server, broken>>
  BY DEF ReadMode, serving, lanHistory
<1>3. Consistent(c) /\ \A d \in Commands \ {c} : Idle(d)
  BY <1>1, <1>2, OnlyOne DEF Idle
<1>4. ~ChangesServer(c)
  BY <1>1 DEF ChangesServer
<1>5. pc'[c] = "readAutologin"
  BY <1>1, ProceedEffect DEF ReadMode
<1>6. seen'[c] = settings.disabled
  <2>1. settings.disabled \in BOOLEAN
    BY <1>1 DEF Typed, Settings
  <2> QED BY <1>1, <2>1, SeenEffect DEF ReadMode
<1>7. Alone(c)'
  BY <1>2, <1>5, <1>6 DEF Alone
<1>8. ~ChangesServer(c)'
  BY <1>5 DEF ChangesServer
<1>9. Consistent(c)'
  BY <1>2, <1>3, <1>4, <1>7, <1>8 DEF Consistent, Persisted
<1> QED BY <1>1, <1>3, <1>9, ConsistentStep

(* The autologin commands are going to write the mode back as it was.      *)
LEMMA ReadAutologinAlone ==
    ASSUME Control, Unoverlapped, NEW c \in Commands, ReadAutologin(c), ~overlap'
    PROVE  Unoverlapped'
<1>1. Typed /\ Stage(c) /\ OthersStay(c) /\ pc[c] = "readAutologin"
  BY ReadAutologinEffect DEF Control, Staged, ReadAutologin
<1>2. ~overlap /\ UNCHANGED <<settings, server, broken>>
  BY DEF ReadAutologin, serving, lanHistory
<1>3. Consistent(c) /\ \A d \in Commands \ {c} : Idle(d)
  BY <1>1, <1>2, OnlyOne DEF Idle
<1>4. ~ChangesServer(c)
  BY <1>1 DEF ChangesServer
<1>5. /\ pc'[c] = IF NewMode(c) THEN "checkServer" ELSE "write"
      /\ call'[c] = call[c] /\ Auths(c) /\ ~Serves(c)
      /\ todo'[c] = AuthWrites(NewMode(c), NewUser(c))
  BY ReadAutologinEffect
<1>6. Len(todo'[c]) = 2 /\ todo'[c][1].value = NewMode(c)
  BY <1>5, AuthLists
<1>7. call[c].kind = "autologin" => NewMode(c) = settings.disabled
  BY <1>1, <1>3 DEF Consistent, Alone, NewMode
<1>8. pc'[c] \in {"checkServer", "write"} /\ (pc'[c] = "write" => ~NewMode(c))
  BY <1>5
<1>9. Alone(c)'
  BY <1>2, <1>5, <1>6, <1>7, <1>8 DEF Alone, Serves, Auths
<1>10. ~ChangesServer(c)'
  BY <1>5 DEF ChangesServer, Serves
<1>11. Consistent(c)'
  BY <1>2, <1>3, <1>4, <1>9, <1>10 DEF Consistent, Persisted
<1> QED BY <1>1, <1>3, <1>11, ConsistentStep

(* A server_apply that writes: `enabled` as it is called for, and the      *)
(* address with it by the time it goes on to AppState.server.              *)
LEMMA ServerWriteAlone ==
    ASSUME Control, Unoverlapped, NEW c \in Commands, WriteNext(c), Serves(c), ~overlap'
    PROVE  Unoverlapped'
<1>1. Typed /\ Staged /\ Stage(c) /\ OthersStay(c) /\ pc[c] = "write"
  BY WriteNextControl DEF Control, Staged, WriteNext
<1>2. ~overlap /\ UNCHANGED <<server, broken>>
  BY DEF WriteNext, serving, lanHistory
<1>3. Consistent(c) /\ \A d \in Commands \ {c} : Idle(d)
  BY <1>1, <1>2, OnlyOne DEF Idle
<1>4. call' = call /\ call[c].kind = "server" /\ call[c].config \in Configs
  BY <1>1, ServerWriteEffect DEF Serves, Stage
<1>5. settings \in Settings /\ call[c].enabled \in BOOLEAN
  BY <1>1 DEF Typed, CallRecords
<1>6. call[c].enabled => ~settings.disabled
  BY <1>1, <1>3, <1>4 DEF Consistent, Alone, Serves
<1>7. CASE /\ todo[c] = ServerWrites(call[c].enabled, call[c].config)
           /\ settings' = [settings EXCEPT !.enabled = call[c].enabled]
           /\ pc'[c] = "write" /\ todo'[c] = <<BindWrite(c), PortWrite(c)>>
  <2>1. settings'.enabled = call[c].enabled /\ settings'.disabled = settings.disabled
    BY <1>5, <1>7 DEF Settings
  <2>2. Len(todo'[c]) = 2
    BY <1>7, Lists
  <2>3. Alone(c)'
    BY <1>4, <1>6, <1>7, <2>1, <2>2 DEF Alone, Serves, Auths
  <2>4. ChangesServer(c)'
    BY <1>4, <1>7 DEF ChangesServer, Serves
  <2>5. Consistent(c)'
    BY <1>6, <2>1, <2>3, <2>4 DEF Consistent
  <2> QED BY <1>1, <1>3, <2>5, ConsistentStep
<1>8. CASE /\ todo[c] = <<BindWrite(c), PortWrite(c)>>
           /\ settings' = [settings EXCEPT !.bind = call[c].config.bind]
           /\ pc'[c] = "write" /\ todo'[c] = <<PortWrite(c)>>
  <2>1. /\ settings'.enabled = settings.enabled /\ settings'.disabled = settings.disabled
        /\ settings'.bind = call[c].config.bind
    BY <1>5, <1>8 DEF Settings
  <2>2. Len(todo[c]) = 2 /\ Len(todo'[c]) = 1
    BY <1>8, Lists
  <2>3. settings.enabled = call[c].enabled
    BY <1>1, <1>3, <1>4, <2>2 DEF Consistent, Alone, Serves
  <2>4. Alone(c)'
    BY <1>4, <1>6, <1>8, <2>1, <2>2, <2>3 DEF Alone, Serves, Auths
  <2>5. ChangesServer(c)'
    BY <1>4, <1>8 DEF ChangesServer, Serves
  <2>6. Consistent(c)'
    BY <1>3, <2>1, <2>4, <2>5 DEF Consistent
  <2> QED BY <1>1, <1>3, <2>6, ConsistentStep
<1>9. CASE /\ todo[c] = <<PortWrite(c)>>
           /\ settings' = [settings EXCEPT !.port = call[c].config.port]
           /\ pc'[c] = "take" /\ todo'[c] = <<>>
  <2>1. /\ settings'.enabled = settings.enabled /\ settings'.disabled = settings.disabled
        /\ settings'.bind = settings.bind /\ settings'.port = call[c].config.port
    BY <1>5, <1>9 DEF Settings
  <2>2. Len(todo[c]) = 1
    BY <1>9, Lists
  <2>3. settings.enabled = call[c].enabled /\ settings.bind = call[c].config.bind
    BY <1>1, <1>3, <1>4, <2>2 DEF Consistent, Alone, Serves
  <2>4. Persisted' = call[c].config
    BY <1>4, <2>1, <2>3 DEF Persisted, Configs
  <2>5. Alone(c)'
    BY <1>4, <1>9, <2>1, <2>3, <2>4 DEF Alone, Serves, Auths
  <2>6. ChangesServer(c)'
    BY <1>4, <1>9 DEF ChangesServer, Serves
  <2>7. Consistent(c)'
    BY <1>3, <2>1, <2>5, <2>6 DEF Consistent
  <2> QED BY <1>1, <1>3, <2>7, ConsistentStep
<1> QED BY <1>1, <1>7, <1>8, <1>9, ServerWriteEffect

(* One of the other commands that writes                                   *)
LEMMA AuthWriteAlone ==
    ASSUME Control, Unoverlapped, NEW c \in Commands, WriteNext(c), ~Serves(c), ~overlap'
    PROVE  Unoverlapped'
<1>1. Typed /\ Staged /\ Stage(c) /\ OthersStay(c) /\ pc[c] = "write"
  BY WriteNextControl DEF Control, Staged, WriteNext
<1>2. ~overlap /\ UNCHANGED <<server, broken>>
  BY DEF WriteNext, serving, lanHistory
<1>3. Consistent(c) /\ \A d \in Commands \ {c} : Idle(d)
  BY <1>1, <1>2, OnlyOne DEF Idle
<1>4. settings \in Settings /\ Auths(c) /\ ~ChangesServer(c)
  BY <1>1 DEF Typed, Stage, ChangesServer
<1>5. CASE \E disabled \in BOOLEAN, user \in Users \cup {NoUser} :
             /\ todo[c] = AuthWrites(disabled, user)
             /\ settings' = [settings EXCEPT !.disabled = disabled]
             /\ pc'[c] = "write" /\ call' = call
             /\ todo'[c] = <<Write("autologin", user)>>
  <2>1. PICK disabled \in BOOLEAN, user \in Users \cup {NoUser} :
             /\ todo[c] = AuthWrites(disabled, user)
             /\ settings' = [settings EXCEPT !.disabled = disabled]
             /\ pc'[c] = "write" /\ call' = call
             /\ todo'[c] = <<Write("autologin", user)>>
    BY <1>5
  <2>2. /\ settings'.disabled = disabled /\ settings'.enabled = settings.enabled
        /\ settings'.bind = settings.bind /\ settings'.port = settings.port
    BY <1>4, <2>1 DEF Settings
  <2>3. Len(todo[c]) = 2 /\ todo[c][1].value = disabled /\ Len(todo'[c]) = 1
    BY <2>1, AuthLists
  <2>4. disabled => ~settings.enabled
    BY <1>1, <1>3, <1>4, <2>3 DEF Consistent, Alone
  <2>5. Alone(c)' /\ ~ChangesServer(c)'
    BY <2>1, <2>3 DEF Alone, Serves, Auths, ChangesServer
  <2>6. Persisted' = Persisted
    BY <2>2 DEF Persisted
  <2>7. Consistent(c)'
    BY <1>2, <1>3, <1>4, <2>2, <2>4, <2>5, <2>6 DEF Consistent
  <2> QED BY <1>1, <1>3, <2>7, ConsistentStep
<1>6. CASE \E user \in Users \cup {NoUser} :
             /\ settings' = [settings EXCEPT !.autologin = user]
             /\ pc'[c] = "idle" /\ call'[c] = NoCall
  <2>1. /\ settings'.disabled = settings.disabled /\ settings'.enabled = settings.enabled
        /\ settings'.bind = settings.bind /\ settings'.port = settings.port
    BY <1>4, <1>6 DEF Settings
  <2>2. Alone(c)' /\ ~ChangesServer(c)'
    BY <1>6 DEF Alone, Serves, Auths, NoCall, ChangesServer
  <2>3. Persisted' = Persisted
    BY <2>1 DEF Persisted
  <2>4. Consistent(c)'
    BY <1>2, <1>3, <1>4, <2>1, <2>2, <2>3 DEF Consistent
  <2> QED BY <1>1, <1>3, <2>4, ConsistentStep
<1> QED
  <2>1. \/ \E disabled \in BOOLEAN, user \in Users \cup {NoUser} :
             /\ todo[c] = AuthWrites(disabled, user)
             /\ settings' = [settings EXCEPT !.disabled = disabled]
             /\ pc'[c] = "write" /\ call' = call
             /\ todo'[c] = <<Write("autologin", user)>>
        \/ \E user \in Users \cup {NoUser} :
             /\ settings' = [settings EXCEPT !.autologin = user]
             /\ pc'[c] = "idle" /\ call'[c] = NoCall
    BY <1>1, AuthWriteEffect
  <2> QED BY <1>5, <1>6, <2>1

(* A write of a server_apply that fails leaves the settings and the server *)
(* apart; any other statement that fails leaves nothing behind.            *)
LEMMA StatementFailsAlone ==
    ASSUME Control, Unoverlapped, NEW c \in Commands, StatementFails(c), ~overlap'
    PROVE  Unoverlapped'
<1>1. /\ Typed /\ OthersStay(c)
      /\ pc[c] \in {"readMode", "readAutologin", "checkAuth", "checkServer", "write"}
  BY StatementFailsControl DEF Control, StatementFails
<1>2. ~overlap /\ UNCHANGED <<settings, server>>
  BY DEF StatementFails, serving
<1>3. Consistent(c) /\ \A d \in Commands \ {c} : Idle(d)
  BY <1>1, <1>2, OnlyOne DEF Idle
<1>4. broken' = (broken \/ ChangesServer(c))
  BY <1>1 DEF StatementFails, ChangesServer, Serves
<1>5. pc'[c] = "idle" /\ call'[c] = NoCall
  BY <1>1, ProceedEffect DEF StatementFails
<1>6. Alone(c)'
  BY <1>5 DEF Alone, Serves, Auths, NoCall
<1>7. Consistent(c)'
  BY <1>2, <1>3, <1>4, <1>6 DEF Consistent, Persisted
<1> QED BY <1>1, <1>3, <1>7, ConsistentStep

(* server_apply between its writes and its end                             *)
LEMMA ServingAlone ==
    ASSUME Control, Unoverlapped, NEW c \in Commands,
           pc[c] \in {"take", "stopping", "start", "store"}, ~overlap,
           OthersStay(c), UNCHANGED <<settings, broken>>,
           server' \in {server, NoServer},
           \/ /\ pc'[c] \in {"stopping", "start", "store"} /\ call' = call
              /\ pc[c] = "take" => server' = NoServer
           \/ pc'[c] = "idle" /\ call'[c] = NoCall /\ pc[c] # "take"
    PROVE  Unoverlapped'
<1>1. Consistent(c) /\ \A d \in Commands \ {c} : Idle(d)
  BY OnlyOne DEF Idle
<1>2. /\ settings.enabled = call[c].enabled /\ Persisted = call[c].config
      /\ pc[c] # "take" => server = NoServer
  BY <1>1 DEF Consistent, Alone
<1>3. server' = NoServer
  BY <1>2
<1>4. Alone(c)'
  <2>1. CASE pc'[c] \in {"stopping", "start", "store"} /\ call' = call
    BY <1>2, <1>3, <2>1 DEF Alone, Persisted
  <2>2. CASE pc'[c] = "idle" /\ call'[c] = NoCall
    BY <2>2 DEF Alone, Serves, Auths, NoCall
  <2> QED BY <2>1, <2>2
<1>5. Consistent(c)'
  BY <1>1, <1>3, <1>4 DEF Consistent
<1> QED BY <1>1, <1>5, ConsistentStep

LEMMA TakeAlone ==
    ASSUME Control, Owned, Unoverlapped, NEW c \in Commands, Take(c), ~overlap'
    PROVE  Unoverlapped'
<1>1. Typed /\ OthersStay(c) /\ call' = call
  BY TakeControl DEF Control, Owned
<1>2. pc[c] = "take" /\ server' = NoServer /\ UNCHANGED <<settings, broken>> /\ ~overlap
  BY DEF Take, persistence, lanHistory
<1>3. pc'[c] \in {"stopping", "start", "store"}
  BY <1>1, AfterStopLabel, ProceedEffect DEF Take
<1> QED BY <1>1, <1>2, <1>3, ServingAlone

LEMMA StoppedAlone ==
    ASSUME Control, Unoverlapped, NEW c \in Commands, Stopped(c), ~overlap'
    PROVE  Unoverlapped'
<1>1. Typed /\ OthersStay(c) /\ call' = call
  BY StoppedControl DEF Control
<1>2. pc[c] = "stopping" /\ UNCHANGED <<settings, broken, server>> /\ ~overlap
  BY DEF Stopped, persistence, lanHistory
<1>3. pc'[c] \in {"stopping", "start", "store"}
  BY <1>1, AfterStopLabel, ProceedEffect DEF Stopped
<1> QED BY <1>1, <1>2, <1>3, ServingAlone

LEMMA StartServerAlone ==
    ASSUME Control, Unoverlapped, NEW c \in Commands, StartServer(c), ~overlap'
    PROVE  Unoverlapped'
<1>1. Typed /\ OthersStay(c) /\ call' = call
  BY StartServerControl DEF Control
<1>2. pc[c] = "start" /\ UNCHANGED <<settings, broken, server>> /\ ~overlap
  BY DEF StartServer, persistence, lanHistory
<1>3. pc'[c] = "store"
  BY <1>1, ProceedEffect DEF StartServer
<1> QED BY <1>1, <1>2, <1>3, ServingAlone

LEMMA StartFailsAlone ==
    ASSUME Control, Unoverlapped, NEW c \in Commands, StartFails(c), ~overlap'
    PROVE  Unoverlapped'
<1>1. Typed /\ OthersStay(c)
  BY StartFailsControl DEF Control
<1>2. pc[c] = "start" /\ UNCHANGED <<settings, broken, server>> /\ ~overlap
  BY DEF StartFails, persistence, lanHistory, serving
<1>3. pc'[c] = "idle" /\ call'[c] = NoCall
  BY <1>1, ProceedEffect DEF StartFails
<1> QED BY <1>1, <1>2, <1>3, ServingAlone

(* What is stored is what the settings ask for.                            *)
LEMMA StoreAlone ==
    ASSUME Control, Owned, Unoverlapped, NEW c \in Commands, Store(c), ~overlap'
    PROVE  Unoverlapped'
<1>1. OthersStay(c) /\ pc'[c] = "idle" /\ call'[c] = NoCall
  BY StoreControl DEF Owned
<1>2. pc[c] = "store" /\ UNCHANGED <<settings, broken>> /\ ~overlap
  BY DEF Store, persistence, lanHistory
<1>3. Consistent(c) /\ \A d \in Commands \ {c} : Idle(d)
  BY <1>2, OnlyOne DEF Idle
<1>4. settings.enabled = call[c].enabled /\ Persisted = call[c].config
  BY <1>2, <1>3 DEF Consistent, Alone
<1>5. server' = IF call[c].enabled THEN call[c].config ELSE NoServer
  BY DEF Store
<1>6. Alone(c)'
  BY <1>1 DEF Alone, Serves, Auths, NoCall
<1>7. Persisted' = Persisted
  BY <1>2 DEF Persisted
<1>8. Consistent(c)'
  BY <1>2, <1>3, <1>4, <1>5, <1>6, <1>7 DEF Consistent
<1> QED BY <1>1, <1>3, <1>8, ConsistentStep

LEMMA AroundAlone ==
    ASSUME Unoverlapped, Around
    PROVE  Unoverlapped'
BY DEF Unoverlapped, Alone, Around, persistence, lanHistory, Serves, Auths, Idle,
       ChangesServer, Persisted

LEMMA RestartAlone ==
    ASSUME Unoverlapped, Restart
    PROVE  Unoverlapped'
<1>1. /\ settings' = settings /\ overlap' = overlap
      /\ pc' = [c \in Commands |-> "idle"] /\ call' = [c \in Commands |-> NoCall]
      /\ server' # NoServer => settings.enabled /\ ~settings.disabled /\ server' = Persisted
  BY DEF Restart
<1>2. \A c \in Commands : pc'[c] = "idle" /\ call'[c] = NoCall
  BY <1>1
<1>3. \A c \in Commands : Alone(c)'
  BY <1>2 DEF Alone, Serves, Auths, NoCall
<1>4. ~overlap' => ~(settings'.enabled /\ settings'.disabled)
  BY <1>1 DEF Unoverlapped
<1>5. server' # NoServer => settings'.enabled /\ server' = Persisted'
  BY <1>1 DEF Persisted
<1> QED BY <1>2, <1>3, <1>4, <1>5 DEF Unoverlapped, Idle

-----------------------------------------------------------------------------
(* LanAccess: the theorems *)

LEMMA UnoverlappedNext ==
    ASSUME Control, Owned, Unoverlapped, LanNext
    PROVE  Unoverlapped'
<1> SUFFICES ASSUME ~overlap' PROVE Unoverlapped'
  BY DEF Unoverlapped
<1>1. ASSUME NEW c \in Commands, NEW enabled \in BOOLEAN, NEW config \in Configs,
             ServerApply(c, enabled, config)
      PROVE  Unoverlapped'
  BY <1>1, ServerApplyAlone
<1>2. ASSUME NEW c \in Commands, NEW disabled \in BOOLEAN, AuthApply(c, disabled)
      PROVE  Unoverlapped'
  BY <1>2, AuthApplyControl, AuthBeginAlone DEF AuthApply
<1>3. ASSUME NEW c \in Commands, NEW user \in Users \cup {NoUser}, Autologin(c, user)
      PROVE  Unoverlapped'
  BY <1>3, AutologinControl, AuthBeginAlone DEF Autologin
<1>4. ASSUME NEW c \in Commands, Step(c)
      PROVE  Unoverlapped'
  <2>1. CASE CheckAuth(c) \/ CheckServer(c) \/ ReadMode(c) \/ ReadAutologin(c)
    BY <2>1, CheckAuthAlone, CheckServerAlone, ReadModeAlone, ReadAutologinAlone
  <2>2. CASE WriteNext(c)
    BY <2>2, ServerWriteAlone, AuthWriteAlone
  <2>3. CASE Take(c) \/ Stopped(c) \/ StartServer(c) \/ StartFails(c) \/ Store(c)
    BY <2>3, TakeAlone, StoppedAlone, StartServerAlone, StartFailsAlone, StoreAlone
  <2> QED BY <1>4, <2>1, <2>2, <2>3 DEF Step
<1>5. ASSUME NEW c \in Commands, StatementFails(c)
      PROVE  Unoverlapped'
  BY <1>5, StatementFailsAlone
<1>6. CASE Restart
  BY <1>6, RestartAlone
<1>7. CASE \/ \E port \in Ports : Closed(port)
           \/ \E client \in Clients, port \in Ports :
                OpenStream(client, port) \/ CloseStream(client, port)
           \/ \E client \in Clients : CloseHeld(client)
  <2>1. Around
    BY <1>7, AroundStep
  <2> QED BY <2>1, AroundAlone
<1> QED BY <1>1, <1>2, <1>3, <1>4, <1>5, <1>6, <1>7 DEF LanNext

LEMMA LanInitInv == LanInit => LanInv
<1> SUFFICES ASSUME LanInit PROVE LanInv
  OBVIOUS
<1>1. /\ pc = [c \in Commands |-> "idle"] /\ call = [c \in Commands |-> NoCall]
      /\ todo = [c \in Commands |-> <<>>] /\ server = NoServer /\ sockets = {} /\ draining = {}
  BY DEF LanInit
<1>2. NoCall \in CallRecords /\ settings \in Settings
  BY DEF LanInit, NoCall, CallRecords, Settings
<1>3. todo = [c \in Commands |-> todo[c]]
  BY <1>1
<1>4. Typed
  <2>1. /\ pc \in [Commands -> Labels] /\ call \in [Commands -> CallRecords]
        /\ seen \in [Commands -> BOOLEAN]
    BY <1>1, <1>2 DEF LanInit, Labels
  <2>2. /\ server \in Configs \cup {NoServer} /\ stopping \in Configs \cup {NoServer}
        /\ sockets \subseteq Ports /\ draining \subseteq sockets
        /\ streams \subseteq Clients \X Ports /\ held \subseteq Clients
        /\ broken \in BOOLEAN /\ overlap \in BOOLEAN
    BY DEF LanInit
  <2> QED BY <1>2, <1>3, <2>1, <2>2 DEF Typed, Labels
<1>5. OneStops
  BY <1>1 DEF LanInit, OneStops, Unlocked
<1>6. Staged
  BY <1>1 DEF Staged, Stage, Serves, NoCall
<1>7. Unoverlapped
  <2>1. \A c \in Commands : Alone(c)
    BY <1>1, AloneIdle
  <2>2. ~settings.enabled
    BY DEF LanInit
  <2> QED BY <1>1, <2>1, <2>2 DEF Unoverlapped, Idle
<1>8. Owned
  BY <1>1 DEF Owned, Loans, NoSocketForgotten, ServerListens, Started
<1> QED BY <1>4, <1>5, <1>6, <1>7, <1>8 DEF LanInv

LEMMA LanNextInv == LanInv /\ [LanNext]_lanVars => LanInv'
<1> SUFFICES ASSUME LanInv, [LanNext]_lanVars PROVE LanInv'
  OBVIOUS
<1>1. Control /\ Owned /\ Unoverlapped
  BY DEF LanInv, Control
<1>2. CASE LanNext
  BY <1>1, <1>2, ControlNext, OwnedNext, UnoverlappedNext DEF LanInv, Control
<1>3. CASE UNCHANGED lanVars
  <2>1. Around /\ UNCHANGED <<sockets, draining, streams, held>>
    BY <1>3 DEF lanVars, serving, lanHistory, Around, persistence
  <2>2. Control'
    BY <1>1, <2>1, AroundControl DEF Control, Typed
  <2>3. \A d \in Commands, port \in Ports : Started(d, port)' <=> Started(d, port)
    BY <2>1 DEF Started, Around
  <2>4. Owned'
    BY <1>1, <2>1, <2>3, OwnedStep DEF Around, Control
  <2> QED BY <1>1, <2>1, <2>2, <2>4, AroundAlone DEF LanInv, Control
<1> QED BY <1>2, <1>3

LEMMA LanInvariant == LanSpec => []LanInv
BY LanInitInv, LanNextInv, PTL DEF LanSpec

(* Types, and the mutex of AppState.server: at most one command is waiting *)
(* in RunningServer::stop, and the mutex is locked exactly while one is.   *)
THEOREM LanTypeCorrect == LanSpec => []LanTypeOK
<1>1. LanInv => LanTypeOK
  BY TypeFromParts DEF LanInv
<1> QED BY <1>1, LanInvariant, PTL

(* Whatever commands overlap, whichever statements fail and whenever the   *)
(* app ends: a socket that this process listens on has an owner who will   *)
(* close it (server_apply, RunningServer).                                 *)
THEOREM SocketsAreOwned == LanSpec => []NoSocketForgotten
<1>1. LanInv => NoSocketForgotten
  BY DEF LanInv, Owned
<1> QED BY <1>1, LanInvariant, PTL

(* The server the app says is running listens, and is nobody else's.       *)
THEOREM ServerReallyListens == LanSpec => []ServerListens
<1>1. LanInv => ServerListens
  BY DEF LanInv, Owned
<1> QED BY <1>1, LanInvariant, PTL

(* The guards of set_server_config and set_auth_config keep LAN access and *)
(* auth-disabled mode apart as long as commands do not overlap, for any    *)
(* failed statements and ends of the app between two writes.               *)
THEOREM BothTakesOverlap == LanSpec => []BothNeedsOverlap
<1>1. LanInv => BothNeedsOverlap
  BY DEF LanInv, Unoverlapped, BothNeedsOverlap
<1> QED BY <1>1, LanInvariant, PTL

(* A running server is the one the settings ask for, when no command is in *)
(* progress and neither an overlap nor a failed write has come between.    *)
THEOREM ServerFollowsSettings == LanSpec => []ServerAsPersisted
<1>1. ASSUME LanInv PROVE ServerAsPersisted
  <2> SUFFICES ASSUME Quiet, ~overlap, ~broken, server # NoServer
               PROVE  settings.enabled /\ server = Persisted
    BY DEF ServerAsPersisted
  <2>1. \A c \in Commands : ~ChangesServer(c)
    BY DEF Quiet, Idle, ChangesServer
  <2> QED BY <1>1, <2>1 DEF LanInv, Unoverlapped
<1> QED BY <1>1, LanInvariant, PTL

(* Only a write of a command changes a setting.                            *)
LEMMA OnlyWritesWrite ==
    ASSUME LanNext, settings' # settings
    PROVE  \E d \in Commands : WriteNext(d)
BY DEF LanNext, Step, ServerApply, AuthApply, Autologin, Begin, CheckAuth, Take, Stopped,
       StartServer, StartFails, Store, ReadMode, ReadAutologin, CheckServer, StatementFails,
       Closed, OpenStream, CloseStream, CloseHeld, Restart, persistence

(* autologin_enable and autologin_disable write the mode back that they    *)
(* have read: with no overlap, the one that is in force.                   *)
THEOREM AutologinLeavesMode == LanSpec => AutologinKeepsMode
<1>1. ASSUME LanInv, [LanNext]_lanVars, NEW c \in Commands, ~overlap, pc[c] = "write",
             call[c].kind = "autologin"
      PROVE  settings'.disabled = settings.disabled
  <2>1. Control /\ Unoverlapped /\ settings \in Settings
    BY <1>1 DEF LanInv, Control, Typed
  <2>2. CASE settings' = settings
    BY <2>2
  <2>3. CASE settings' # settings
    <3>1. LanNext
      BY <1>1, <2>3 DEF lanVars, persistence
    <3>2. PICK d \in Commands : WriteNext(d)
      BY <2>3, <3>1, OnlyWritesWrite
    <3>3. d = c
      <4>1. ~Idle(c) /\ ~Idle(d)
        BY <1>1, <3>2 DEF Idle, WriteNext
      <4> QED BY <1>1, <2>1, <4>1 DEF Unoverlapped
    <3>4. ~Serves(c) /\ Typed /\ Staged /\ WriteNext(c) /\ Alone(c)
      BY <1>1, <2>1, <3>2, <3>3 DEF Serves, Control, Unoverlapped
    <3>5. CASE \E disabled \in BOOLEAN, user \in Users \cup {NoUser} :
                 /\ todo[c] = AuthWrites(disabled, user)
                 /\ settings' = [settings EXCEPT !.disabled = disabled]
      <4>1. PICK disabled \in BOOLEAN, user \in Users \cup {NoUser} :
                 /\ todo[c] = AuthWrites(disabled, user)
                 /\ settings' = [settings EXCEPT !.disabled = disabled]
        BY <3>5
      <4>2. Len(todo[c]) = 2 /\ todo[c][1].value = disabled
        BY <4>1, AuthLists
      <4>3. disabled = settings.disabled
        BY <1>1, <3>4, <4>2 DEF Alone
      <4> QED BY <2>1, <4>1, <4>3 DEF Settings
    <3>6. CASE \E user \in Users \cup {NoUser} :
                 settings' = [settings EXCEPT !.autologin = user]
      BY <2>1, <3>6 DEF Settings
    <3> QED
      <4>1. \/ \E disabled \in BOOLEAN, user \in Users \cup {NoUser} :
                 /\ todo[c] = AuthWrites(disabled, user)
                 /\ settings' = [settings EXCEPT !.disabled = disabled]
            \/ \E user \in Users \cup {NoUser} :
                 settings' = [settings EXCEPT !.autologin = user]
        BY <3>4, AuthWriteEffect
      <4> QED BY <3>5, <3>6, <4>1
  <2> QED BY <2>2, <2>3
<1>2. LanInv /\ [LanNext]_lanVars =>
        [\A c \in Commands :
           ~overlap /\ pc[c] = "write" /\ todo'[c] # todo[c] /\ call[c].kind = "autologin"
             => settings'.disabled = settings.disabled]_lanVars
  BY <1>1
<1> QED BY <1>2, LanInvariant, PTL DEF LanSpec, AutologinKeepsMode

=============================================================================
