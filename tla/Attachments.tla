----------------------------- MODULE Attachments -----------------------------
(***************************************************************************)
(* File attachments (crates/banto-attachments/src/lib.rs): a row in the    *)
(* `attachments` table and, under the same id, a body file and perhaps a   *)
(* thumbnail in a directory.  No transaction spans the two stores, so what *)
(* holds between them rests on the order of the steps: upload inserts the  *)
(* row, writes the body, writes the thumbnail, sets has_thumbnail; delete  *)
(* takes the row first.  One action is one statement or one step on a      *)
(* file; uploads, deletions and the sweep of a deleted record overlap.     *)
(*                                                                         *)
(* Every step may fail, and every call may be cut short at any await: its  *)
(* client goes away, or the app ends (which is every call cut short).      *)
(*                                                                         *)
(* Refused uploads (name, size) write nothing and are left out, and so is  *)
(* the content of the files beyond being complete.  `cut` and `reports`    *)
(* are history variables.                                                  *)
(***************************************************************************)
EXTENDS Integers

CONSTANTS
    Calls,      \* calls that can be in progress at the same time
    Records,    \* what attachments belong to: (resource, resource_id)
    NoRecord, NoRow,
    MaxId       \* bound: ids the table hands out

ASSUME IdAssumption == MaxId \in Nat

Ids == 1..MaxId
Row == [record : Records, thumb : BOOLEAN]

ASSUME RowAssumption == NoRow \notin Row /\ NoRecord \notin Records

Files == {"none", "partial", "whole"}

VARIABLES
    rows,       \* the table, by id
    nextId,     \* AUTOINCREMENT
    bodies,     \* {base_dir}/{id}
    thumbs,     \* {base_dir}/{id}.thumb.jpg
    step,       \* where each call is
    op,         \* the attachment it works on, and what a sweep has left
    cut,        \* uploads that ended before their body was complete
    reports     \* how many deletions of an attachment reported success

vars == <<rows, nextId, bodies, thumbs, step, op, cut, reports>>
files == <<bodies, thumbs>>
history == <<cut, reports>>

-----------------------------------------------------------------------------
Exists(id) == rows[id] # NoRow

Of(record) == {id \in Ids : Exists(id) /\ rows[id].record = record}

(* A sweep of `record` has some ids left of those it found below `horizon`. *)
NoOp == [id |-> 0, thumb |-> FALSE, record |-> NoRecord, left |-> {}, horizon |-> 0]

Goto(c, label) == step' = [step EXCEPT ![c] = label]

Finish(c) == Goto(c, "idle") /\ op' = [op EXCEPT ![c] = NoOp]

Init ==
    /\ rows = [id \in Ids |-> NoRow]
    /\ nextId = 1
    /\ bodies = [id \in Ids |-> "none"]
    /\ thumbs = [id \in Ids |-> "none"]
    /\ step = [c \in Calls |-> "idle"]
    /\ op = [c \in Calls |-> NoOp]
    /\ cut = {}
    /\ reports = [id \in Ids |-> 0]

-----------------------------------------------------------------------------
(* upload *)

InsertRow(c, record) ==
    /\ step[c] = "idle"
    /\ nextId \in Ids
    /\ rows' = [rows EXCEPT ![nextId] = [record |-> record, thumb |-> FALSE]]
    /\ nextId' = nextId + 1
    /\ op' = [op EXCEPT ![c].id = nextId]
    /\ Goto(c, "body")
    /\ UNCHANGED <<files, history>>

(* fs::write creates the file, and fills it.  A deletion may unlink it     *)
(* in between.                                                             *)
CreateBody(c) ==
    /\ step[c] = "body"
    /\ bodies' = [bodies EXCEPT ![op[c].id] = "partial"]
    /\ Goto(c, "fillBody")
    /\ UNCHANGED <<rows, nextId, thumbs, op, history>>

Filled(file) == IF file = "partial" THEN "whole" ELSE file

FillBody(c) ==
    /\ step[c] = "fillBody"
    /\ bodies' = [bodies EXCEPT ![op[c].id] = Filled(@)]
    /\ Goto(c, "thumb")
    /\ UNCHANGED <<rows, nextId, thumbs, op, history>>

(* A slip: the error of write_body is ignored. *)
BodyFailsUnseen(c) ==
    /\ step[c] \in {"body", "fillBody"}
    /\ Goto(c, "thumb")
    /\ UNCHANGED <<rows, nextId, files, op, history>>

BodyFails(c) ==
    /\ step[c] \in {"body", "fillBody"}
    /\ Goto(c, "cleanup")
    /\ UNCHANGED <<rows, nextId, files, op, history>>

(* "The row must not outlive its body file - best-effort cleanup" *)
Cleanup(c) ==
    /\ step[c] = "cleanup"
    /\ \/ rows' = [rows EXCEPT ![op[c].id] = NoRow] /\ cut' = cut
       \/ rows' = rows /\ cut' = cut \cup {op[c].id}
    /\ Finish(c)
    /\ UNCHANGED <<nextId, files, reports>>

(* Not an image, no thumbnail could be made, or it could not be written,   *)
(* in part or at all: the upload has succeeded.                            *)
NoThumbnail(c) ==
    /\ step[c] = "thumb"
    /\ \E file \in {thumbs[op[c].id], "partial"} :
         thumbs' = [thumbs EXCEPT ![op[c].id] = file]
    /\ Finish(c)
    /\ UNCHANGED <<rows, nextId, bodies, history>>

(* A slip: the error of write_thumbnail is ignored. *)
WriteThumbUnseen(c) ==
    /\ step[c] = "thumb"
    /\ \E file \in {"whole", "partial"} : thumbs' = [thumbs EXCEPT ![op[c].id] = file]
    /\ Goto(c, "flag")
    /\ UNCHANGED <<rows, nextId, bodies, op, history>>

WriteThumb(c) ==
    /\ step[c] = "thumb"
    /\ thumbs' = [thumbs EXCEPT ![op[c].id] = "whole"]
    /\ Goto(c, "flag")
    /\ UNCHANGED <<rows, nextId, bodies, op, history>>

SetFlag(c) ==
    /\ step[c] = "flag"
    /\ rows' = IF Exists(op[c].id) THEN [rows EXCEPT ![op[c].id].thumb = TRUE] ELSE rows
    /\ Finish(c)
    /\ UNCHANGED <<nextId, files, history>>

-----------------------------------------------------------------------------
(* delete *)

Get(c, id) ==
    /\ Exists(id)
    /\ op' = [op EXCEPT ![c].id = id, ![c].thumb = rows[id].thumb, ![c].left = @ \ {id}]
    /\ Goto(c, "deleteRow")
    /\ UNCHANGED <<rows, nextId, files, history>>

Delete(c, id) == step[c] = "idle" /\ Get(c, id)

(* delete, or the iteration of delete_for_record it was called from, ends. *)
Return(c) ==
    IF op[c].record = NoRecord THEN Finish(c)
    ELSE Goto(c, "sweep") /\ op' = [op EXCEPT ![c].id = 0, ![c].thumb = FALSE]

DeleteRow(c) ==
    /\ step[c] = "deleteRow"
    /\ Exists(op[c].id)
    /\ rows' = [rows EXCEPT ![op[c].id] = NoRow]
    /\ Goto(c, "deleteBody")
    /\ UNCHANGED <<nextId, files, op, history>>

(* A slip: rows_affected is not looked at. *)
AlreadyGoneUnseen(c) ==
    /\ step[c] = "deleteRow"
    /\ ~Exists(op[c].id)
    /\ Goto(c, "deleteBody")
    /\ UNCHANGED <<rows, nextId, files, op, history>>

(* "Raced with a concurrent delete": NotFound *)
AlreadyGone(c) ==
    /\ step[c] = "deleteRow"
    /\ ~Exists(op[c].id)
    /\ Return(c)
    /\ UNCHANGED <<rows, nextId, files, history>>

(* The files go after the row; an error is logged and swallowed. *)
DeleteBody(c) ==
    /\ step[c] = "deleteBody"
    /\ \E file \in {bodies[op[c].id], "none"} :
         bodies' = [bodies EXCEPT ![op[c].id] = file]
    /\ Goto(c, "deleteThumb")
    /\ UNCHANGED <<rows, nextId, thumbs, op, history>>

DeleteThumb(c) ==
    /\ step[c] = "deleteThumb"
    /\ \E file \in {thumbs[op[c].id], IF op[c].thumb THEN "none" ELSE thumbs[op[c].id]} :
         thumbs' = [thumbs EXCEPT ![op[c].id] = file]
    /\ reports' = [reports EXCEPT ![op[c].id] = @ + 1]
    /\ Return(c)
    /\ UNCHANGED <<rows, nextId, bodies, cut>>

-----------------------------------------------------------------------------
(* delete_for_record: delete them one by one *)

SweepBegin(c, record) ==
    /\ step[c] = "idle"
    /\ op' = [op EXCEPT ![c] = [NoOp EXCEPT !.record = record, !.left = Of(record),
                                            !.horizon = nextId]]
    /\ Goto(c, "sweep")
    /\ UNCHANGED <<rows, nextId, files, history>>

SweepNext(c) == step[c] = "sweep" /\ \E id \in op[c].left : Get(c, id)

(* A slip: an attachment that has gone already ends the sweep. *)
SweepGivesUp(c) ==
    /\ step[c] = "sweep"
    /\ \E id \in op[c].left :
         /\ ~Exists(id)
         /\ op' = [op EXCEPT ![c].left = {}]
    /\ UNCHANGED <<rows, nextId, files, step, history>>

SweepSkip(c) ==
    /\ step[c] = "sweep"
    /\ \E id \in op[c].left :
         /\ ~Exists(id)
         /\ op' = [op EXCEPT ![c].left = @ \ {id}]
    /\ UNCHANGED <<rows, nextId, files, step, history>>

SweepEnd(c) ==
    /\ step[c] = "sweep" /\ op[c].left = {}
    /\ Finish(c)
    /\ UNCHANGED <<rows, nextId, files, history>>

(* A statement fails, which ends a sweep as well, or the call is cut short. *)
Uploading(c, id) == step[c] \in {"body", "fillBody", "cleanup"} /\ op[c].id = id

CutShort(c) ==
    /\ step[c] # "idle"
    /\ cut' = cut \cup {id \in Ids : Uploading(c, id)}
    /\ Finish(c)
    /\ UNCHANGED <<rows, nextId, files, reports>>

Next ==
    \E c \in Calls :
      \/ \E record \in Records : InsertRow(c, record) \/ SweepBegin(c, record)
      \/ CreateBody(c) \/ FillBody(c) \/ BodyFails(c) \/ Cleanup(c)
      \/ NoThumbnail(c) \/ WriteThumb(c) \/ SetFlag(c)
      \/ \E id \in Ids : Delete(c, id)
      \/ DeleteRow(c) \/ AlreadyGone(c) \/ DeleteBody(c) \/ DeleteThumb(c)
      \/ SweepNext(c) \/ SweepSkip(c) \/ SweepEnd(c)
      \/ CutShort(c)

Spec == Init /\ [][Next]_vars

-----------------------------------------------------------------------------
(* Properties *)

Steps == {"idle", "body", "fillBody", "cleanup", "thumb", "flag",
          "deleteRow", "deleteBody", "deleteThumb", "sweep"}

Operation == [id : Ids \cup {0}, thumb : BOOLEAN, record : Records \cup {NoRecord},
              left : SUBSET Ids, horizon : 0..(MaxId + 1)]

(* Type invariant: a call has an attachment while it works on one, and ids *)
(* not handed out yet have neither a row nor files.                        *)
TypeOK ==
    /\ rows \in [Ids -> Row \cup {NoRow}]
    /\ nextId \in 1..(MaxId + 1)
    /\ bodies \in [Ids -> Files] /\ thumbs \in [Ids -> Files]
    /\ step \in [Calls -> Steps]
    /\ op \in [Calls -> Operation]
    /\ cut \subseteq Ids
    /\ reports \in [Ids -> Nat]
    /\ \A id \in Ids : id >= nextId =>
         ~Exists(id) /\ bodies[id] = "none" /\ thumbs[id] = "none"
    /\ \A c \in Calls :
         step[c] \notin {"idle", "sweep"} => op[c].id \in Ids /\ op[c].id < nextId

(* has_thumbnail promises a complete thumbnail file, at every moment: also *)
(* while uploads, deletions and cut-short calls meet on one attachment.    *)
ThumbnailThere ==
    \A id \in Ids : Exists(id) /\ rows[id].thumb => thumbs[id] = "whole"

(* A row has its complete body, unless its upload is still at it or did    *)
(* not live to clean up: no deletion ever takes the body of a row that     *)
(* stays.                                                                  *)
BodyThere ==
    \A id \in Ids : Exists(id) =>
      \/ bodies[id] = "whole"
      \/ id \in cut
      \/ \E c \in Calls : Uploading(c, id)

(* Of all the deletions of one attachment, alone or as part of a sweep, at *)
(* most one reports success: it is logged and counted once.                *)
DeletedOnce == \A id \in Ids : reports[id] <= 1

(* A sweep that ends well leaves none of the attachments its record had    *)
(* when it began, whatever other deletions and sweeps have taken from it   *)
(* on the way; only later uploads can be left.                             *)
SweepComplete ==
    [][\A c \in Calls :
         step[c] = "sweep" /\ op[c].left = {} /\ step'[c] = "idle"
           => \A id \in Of(op[c].record) : id >= op[c].horizon]_vars

=============================================================================
