-------------------------- MODULE AttachmentsProofs -------------------------
(***************************************************************************)
(* Proofs about Attachments, for every set of concurrent calls and any     *)
(* number of attachments.                                                  *)
(*                                                                         *)
(* The inductive invariant says what each call may rely on between its     *)
(* steps: an upload is the only one to work on its id, and as long as its  *)
(* row stands nobody has touched its files; a deletion that took the row   *)
(* owns the files alone; what a sweep has left covers its record.          *)
(***************************************************************************)
EXTENDS Attachments, TLAPS

Uploader(c) == step[c] \in {"body", "fillBody", "cleanup", "thumb", "flag"}
Deleter(c) == step[c] \in {"deleteBody", "deleteThumb"}

(* An upload has its id to itself; while the row stands, so do its files.  *)
UploadsOwn ==
    /\ \A c, d \in Calls : Uploader(c) /\ Uploader(d) /\ op[c].id = op[d].id => c = d
    /\ \A c \in Calls : Uploader(c) =>
         /\ op[c].record = NoRecord
         /\ Exists(op[c].id) =>
              /\ ~rows[op[c].id].thumb
              /\ step[c] = "fillBody" => bodies[op[c].id] = "partial"
              /\ step[c] = "flag" => thumbs[op[c].id] = "whole"

(* A deletion that works on the files has taken the row, alone, and has    *)
(* not reported yet.                                                       *)
DeletionsOwn ==
    /\ \A c, d \in Calls : Deleter(c) /\ Deleter(d) /\ op[c].id = op[d].id => c = d
    /\ \A c \in Calls : Deleter(c) => ~Exists(op[c].id) /\ reports[op[c].id] = 0
    /\ \A id \in Ids : Exists(id) \/ id >= nextId => reports[id] = 0

(* A sweep still has to do every attachment that its record had.           *)
SweepCovers(c) ==
    /\ step[c] = "idle" => op[c] = NoOp
    /\ op[c].record # NoRecord =>
         /\ op[c].horizon <= nextId
         /\ \A id \in Ids : Exists(id) /\ rows[id].record = op[c].record /\ id < op[c].horizon =>
              id \in op[c].left \/ (step[c] = "deleteRow" /\ op[c].id = id)

IInv ==
    /\ TypeOK /\ UploadsOwn /\ DeletionsOwn /\ \A c \in Calls : SweepCovers(c)
    /\ ThumbnailThere /\ BodyThere /\ DeletedOnce

LEMMA InitInv == Init => IInv
<1> SUFFICES ASSUME Init PROVE IInv
  OBVIOUS
<1>1. TypeOK
  BY IdAssumption DEF Init, TypeOK, Ids, Files, Steps, Operation, NoOp, Exists
<1>2. UploadsOwn /\ DeletionsOwn /\ BodyThere /\ ThumbnailThere
  BY
     DEF Init, UploadsOwn, DeletionsOwn, BodyThere, ThumbnailThere, Uploader,
         Deleter, Exists
<1>3. DeletedOnce /\ \A c \in Calls : SweepCovers(c)
  BY DEF Init, DeletedOnce, SweepCovers, NoOp
<1> QED  BY <1>1, <1>2, <1>3 DEF IInv

-----------------------------------------------------------------------------
(* What the ways to go on do to the calls.                                 *)

Others(c) == \A d \in Calls \ {c} : step'[d] = step[d] /\ op'[d] = op[d]

(* c is at `label` now, the others are where they were. *)
AtStep(c, label) ==
    /\ step' \in [Calls -> Steps] /\ op' \in [Calls -> Operation]
    /\ step'[c] = label
    /\ Others(c)

LEMMA IdTypes == IInv => nextId \in Nat /\ Ids \subseteq Nat
BY IdAssumption DEF Ids, IInv, TypeOK

LEMMA NoOpType == NoOp \in Operation
BY IdAssumption DEF NoOp, Operation

(* A call goes on with what it had. *)
LEMMA GotoEffect ==
    ASSUME IInv, NEW c \in Calls, NEW label \in Steps, Goto(c, label), op' = op
    PROVE  AtStep(c, label) /\ op'[c] = op[c]
BY DEF Goto, IInv, TypeOK, Others, AtStep

LEMMA FinishEffect ==
    ASSUME IInv, NEW c \in Calls, Finish(c)
    PROVE  AtStep(c, "idle") /\ op'[c] = NoOp /\ op'[c].record = NoRecord
BY NoOpType DEF Finish, Goto, Steps, NoOp, IInv, TypeOK, Others, AtStep

(* A deletion ends, or goes back to its sweep. *)
LEMMA ReturnEffect ==
    ASSUME IInv, NEW c \in Calls, Return(c)
    PROVE  /\ AtStep(c, "idle") \/ AtStep(c, "sweep")
           /\ step'[c] = "idle" => op'[c] = NoOp /\ op'[c].record = NoRecord
           /\ step'[c] = "sweep" =>
                /\ op'[c].record = op[c].record /\ op'[c].left = op[c].left
                /\ op'[c].horizon = op[c].horizon
<1>1. CASE op[c].record = NoRecord
  BY <1>1, FinishEffect DEF Return, AtStep
<1>2. CASE op[c].record # NoRecord
  <2> DEFINE swept == [op[c] EXCEPT !.id = 0, !.thumb = FALSE]
  <2>1. /\ swept \in Operation
        /\ swept.record = op[c].record /\ swept.left = op[c].left
        /\ swept.horizon = op[c].horizon
    BY DEF IInv, TypeOK, Operation
  <2>2. op' = [op EXCEPT ![c] = swept] /\ Goto(c, "sweep")
    BY <1>2 DEF Return, IInv, TypeOK
  <2> HIDE DEF swept
  <2> QED  BY <2>1, <2>2 DEF Goto, Steps, IInv, TypeOK, Others, AtStep
<1> QED  BY <1>1, <1>2

(* A deletion has read the row it is to take. *)
LEMMA GetEffect ==
    ASSUME IInv, NEW c \in Calls, NEW id \in Ids, Get(c, id)
    PROVE  /\ AtStep(c, "deleteRow")
           /\ id < nextId
           /\ op'[c].id = id /\ op'[c].left = op[c].left \ {id}
           /\ op'[c].record = op[c].record /\ op'[c].horizon = op[c].horizon
<1>1. rows[id].thumb \in BOOLEAN /\ id < nextId
  BY IdTypes DEF Get, Exists, IInv, TypeOK, Row
<1> DEFINE found == [op[c] EXCEPT !.id = id, !.thumb = rows[id].thumb,
                                  !.left = op[c].left \ {id}]
<1>2. op[c] \in Operation /\ op[c].left \ {id} \in SUBSET Ids
  BY DEF IInv, TypeOK, Operation
<1>3. PICK o \in Operation, thumb \in BOOLEAN, left \in SUBSET Ids :
        o = op[c] /\ thumb = rows[id].thumb /\ left = op[c].left \ {id}
  BY <1>1, <1>2
<1>5. /\ found \in Operation
      /\ found.id = id /\ found.left = op[c].left \ {id}
      /\ found.record = op[c].record /\ found.horizon = op[c].horizon
  <2>1. found = [o EXCEPT !.id = id, !.thumb = thumb, !.left = left]
    BY <1>3
  <2>2. [o EXCEPT !.id = id, !.thumb = thumb, !.left = left] \in Operation
    BY DEF Operation
  <2>3. o = [id |-> o.id, thumb |-> o.thumb, record |-> o.record, left |-> o.left,
             horizon |-> o.horizon]
    BY DEF Operation
  <2>4. /\ found.id = id /\ found.left = left
        /\ found.record = o.record /\ found.horizon = o.horizon
    BY <2>1, <2>3
  <2> HIDE DEF found
  <2> QED  BY <1>3, <2>1, <2>2, <2>4
<1>4. op' = [op EXCEPT ![c] = found] /\ Goto(c, "deleteRow")
  BY DEF Get, IInv, TypeOK
<1> HIDE DEF found
<1> QED  BY <1>1, <1>4, <1>5 DEF Goto, Steps, IInv, TypeOK, Others, AtStep

-----------------------------------------------------------------------------
(* What a sweep has left keeps covering its record, as long as no row that *)
(* it can be about appears.                                                *)
LEMMA SweepsKeep ==
    ASSUME IInv, NEW c \in Calls, Others(c), SweepCovers(c)', nextId' \in Nat, nextId' >= nextId,
           \A id \in Ids : Exists(id)' /\ id < nextId
                           => Exists(id) /\ rows'[id].record = rows[id].record
    PROVE  \A d \in Calls : SweepCovers(d)'
<1> SUFFICES ASSUME NEW d \in Calls \ {c} PROVE SweepCovers(d)'
  OBVIOUS
<1>1. op[d].horizon \in Int
  BY DEF IInv, TypeOK, Operation
<1> QED  BY <1>1, IdTypes DEF IInv, SweepCovers, Others, Exists

(* A call that is nowhere near the files takes a step of its own: nothing  *)
(* else is disturbed.                                                      *)
LEMMA OwnStepKeeps ==
    ASSUME IInv, NEW c \in Calls, UNCHANGED <<rows, nextId, files, history>>,
           ~Uploader(c), ~Deleter(c),
           NEW label \in {"idle", "deleteRow", "sweep"}, AtStep(c, label), SweepCovers(c)',
           label = "deleteRow" => op'[c].id \in Ids /\ op'[c].id < nextId
    PROVE  IInv'
<1>1. TypeOK'
  BY DEF AtStep, Others, IInv, TypeOK, files, history, Exists
<1>2. UploadsOwn'
  BY DEF AtStep, Others, IInv, UploadsOwn, Uploader, files, Exists
<1>3. DeletionsOwn'
  BY DEF AtStep, Others, IInv, DeletionsOwn, Deleter, history, Exists
<1>4. \A d \in Calls : SweepCovers(d)'
  BY SweepsKeep, IdTypes DEF AtStep, Exists
<1>5. ThumbnailThere' /\ DeletedOnce'
  BY DEF IInv, ThumbnailThere, DeletedOnce, files, history, Exists
<1>6. BodyThere'
  BY DEF AtStep, Others, IInv, BodyThere, Uploading, Uploader, files, history, Exists
<1> QED  BY <1>1, <1>2, <1>3, <1>4, <1>5, <1>6 DEF IInv

-----------------------------------------------------------------------------
(* Deletions and sweeps, up to the row                                     *)

LEMMA DeleteKeeps ==
    ASSUME IInv, NEW c \in Calls, NEW id \in Ids,
           Delete(c, id) \/ (step[c] = "sweep" /\ id \in op[c].left /\ Get(c, id))
    PROVE  IInv'
<1>1. Get(c, id) /\ step[c] \in {"idle", "sweep"} /\ (step[c] = "sweep" => id \in op[c].left)
  BY DEF Delete
<1>2. SweepCovers(c)'
  <2>1. CASE op[c].record = NoRecord
    BY <1>1, <2>1, GetEffect DEF SweepCovers, AtStep
  <2>2. CASE op[c].record # NoRecord
    <3>1. step[c] = "sweep"
      BY <1>1, <2>2 DEF IInv, SweepCovers, NoOp
    <3>2. rows' = rows /\ nextId' = nextId
      BY <1>1 DEF Get
    <3>3. /\ op[c].horizon <= nextId
          /\ \A i \in Ids : Exists(i) /\ rows[i].record = op[c].record /\ i < op[c].horizon =>
               i \in op[c].left
      BY <2>2, <3>1 DEF IInv, SweepCovers
    <3> QED  BY <1>1, <3>2, <3>3, GetEffect DEF SweepCovers, AtStep, Exists
  <2> QED  BY <2>1, <2>2
<1> QED  BY <1>1, <1>2, GetEffect, OwnStepKeeps DEF Get, Uploader, Deleter

LEMMA AlreadyGoneKeeps ==
    ASSUME IInv, NEW c \in Calls, AlreadyGone(c)
    PROVE  IInv'
<1>1. SweepCovers(c)'
  <2>1. CASE AtStep(c, "idle")
    BY <2>1, ReturnEffect DEF AlreadyGone, SweepCovers, AtStep
  <2>2. CASE AtStep(c, "sweep")
    BY <2>2, ReturnEffect DEF AlreadyGone, IInv, SweepCovers, AtStep, Exists
  <2> QED  BY <2>1, <2>2, ReturnEffect DEF AlreadyGone
<1> QED  BY <1>1, ReturnEffect, OwnStepKeeps DEF AlreadyGone, Uploader, Deleter, AtStep

LEMMA SweepBeginKeeps ==
    ASSUME IInv, NEW c \in Calls, NEW record \in Records, SweepBegin(c, record)
    PROVE  IInv'
<1> DEFINE begun == [NoOp EXCEPT !.record = record, !.left = Of(record), !.horizon = nextId]
<1>1. /\ begun \in Operation
      /\ begun.record = record /\ begun.left = Of(record) /\ begun.horizon = nextId
  <2>1. Of(record) \in SUBSET Ids /\ nextId \in 0..(MaxId + 1)
    BY IdAssumption DEF Of, IInv, TypeOK, Ids
  <2>2. PICK left \in SUBSET Ids, horizon \in 0..(MaxId + 1) :
          left = Of(record) /\ horizon = nextId
    BY <2>1
  <2>3. [NoOp EXCEPT !.record = record, !.left = left, !.horizon = horizon] \in Operation
    BY NoOpType DEF Operation
  <2>4. /\ begun.record = record /\ begun.left = left /\ begun.horizon = horizon
        /\ begun = [NoOp EXCEPT !.record = record, !.left = left, !.horizon = horizon]
    BY <2>2 DEF NoOp
  <2> HIDE DEF begun
  <2> QED  BY <2>2, <2>3, <2>4
<1>2. op' = [op EXCEPT ![c] = begun]
  BY DEF SweepBegin
<1> HIDE DEF begun
<1>3. AtStep(c, "sweep") /\ op'[c] = begun
  BY <1>1, <1>2 DEF SweepBegin, Goto, Steps, IInv, TypeOK, AtStep, Others
<1>4. SweepCovers(c)'
  <2>1. /\ step'[c] = "sweep" /\ rows' = rows /\ nextId' = nextId
        /\ op'[c].record = record /\ op'[c].left = Of(record) /\ op'[c].horizon = nextId
    BY <1>1, <1>3 DEF SweepBegin, AtStep
  <2> QED  BY <2>1, IdTypes DEF SweepCovers, Of, Exists
<1> QED  BY <1>3, <1>4, OwnStepKeeps DEF SweepBegin, Uploader, Deleter

LEMMA SweepSkipKeeps ==
    ASSUME IInv, NEW c \in Calls, SweepSkip(c)
    PROVE  IInv'
<1>1. PICK id \in op[c].left : ~Exists(id) /\ op' = [op EXCEPT ![c].left = @ \ {id}]
  BY DEF SweepSkip
<1> DEFINE rest == [op[c] EXCEPT !.left = op[c].left \ {id}]
<1>2. /\ rest \in Operation
      /\ rest.record = op[c].record /\ rest.left = op[c].left \ {id}
      /\ rest.horizon = op[c].horizon
  BY DEF Operation, IInv, TypeOK
<1>3. op' = [op EXCEPT ![c] = rest]
  BY <1>1 DEF IInv, TypeOK
<1> HIDE DEF rest
<1>4. AtStep(c, "sweep") /\ op'[c] = rest
  BY <1>2, <1>3 DEF SweepSkip, Steps, IInv, TypeOK, AtStep, Others
<1>5. SweepCovers(c)'
  BY <1>1, <1>2, <1>4 DEF SweepSkip, IInv, SweepCovers, Exists, AtStep
<1> QED  BY <1>4, <1>5, OwnStepKeeps DEF SweepSkip, Uploader, Deleter

LEMMA SweepEndKeeps ==
    ASSUME IInv, NEW c \in Calls, SweepEnd(c)
    PROVE  IInv'
<1>1. SweepCovers(c)'
  BY FinishEffect DEF SweepEnd, SweepCovers, AtStep
<1> QED  BY <1>1, FinishEffect, OwnStepKeeps DEF SweepEnd, Uploader, Deleter

-----------------------------------------------------------------------------
(* Uploads                                                                 *)

LEMMA CreateBodyKeeps ==
    ASSUME IInv, NEW c \in Calls, CreateBody(c)
    PROVE  IInv'
<1>1. AtStep(c, "fillBody") /\ op'[c] = op[c] /\ op' = op
  BY GotoEffect DEF CreateBody, Steps
<1>2. op[c].id \in Ids /\ op[c].id < nextId
  BY DEF CreateBody, IInv, TypeOK
<1>3. TypeOK'
  BY <1>1, <1>2, IdTypes, RowAssumption
     DEF CreateBody, IInv, TypeOK, AtStep, Others, Exists, files, history, Row,
         Files, Steps
<1>4. UploadsOwn'
  BY <1>1, <1>2, IdTypes, RowAssumption
     DEF CreateBody, IInv, TypeOK, AtStep, Others, Exists, files, history,
         UploadsOwn, DeletionsOwn, Uploader, Deleter
<1>5. DeletionsOwn'
  BY <1>1, <1>2, IdTypes, RowAssumption
     DEF CreateBody, IInv, TypeOK, AtStep, Others, Exists, files, history,
         DeletionsOwn, Deleter
<1>6. \A d \in Calls : SweepCovers(d)'
  <2>1. SweepCovers(c)'
    BY <1>1
       DEF CreateBody, IInv, TypeOK, SweepCovers, UploadsOwn, Uploader,
           DeletionsOwn, Deleter, AtStep, Exists
  <2> QED  BY <1>1, <2>1, SweepsKeep, IdTypes
     DEF CreateBody, IInv, TypeOK, Row, AtStep, Exists
<1>7. ThumbnailThere'
  BY <1>1, <1>2, RowAssumption
     DEF CreateBody, IInv, TypeOK, AtStep, Others, Exists, files, history,
         ThumbnailThere, UploadsOwn, DeletionsOwn, Uploader, Deleter
<1>8. BodyThere'
  <2> SUFFICES ASSUME NEW id \in Ids, Exists(id)'
               PROVE  bodies'[id] = "whole" \/ id \in cut' \/ \E d \in Calls : Uploading(d, id)'
    BY DEF BodyThere
  <2>1. CASE id = op[c].id
    BY <1>1, <1>2, <2>1, RowAssumption
       DEF CreateBody, IInv, TypeOK, Exists, AtStep, Uploading, files
  <2>2. CASE id # op[c].id
    <3>1. bodies'[id] = bodies[id] /\ rows'[id] = rows[id] /\ cut \subseteq cut'
      BY <2>2 DEF CreateBody, IInv, TypeOK, files, history
    <3>2. ASSUME NEW d \in Calls, Uploading(d, id) PROVE Uploading(d, id)'
      BY <1>1, <2>2, <3>2 DEF AtStep, Others, Uploading
    <3> QED  BY <3>1, <3>2 DEF IInv, BodyThere, Exists
  <2> QED  BY <2>1, <2>2
<1>9. DeletedOnce'
  BY DEF CreateBody, IInv, DeletedOnce, history
<1> QED  BY <1>3, <1>4, <1>5, <1>6, <1>7, <1>8, <1>9 DEF IInv

LEMMA FillBodyKeeps ==
    ASSUME IInv, NEW c \in Calls, FillBody(c)
    PROVE  IInv'
<1>1. AtStep(c, "thumb") /\ op'[c] = op[c] /\ op' = op
  BY GotoEffect DEF FillBody, Steps
<1>2. op[c].id \in Ids /\ op[c].id < nextId
  BY DEF FillBody, IInv, TypeOK
<1>3. TypeOK'
  BY <1>1, <1>2, IdTypes, RowAssumption
     DEF FillBody, IInv, TypeOK, AtStep, Others, Exists, files, history, Row,
         Files, Steps, Filled
<1>4. UploadsOwn'
  BY <1>1, <1>2, IdTypes, RowAssumption
     DEF FillBody, IInv, TypeOK, AtStep, Others, Exists, files, history,
         UploadsOwn, DeletionsOwn, Uploader, Deleter
<1>5. DeletionsOwn'
  BY <1>1, <1>2, IdTypes, RowAssumption
     DEF FillBody, IInv, TypeOK, AtStep, Others, Exists, files, history,
         DeletionsOwn, Deleter
<1>6. \A d \in Calls : SweepCovers(d)'
  <2>1. SweepCovers(c)'
    BY <1>1
       DEF FillBody, IInv, TypeOK, SweepCovers, UploadsOwn, Uploader,
           DeletionsOwn, Deleter, AtStep, Exists
  <2> QED  BY <1>1, <2>1, SweepsKeep, IdTypes
     DEF FillBody, IInv, TypeOK, Row, AtStep, Exists
<1>7. ThumbnailThere'
  BY <1>1, <1>2, RowAssumption
     DEF FillBody, IInv, TypeOK, AtStep, Others, Exists, files, history,
         ThumbnailThere, UploadsOwn, DeletionsOwn, Uploader, Deleter
<1>8. BodyThere'
  <2> SUFFICES ASSUME NEW id \in Ids, Exists(id)'
               PROVE  bodies'[id] = "whole" \/ id \in cut' \/ \E d \in Calls : Uploading(d, id)'
    BY DEF BodyThere
  <2>1. CASE id = op[c].id
    BY <1>1, <1>2, <2>1, RowAssumption
       DEF FillBody, IInv, TypeOK, Exists, AtStep, Uploading, UploadsOwn,
           Uploader, Filled, files
  <2>2. CASE id # op[c].id
    <3>1. bodies'[id] = bodies[id] /\ rows'[id] = rows[id] /\ cut \subseteq cut'
      BY <2>2 DEF FillBody, IInv, TypeOK, files, history
    <3>2. ASSUME NEW d \in Calls, Uploading(d, id) PROVE Uploading(d, id)'
      BY <1>1, <2>2, <3>2 DEF AtStep, Others, Uploading
    <3> QED  BY <3>1, <3>2 DEF IInv, BodyThere, Exists
  <2> QED  BY <2>1, <2>2
<1>9. DeletedOnce'
  BY DEF FillBody, IInv, DeletedOnce, history
<1> QED  BY <1>3, <1>4, <1>5, <1>6, <1>7, <1>8, <1>9 DEF IInv

LEMMA BodyFailsKeeps ==
    ASSUME IInv, NEW c \in Calls, BodyFails(c)
    PROVE  IInv'
<1>1. AtStep(c, "cleanup") /\ op'[c] = op[c] /\ op' = op
  BY GotoEffect DEF BodyFails, Steps
<1>2. op[c].id \in Ids /\ op[c].id < nextId
  BY DEF BodyFails, IInv, TypeOK
<1>3. TypeOK'
  BY <1>1, <1>2, IdTypes, RowAssumption
     DEF BodyFails, IInv, TypeOK, AtStep, Others, Exists, files, history, Row,
         Files, Steps
<1>4. UploadsOwn'
  BY <1>1, <1>2, IdTypes, RowAssumption
     DEF BodyFails, IInv, TypeOK, AtStep, Others, Exists, files, history,
         UploadsOwn, DeletionsOwn, Uploader, Deleter
<1>5. DeletionsOwn'
  BY <1>1, <1>2, IdTypes, RowAssumption
     DEF BodyFails, IInv, TypeOK, AtStep, Others, Exists, files, history,
         DeletionsOwn, Deleter
<1>6. \A d \in Calls : SweepCovers(d)'
  <2>1. SweepCovers(c)'
    BY <1>1
       DEF BodyFails, IInv, TypeOK, SweepCovers, UploadsOwn, Uploader,
           DeletionsOwn, Deleter, AtStep, Exists
  <2> QED  BY <1>1, <2>1, SweepsKeep, IdTypes
     DEF BodyFails, IInv, TypeOK, Row, AtStep, Exists
<1>7. ThumbnailThere'
  BY <1>1, <1>2, RowAssumption
     DEF BodyFails, IInv, TypeOK, AtStep, Others, Exists, files, history,
         ThumbnailThere, UploadsOwn, DeletionsOwn, Uploader, Deleter
<1>8. BodyThere'
  BY <1>1, <1>2, RowAssumption
     DEF BodyFails, IInv, TypeOK, AtStep, Others, Exists, files, history,
         BodyThere, Uploading, UploadsOwn, DeletionsOwn, Uploader, Deleter
<1>9. DeletedOnce'
  BY DEF BodyFails, IInv, DeletedOnce, history
<1> QED  BY <1>3, <1>4, <1>5, <1>6, <1>7, <1>8, <1>9 DEF IInv

LEMMA CleanupKeeps ==
    ASSUME IInv, NEW c \in Calls, Cleanup(c)
    PROVE  IInv'
<1>1. AtStep(c, "idle") /\ op'[c] = NoOp /\ op'[c].record = NoRecord
  BY FinishEffect DEF Cleanup
<1>2. op[c].id \in Ids /\ op[c].id < nextId
  BY DEF Cleanup, IInv, TypeOK
<1>3. TypeOK'
  BY <1>1, <1>2, IdTypes, RowAssumption
     DEF Cleanup, IInv, TypeOK, AtStep, Others, Exists, files, history, Row,
         Files, Steps
<1>4. UploadsOwn'
  BY <1>1, <1>2, IdTypes, RowAssumption
     DEF Cleanup, IInv, TypeOK, AtStep, Others, Exists, files, history,
         UploadsOwn, DeletionsOwn, Uploader, Deleter
<1>5. DeletionsOwn'
  BY <1>1, <1>2, IdTypes, RowAssumption
     DEF Cleanup, IInv, TypeOK, AtStep, Others, Exists, files, history,
         DeletionsOwn, Deleter
<1>6. \A d \in Calls : SweepCovers(d)'
  <2>1. SweepCovers(c)'
    BY <1>1
       DEF Cleanup, IInv, TypeOK, SweepCovers, UploadsOwn, Uploader,
           DeletionsOwn, Deleter, AtStep, Exists
  <2> QED  BY <1>1, <2>1, SweepsKeep, IdTypes
     DEF Cleanup, IInv, TypeOK, Row, AtStep, Exists
<1>7. ThumbnailThere'
  BY <1>1, <1>2, RowAssumption
     DEF Cleanup, IInv, TypeOK, AtStep, Others, Exists, files, history,
         ThumbnailThere, UploadsOwn, DeletionsOwn, Uploader, Deleter
<1>8. BodyThere'
  <2> SUFFICES ASSUME NEW id \in Ids, Exists(id)'
               PROVE  bodies'[id] = "whole" \/ id \in cut' \/ \E d \in Calls : Uploading(d, id)'
    BY DEF BodyThere
  <2>1. CASE id = op[c].id
    BY <1>1, <1>2, <2>1, RowAssumption
       DEF Cleanup, IInv, TypeOK, Exists, AtStep, Uploading, files
  <2>2. CASE id # op[c].id
    <3>1. bodies'[id] = bodies[id] /\ rows'[id] = rows[id] /\ cut \subseteq cut'
      BY <2>2 DEF Cleanup, IInv, TypeOK, files, history
    <3>2. ASSUME NEW d \in Calls, Uploading(d, id) PROVE Uploading(d, id)'
      BY <1>1, <2>2, <3>2 DEF AtStep, Others, Uploading
    <3> QED  BY <3>1, <3>2 DEF IInv, BodyThere, Exists
  <2> QED  BY <2>1, <2>2
<1>9. DeletedOnce'
  BY DEF Cleanup, IInv, DeletedOnce, history
<1> QED  BY <1>3, <1>4, <1>5, <1>6, <1>7, <1>8, <1>9 DEF IInv

LEMMA NoThumbnailKeeps ==
    ASSUME IInv, NEW c \in Calls, NoThumbnail(c)
    PROVE  IInv'
<1>1. AtStep(c, "idle") /\ op'[c] = NoOp /\ op'[c].record = NoRecord
  BY FinishEffect DEF NoThumbnail
<1>2. op[c].id \in Ids /\ op[c].id < nextId
  BY DEF NoThumbnail, IInv, TypeOK
<1>3. TypeOK'
  BY <1>1, <1>2, IdTypes, RowAssumption
     DEF NoThumbnail, IInv, TypeOK, AtStep, Others, Exists, files, history, Row,
         Files, Steps
<1>4. UploadsOwn'
  BY <1>1, <1>2, IdTypes, RowAssumption
     DEF NoThumbnail, IInv, TypeOK, AtStep, Others, Exists, files, history,
         UploadsOwn, DeletionsOwn, Uploader, Deleter
<1>5. DeletionsOwn'
  <2>1. UNCHANGED <<rows, nextId, reports>> /\ ~Deleter(c)
    BY DEF NoThumbnail, history, Deleter
  <2> QED  BY <1>1, <2>1 DEF IInv, AtStep, Others, Exists, DeletionsOwn, Deleter
<1>6. \A d \in Calls : SweepCovers(d)'
  <2>1. SweepCovers(c)'
    BY <1>1
       DEF NoThumbnail, IInv, TypeOK, SweepCovers, UploadsOwn, Uploader,
           DeletionsOwn, Deleter, AtStep, Exists
  <2> QED  BY <1>1, <2>1, SweepsKeep, IdTypes
     DEF NoThumbnail, IInv, TypeOK, Row, AtStep, Exists
<1>7. ThumbnailThere'
  BY <1>1, <1>2, RowAssumption
     DEF NoThumbnail, IInv, TypeOK, AtStep, Others, Exists, files, history,
         ThumbnailThere, UploadsOwn, DeletionsOwn, Uploader, Deleter
<1>8. BodyThere'
  BY <1>1, <1>2, RowAssumption
     DEF NoThumbnail, IInv, TypeOK, AtStep, Others, Exists, files, history,
         BodyThere, Uploading, UploadsOwn, DeletionsOwn, Uploader, Deleter
<1>9. DeletedOnce'
  BY DEF NoThumbnail, IInv, DeletedOnce, history
<1> QED  BY <1>3, <1>4, <1>5, <1>6, <1>7, <1>8, <1>9 DEF IInv

LEMMA WriteThumbKeeps ==
    ASSUME IInv, NEW c \in Calls, WriteThumb(c)
    PROVE  IInv'
<1>1. AtStep(c, "flag") /\ op'[c] = op[c] /\ op' = op
  BY GotoEffect DEF WriteThumb, Steps
<1>2. op[c].id \in Ids /\ op[c].id < nextId
  BY DEF WriteThumb, IInv, TypeOK
<1>3. TypeOK'
  BY <1>1, <1>2, IdTypes, RowAssumption
     DEF WriteThumb, IInv, TypeOK, AtStep, Others, Exists, files, history, Row,
         Files, Steps
<1>4. UploadsOwn'
  BY <1>1, <1>2, IdTypes, RowAssumption
     DEF WriteThumb, IInv, TypeOK, AtStep, Others, Exists, files, history,
         UploadsOwn, DeletionsOwn, Uploader, Deleter
<1>5. DeletionsOwn'
  BY <1>1, <1>2, IdTypes, RowAssumption
     DEF WriteThumb, IInv, TypeOK, AtStep, Others, Exists, files, history,
         DeletionsOwn, Deleter
<1>6. \A d \in Calls : SweepCovers(d)'
  <2>1. SweepCovers(c)'
    BY <1>1
       DEF WriteThumb, IInv, TypeOK, SweepCovers, UploadsOwn, Uploader,
           DeletionsOwn, Deleter, AtStep, Exists
  <2> QED  BY <1>1, <2>1, SweepsKeep, IdTypes
     DEF WriteThumb, IInv, TypeOK, Row, AtStep, Exists
<1>7. ThumbnailThere'
  BY <1>1, <1>2, RowAssumption
     DEF WriteThumb, IInv, TypeOK, AtStep, Others, Exists, files, history,
         ThumbnailThere, UploadsOwn, DeletionsOwn, Uploader, Deleter
<1>8. BodyThere'
  BY <1>1, <1>2, RowAssumption
     DEF WriteThumb, IInv, TypeOK, AtStep, Others, Exists, files, history,
         BodyThere, Uploading, UploadsOwn, DeletionsOwn, Uploader, Deleter
<1>9. DeletedOnce'
  BY DEF WriteThumb, IInv, DeletedOnce, history
<1> QED  BY <1>3, <1>4, <1>5, <1>6, <1>7, <1>8, <1>9 DEF IInv

LEMMA SetFlagKeeps ==
    ASSUME IInv, NEW c \in Calls, SetFlag(c)
    PROVE  IInv'
<1>1. AtStep(c, "idle") /\ op'[c] = NoOp /\ op'[c].record = NoRecord
  BY FinishEffect DEF SetFlag
<1>2. op[c].id \in Ids /\ op[c].id < nextId
  BY DEF SetFlag, IInv, TypeOK
<1>3. TypeOK'
  <2>1. rows' \in [Ids -> Row \cup {NoRow}] /\ \A id \in Ids : Exists(id)' => Exists(id)
    <3>1. CASE Exists(op[c].id)
      <4>1. [rows[op[c].id] EXCEPT !.thumb = TRUE] \in Row
        <5>1. PICK row \in Row : row = rows[op[c].id]
          BY <1>2, <3>1 DEF Exists, IInv, TypeOK
        <5>2. [row EXCEPT !.thumb = TRUE] \in Row
          BY DEF Row
        <5> QED  BY <5>1, <5>2
      <4>2. rows' = [rows EXCEPT ![op[c].id] = [rows[op[c].id] EXCEPT !.thumb = TRUE]]
        BY <3>1 DEF SetFlag
      <4> QED  BY <1>2, <3>1, <4>1, <4>2 DEF Exists, IInv, TypeOK
    <3>2. CASE ~Exists(op[c].id)
      BY <3>2 DEF SetFlag, Exists, IInv, TypeOK
    <3> QED  BY <3>1, <3>2
  <2> QED  BY <1>1, <2>1
     DEF SetFlag, IInv, TypeOK, AtStep, Others, Exists, files, history
<1>4. UploadsOwn'
  BY <1>1, <1>2, IdTypes, RowAssumption
     DEF SetFlag, IInv, TypeOK, AtStep, Others, Exists, files, history,
         UploadsOwn, DeletionsOwn, Uploader, Deleter
<1>5. DeletionsOwn'
  BY <1>1, <1>2, IdTypes, RowAssumption
     DEF SetFlag, IInv, TypeOK, AtStep, Others, Exists, files, history,
         DeletionsOwn, Deleter
<1>6. \A d \in Calls : SweepCovers(d)'
  <2>1. SweepCovers(c)'
    BY <1>1
       DEF SetFlag, IInv, TypeOK, SweepCovers, UploadsOwn, Uploader,
           DeletionsOwn, Deleter, AtStep, Exists
  <2> QED  BY <1>1, <2>1, SweepsKeep, IdTypes
     DEF SetFlag, IInv, TypeOK, Row, AtStep, Exists
<1>7. ThumbnailThere'
  BY <1>1, <1>2, RowAssumption
     DEF SetFlag, IInv, TypeOK, AtStep, Others, Exists, files, history,
         ThumbnailThere, UploadsOwn, DeletionsOwn, Uploader, Deleter
<1>8. BodyThere'
  BY <1>1, <1>2, RowAssumption
     DEF SetFlag, IInv, TypeOK, AtStep, Others, Exists, files, history,
         BodyThere, Uploading, UploadsOwn, DeletionsOwn, Uploader, Deleter
<1>9. DeletedOnce'
  BY DEF SetFlag, IInv, DeletedOnce, history
<1> QED  BY <1>3, <1>4, <1>5, <1>6, <1>7, <1>8, <1>9 DEF IInv

-----------------------------------------------------------------------------
(* Deletions, from the row on, and calls cut short                         *)

LEMMA DeleteRowKeeps ==
    ASSUME IInv, NEW c \in Calls, DeleteRow(c)
    PROVE  IInv'
<1>1. AtStep(c, "deleteBody") /\ op'[c] = op[c] /\ op' = op
  BY GotoEffect DEF DeleteRow, Steps
<1>2. op[c].id \in Ids /\ op[c].id < nextId
  BY DEF DeleteRow, IInv, TypeOK
<1>3. TypeOK'
  BY <1>1, <1>2, IdTypes, RowAssumption
     DEF DeleteRow, IInv, TypeOK, AtStep, Others, Exists, files, history, Row,
         Files, Steps
<1>4. UploadsOwn'
  BY <1>1, <1>2, IdTypes, RowAssumption
     DEF DeleteRow, IInv, TypeOK, AtStep, Others, Exists, files, history,
         UploadsOwn, DeletionsOwn, Uploader, Deleter
<1>5. DeletionsOwn'
  BY <1>1, <1>2, IdTypes, RowAssumption
     DEF DeleteRow, IInv, TypeOK, AtStep, Others, Exists, files, history,
         DeletionsOwn, Deleter
<1>6. \A d \in Calls : SweepCovers(d)'
  <2>1. SweepCovers(c)'
    BY <1>1
       DEF DeleteRow, IInv, TypeOK, SweepCovers, UploadsOwn, Uploader,
           DeletionsOwn, Deleter, AtStep, Exists
  <2> QED  BY <1>1, <2>1, SweepsKeep, IdTypes
     DEF DeleteRow, IInv, TypeOK, Row, AtStep, Exists
<1>7. ThumbnailThere'
  BY <1>1, <1>2, RowAssumption
     DEF DeleteRow, IInv, TypeOK, AtStep, Others, Exists, files, history,
         ThumbnailThere, UploadsOwn, DeletionsOwn, Uploader, Deleter
<1>8. BodyThere'
  BY <1>1, <1>2, RowAssumption
     DEF DeleteRow, IInv, TypeOK, AtStep, Others, Exists, files, history,
         BodyThere, Uploading, UploadsOwn, DeletionsOwn, Uploader, Deleter
<1>9. DeletedOnce'
  BY DEF DeleteRow, IInv, DeletedOnce, history
<1> QED  BY <1>3, <1>4, <1>5, <1>6, <1>7, <1>8, <1>9 DEF IInv

LEMMA DeleteBodyKeeps ==
    ASSUME IInv, NEW c \in Calls, DeleteBody(c)
    PROVE  IInv'
<1>1. AtStep(c, "deleteThumb") /\ op'[c] = op[c] /\ op' = op
  BY GotoEffect DEF DeleteBody, Steps
<1>2. op[c].id \in Ids /\ op[c].id < nextId
  BY DEF DeleteBody, IInv, TypeOK
<1>3. TypeOK'
  BY <1>1, <1>2, IdTypes, RowAssumption
     DEF DeleteBody, IInv, TypeOK, AtStep, Others, Exists, files, history, Row,
         Files, Steps
<1>4. UploadsOwn'
  BY <1>1, <1>2, IdTypes, RowAssumption
     DEF DeleteBody, IInv, TypeOK, AtStep, Others, Exists, files, history,
         UploadsOwn, DeletionsOwn, Uploader, Deleter
<1>5. DeletionsOwn'
  BY <1>1, <1>2, IdTypes, RowAssumption
     DEF DeleteBody, IInv, TypeOK, AtStep, Others, Exists, files, history,
         DeletionsOwn, Deleter
<1>6. \A d \in Calls : SweepCovers(d)'
  <2>1. SweepCovers(c)'
    BY <1>1
       DEF DeleteBody, IInv, TypeOK, SweepCovers, UploadsOwn, Uploader,
           DeletionsOwn, Deleter, AtStep, Exists
  <2> QED  BY <1>1, <2>1, SweepsKeep, IdTypes
     DEF DeleteBody, IInv, TypeOK, Row, AtStep, Exists
<1>7. ThumbnailThere'
  BY <1>1, <1>2, RowAssumption
     DEF DeleteBody, IInv, TypeOK, AtStep, Others, Exists, files, history,
         ThumbnailThere, UploadsOwn, DeletionsOwn, Uploader, Deleter
<1>8. BodyThere'
  BY <1>1, <1>2, RowAssumption
     DEF DeleteBody, IInv, TypeOK, AtStep, Others, Exists, files, history,
         BodyThere, Uploading, UploadsOwn, DeletionsOwn, Uploader, Deleter
<1>9. DeletedOnce'
  BY DEF DeleteBody, IInv, DeletedOnce, history
<1> QED  BY <1>3, <1>4, <1>5, <1>6, <1>7, <1>8, <1>9 DEF IInv

LEMMA DeleteThumbKeeps ==
    ASSUME IInv, NEW c \in Calls, DeleteThumb(c)
    PROVE  IInv'
<1>1. /\ AtStep(c, "idle") \/ AtStep(c, "sweep")
      /\ step'[c] = "idle" => op'[c] = NoOp /\ op'[c].record = NoRecord
      /\ step'[c] = "sweep" =>
           /\ op'[c].record = op[c].record /\ op'[c].left = op[c].left
           /\ op'[c].horizon = op[c].horizon
  BY ReturnEffect DEF DeleteThumb
<1>2. op[c].id \in Ids /\ op[c].id < nextId
  BY DEF DeleteThumb, IInv, TypeOK
<1>3. TypeOK'
  BY <1>1, <1>2, IdTypes, RowAssumption
     DEF DeleteThumb, IInv, TypeOK, AtStep, Others, Exists, files, history, Row,
         Files, Steps
<1>4. UploadsOwn'
  BY <1>1, <1>2, IdTypes, RowAssumption
     DEF DeleteThumb, IInv, TypeOK, AtStep, Others, Exists, files, history,
         UploadsOwn, DeletionsOwn, Uploader, Deleter
<1>5. DeletionsOwn'
  BY <1>1, <1>2, IdTypes, RowAssumption
     DEF DeleteThumb, IInv, TypeOK, AtStep, Others, Exists, files, history,
         DeletionsOwn, Deleter
<1>6. \A d \in Calls : SweepCovers(d)'
  <2>1. SweepCovers(c)'
    BY <1>1
       DEF DeleteThumb, IInv, TypeOK, SweepCovers, UploadsOwn, Uploader,
           DeletionsOwn, Deleter, AtStep, Exists
  <2> QED  BY <1>1, <2>1, SweepsKeep, IdTypes
     DEF DeleteThumb, IInv, TypeOK, Row, AtStep, Exists
<1>7. ThumbnailThere'
  BY <1>1, <1>2, RowAssumption
     DEF DeleteThumb, IInv, TypeOK, AtStep, Others, Exists, files, history,
         ThumbnailThere, UploadsOwn, DeletionsOwn, Uploader, Deleter
<1>8. BodyThere'
  BY <1>1, <1>2, RowAssumption
     DEF DeleteThumb, IInv, TypeOK, AtStep, Others, Exists, files, history,
         BodyThere, Uploading, UploadsOwn, DeletionsOwn, Uploader, Deleter
<1>9. DeletedOnce'
  BY <1>1, <1>2
     DEF DeleteThumb, IInv, TypeOK, AtStep, Others, Exists, files, history,
         DeletedOnce, DeletionsOwn, Deleter
<1> QED  BY <1>3, <1>4, <1>5, <1>6, <1>7, <1>8, <1>9 DEF IInv

LEMMA CutShortKeeps ==
    ASSUME IInv, NEW c \in Calls, CutShort(c)
    PROVE  IInv'
<1>1. AtStep(c, "idle") /\ op'[c] = NoOp /\ op'[c].record = NoRecord
  BY FinishEffect DEF CutShort
<1>3. TypeOK'
  BY <1>1, IdTypes, RowAssumption
     DEF CutShort, IInv, TypeOK, AtStep, Others, Exists, files, history, Row,
         Files, Steps
<1>4. UploadsOwn'
  BY <1>1, IdTypes, RowAssumption
     DEF CutShort, IInv, TypeOK, AtStep, Others, Exists, files, history,
         UploadsOwn, DeletionsOwn, Uploader, Deleter
<1>5. DeletionsOwn'
  BY <1>1, IdTypes, RowAssumption
     DEF CutShort, IInv, TypeOK, AtStep, Others, Exists, files, history,
         DeletionsOwn, Deleter
<1>6. \A d \in Calls : SweepCovers(d)'
  <2>1. SweepCovers(c)'
    BY <1>1
       DEF CutShort, IInv, TypeOK, SweepCovers, UploadsOwn, Uploader,
           DeletionsOwn, Deleter, AtStep, Exists
  <2> QED  BY <1>1, <2>1, SweepsKeep, IdTypes
     DEF CutShort, IInv, TypeOK, Row, AtStep, Exists
<1>7. ThumbnailThere'
  BY <1>1, RowAssumption
     DEF CutShort, IInv, TypeOK, AtStep, Others, Exists, files, history,
         ThumbnailThere, UploadsOwn, DeletionsOwn, Uploader, Deleter
<1>8. BodyThere'
  BY <1>1, RowAssumption
     DEF CutShort, IInv, TypeOK, AtStep, Others, Exists, files, history,
         BodyThere, Uploading, UploadsOwn, DeletionsOwn, Uploader, Deleter
<1>9. DeletedOnce'
  BY DEF CutShort, IInv, DeletedOnce, history
<1> QED  BY <1>3, <1>4, <1>5, <1>6, <1>7, <1>8, <1>9 DEF IInv

LEMMA InsertRowKeeps ==
    ASSUME IInv, NEW c \in Calls, NEW record \in Records, InsertRow(c, record)
    PROVE  IInv'
<1>1. PICK new \in Ids : new = nextId
  BY DEF InsertRow
<1>2. op[c] = NoOp /\ ~Uploader(c) /\ ~Deleter(c)
  BY DEF InsertRow, IInv, SweepCovers, Uploader, Deleter
<1>3. AtStep(c, "body") /\ op'[c].id = new /\ op'[c].record = NoRecord
  <2>1. [NoOp EXCEPT !.id = new] \in Operation
    BY NoOpType DEF Operation
  <2>2. op' = [op EXCEPT ![c] = [NoOp EXCEPT !.id = new]]
    BY <1>1, <1>2 DEF InsertRow
  <2> QED  BY <2>1, <2>2 DEF InsertRow, Goto, Steps, NoOp, IInv, TypeOK, AtStep, Others
<1>4. /\ new \in Nat /\ nextId' = new + 1 /\ new + 1 \in 1..(MaxId + 1)
      /\ ~Exists(new) /\ reports[new] = 0
      /\ \A d \in Calls : Uploader(d) \/ Deleter(d) => op[d].id # new
  <2>1. nextId' = nextId + 1 /\ nextId \in 1..MaxId
    BY DEF InsertRow, Ids
  <2>2. ~Exists(new) /\ reports[new] = 0
    BY <1>1, <2>1, IdAssumption DEF IInv, TypeOK, DeletionsOwn
  <2>3. ASSUME NEW d \in Calls, Uploader(d) \/ Deleter(d)
        PROVE  op[d].id # new
    <3>1. op[d].id \in Ids /\ op[d].id < nextId
      BY <2>3 DEF IInv, TypeOK, Uploader, Deleter
    <3>2. PICK id \in Ids : id = op[d].id
      BY <3>1
    <3> QED  BY <1>1, <3>1, <3>2, IdTypes
  <2> QED  BY <1>1, <2>1, <2>2, <2>3, IdAssumption
<1>5. /\ [record |-> record, thumb |-> FALSE] \in Row
      /\ rows' = [rows EXCEPT ![new] = [record |-> record, thumb |-> FALSE]]
      /\ UNCHANGED <<bodies, thumbs, cut, reports>>
  BY <1>1 DEF InsertRow, Row, files, history
<1>6. TypeOK'
  <2>1. rows' \in [Ids -> Row \cup {NoRow}]
    BY <1>5 DEF IInv, TypeOK
  <2>2. \A id \in Ids : id >= nextId' => ~Exists(id)' /\ bodies'[id] = "none" /\ thumbs'[id] = "none"
    BY <1>1, <1>4, <1>5, IdTypes DEF IInv, TypeOK, Exists
  <2>3. ASSUME NEW d \in Calls, step'[d] \notin {"idle", "sweep"}
        PROVE  op'[d].id \in Ids /\ op'[d].id < nextId'
    <3>1. CASE d = c
      BY <1>3, <1>4, <3>1
    <3>2. CASE d # c
      <4>1. PICK id \in Ids : id = op[d].id /\ op'[d].id = id /\ id < nextId
        BY <1>3, <2>3, <3>2 DEF AtStep, Others, IInv, TypeOK
      <4> QED  BY <1>1, <1>4, <4>1, IdTypes
    <3> QED  BY <3>1, <3>2
  <2> QED  BY <1>3, <1>4, <1>5, <2>1, <2>2, <2>3 DEF AtStep, IInv, TypeOK
<1>7. UploadsOwn'
  <2>1. ASSUME NEW d \in Calls, Uploader(d)', d # c
        PROVE  Uploader(d) /\ op'[d] = op[d] /\ op[d].id # new /\ op[d].id \in Ids
    BY <1>3, <1>4, <2>1 DEF AtStep, Others, Uploader, IInv, TypeOK
  <2>2. \A d, e \in Calls : Uploader(d)' /\ Uploader(e)' /\ op'[d].id = op'[e].id => d = e
    BY <1>3, <2>1 DEF IInv, UploadsOwn
  <2>3. ASSUME NEW d \in Calls, Uploader(d)'
        PROVE  /\ op'[d].record = NoRecord
               /\ rows'[op'[d].id] # NoRow =>
                    /\ ~rows'[op'[d].id].thumb
                    /\ step'[d] = "fillBody" => bodies'[op'[d].id] = "partial"
                    /\ step'[d] = "flag" => thumbs'[op'[d].id] = "whole"
    <3>1. CASE d = c
      BY <1>3, <1>5, <3>1 DEF AtStep, IInv, TypeOK
    <3>2. CASE d # c
      <4>1. PICK id \in Ids : id = op[d].id /\ op'[d].id = id /\ id # new
        BY <2>1, <2>3, <3>2
      <4>2. step'[d] = step[d] /\ op'[d].record = op[d].record /\ rows'[id] = rows[id]
        BY <1>3, <1>5, <3>2, <4>1 DEF AtStep, Others, IInv, TypeOK
      <4> QED  BY <1>5, <2>1, <2>3, <3>2, <4>1, <4>2 DEF IInv, UploadsOwn, Exists
    <3> QED  BY <3>1, <3>2
  <2> QED  BY <2>2, <2>3 DEF UploadsOwn, Exists
<1>8. DeletionsOwn'
  <2>1. \A id \in Ids : Exists(id)' \/ id >= nextId' => reports'[id] = 0
    BY <1>1, <1>4, <1>5, IdTypes DEF IInv, TypeOK, DeletionsOwn, Exists
  <2>2. ASSUME NEW d \in Calls, Deleter(d)'
        PROVE  Deleter(d) /\ op'[d] = op[d] /\ op[d].id # new
    BY <1>3, <1>4, <2>2 DEF AtStep, Others, Deleter
  <2> QED  BY <1>5, <2>1, <2>2 DEF IInv, TypeOK, DeletionsOwn, Exists
<1>9. \A d \in Calls : SweepCovers(d)'
  <2>1. SweepCovers(c)'
    BY <1>3 DEF SweepCovers, AtStep
  <2>2. \A id \in Ids : Exists(id)' /\ id < nextId => Exists(id) /\ rows'[id].record = rows[id].record
    BY <1>1, <1>4, <1>5, IdTypes DEF Exists
  <2>3. nextId' \in Nat /\ nextId' >= nextId
    BY <1>1, <1>4
  <2> QED  BY <1>3, <2>1, <2>2, <2>3, SweepsKeep DEF AtStep
<1>10. ThumbnailThere' /\ DeletedOnce'
  BY <1>5 DEF IInv, TypeOK, ThumbnailThere, DeletedOnce, Exists
<1>11. BodyThere'
  <2> SUFFICES ASSUME NEW id \in Ids, Exists(id)'
               PROVE  bodies'[id] = "whole" \/ id \in cut' \/ \E d \in Calls : Uploading(d, id)'
    BY DEF BodyThere
  <2>1. CASE id = new
    BY <1>3, <2>1 DEF AtStep, Uploading
  <2>2. CASE id # new
    <3>1. Exists(id)
      BY <1>5, <2>2 DEF IInv, TypeOK, Exists
    <3>2. ASSUME NEW d \in Calls, Uploading(d, id) PROVE Uploading(d, id)'
      BY <1>2, <1>3, <3>2 DEF AtStep, Others, Uploading, Uploader
    <3> QED  BY <1>5, <3>1, <3>2 DEF IInv, BodyThere
  <2> QED  BY <2>1, <2>2
<1> QED  BY <1>6, <1>7, <1>8, <1>9, <1>10, <1>11 DEF IInv

-----------------------------------------------------------------------------
LEMMA NextInv == IInv /\ [Next]_vars => IInv'
<1> SUFFICES ASSUME IInv, [Next]_vars PROVE IInv'
  OBVIOUS
<1>1. ASSUME Next PROVE IInv'
  <2>1. PICK c \in Calls :
          \/ \E record \in Records : InsertRow(c, record) \/ SweepBegin(c, record)
          \/ CreateBody(c) \/ FillBody(c) \/ BodyFails(c) \/ Cleanup(c)
          \/ NoThumbnail(c) \/ WriteThumb(c) \/ SetFlag(c)
          \/ \E id \in Ids : Delete(c, id)
          \/ DeleteRow(c) \/ AlreadyGone(c) \/ DeleteBody(c) \/ DeleteThumb(c)
          \/ SweepNext(c) \/ SweepSkip(c) \/ SweepEnd(c)
          \/ CutShort(c)
    BY <1>1 DEF Next
  <2>2. ASSUME SweepNext(c) PROVE IInv'
    <3>1. PICK id \in op[c].left : Get(c, id) /\ step[c] = "sweep"
      BY <2>2 DEF SweepNext
    <3>2. op[c].left \subseteq Ids
      BY DEF IInv, TypeOK, Operation
    <3>3. PICK i \in Ids : i = id
      BY <3>2
    <3> QED  BY <3>1, <3>3, DeleteKeeps
  <2> QED  BY <2>1, <2>2, InsertRowKeeps, SweepBeginKeeps, CreateBodyKeeps, FillBodyKeeps,
             BodyFailsKeeps, CleanupKeeps, NoThumbnailKeeps, WriteThumbKeeps, SetFlagKeeps,
             DeleteKeeps, DeleteRowKeeps, AlreadyGoneKeeps, DeleteBodyKeeps, DeleteThumbKeeps,
             SweepSkipKeeps, SweepEndKeeps, CutShortKeeps
<1>2. ASSUME UNCHANGED vars PROVE IInv'
  BY <1>2
     DEF vars, IInv, TypeOK, UploadsOwn, DeletionsOwn, SweepCovers, Uploader,
         Deleter,
             ThumbnailThere, BodyThere, DeletedOnce, Uploading, Exists
<1> QED  BY <1>1, <1>2

LEMMA Invariant == Spec => []IInv
BY InitInv, NextInv, PTL DEF Spec

-----------------------------------------------------------------------------
(* Rows, files and calls keep their types, however many calls overlap. *)
THEOREM TypeCorrect == Spec => []TypeOK
<1>1. IInv => TypeOK
  BY DEF IInv
<1> QED  BY <1>1, Invariant, PTL

(* has_thumbnail is set only while there is a complete thumbnail: an upload *)
(* sets it, and a deletion takes the file, only in steps that own both.     *)
THEOREM ThumbnailsAreThere == Spec => []ThumbnailThere
<1>1. IInv => ThumbnailThere
  BY DEF IInv
<1> QED  BY <1>1, Invariant, PTL

(* A row whose upload is over has its body, unless the upload was cut short *)
(* or could not clean up.                                                   *)
THEOREM BodiesAreThere == Spec => []BodyThere
<1>1. IInv => BodyThere
  BY DEF IInv
<1> QED  BY <1>1, Invariant, PTL

(* At most one deletion of an attachment reports success. *)
THEOREM DeletionsReportOnce == Spec => []DeletedOnce
<1>1. IInv => DeletedOnce
  BY DEF IInv
<1> QED  BY <1>1, Invariant, PTL

(* A sweep that ends well has left nothing its record had when it began.    *)
THEOREM SweepsAreComplete == Spec => SweepComplete
<1>1. ASSUME IInv, NEW c \in Calls, step[c] = "sweep", op[c].left = {}, NEW id \in Of(op[c].record)
      PROVE  id >= op[c].horizon
  <2>1. id \in Ids /\ Exists(id) /\ rows[id].record = op[c].record
    BY <1>1 DEF Of
  <2>2. rows[id].record \in Records
    BY <1>1, <2>1 DEF IInv, TypeOK, Exists, Row
  <2>3. op[c].record # NoRecord
    BY <2>1, <2>2, RowAssumption
  <2>4. id \in Int /\ op[c].horizon \in Int
    BY <1>1, <2>1, IdTypes DEF IInv, TypeOK, Operation
  <2> QED  BY <1>1, <2>1, <2>3, <2>4 DEF IInv, SweepCovers
<1>2. IInv =>
        \A c \in Calls :
          step[c] = "sweep" /\ op[c].left = {} /\ step'[c] = "idle"
            => \A id \in Of(op[c].record) : id >= op[c].horizon
  BY <1>1
<1> QED  BY <1>2, Invariant, PTL DEF SweepComplete

=============================================================================
