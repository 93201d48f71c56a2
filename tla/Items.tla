------------------------------- MODULE Items --------------------------------
(***************************************************************************)
(* The items service (core/src/items.rs): create, update, delete and the   *)
(* bulk import, statement by statement on one SQLite database, and list,   *)
(* whose rows and total come from two statements.                          *)
(*                                                                         *)
(* A write statement on its own is one transaction. An import is one of    *)
(* several statements: from its first one it holds the database's only     *)
(* write lock, works on its own view of the table and lets readers see the *)
(* last commit. An error, a request that is dropped and the end of the     *)
(* process roll it back.                                                   *)
(***************************************************************************)
EXTENDS ItemRows

CONSTANTS
    Nobody,         \* holds no lock
    Readers,        \* list calls that can be under way at the same time
    Matches,        \* filters of a list: sets of items
    Offsets, Limit  \* the pages a list asks for

ASSUME CallsAssumption == Nobody \notin Calls /\ Limit \in Nat /\ Offsets \subseteq Nat

VARIABLES
    items, used,    \* the committed table and its AUTOINCREMENT counter
    tx,             \* the open write transaction: owner, its table, its counter
    call,           \* each writing call
    read,           \* each list call
    unannounced,    \* history: the table has changed since the last event
    lost            \* history: a call was cut between a change and its event

vars == <<items, used, tx, call, read, unannounced, lost>>

-----------------------------------------------------------------------------
Idle == [pc |-> "idle", op |-> "none", rows |-> <<>>, row |-> 1,
         created |-> 0, updated |-> 0, errors |-> {}, result |-> "none"]

NoTx == [owner |-> Nobody, items |-> [i \in Ids |-> NoItem], used |-> 0]

Goto(c, label) == call' = [call EXCEPT ![c].pc = label]

Answer(c, result, errors) ==
    call' = [call EXCEPT ![c] = [Idle EXCEPT !.pc = "answered", !.result = result, !.errors = errors]]

Writable(c) == tx.owner \in {Nobody, c}

(* Every commit makes a list that is between its two statements torn.      *)
Commit(table, counter) ==
    /\ items' = table /\ used' = counter
    /\ unannounced' = TRUE
    /\ read' = [r \in Readers |-> [read[r] EXCEPT !.raced = read[r].pc # "idle"]]
    /\ lost' = lost

NoCommit == UNCHANGED <<items, used, read, unannounced, lost>>

Arrive(c, request) ==
    /\ call[c].pc = "idle"
    /\ call' = [call EXCEPT ![c] = [Idle EXCEPT !.pc = "check", !.op = request.op, !.rows = request.rows]]
    /\ NoCommit /\ UNCHANGED tx

-----------------------------------------------------------------------------
(* create, update, delete: validate, one statement, announce               *)

InvalidInput(c) ==
    /\ call[c].pc = "check" /\ call[c].op \in {"create", "update"}
    /\ InvalidRows(call[c].rows) # {}
    /\ Answer(c, "invalid", {})
    /\ NoCommit /\ UNCHANGED tx

Statement(c, op) ==
    /\ call[c].pc = "check" /\ call[c].op = op
    /\ Writable(c)
    /\ UNCHANGED tx

Create(c) ==
    LET row == call[c].rows[1]
    IN  /\ Statement(c, "create") /\ Valid(row.content) /\ used < MaxId
        /\ Commit([items EXCEPT ![used + 1] = Stored(row.content)], used + 1)
        /\ Goto(c, "notify")

Update(c) ==
    LET row == call[c].rows[1]
    IN  /\ Statement(c, "update") /\ Valid(row.content)
        /\ items[row.id] # NoItem
        /\ Commit([items EXCEPT ![row.id] = Stored(row.content)], used)
        /\ Goto(c, "notify")

Delete(c) ==
    LET row == call[c].rows[1]
    IN  /\ Statement(c, "delete")
        /\ items[row.id] # NoItem
        /\ Commit([items EXCEPT ![row.id] = NoItem], used)
        /\ Goto(c, "notify")

NotFound(c) ==
    /\ \/ Statement(c, "update") /\ Valid(call[c].rows[1].content)
       \/ Statement(c, "delete")
    /\ items[call[c].rows[1].id] = NoItem
    /\ Answer(c, "not_found", {})
    /\ NoCommit

-----------------------------------------------------------------------------
(* import *)

TooMany(c) ==
    /\ call[c].pc = "check" /\ call[c].op = "import"
    /\ Len(call[c].rows) > MaxImportRows
    /\ Answer(c, "invalid", {})
    /\ NoCommit /\ UNCHANGED tx

NothingToImport(c) ==
    /\ call[c].pc = "check" /\ call[c].op = "import"
    /\ Len(call[c].rows) <= MaxImportRows
    /\ call[c].rows = <<>>
    /\ Answer(c, "ok", {})
    /\ NoCommit /\ UNCHANGED tx

(* Every row is validated before a transaction is opened.                  *)
RejectInvalid(c) ==
    /\ call[c].pc = "check" /\ call[c].op = "import"
    /\ Len(call[c].rows) <= MaxImportRows
    /\ InvalidRows(call[c].rows) # {}
    /\ Answer(c, "rejected", InvalidRows(call[c].rows))
    /\ NoCommit /\ UNCHANGED tx

Begin(c) ==
    /\ call[c].pc = "check" /\ call[c].op = "import"
    /\ Len(call[c].rows) <= MaxImportRows
    /\ call[c].rows # <<>> /\ InvalidRows(call[c].rows) = {}
    /\ Goto(c, "rows")
    /\ NoCommit /\ UNCHANGED tx

(* The transaction's view; BEGIN is deferred, so the first statement takes *)
(* the lock and reads what was committed last.                             *)
View(c) == IF tx.owner = c THEN tx ELSE [owner |-> c, items |-> items, used |-> used]

(* A slip: the statement runs on the pool instead of on the transaction.   *)
UpdateRowOnPool(c, row) ==
    IF items[row.id] = NoItem
    THEN /\ call' = [call EXCEPT ![c].row = @ + 1, ![c].errors = @ \cup {call[c].row}]
         /\ tx' = View(c)
         /\ NoCommit
    ELSE /\ call' = [call EXCEPT ![c].row = @ + 1, ![c].updated = @ + 1]
         /\ Commit([items EXCEPT ![row.id] = Stored(row.content)], used)
         /\ tx' = View(c)

UpdateRow(c, row) ==
    LET view == View(c)
    IN  /\ IF view.items[row.id] = NoItem
           THEN /\ call' = [call EXCEPT ![c].row = @ + 1, ![c].errors = @ \cup {call[c].row}]
                /\ tx' = view
           ELSE /\ call' = [call EXCEPT ![c].row = @ + 1, ![c].updated = @ + 1]
                /\ tx' = [view EXCEPT !.items[row.id] = Stored(row.content)]
        /\ NoCommit

InsertRow(c, row) ==
    LET view == View(c)
    IN  /\ view.used < MaxId
        /\ call' = [call EXCEPT ![c].row = @ + 1, ![c].created = @ + 1]
        /\ tx' = [view EXCEPT !.items[view.used + 1] = Stored(row.content), !.used = @ + 1]
        /\ NoCommit

ImportRow(c) ==
    /\ call[c].pc = "rows" /\ call[c].row <= Len(call[c].rows)
    /\ Writable(c)
    /\ LET row == call[c].rows[call[c].row]
       IN  IF row.id = NoId THEN InsertRow(c, row) ELSE UpdateRow(c, row)

RollBack(c) ==
    /\ call[c].pc = "rows" /\ call[c].row > Len(call[c].rows)
    /\ call[c].errors # {}
    /\ tx' = NoTx
    /\ Answer(c, "rejected", call[c].errors)
    /\ NoCommit

(* A slip: the lists are not told of an import. *)
CommitImportSilently(c) ==
    /\ call[c].pc = "rows" /\ call[c].row > Len(call[c].rows)
    /\ call[c].errors = {}
    /\ Commit(tx.items, tx.used)
    /\ tx' = NoTx
    /\ Answer(c, "ok", {})

CommitImport(c) ==
    /\ call[c].pc = "rows" /\ call[c].row > Len(call[c].rows)
    /\ call[c].errors = {}
    /\ Commit(tx.items, tx.used)
    /\ tx' = NoTx
    /\ Goto(c, "notify")

-----------------------------------------------------------------------------
(* How every call ends *)

(* notify_changed, after the commit *)
Notify(c) ==
    /\ call[c].pc = "notify"
    /\ Answer(c, "ok", {})
    /\ unannounced' = FALSE /\ lost' = FALSE
    /\ UNCHANGED <<items, used, tx, read>>

(* The call has been validated and turns to the database.                  *)
UsesStorage(c) ==
    \/ call[c].pc = "rows"
    \/ /\ call[c].pc = "check"
       /\ call[c].op # "delete" => InvalidRows(call[c].rows) = {}
       /\ Len(call[c].rows) \in 1..(IF call[c].op = "import" THEN MaxImportRows ELSE 1)

(* Storage refuses a statement, BEGIN or COMMIT: the transaction goes with  *)
(* the error.                                                              *)
Fail(c) ==
    /\ UsesStorage(c)
    /\ tx' = IF tx.owner = c THEN NoTx ELSE tx
    /\ Answer(c, "failed", {})
    /\ NoCommit

Reply(c) ==
    /\ call[c].pc = "answered"
    /\ call' = [call EXCEPT ![c] = Idle]
    /\ NoCommit /\ UNCHANGED tx

(* Requests are dropped where they are: by their clients, or all of them    *)
(* by the end of the process. A statement that was sent is carried out.    *)
Cut(S) ==
    /\ \E c \in S : call[c].pc # "idle"
    /\ call' = [c \in Calls |-> IF c \in S THEN Idle ELSE call[c]]
    /\ tx' = IF tx.owner \in S THEN NoTx ELSE tx
    /\ lost' = (lost \/ \E c \in S : call[c].pc = "notify")
    /\ UNCHANGED <<items, used, read, unannounced>>

-----------------------------------------------------------------------------
(* list: SELECT rows, then SELECT COUNT( * ), each sees the last commit    *)

NotReading == [match |-> {}, offset |-> 0, rows |-> {}, total |-> 0, pc |-> "idle", raced |-> FALSE]

Matching(match) == {i \in Ids : items[i] \in match}

(* The page of the matching rows, in the order of their ids *)
PageOf(match, offset) ==
    {i \in Matching(match) : Cardinality({j \in Matching(match) : j < i}) \in offset..(offset + Limit - 1)}

ListRows(r, match, offset) ==
    /\ read[r].pc = "idle"
    /\ read' = [read EXCEPT ![r] = [match |-> match, offset |-> offset, rows |-> PageOf(match, offset),
                                    total |-> 0, pc |-> "count", raced |-> FALSE]]
    /\ UNCHANGED <<items, used, tx, call, unannounced, lost>>

(* A slip: the count does not share the filters of the rows.               *)
CountEverything(r) ==
    /\ read[r].pc = "count"
    /\ read' = [read EXCEPT ![r].pc = "answered", ![r].total = Cardinality({i \in Ids : items[i] # NoItem})]
    /\ UNCHANGED <<items, used, tx, call, unannounced, lost>>

CountRows(r) ==
    /\ read[r].pc = "count"
    /\ read' = [read EXCEPT ![r].pc = "answered", ![r].total = Cardinality(Matching(read[r].match))]
    /\ UNCHANGED <<items, used, tx, call, unannounced, lost>>

ListDone(r) ==
    /\ read[r].pc = "answered"
    /\ read' = [read EXCEPT ![r] = NotReading]
    /\ UNCHANGED <<items, used, tx, call, unannounced, lost>>

-----------------------------------------------------------------------------
Init ==
    /\ items = [i \in Ids |-> NoItem] /\ used = 0
    /\ tx = NoTx
    /\ call = [c \in Calls |-> Idle]
    /\ read = [r \in Readers |-> NotReading]
    /\ unannounced = FALSE /\ lost = FALSE

Next ==
    \/ \E c \in Calls :
         \/ \E request \in Requests : Arrive(c, request)
         \/ InvalidInput(c) \/ Create(c) \/ Update(c) \/ Delete(c) \/ NotFound(c)
         \/ TooMany(c) \/ NothingToImport(c) \/ RejectInvalid(c) \/ Begin(c)
         \/ ImportRow(c) \/ RollBack(c) \/ CommitImport(c)
         \/ Notify(c) \/ Fail(c) \/ Reply(c)
    \/ \E S \in SUBSET Calls : Cut(S)
    \/ \E r \in Readers :
         \/ \E match \in Matches, offset \in Offsets : ListRows(r, match, offset)
         \/ CountRows(r) \/ ListDone(r)

Spec == Init /\ [][Next]_vars

-----------------------------------------------------------------------------
(* The type invariant. The transaction belongs to an import that has run a *)
(* statement; a call that is about to announce has no transaction.         *)
TypeOK ==
    /\ items \in [Ids -> Item \cup {NoItem}] /\ used \in 0..MaxId
    /\ tx \in [owner : Calls \cup {Nobody}, items : [Ids -> Item \cup {NoItem}], used : 0..MaxId]
    /\ \A c \in Calls :
         /\ call[c].pc \in {"idle", "check", "rows", "notify", "answered"}
         /\ tx.owner = c <=> call[c].pc = "rows" /\ call[c].row > 1
    /\ unannounced \in BOOLEAN /\ lost \in BOOLEAN

Phase(pc) == CASE pc \in {"check", "rows"} -> "asked" [] pc = "notify" -> "changed" [] OTHER -> pc

Asked == [c \in Calls |->
    [phase |-> Phase(call[c].pc), op |-> call[c].op, rows |-> call[c].rows, result |-> call[c].result,
     errors |-> IF call[c].pc = "answered" THEN call[c].errors ELSE {}]]

Store == INSTANCE ItemsStore WITH asked <- Asked

(* The service keeps the promise of ItemsStore: with other calls between    *)
(* its statements, with errors, dropped requests and crashes, every write  *)
(* and every import is one step of the table or none, answers with what    *)
(* that step found, and is announced after its commit and before its answer *)
(* ("what you previewed is what you get", items.rs:329).                   *)
AtomicStore == Store!Spec

(* "with every failing row in `errors`", be it invalid or without an item   *)
(* (items.rs:304-308). Not of a batch that has rows of both kinds: its      *)
(* invalid rows end the import before any id is looked up (340-361).       *)
EveryFailingRow ==
    [][\A c \in Calls :
         call[c].pc # "answered" /\ call'[c].result = "rejected" =>
            LET rows == call[c].rows
            IN  call'[c].errors = InvalidRows(rows) \cup Store!MissingRows(rows, items, used, Len(rows))]_vars

(* A change that no event has told the lists of has a call that is about to *)
(* announce it, unless a call was cut between its commit and notify_changed. *)
SilentOnlyIfCut == unannounced => lost \/ \E c \in Calls : call[c].pc = "notify"

(* A list whose two statements no commit has separated answers with a page  *)
(* as long as its total promises (list reads outside a transaction).        *)
TornOnlyInRace ==
    \A r \in Readers :
        read[r].pc = "answered" /\ ~read[r].raced =>
            LET rest == read[r].total - read[r].offset
            IN  Cardinality(read[r].rows) = IF rest < 0 THEN 0 ELSE IF rest > Limit THEN Limit ELSE rest

=============================================================================
