----------------------------- MODULE ItemsStore -----------------------------
(***************************************************************************)
(* What core/src/items.rs promises its callers: each create, update,       *)
(* delete and import is ONE step of the table `items`, or none. An import  *)
(* with a row that is invalid or names a missing id changes nothing. It    *)
(* reports its invalid rows; only if there are none, the rows without an   *)
(* item (the doc comment at 304-308 promises both at once, see             *)
(* Items!EveryFailingRow). Every change is announced to the lists before   *)
(* its caller is answered, unless the call is cut short.                   *)
(***************************************************************************)
EXTENDS ItemRows

VARIABLES
    items,          \* the table, NoItem where there is no row
    used,           \* the largest id handed out (AUTOINCREMENT)
    asked,          \* the request of each call and its outcome
    unannounced,    \* the table has changed since the last event
    lost            \* a call was cut between a change and its event

vars == <<items, used, asked, unannounced, lost>>

-----------------------------------------------------------------------------
(* The rows 1..k of a batch, applied to table t whose counter is u         *)

Target(rows, u, n) == IF rows[n].id = NoId THEN u + Cardinality(Inserts(rows, n)) ELSE rows[n].id

(* The row names an id that neither the table nor an earlier row provides. *)
Missing(rows, t, u, n) ==
    /\ rows[n].id # NoId
    /\ t[rows[n].id] = NoItem
    /\ \A m \in Inserts(rows, n) : Target(rows, u, m) # rows[n].id

Writers(rows, t, u, k, i) == {n \in 1..k : Target(rows, u, n) = i /\ ~Missing(rows, t, u, n)}

(* The last row that writes an id wins. *)
After(rows, t, u, k) ==
    [i \in Ids |->
        LET writers == Writers(rows, t, u, k, i)
        IN  IF writers = {} THEN t[i]
            ELSE Stored(rows[CHOOSE n \in writers : \A m \in writers : m <= n].content)]

MissingRows(rows, t, u, k) == {n \in 1..k : Missing(rows, t, u, n)}

-----------------------------------------------------------------------------
Idle == [phase |-> "idle", op |-> "none", rows |-> <<>>, result |-> "none", errors |-> {}]

Answered(result, errors) ==
    [phase |-> "answered", op |-> "none", rows |-> <<>>, result |-> result, errors |-> errors]

Ask(c, request) ==
    /\ asked[c] = Idle
    /\ asked' = [asked EXCEPT ![c] = [phase |-> "asked", op |-> request.op, rows |-> request.rows,
                                      result |-> "none", errors |-> {}]]
    /\ UNCHANGED <<items, used, unannounced, lost>>

Answer(c, result, errors) == asked' = [asked EXCEPT ![c] = Answered(result, errors)]

(* Refused as a whole, or nothing to do *)
Refuse(c) ==
    LET req == asked[c]
    IN  /\ req.phase = "asked"
        /\ \/ req.op \in {"create", "update"} /\ InvalidRows(req.rows) # {} /\ Answer(c, "invalid", {})
           \/ req.op = "import" /\ Len(req.rows) > MaxImportRows /\ Answer(c, "invalid", {})
           \/ req.op = "import" /\ req.rows = <<>> /\ Answer(c, "ok", {})
        /\ UNCHANGED <<items, used, unannounced, lost>>

(* An import reports its bad rows: the invalid ones, or else those without *)
(* an item; an update or a delete of a missing item is not found.          *)
Report(c) ==
    LET req == asked[c]
        missing == MissingRows(req.rows, items, used, Len(req.rows))
    IN  /\ req.phase = "asked"
        /\ \/ /\ req.op = "import" /\ InvalidRows(req.rows) # {} /\ Len(req.rows) <= MaxImportRows
              /\ Answer(c, "rejected", InvalidRows(req.rows))
           \/ /\ req.op = "import" /\ InvalidRows(req.rows) = {} /\ missing # {}
              /\ Len(req.rows) <= MaxImportRows
              /\ Answer(c, "rejected", missing)
           \/ /\ req.op \in {"update", "delete"} /\ missing # {}
              /\ Answer(c, "not_found", {})
        /\ UNCHANGED <<items, used, unannounced, lost>>

(* The one step in which a call changes the table *)
Perform(c) ==
    LET req == asked[c]
        rows == req.rows
    IN  /\ req.phase = "asked"
        /\ rows # <<>> /\ MissingRows(rows, items, used, Len(rows)) = {}
        /\ \/ /\ req.op = "delete"
              /\ items' = [items EXCEPT ![rows[1].id] = NoItem]
              /\ used' = used
           \/ /\ req.op \in {"create", "update", "import"}
              /\ InvalidRows(rows) = {}
              /\ req.op = "import" => Len(rows) <= MaxImportRows
              /\ used' = used + Cardinality(Inserts(rows, Len(rows))) /\ used' <= MaxId
              /\ items' = After(rows, items, used, Len(rows))
        /\ asked' = [asked EXCEPT ![c].phase = "changed"]
        /\ unannounced' = TRUE
        /\ lost' = lost

Announce(c) ==
    /\ asked[c].phase = "changed"
    /\ Answer(c, "ok", {})
    /\ unannounced' = FALSE /\ lost' = FALSE
    /\ UNCHANGED <<items, used>>

(* Storage may refuse any call; then it has changed nothing.               *)
Fail(c) ==
    /\ asked[c].phase = "asked"
    /\ Answer(c, "failed", {})
    /\ UNCHANGED <<items, used, unannounced, lost>>

Reply(c) ==
    /\ asked[c].phase = "answered"
    /\ asked' = [asked EXCEPT ![c] = Idle]
    /\ UNCHANGED <<items, used, unannounced, lost>>

(* Some calls are dropped where they are: a caller has gone, or all of them *)
(* because the process has ended.                                          *)
Cut(S) ==
    /\ \E c \in S : asked[c] # Idle
    /\ asked' = [c \in Calls |-> IF c \in S THEN Idle ELSE asked[c]]
    /\ lost' = (lost \/ \E c \in S : asked[c].phase = "changed")
    /\ UNCHANGED <<items, used, unannounced>>

Init ==
    /\ items = [i \in Ids |-> NoItem] /\ used = 0
    /\ asked = [c \in Calls |-> Idle]
    /\ unannounced = FALSE /\ lost = FALSE

Next ==
    \/ \E c \in Calls :
         \/ \E request \in Requests : Ask(c, request)
         \/ Refuse(c) \/ Report(c) \/ Perform(c) \/ Announce(c) \/ Fail(c) \/ Reply(c)
    \/ \E S \in SUBSET Calls : Cut(S)

Spec == Init /\ [][Next]_vars

=============================================================================
