----------------------------- MODULE ItemsPage -----------------------------
(***************************************************************************)
(* How a change of the items reaches the page that lists them: the         *)
(* server's broadcast channel, the client's event stream (the SSE stream   *)
(* of a browser; in the desktop the forwarding task, whose stream never    *)
(* ends), invalidate(), and the items page, whose toggle mounts either the *)
(* client grid (a ListResource) or the server grid (a WindowedListResource *)
(* driven by the window BantoGrid computes from the scroll position).      *)
(*                                                                         *)
(* A JavaScript task and the effects flushed at its end are one step; the  *)
(* server may answer requests in any order and at any time.  `missed' is   *)
(* auxiliary: the client was not told, and will not be, of a change.       *)
(***************************************************************************)
EXTENDS ListResources, Sequences

CONSTANTS Filters,      \* the parameters the user may choose, AllRows included
          Totals,       \* the row counts a filter may have
          Scrolls,      \* the first rows the user may scroll to
          Viewport,     \* rows the grid shows
          Initial,      \* rows the page asks for when mounted (100)
          Capacity,     \* of the broadcast channel (64)
          MaxChanges,   \* bound: changes of the table
          MaxParams,    \* bound: no new parameters past this generation
          MaxFailures   \* bound: requests that fail

VARIABLES version, totals,          \* the items table
          queue, stream, missed,    \* the events the client has yet to read
          failures,                 \* requests that failed so far
          page, list, windowed,     \* what is mounted, and its resources
          chosen,                   \* the filters in serverGridState
          grid                      \* scroll, reported, tracking

vars == <<version, totals, queue, stream, missed, failures,
          page, list, windowed, chosen, grid>>
server == <<version, totals>>
feed == <<queue, stream, missed>>
view == <<page, list, windowed, chosen, grid>>

Lesser(m, n) == IF m < n THEN m ELSE n

\* The rows BantoGrid renders.  The browser never scrolls past the last row.
WindowOf(total, scroll) ==
    IF total = 0 THEN <<0, 0>>
    ELSE LET first == Lesser(scroll, total - 1)
         IN <<first, Lesser(total, first + Viewport)>>

NoGrid == [scroll |-> 0, reported |-> <<0, 0>>, tracking |-> FALSE]

Whole == <<0, Initial>>

\* All that is ever asked for; Blocks has their blocks.
Ranges ==
    {Whole, <<0, 0>>} \cup
    {WindowOf(total, scroll) : total \in Totals \cup {0}, scroll \in Scrolls \cup {0}}

ASSUME ListsAssumption ==
    /\ AllRows \in Filters /\ Totals \subseteq Nat /\ Capacity \in Nat \ {0}
    /\ \A range \in Ranges : BlocksFor(range) \subseteq Blocks
----------------------------------------------------------------------------
(* Mounting a grid.  The server grid's child effect reports the empty      *)
(* window first, then the page's effect asks for the initial range and     *)
(* thereby comes to depend on the parameters its request reads.  The       *)
(* filters are the page's and outlive the toggle; the new resource begins  *)
(* without any.                                                            *)

MountClient ==
    /\ page' = "client" /\ list' = Load(NewList)
    /\ windowed' = NewWindowed /\ grid' = NoGrid

MountServer ==
    /\ page' = "server" /\ list' = NewList
    /\ windowed' = EnsureRange(EnsureRange(NewWindowed, <<0, 0>>), Whole)
    /\ grid' = [NoGrid EXCEPT !.tracking = TRUE]

Toggle ==
    /\ IF page = "client" THEN MountServer ELSE MountClient
    /\ missed' = FALSE
    /\ UNCHANGED <<server, queue, stream, failures, chosen>>

Init ==
    /\ version = 0 /\ totals \in [Filters -> Totals]
    /\ queue = <<>> /\ stream = "up" /\ missed = FALSE
    /\ failures = 0
    /\ page = "server" /\ list = NewList /\ chosen = AllRows
    /\ windowed = EnsureRange(EnsureRange(NewWindowed, <<0, 0>>), Whole)
    /\ grid = [NoGrid EXCEPT !.tracking = TRUE]
----------------------------------------------------------------------------
(* The table changes and is announced; the channel keeps the newest        *)
(* Capacity events for a subscriber, a stream that is down gets none.      *)

RefusesTheNewest(q, e) == IF Len(q) < Capacity THEN Append(q, e) ELSE q

Lag(q, e) ==
    IF Len(q) < Capacity THEN Append(q, e) ELSE Append(Tail(q), e)

Untold(q) == \A i \in 1 .. Len(q) : q[i] # "items"

Announce(e) ==
    IF stream = "down"
    THEN missed' = (missed \/ e = "items") /\ UNCHANGED <<queue, stream>>
    ELSE /\ queue' = Lag(queue, e)
         /\ missed' = (missed \/ (~Untold(queue) /\ Untold(queue')))
         /\ UNCHANGED stream

Change ==
    /\ version < MaxChanges
    /\ version' = version + 1 /\ totals' \in [Filters -> Totals]
    /\ Announce("items")
    /\ UNCHANGED <<failures, view>>

\* Attachments are announced on the same channel.
OtherChange ==
    Announce("other") /\ UNCHANGED <<server, failures, view>>

\* The client reconnects by itself, and nothing is replayed.
Disconnect ==
    /\ stream = "up" /\ stream' = "down" /\ queue' = <<>>
    /\ missed' = (missed \/ ~Untold(queue))
    /\ UNCHANGED <<server, failures, view>>

Reconnect ==
    /\ stream = "down" /\ stream' = "up"
    /\ UNCHANGED <<server, queue, missed, failures, view>>
----------------------------------------------------------------------------
(* invalidate('items').  The page also calls it when an own edit succeeded: *)
(* to the resources that is one more event.                                *)

Invalidate ==
    /\ IF page = "client"
       THEN list' = Load(list) /\ UNCHANGED windowed
       ELSE windowed' = Refresh(windowed) /\ UNCHANGED list
    /\ missed' = FALSE
    /\ UNCHANGED <<page, chosen, grid>>

Deliver ==
    /\ queue # <<>> /\ queue' = Tail(queue)
    /\ IF Head(queue) = "items" THEN Invalidate
       ELSE UNCHANGED <<missed, view>>
    /\ UNCHANGED <<server, stream, failures>>

----------------------------------------------------------------------------
(* Requests: the server computes an answer, the client receives it.        *)

Answer(params) == [version |-> version, total |-> totals[params]]

AnswerLoad(load, answer) ==
    /\ load.answer = Waiting
    /\ list' = [list EXCEPT
                  !.loads = (@ \ {load}) \cup {[load EXCEPT !.answer = answer]}]
    /\ UNCHANGED <<server, feed, page, windowed, chosen, grid>>

AnswerFetch(f, answer) ==
    /\ f.answer = Waiting
    /\ windowed' = [windowed EXCEPT
                      !.fetches = (@ \ {f}) \cup {[f EXCEPT !.answer = answer]}]
    /\ UNCHANGED <<server, feed, page, list, chosen, grid>>

ServeList(load) ==
    AnswerLoad(load, Answer(AllRows)) /\ UNCHANGED failures

ServeBlock(f) == AnswerFetch(f, Answer(f.params)) /\ UNCHANGED failures

Fail ==
    /\ failures < MaxFailures /\ failures' = failures + 1
    /\ \/ \E load \in list.loads : AnswerLoad(load, Failed)
       \/ \E f \in windowed.fetches : AnswerFetch(f, Failed)

ReceiveList(load) ==
    /\ load.answer # Waiting
    /\ list' = Loaded(list, load)
    /\ UNCHANGED <<server, feed, failures, page, windowed, chosen, grid>>

\* The grid asks for its window whenever that moved.
Report(w, window) ==
    IF window = grid.reported THEN w ELSE EnsureRange(w, window)

Show(w, f) ==
    LET arrived == Arrive(w, f)
        window  == WindowOf(arrived.totalCount, grid.scroll)
    IN /\ windowed' = Finish(Report(arrived, window), f)
       /\ grid' = [grid EXCEPT !.reported = window]

ReceiveBlock(f) ==
    /\ f.answer # Waiting
    /\ Show(windowed, f)
    /\ UNCHANGED <<server, feed, failures, page, list, chosen>>
----------------------------------------------------------------------------
(* The user.                                                               *)

Scroll ==
    \E s \in Scrolls \ {grid.scroll} :
       LET window == WindowOf(windowed.totalCount, s)
       IN /\ page = "server" /\ s < windowed.totalCount
          /\ windowed' = Report(windowed, window)
          /\ grid' = [grid EXCEPT !.scroll = s, !.reported = window]
          /\ UNCHANGED <<server, feed, failures, page, list, chosen>>

\* handleParamsChange, and the rerun of the page's effect if its last run
\* read the parameters; it loses that dependency when it has nothing to fetch.
ChangeParams ==
    /\ page = "server" /\ windowed.generation < MaxParams
    /\ \E params \in Filters \ {chosen} :
          LET w == EnsureRange(SetParams(windowed, params), grid.reported)
          IN /\ chosen' = params
             /\ IF grid.tracking
                THEN /\ windowed' = EnsureRange(w, Whole)
                     /\ grid' = [grid EXCEPT !.tracking = ToFetch(w, Whole) # {}]
                ELSE windowed' = w /\ UNCHANGED grid
    /\ UNCHANGED <<server, feed, failures, page, list>>
----------------------------------------------------------------------------
Loads(token) == {load \in list.loads : load.token = token}

Fetches(generation, b) ==
    {f \in windowed.fetches : f.generation = generation /\ f.block = b}

Next ==
    \/ Toggle \/ Change \/ OtherChange
    \/ Disconnect \/ Reconnect \/ Deliver
    \/ Scroll \/ ChangeParams \/ Fail
    \/ \E load \in list.loads : ServeList(load) \/ ReceiveList(load)
    \/ \E f \in windowed.fetches : ServeBlock(f) \/ ReceiveBlock(f)

Spec == Init /\ [][Next]_vars
----------------------------------------------------------------------------
Served == [version : Nat, total : Totals]
Answers == Served \cup {Waiting, Failed}

Lists ==
    [token : Nat, loads : SUBSET [token : Nat, answer : Answers],
     rows : Served \cup {Hole}, loading : BOOLEAN, error : BOOLEAN]

Windows ==
    [generation : Nat, params : Filters,
     rows : [Blocks -> {Hole} \cup [version : Nat, params : Filters]],
     totalCount : Totals \cup {0}, counted : BOOLEAN, loading : BOOLEAN,
     error : BOOLEAN, lastRange : Ranges, failed : SUBSET Blocks,
     calls : SUBSET [generation : Nat, blocks : SUBSET Blocks,
                     left : SUBSET Blocks],
     fetches : SUBSET [generation : Nat, block : Blocks, params : Filters,
                       answer : Answers]]

(* Types of the state. *)
TypeOK ==
    /\ version \in Nat /\ totals \in [Filters -> Totals] /\ failures \in Nat
    /\ queue \in Seq({"items", "other"}) /\ stream \in {"up", "down"}
    /\ missed \in BOOLEAN /\ page \in {"client", "server"}
    /\ list \in Lists /\ windowed \in Windows /\ chosen \in Filters
    /\ grid \in [scroll : Scrolls \cup {0}, reported : Ranges, tracking : BOOLEAN]

(* Nothing is on its way to the client that would still change the page.   *)
Quiet ==
    /\ ~missed /\ Untold(queue)
    /\ Loads(list.token) = {}
    /\ \A b \in Blocks : Fetches(windowed.generation, b) = {}

Shown(range) ==
    /\ windowed.totalCount = totals[windowed.params]
    /\ \A b \in BlocksFor(range) \ windowed.failed :
          windowed.rows[b] = [version |-> version, params |-> windowed.params]

(* Whatever order answers come in, the client grid ends up with the answer *)
(* to its newest request, and the rows it shows are then those of the      *)
(* table unless it was never told of the last change or the request failed *)
(* (packages/admin-core/src/list.svelte.ts, load).                         *)
ClientGridCurrent ==
    page = "client" /\ Quiet /\ ~list.error => list.rows = Answer(AllRows)

(* The same of the server grid, for the range it last asked for: every     *)
(* block of it that did not fail is there, in the version of the table and *)
(* under the parameters in force, with the right number of rows.           *)
RangeCurrent ==
    /\ page = "server" /\ Quiet
    /\ BlocksFor(windowed.lastRange) \ windowed.failed # {}
    => Shown(windowed.lastRange)

(* Rows fetched under other parameters are never shown with these: those   *)
(* of the resource, which the filters in the grid's header need not be     *)
(* (ExportAsShown).                                                        *)
OneQuery ==
    \A b \in Blocks :
       windowed.rows[b] # Hole => windowed.rows[b].params = windowed.params

(* What the items page says of its server mode: a change refetches the     *)
(* blocks the user sees, so they are current once nothing is under way.    *)
VisibleCurrent ==
    page = "server" /\ Quiet /\ windowed.failed = {} => Shown(grid.reported)

(* What the page says of its CSV export: its filters are "the exact same    *)
(* ListParams the server-mode grid is currently showing"                   *)
(* (+page.svelte:147-149).  Not once the grid has been mounted again.      *)
ExportAsShown == page = "server" => windowed.params = chosen

(* The loading flag says whether the newest generation still waits for an  *)
(* answer, so no overtaken call switches it off early or leaves it on; not *)
(* when a refresh finds an empty window and fetches nothing.               *)
LoadingWhileWaiting ==
    /\ list.loading = (Loads(list.token) # {})
    /\ BlocksFor(windowed.lastRange) # {} =>
          windowed.loading =
             (\E b \in Blocks : Fetches(windowed.generation, b) # {})
============================================================================
