----------------------------- MODULE ItemsProofs -----------------------------
(***************************************************************************)
(* Proofs about Items, for every set of calls, requests and readers: the   *)
(* statements of the service implement the one-step table of ItemsStore, a *)
(* change nobody was told of has a call that is about to tell, and a page  *)
(* and a total that no commit separates agree.                             *)
(*                                                                         *)
(* The first rests on what an import's transaction holds after k rows: the *)
(* table as ItemsStore says k rows leave it, the ids handed out for the    *)
(* inserts among them, and the rows whose item is missing.                 *)
(***************************************************************************)
EXTENDS Items, FiniteSetTheorems, WellFoundedInduction, TLAPS

Table == [Ids -> Item \cup {NoItem}]

Call ==
    [pc : {"idle", "check", "rows", "notify", "answered"},
     op : {"none", "create", "update", "delete", "import"},
     rows : Seq(Row), row : Nat \ {0}, created : Nat, updated : Nat, errors : SUBSET Nat,
     result : {"none", "ok", "invalid", "not_found", "rejected", "failed"}]

State ==
    /\ items \in Table /\ used \in 0..MaxId
    /\ tx \in [owner : Calls \cup {Nobody}, items : Table, used : 0..MaxId]
    /\ call \in [Calls -> Call]
    /\ unannounced \in BOOLEAN /\ lost \in BOOLEAN

(* A call that has not been answered carries one of the requests.          *)
Asking(c) ==
    /\ call[c].pc = "idle" => call[c] = Idle
    /\ call[c].pc \in {"check", "rows", "notify"} =>
         [op |-> call[c].op, rows |-> call[c].rows] \in Requests /\ call[c].result = "none"
    /\ call[c].pc = "check" => call[c].row = 1 /\ call[c].errors = {}

(* An import that got past its checks                                      *)
Importing(c) ==
    call[c].pc = "rows" =>
        /\ call[c].op = "import" /\ call[c].rows # <<>>
        /\ InvalidRows(call[c].rows) = {} /\ Len(call[c].rows) <= MaxImportRows
        /\ call[c].row <= Len(call[c].rows) + 1
        /\ call[c].row = 1 => call[c].errors = {}

(* The transaction is one import's, and holds what its rows so far leave.  *)
Working(c) ==
    /\ tx.owner = c <=> call[c].pc = "rows" /\ call[c].row > 1
    /\ tx.owner = c =>
         /\ tx.items = Store!After(call[c].rows, items, used, call[c].row - 1)
         /\ tx.used = used + Cardinality(Inserts(call[c].rows, call[c].row - 1))
         /\ call[c].errors = Store!MissingRows(call[c].rows, items, used, call[c].row - 1)

IInv == State /\ \A c \in Calls : Asking(c) /\ Importing(c) /\ Working(c)

-----------------------------------------------------------------------------
(* Rows of a batch *)

LEMMA StoreNames ==
    /\ Store!Ids = Ids
    /\ \A rows, k : Store!Inserts(rows, k) = Inserts(rows, k)
    /\ \A content : Store!Valid(content) <=> Valid(content)
    /\ \A content : Store!Stored(content) = Stored(content)
    /\ \A rows : Store!InvalidRows(rows) = InvalidRows(rows)
    /\ \A S : Store!Cardinality(S) = Cardinality(S)
<1>1. \A content : Store!Trim(content) = Trim(content)
  BY DEF Store!Trim, Trim
<1>2. \A content : Store!Valid(content) <=> Valid(content)
  BY <1>1 DEF Store!Valid, Valid
<1>3. \A content : Store!Stored(content) = Stored(content)
  BY <1>1 DEF Store!Stored, Stored
<1>4. \A S : Store!Cardinality(S) = Cardinality(S)
  BY Zenon DEF Store!Cardinality, Cardinality
<1> QED  BY <1>2, <1>3, <1>4 DEF Store!Ids, Ids, Store!Inserts, Inserts, Store!InvalidRows, InvalidRows

(* What a valid row stores is an item.                                     *)
LEMMA StoredIsItem ==
    ASSUME NEW rows \in Seq(Row), InvalidRows(rows) = {}, NEW n \in DOMAIN rows
    PROVE  /\ rows[n].id \in Ids \cup {NoId}
           /\ Stored(rows[n].content) \in Item /\ Stored(rows[n].content) # NoItem
<1>1. rows[n] \in Row
  OBVIOUS
<1>2. rows[n].content \in Contents /\ rows[n].id \in Ids \cup {NoId}
  BY <1>1 DEF Row
<1>3. Valid(rows[n].content)
  BY DEF InvalidRows
<1>4. Stored(rows[n].content) \in Item
  BY <1>2, <1>3 DEF Item
<1> QED  BY <1>2, <1>4, RowsAssumption

LEMMA InsertsAre ==
    ASSUME NEW rows, NEW k \in Nat
    PROVE  /\ IsFiniteSet(Inserts(rows, k)) /\ Cardinality(Inserts(rows, k)) \in Nat
           /\ Cardinality(Inserts(rows, 0)) = 0
           /\ rows[k + 1].id = NoId =>
                Cardinality(Inserts(rows, k + 1)) = Cardinality(Inserts(rows, k)) + 1
           /\ rows[k + 1].id # NoId => Inserts(rows, k + 1) = Inserts(rows, k)
<1>1. IsFiniteSet(1..k)
  BY FS_Interval
<1>2. Inserts(rows, k) \in SUBSET (1..k) /\ Inserts(rows, 0) = {}
  BY DEF Inserts
<1>3. IsFiniteSet(Inserts(rows, k))
  BY <1>1, <1>2, FS_Subset
<1>4. Cardinality(Inserts(rows, k)) \in Nat /\ Cardinality(Inserts(rows, 0)) = 0
  BY <1>2, <1>3, FS_CardinalityType, FS_EmptySet
<1>5. 1..(k + 1) = (1..k) \cup {k + 1}
  OBVIOUS
<1>6. rows[k + 1].id = NoId =>
        Inserts(rows, k + 1) = Inserts(rows, k) \cup {k + 1} /\ ~(k + 1 \in Inserts(rows, k))
  BY <1>5 DEF Inserts
<1>7. rows[k + 1].id # NoId => Inserts(rows, k + 1) = Inserts(rows, k)
  BY <1>5 DEF Inserts
<1>8. rows[k + 1].id = NoId =>
        Cardinality(Inserts(rows, k + 1)) = Cardinality(Inserts(rows, k)) + 1
  BY <1>3, <1>6, FS_AddElement
<1> QED  BY <1>3, <1>4, <1>7, <1>8

(* One id after the rows that write it: the last of them wins.             *)
Last(S) == CHOOSE n \in S : \A m \in S : m <= n

Cell(rows, t, writers, i) == IF writers = {} THEN t[i] ELSE Stored(rows[Last(writers)].content)

LEMMA AfterIs ==
    ASSUME NEW rows, NEW t, NEW u, NEW k
    PROVE  /\ Store!After(rows, t, u, k) =
                [i \in Ids |-> Cell(rows, t, Store!Writers(rows, t, u, k, i), i)]
           /\ DOMAIN Store!After(rows, t, u, k) = Ids
           /\ \A i \in Ids : Store!After(rows, t, u, k)[i] =
                             Cell(rows, t, Store!Writers(rows, t, u, k, i), i)
<1> DEFINE W(i) == Store!Writers(rows, t, u, k, i)
<1>1. Store!After(rows, t, u, k) =
        [i \in Ids |-> IF W(i) = {} THEN t[i] ELSE Store!Stored(rows[Last(W(i))].content)]
  BY Zenon, StoreNames DEF Store!After, Last
<1> HIDE DEF W
<1>2. \A i : Cell(rows, t, W(i), i) =
              IF W(i) = {} THEN t[i] ELSE Store!Stored(rows[Last(W(i))].content)
  BY StoreNames DEF Cell
<1>3. Store!After(rows, t, u, k) = [i \in Ids |-> Cell(rows, t, W(i), i)]
  BY <1>1, <1>2
<1> QED  BY <1>3 DEF W

LEMMA AfterNone ==
    ASSUME NEW rows, NEW t \in Table, NEW u
    PROVE  Store!After(rows, t, u, 0) = t /\ Store!MissingRows(rows, t, u, 0) = {}
<1>1. 1..0 = {}
  OBVIOUS
<1>2. \A i : Store!Writers(rows, t, u, 0, i) = {}
  BY <1>1 DEF Store!Writers
<1> QED  BY <1>1, <1>2, AfterIs DEF Cell, Store!MissingRows, Table

(* The rows that write an id, with one row more                            *)
LEMMA WritersGrow ==
    ASSUME NEW rows, NEW t, NEW u, NEW k \in Nat, NEW i
    PROVE  Store!Writers(rows, t, u, k + 1, i) =
             IF Store!Target(rows, u, k + 1) = i /\ ~Store!Missing(rows, t, u, k + 1)
             THEN Store!Writers(rows, t, u, k, i) \cup {k + 1}
             ELSE Store!Writers(rows, t, u, k, i)
<1>1. 1..(k + 1) = (1..k) \cup {k + 1}
  OBVIOUS
<1> QED  BY <1>1 DEF Store!Writers

LEMMA AfterMissing ==
    ASSUME NEW rows, NEW t, NEW u, NEW k \in Nat, Store!Missing(rows, t, u, k + 1)
    PROVE  /\ Store!After(rows, t, u, k + 1) = Store!After(rows, t, u, k)
           /\ Store!MissingRows(rows, t, u, k + 1) = Store!MissingRows(rows, t, u, k) \cup {k + 1}
<1>1. 1..(k + 1) = (1..k) \cup {k + 1}
  OBVIOUS
<1>2. \A i : Store!Writers(rows, t, u, k + 1, i) = Store!Writers(rows, t, u, k, i)
  BY WritersGrow
<1> QED  BY <1>1, <1>2, AfterIs DEF Store!MissingRows

(* The last row that writes an id wins.                                    *)
LEMMA AfterWriting ==
    ASSUME NEW rows, NEW t, NEW u, NEW k \in Nat, ~Store!Missing(rows, t, u, k + 1),
           Store!Target(rows, u, k + 1) \in Ids
    PROVE  /\ Store!After(rows, t, u, k + 1) =
                [Store!After(rows, t, u, k) EXCEPT
                    ![Store!Target(rows, u, k + 1)] = Stored(rows[k + 1].content)]
           /\ Store!MissingRows(rows, t, u, k + 1) = Store!MissingRows(rows, t, u, k)
<1> DEFINE id == Store!Target(rows, u, k + 1)
           now == Store!After(rows, t, u, k)
           next == Store!After(rows, t, u, k + 1)
<1>1. 1..(k + 1) = (1..k) \cup {k + 1}
  OBVIOUS
<1>2. \A i : i # id => Store!Writers(rows, t, u, k + 1, i) = Store!Writers(rows, t, u, k, i)
  BY WritersGrow
<1>3. \A i \in Ids : i # id => next[i] = now[i]
  BY <1>2, AfterIs
<1>4. next[id] = Stored(rows[k + 1].content)
  <2> DEFINE writers == Store!Writers(rows, t, u, k + 1, id)
  <2>1. writers = Store!Writers(rows, t, u, k, id) \cup {k + 1}
    BY WritersGrow
  <2>2. \A n \in writers : n \in Nat /\ n <= k + 1
    BY <1>1 DEF Store!Writers
  <2>3. k + 1 \in writers /\ \A m \in writers : m <= k + 1
    BY <2>1, <2>2
  <2>4. \A n \in writers : (\A m \in writers : m <= n) => n = k + 1
    BY <2>2, <2>3
  <2> HIDE DEF writers
  <2>5. Last(writers) = k + 1
    BY <2>3, <2>4 DEF Last
  <2>6. next[id] = Cell(rows, t, writers, id)
    BY AfterIs DEF writers
  <2> QED  BY <2>3, <2>5, <2>6 DEF Cell
<1>5. next = [i \in Ids |-> next[i]] /\ now = [i \in Ids |-> now[i]]
  BY AfterIs
<1>6. Store!MissingRows(rows, t, u, k + 1) = Store!MissingRows(rows, t, u, k)
  BY <1>1 DEF Store!MissingRows
<1> HIDE DEF id, now, next
<1>7. next = [now EXCEPT ![id] = Stored(rows[k + 1].content)]
  BY <1>3, <1>4, <1>5
<1> QED  BY <1>6, <1>7 DEF id, now, next

LEMMA LastIs ==
    ASSUME NEW k \in Nat, NEW S \in SUBSET (1..k), S # {}
    PROVE  Last(S) \in S
<1> DEFINE Less == OpToRel(<, Nat)
           Gaps == {k - n : n \in S}
<1>1. IsWellFoundedOn(Less, Nat)
  BY NatLessThanWellFounded, Zenon
<1>2. \A x, y \in Nat : y < x => <<y, x>> \in Less
  BY DEF OpToRel
<1>3. Gaps \subseteq Nat /\ Gaps # {}
  <2>1. \A n \in S : k - n \in Nat
    OBVIOUS
  <2> QED  BY <2>1
<1> HIDE DEF Less, Gaps
<1>4. PICK gap \in Gaps : \A y \in Gaps : ~(<<y, gap>> \in Less)
  BY <1>1, <1>3, WFMin
<1>5. \A y \in Gaps : y \in Nat /\ gap \in Nat /\ ~(y < gap)
  BY <1>2, <1>3, <1>4
<1>6. PICK n \in S : gap = k - n
  BY <1>4 DEF Gaps
<1>7. \A m \in S : m <= n
  <2> TAKE m \in S
  <2>1. k - m \in Gaps
    BY DEF Gaps
  <2> QED  BY <1>5, <1>6, <2>1
<1> QED  BY <1>7 DEF Last

(* An update finds its item where the rows before it left one.             *)
LEMMA MissingIs ==
    ASSUME NEW rows \in Seq(Row), InvalidRows(rows) = {}, NEW t \in Table, NEW u \in Nat,
           NEW k \in Nat, k < Len(rows), rows[k + 1].id # NoId
    PROVE  /\ Store!Target(rows, u, k + 1) = rows[k + 1].id /\ rows[k + 1].id \in Ids
           /\ Store!Missing(rows, t, u, k + 1) <=>
                Store!After(rows, t, u, k)[rows[k + 1].id] = NoItem
<1> DEFINE id == rows[k + 1].id
           writers == Store!Writers(rows, t, u, k, id)
<1>1. id \in Ids /\ Store!Target(rows, u, k + 1) = id
  BY StoredIsItem DEF Store!Target
<1>2. Inserts(rows, k + 1) = Inserts(rows, k)
  BY InsertsAre
<1>3. writers \in SUBSET (1..k)
  BY DEF Store!Writers
<1>4. Store!After(rows, t, u, k)[id] = IF writers = {} THEN t[id] ELSE Stored(rows[Last(writers)].content)
  BY <1>1, AfterIs DEF Cell
<1>5. Store!Missing(rows, t, u, k + 1) <=>
        t[id] = NoItem /\ \A m \in Inserts(rows, k) : Store!Target(rows, u, m) # id
  BY <1>2, StoreNames DEF Store!Missing
<1>6. \A m \in Inserts(rows, k) : Store!Target(rows, u, m) = id => m \in writers
  BY DEF Store!Writers, Store!Missing, Inserts
<1> HIDE DEF id, writers
<1> DEFINE asStored == Store!Missing(rows, t, u, k + 1) <=> Store!After(rows, t, u, k)[id] = NoItem
<1>7. writers = {} => asStored
  <2> SUFFICES ASSUME writers = {} PROVE asStored
    OBVIOUS
  <2>1. \A m \in Inserts(rows, k) : Store!Target(rows, u, m) # id
    BY <1>6
  <2> QED  BY <1>4, <1>5, <2>1
<1>8. writers # {} => asStored
  <2> SUFFICES ASSUME writers # {} PROVE asStored
    OBVIOUS
  <2>1. Last(writers) \in DOMAIN rows
    <3>1. DOMAIN rows = 1..Len(rows)
      OBVIOUS
    <3>2. Last(writers) \in 1..k
      BY <1>3, LastIs
    <3> QED  BY <3>1, <3>2
  <2>2. Store!After(rows, t, u, k)[id] # NoItem
    BY <1>4, <2>1, StoredIsItem
  <2>3. PICK n \in writers : TRUE
    OBVIOUS
  <2>4. n \in 1..k /\ Store!Target(rows, u, n) = id /\ ~Store!Missing(rows, t, u, n)
    BY <2>3 DEF Store!Writers, writers
  <2>5. CASE rows[n].id = NoId
    <3>1. n \in Inserts(rows, k)
      BY <2>4, <2>5 DEF Inserts
    <3> QED  BY <1>5, <2>2, <2>4, <3>1
  <2>6. CASE rows[n].id # NoId
    <3>1. rows[n].id = id
      BY <2>4, <2>6 DEF Store!Target
    <3>2. t[id] # NoItem \/ \E m \in Inserts(rows, n) : Store!Target(rows, u, m) = id
      BY <2>4, <2>6, <3>1, StoreNames DEF Store!Missing
    <3>3. Inserts(rows, n) \subseteq Inserts(rows, k)
      BY <2>4 DEF Inserts
    <3>4. t[id] # NoItem \/ \E m \in Inserts(rows, k) : Store!Target(rows, u, m) = id
      BY <3>2, <3>3
    <3> QED  BY <1>5, <2>2, <3>4
  <2> QED  BY <2>5, <2>6
<1>9. Store!Missing(rows, t, u, k + 1) <=> Store!After(rows, t, u, k)[id] = NoItem
  BY <1>7, <1>8
<1> QED  BY <1>1, <1>9 DEF id

(* An insert is never missing, and gets the next id.                       *)
LEMMA InsertIs ==
    ASSUME NEW rows, NEW t, NEW u \in Nat, NEW k \in Nat, rows[k + 1].id = NoId
    PROVE  /\ ~Store!Missing(rows, t, u, k + 1)
           /\ Store!Target(rows, u, k + 1) = u + (Cardinality(Inserts(rows, k)) + 1)
<1>1. Store!Target(rows, u, k + 1) = u + Cardinality(Inserts(rows, k + 1))
  <2>1. Store!Target(rows, u, k + 1) = u + Cardinality(Store!Inserts(rows, k + 1))
    BY StoreNames DEF Store!Target
  <2> QED  BY <2>1, StoreNames
<1>2. Cardinality(Inserts(rows, k + 1)) = Cardinality(Inserts(rows, k)) + 1
  BY InsertsAre
<1>3. ~Store!Missing(rows, t, u, k + 1)
  BY DEF Store!Missing
<1> QED  BY <1>1, <1>2, <1>3

-----------------------------------------------------------------------------
(* Steps of the service keep the invariant. *)

Results == {"none", "ok", "invalid", "not_found", "rejected", "failed"}

Tx == [owner : Calls \cup {Nobody}, items : Table, used : 0..MaxId]

LEMMA RequestIs ==
    ASSUME IInv, NEW c \in Calls, call[c].pc \in {"check", "rows", "notify"}
    PROVE  /\ call[c].rows \in Seq(Row)
           /\ call[c].op \in {"create", "update", "delete", "import"}
           /\ call[c].op # "import" => Len(call[c].rows) = 1
           /\ call[c].op = "create" => call[c].rows[1].id = NoId
           /\ call[c].op \in {"update", "delete"} => call[c].rows[1].id \in Ids
           /\ call[c].op \in {"update", "delete"} => call[c].rows[1].id # NoId
<1> DEFINE op == call[c].op
           rows == call[c].rows
<1>1. [op |-> op, rows |-> rows] \in Request
  BY RequestsAssumption DEF IInv, Asking
<1>2. rows \in Seq(Row)
  BY DEF IInv, State, Call
<1> HIDE DEF op, rows
<1>3. \/ op = "create" /\ \E row \in [id : {NoId}, content : Contents] : rows = <<row>>
      \/ op \in {"update", "delete"} /\ \E row \in [id : Ids, content : Contents] : rows = <<row>>
      \/ op = "import"
  BY <1>1 DEF Request
<1>4. CASE op = "create"
  <2>1. PICK row \in [id : {NoId}, content : Contents] : rows = <<row>>
    BY <1>3, <1>4
  <2>2. rows[1].id = NoId /\ Len(rows) = 1
    BY <2>1
  <2> QED  BY <1>2, <1>4, <2>2 DEF op, rows
<1>5. CASE op \in {"update", "delete"}
  <2>1. PICK row \in [id : Ids, content : Contents] : rows = <<row>>
    BY <1>3, <1>5
  <2>2. rows[1].id \in Ids /\ Len(rows) = 1
    BY <2>1
  <2> QED  BY <1>2, <1>5, <2>2, RowsAssumption DEF op, rows
<1>6. CASE op = "import"
  BY <1>2, <1>6 DEF op, rows
<1> QED  BY <1>3, <1>4, <1>5, <1>6

LEMMA NoTxIs == NoTx \in Tx /\ NoTx.owner = Nobody /\ IsFiniteSet(Ids)
BY RowsAssumption, FS_Interval DEF NoTx, Tx, Table, Ids

LEMMA IdleIs == Idle \in Call /\ Idle.pc = "idle"
BY DEF Idle, Call

AnsweredCall(result, errors) ==
    [Idle EXCEPT !.pc = "answered", !.result = result, !.errors = errors]

LEMMA AnsweredIs ==
    ASSUME NEW result \in Results, NEW errors \in SUBSET Nat
    PROVE  LET r == AnsweredCall(result, errors)
           IN  /\ r \in Call /\ r.pc = "answered" /\ r.result = result /\ r.errors = errors
               /\ r.op = "none" /\ r.rows = <<>>
<1>1. AnsweredCall(result, errors) \in Call
  BY IdleIs DEF AnsweredCall, Call, Results
<1>2. LET r == AnsweredCall(result, errors)
      IN  r.pc = "answered" /\ r.result = result /\ r.errors = errors
  BY IdleIs DEF AnsweredCall, Call
<1>3. LET r == AnsweredCall(result, errors) IN r.op = Idle.op /\ r.rows = Idle.rows
  BY IdleIs DEF AnsweredCall, Call
<1>4. Idle.op = "none" /\ Idle.rows = <<>>
  BY DEF Idle
<1> QED  BY <1>1, <1>2, <1>3, <1>4

(* A call that steps alone leaves the others as they were known.           *)
LEMMA OthersKeep ==
    ASSUME IInv, NEW c \in Calls, State', Asking(c)', Importing(c)', Working(c)',
           \A d \in Calls : d # c => call'[d] = call[d],
           \/ tx' = tx /\ items' = items /\ used' = used
           \/ tx.owner \in {Nobody, c} /\ tx'.owner \in {Nobody, c}
    PROVE  IInv'
<1> SUFFICES ASSUME NEW d \in Calls, d # c PROVE Asking(d)' /\ Importing(d)' /\ Working(d)'
  BY DEF IInv
<1>1. call'[d] = call[d] /\ Asking(d) /\ Importing(d) /\ Working(d)
  BY DEF IInv
<1>2. Asking(d)' /\ Importing(d)'
  BY <1>1 DEF Asking, Importing
<1>3. CASE tx' = tx /\ items' = items /\ used' = used
  BY <1>1, <1>2, <1>3 DEF Working
<1>4. CASE tx.owner \in {Nobody, c} /\ tx'.owner \in {Nobody, c}
  <2>1. tx.owner # d /\ tx'.owner # d
    BY <1>4, CallsAssumption
  <2> QED  BY <1>1, <1>2, <2>1 DEF Working
<1> QED  BY <1>3, <1>4

(* An answer ends what its caller had under way, a transaction too.        *)
LEMMA AnswerKeeps ==
    ASSUME IInv, NEW c \in Calls, NEW result \in Results, NEW errors \in SUBSET Nat,
           Answer(c, result, errors), tx' = IF tx.owner = c THEN NoTx ELSE tx,
           items' = items, used' = used, unannounced' \in BOOLEAN, lost' \in BOOLEAN
    PROVE  IInv'
<1> DEFINE r == AnsweredCall(result, errors)
<1>1. r \in Call /\ r.pc = "answered"
  BY AnsweredIs
<1>2. call' = [call EXCEPT ![c] = r]
  BY DEF Answer, AnsweredCall
<1> HIDE DEF r
<1>3. call' \in [Calls -> Call] /\ call'[c].pc = "answered" /\ \A d \in Calls : d # c => call'[d] = call[d]
  BY <1>1, <1>2 DEF IInv, State
<1>4. tx' \in Tx /\ tx'.owner # c
  BY NoTxIs, CallsAssumption DEF IInv, State, Tx
<1>5. State'
  BY <1>3, <1>4 DEF State, IInv, Tx
<1>6. Asking(c)' /\ Importing(c)' /\ Working(c)'
  BY <1>3, <1>4 DEF Asking, Importing, Working
<1>7. tx' = tx \/ (tx.owner = c /\ tx'.owner = Nobody)
  BY NoTxIs
<1> QED  BY <1>3, <1>5, <1>6, <1>7, OthersKeep

LEMMA RefusalsKeep ==
    ASSUME IInv, NEW c \in Calls,
           \/ InvalidInput(c) \/ NotFound(c) \/ TooMany(c) \/ NothingToImport(c)
           \/ RejectInvalid(c) \/ Notify(c)
    PROVE  IInv'
<1>1. tx' = tx /\ items' = items /\ used' = used /\ unannounced' \in BOOLEAN /\ lost' \in BOOLEAN
  BY DEF IInv, State, InvalidInput, NotFound, TooMany, NothingToImport, RejectInvalid, Notify,
         Statement, NoCommit
<1>2. call[c].pc \in {"check", "notify"}
  BY DEF InvalidInput, NotFound, TooMany, NothingToImport, RejectInvalid, Notify, Statement
<1>3. tx.owner # c
  BY <1>2 DEF IInv, Working
<1>4. InvalidRows(call[c].rows) \in SUBSET Nat
  <2>1. DOMAIN call[c].rows \subseteq Nat
    BY <1>2, RequestIs
  <2> QED  BY <2>1 DEF InvalidRows
<1>5. \E result \in Results, errors \in SUBSET Nat : Answer(c, result, errors)
  BY <1>4 DEF InvalidInput, NotFound, TooMany, NothingToImport, RejectInvalid, Notify, Results
<1> QED  BY <1>1, <1>3, <1>5, AnswerKeeps

LEMMA FailKeeps ==
    ASSUME IInv, NEW c \in Calls, Fail(c) \/ RollBack(c)
    PROVE  IInv'
<1>1. CASE Fail(c)
  <2>1. Answer(c, "failed", {}) /\ "failed" \in Results /\ {} \in SUBSET Nat
    BY <1>1 DEF Fail, Results
  <2>2. tx' = (IF tx.owner = c THEN NoTx ELSE tx) /\ items' = items /\ used' = used
        /\ unannounced' \in BOOLEAN /\ lost' \in BOOLEAN
    BY <1>1 DEF Fail, NoCommit, IInv, State
  <2> QED  BY <2>1, <2>2, AnswerKeeps
<1>2. CASE RollBack(c)
  <2>1. Answer(c, "rejected", call[c].errors) /\ "rejected" \in Results /\ call[c].errors \in SUBSET Nat
    BY <1>2 DEF RollBack, Results, IInv, State, Call
  <2>2. tx' = NoTx /\ items' = items /\ used' = used /\ unannounced' \in BOOLEAN /\ lost' \in BOOLEAN
    BY <1>2 DEF RollBack, NoCommit, IInv, State
  <2>3. tx.owner = c
    BY <1>2 DEF RollBack, IInv, Importing, Working, State, Call
  <2> QED  BY <2>1, <2>2, <2>3, AnswerKeeps
<1> QED  BY <1>1, <1>2

LEMMA OneRow ==
    ASSUME NEW rows \in Seq(Row), Len(rows) = 1
    PROVE  /\ Valid(rows[1].content) => InvalidRows(rows) = {} /\ Stored(rows[1].content) \in Item
           /\ ~Valid(rows[1].content) => InvalidRows(rows) # {}
           /\ rows # <<>> /\ 1 \in DOMAIN rows
<1>1. DOMAIN rows = {1} /\ rows # <<>>
  <2>1. DOMAIN rows = 1..1
    OBVIOUS
  <2> QED  BY <2>1
<1>2. (InvalidRows(rows) = {}) <=> Valid(rows[1].content)
  BY <1>1 DEF InvalidRows
<1> QED  BY <1>1, <1>2, StoredIsItem

LEMMA GotoIs ==
    ASSUME IInv, NEW c \in Calls, NEW label \in {"rows", "notify"}, Goto(c, label)
    PROVE  /\ call' \in [Calls -> Call] /\ call'[c].pc = label
           /\ \A d \in Calls : d # c => call'[d] = call[d]
           /\ call'[c].op = call[c].op /\ call'[c].rows = call[c].rows
           /\ call'[c].result = call[c].result /\ call'[c].row = call[c].row
           /\ call'[c].errors = call[c].errors
<1>1. call \in [Calls -> Call]
  BY DEF IInv, State
<1> QED  BY <1>1 DEF Goto, Call

LEMMA NotifyNext ==
    ASSUME IInv, NEW c \in Calls, call[c].pc \in {"check", "rows"}, Goto(c, "notify"),
           items' \in Table, used' \in 0..MaxId, tx.owner \in {Nobody, c},
           tx' \in Tx, tx'.owner = Nobody, unannounced' \in BOOLEAN, lost' \in BOOLEAN
    PROVE  IInv'
<1>1. call \in [Calls -> Call]
  BY DEF IInv, State
<1>2. /\ call' \in [Calls -> Call] /\ call'[c].pc = "notify"
      /\ \A d \in Calls : d # c => call'[d] = call[d]
      /\ call'[c].op = call[c].op /\ call'[c].rows = call[c].rows
      /\ call'[c].result = call[c].result
  BY GotoIs
<1>3. State'
  BY <1>2 DEF State, Tx
<1>4. Asking(c) /\ Nobody # c
  BY CallsAssumption DEF IInv
<1>5. Asking(c)' /\ Importing(c)' /\ Working(c)'
  BY <1>2, <1>4 DEF Asking, Importing, Working
<1> QED  BY <1>2, <1>3, <1>5, OthersKeep

LEMMA CheckedIs ==
    ASSUME IInv, NEW c \in Calls, call[c].pc = "check"
    PROVE  /\ call[c].row = 1 /\ tx.owner # c
           /\ items \in Table /\ used \in 0..MaxId /\ tx \in Tx /\ lost \in BOOLEAN
BY DEF IInv, Asking, Working, State, Tx

LEMMA StatementsKeep ==
    ASSUME IInv, NEW c \in Calls, Create(c) \/ Update(c) \/ Delete(c)
    PROVE  IInv'
<1> DEFINE rows == call[c].rows
<1>1. /\ call[c].pc = "check" /\ call[c].op \in {"create", "update", "delete"}
      /\ Writable(c) /\ tx' = tx /\ Goto(c, "notify")
  BY DEF Create, Update, Delete, Statement
<1>2. tx.owner = Nobody /\ items \in Table /\ used \in 0..MaxId /\ tx \in Tx /\ lost \in BOOLEAN
  BY <1>1, CheckedIs DEF Writable
<1>3. rows \in Seq(Row) /\ Len(rows) = 1
  BY <1>1, RequestIs
<1>4. Valid(rows[1].content) => Stored(rows[1].content) \in Item
  BY <1>3, OneRow
<1>5. unannounced' \in BOOLEAN /\ lost' \in BOOLEAN
  BY <1>2 DEF Create, Update, Delete, Commit
<1>6. items' \in Table /\ used' \in 0..MaxId
  <2>1. CASE Create(c)
    <3>1. /\ items' = [items EXCEPT ![used + 1] = Stored(rows[1].content)] /\ used' = used + 1
          /\ used < MaxId /\ Stored(rows[1].content) \in Item
      BY <1>4, <2>1 DEF Create, Commit
    <3>2. used' \in 0..MaxId
      BY <1>2, <3>1, RowsAssumption
    <3> QED  BY <1>2, <3>1, <3>2 DEF Table
  <2>2. CASE Update(c)
    <3>1. /\ items' = [items EXCEPT ![rows[1].id] = Stored(rows[1].content)] /\ used' = used
          /\ Stored(rows[1].content) \in Item
      BY <1>4, <2>2 DEF Update, Commit
    <3> QED  BY <1>2, <3>1 DEF Table
  <2>3. CASE Delete(c)
    BY <1>2, <2>3 DEF Delete, Commit, Table
  <2> QED  BY <2>1, <2>2, <2>3
<1> QED  BY <1>1, <1>2, <1>5, <1>6, NotifyNext

LEMMA CommitImportKeeps ==
    ASSUME IInv, NEW c \in Calls, CommitImport(c)
    PROVE  IInv'
<1>1. tx.owner = c /\ call[c].pc = "rows"
  BY DEF CommitImport, IInv, Importing, Working, State, Call
<1>2. items' = tx.items /\ used' = tx.used /\ tx' = NoTx /\ Goto(c, "notify")
      /\ unannounced' \in BOOLEAN /\ lost' \in BOOLEAN
  BY DEF CommitImport, Commit, IInv, State
<1>3. items' \in Table /\ used' \in 0..MaxId
  BY <1>2 DEF IInv, State
<1> QED  BY <1>1, <1>2, <1>3, NoTxIs, NotifyNext

LEMMA BeginKeeps ==
    ASSUME IInv, NEW c \in Calls, Begin(c)
    PROVE  IInv'
<1>1. call \in [Calls -> Call] /\ Asking(c) /\ Working(c)
  BY DEF IInv, State
<1>2. /\ call' \in [Calls -> Call] /\ call'[c].pc = "rows"
      /\ \A d \in Calls : d # c => call'[d] = call[d]
      /\ call'[c].op = call[c].op /\ call'[c].rows = call[c].rows
      /\ call'[c].result = call[c].result /\ call'[c].row = call[c].row
      /\ call'[c].errors = call[c].errors
  BY GotoIs DEF Begin
<1>3. tx' = tx /\ items' = items /\ used' = used /\ unannounced' = unannounced /\ lost' = lost
  BY DEF Begin, NoCommit
<1>4. State'
  BY <1>2, <1>3 DEF State, IInv
<1>5. call[c].row = 1 /\ call[c].errors = {} /\ tx.owner # c
  BY CheckedIs, <1>1 DEF Begin, Asking
<1>6. Asking(c)' /\ Working(c)'
  BY <1>1, <1>2, <1>3, <1>5 DEF Asking, Working, Begin
<1>7. call[c].rows \in Seq(Row)
  BY RequestIs DEF Begin
<1>8. Importing(c)'
  <2>1. /\ call[c].op = "import" /\ call[c].rows # <<>> /\ InvalidRows(call[c].rows) = {}
        /\ Len(call[c].rows) <= MaxImportRows
    BY DEF Begin
  <2>2. InvalidRows(call[c].rows)' = {}
    BY <1>2, <2>1 DEF InvalidRows
  <2>3. call[c].row <= Len(call[c].rows) + 1
    BY <1>5, <1>7
  <2> QED  BY <1>2, <1>5, <2>1, <2>2, <2>3 DEF Importing
<1> QED  BY <1>2, <1>3, <1>4, <1>6, <1>8, OthersKeep

AskedCall(op, rows) == [Idle EXCEPT !.pc = "check", !.op = op, !.rows = rows]

LEMMA AskedIs ==
    ASSUME NEW op \in {"create", "update", "delete", "import"}, NEW rows \in Seq(Row)
    PROVE  LET r == AskedCall(op, rows)
           IN  /\ r \in Call /\ r.pc = "check" /\ r.op = op /\ r.rows = rows
               /\ r.row = 1 /\ r.errors = {} /\ r.result = "none"
<1>1. \A r \in Call, pc \in {"check"} :
        LET s == [r EXCEPT !.pc = pc, !.op = op, !.rows = rows]
        IN  /\ s \in Call /\ s.pc = pc /\ s.op = op /\ s.rows = rows
            /\ s.row = r.row /\ s.errors = r.errors /\ s.result = r.result
  <2> TAKE r \in Call, pc \in {"check"}
  <2> DEFINE s == [r EXCEPT !.pc = pc, !.op = op, !.rows = rows]
  <2>1. /\ s.pc = pc /\ s.op = op /\ s.rows = rows /\ s.row = r.row /\ s.created = r.created
        /\ s.updated = r.updated /\ s.errors = r.errors /\ s.result = r.result
    BY DEF Call
  <2>2. s \in Call
    BY DEF Call
  <2> QED  BY <2>1, <2>2
<1>2. Idle.row = 1 /\ Idle.errors = {} /\ Idle.result = "none"
  BY DEF Idle
<1> QED  BY <1>1, <1>2, IdleIs DEF AskedCall

LEMMA ArriveKeeps ==
    ASSUME IInv, NEW c \in Calls, NEW request \in Requests, Arrive(c, request)
    PROVE  IInv'
<1> DEFINE op == request.op
           rows == request.rows
           r == AskedCall(op, rows)
<1>1. request = [op |-> op, rows |-> rows] /\ op \in {"create", "update", "delete", "import"}
      /\ rows \in Seq(Row)
  <2>1. request \in Request
    BY RequestsAssumption
  <2>2. \A row \in [id : {NoId}, content : Contents] : <<row>> \in Seq(Row)
    BY DEF Row
  <2>3. \A row \in [id : Ids, content : Contents] : <<row>> \in Seq(Row)
    BY DEF Row
  <2> QED  BY <2>1, <2>2, <2>3 DEF Request
<1>2. call' = [call EXCEPT ![c] = r]
  BY DEF Arrive, AskedCall
<1> HIDE DEF op, rows
<1>4. r \in Call /\ r.pc = "check" /\ r.op = op /\ r.rows = rows /\ r.row = 1 /\ r.errors = {}
      /\ r.result = "none"
  BY <1>1, AskedIs
<1> HIDE DEF r
<1>5. call' \in [Calls -> Call] /\ call'[c] = r /\ \A d \in Calls : d # c => call'[d] = call[d]
  BY <1>2, <1>4 DEF IInv, State
<1>6. tx' = tx /\ items' = items /\ used' = used /\ unannounced' = unannounced /\ lost' = lost
  BY DEF Arrive, NoCommit
<1>7. State'
  BY <1>5, <1>6 DEF State, IInv
<1>8. tx.owner # c
  BY DEF Arrive, IInv, Working
<1>9. Asking(c)' /\ Importing(c)' /\ Working(c)'
  BY <1>1, <1>4, <1>5, <1>6, <1>8 DEF Asking, Importing, Working
<1> QED  BY <1>5, <1>6, <1>7, <1>9, OthersKeep

LEMMA ReplyKeeps ==
    ASSUME IInv, NEW c \in Calls, Reply(c)
    PROVE  IInv'
<1>1. call' \in [Calls -> Call] /\ call'[c] = Idle /\ \A d \in Calls : d # c => call'[d] = call[d]
  BY IdleIs DEF Reply, IInv, State
<1>2. tx' = tx /\ items' = items /\ used' = used /\ unannounced' = unannounced /\ lost' = lost
  BY DEF Reply, NoCommit
<1>3. State'
  BY <1>1, <1>2 DEF State, IInv
<1>4. tx.owner # c
  BY DEF Reply, IInv, Working
<1>5. Asking(c)' /\ Importing(c)' /\ Working(c)'
  BY <1>1, <1>2, <1>4, IdleIs DEF Asking, Importing, Working
<1> QED  BY <1>1, <1>2, <1>3, <1>5, OthersKeep

LEMMA CutKeeps ==
    ASSUME IInv, NEW S \in SUBSET Calls, Cut(S)
    PROVE  IInv'
<1>1. /\ items' = items /\ used' = used /\ unannounced' = unannounced /\ lost' \in BOOLEAN
      /\ tx' = IF tx.owner \in S THEN NoTx ELSE tx
      /\ call' = [c \in Calls |-> IF c \in S THEN Idle ELSE call[c]]
  BY DEF Cut, IInv, State
<1>2. State'
  BY <1>1, NoTxIs, IdleIs DEF IInv, State, Tx
<1>3. ASSUME NEW c \in Calls PROVE Asking(c)' /\ Importing(c)' /\ Working(c)'
  <2>1. CASE c \in S
    <3>1. call'[c] = Idle /\ tx'.owner # c
      BY <1>1, <2>1, NoTxIs, CallsAssumption
    <3> QED  BY <3>1, IdleIs DEF Asking, Importing, Working
  <2>2. CASE c \notin S
    <3>1. call'[c] = call[c] /\ Asking(c) /\ Importing(c) /\ Working(c)
      BY <1>1, <2>2 DEF IInv
    <3>2. tx' = tx \/ (tx.owner # c /\ tx'.owner # c)
      BY <1>1, <2>2, NoTxIs, CallsAssumption
    <3> QED  BY <1>1, <3>1, <3>2 DEF Asking, Importing, Working
  <2> QED  BY <2>1, <2>2
<1> QED  BY <1>2, <1>3 DEF IInv

(* A row of an import *)

Rows(c) == call[c].rows
Done(c) == call[c].row - 1

(* v is a transaction that has run k of its rows.                          *)
Holds(v, c, k, errors) ==
    /\ v \in Tx /\ v.owner = c
    /\ v.items = Store!After(Rows(c), items, used, k)
    /\ v.used = used + Cardinality(Inserts(Rows(c), k))
    /\ errors = Store!MissingRows(Rows(c), items, used, k)

LEMMA ViewIs ==
    ASSUME IInv, NEW c \in Calls, ImportRow(c)
    PROVE  /\ Rows(c) \in Seq(Row) /\ InvalidRows(Rows(c)) = {}
           /\ Done(c) \in Nat /\ Done(c) < Len(Rows(c)) /\ call[c].row = Done(c) + 1
           /\ tx.owner \in {Nobody, c} /\ items \in Table /\ used \in Nat
           /\ Holds(View(c), c, Done(c), call[c].errors)
<1>1. call[c].pc = "rows" /\ call[c].row <= Len(Rows(c)) /\ tx.owner \in {Nobody, c}
  BY DEF ImportRow, Writable, Rows
<1>2. Rows(c) \in Seq(Row) /\ InvalidRows(Rows(c)) = {} /\ call[c].row \in Nat \ {0}
  BY <1>1, RequestIs DEF IInv, Importing, Rows, State, Call
<1>3. Done(c) \in Nat /\ Done(c) < Len(Rows(c)) /\ call[c].row = Done(c) + 1
  BY <1>1, <1>2 DEF Done
<1>4. items \in Table /\ used \in 0..MaxId /\ used \in Nat /\ tx \in Tx
  BY RowsAssumption DEF IInv, State, Tx
<1>5. CASE tx.owner = c
  <2>1. View(c) = tx
    BY <1>5 DEF View
  <2>2. Working(c)
    BY DEF IInv
  <2>3. Holds(View(c), c, Done(c), call[c].errors)
    BY <1>4, <1>5, <2>1, <2>2 DEF Working, Holds, Rows, Done
  <2> QED  BY <1>1, <1>2, <1>3, <1>4, <2>3
<1>6. CASE tx.owner # c
  <2>1. Done(c) = 0 /\ call[c].errors = {}
    BY <1>1, <1>2, <1>6 DEF IInv, Working, Importing, Done
  <2>2. View(c) = [owner |-> c, items |-> items, used |-> used]
    BY <1>6 DEF View
  <2>3. View(c) \in Tx /\ View(c).owner = c /\ View(c).items = items /\ View(c).used = used
    BY <1>4, <2>2 DEF Tx
  <2>4. /\ Store!After(Rows(c), items, used, 0) = items
        /\ Store!MissingRows(Rows(c), items, used, 0) = {}
        /\ Cardinality(Inserts(Rows(c), 0)) = 0
    BY <1>4, AfterNone, InsertsAre
  <2>5. View(c).used = used + Cardinality(Inserts(Rows(c), 0))
    BY <1>4, <2>3, <2>4
  <2>6. Holds(View(c), c, 0, {})
    BY <2>3, <2>4, <2>5 DEF Holds
  <2> QED  BY <1>1, <1>2, <1>3, <1>4, <2>1, <2>6
<1> QED  BY <1>1, <1>2, <1>3, <1>4, <1>5, <1>6

(* The rest of the row's step, once its statement is known                  *)
LEMMA RowDone ==
    ASSUME IInv, NEW c \in Calls, ImportRow(c), call' \in [Calls -> Call],
           \A d \in Calls : d # c => call'[d] = call[d],
           call'[c].pc = "rows", call'[c].op = call[c].op, call'[c].rows = call[c].rows,
           call'[c].result = call[c].result, call'[c].row = call[c].row + 1, NoCommit,
           Holds(tx', c, Done(c) + 1, call'[c].errors)
    PROVE  IInv'
<1>1. /\ Rows(c) \in Seq(Row) /\ InvalidRows(Rows(c)) = {} /\ tx.owner \in {Nobody, c}
      /\ Done(c) \in Nat /\ Done(c) < Len(Rows(c)) /\ call[c].row = Done(c) + 1
  BY ViewIs
<1>2. items' = items /\ used' = used /\ unannounced' = unannounced /\ lost' = lost
  BY DEF NoCommit
<1>3. tx' \in Tx /\ tx'.owner = c
  BY DEF Holds
<1>4. State'
  BY <1>2, <1>3 DEF State, IInv, Tx
<1>5. Asking(c) /\ Importing(c) /\ call[c].pc = "rows"
  BY DEF IInv, ImportRow
<1>6. Asking(c)'
  BY <1>5 DEF Asking
<1>7. Importing(c)'
  <2>1. InvalidRows(call[c].rows)' = {}
    BY <1>1 DEF Rows, InvalidRows
  <2>2. call'[c].row <= Len(call'[c].rows) + 1 /\ call'[c].row # 1
    BY <1>1 DEF Rows
  <2> QED  BY <1>5, <2>1, <2>2 DEF Importing
<1>8. Working(c)'
  <2>1. call'[c].row > 1 /\ call'[c].row - 1 = Done(c) + 1
    BY <1>1
  <2> QED  BY <1>2, <2>1 DEF Working, Holds, Rows
<1> QED  BY <1>1, <1>3, <1>4, <1>6, <1>7, <1>8, OthersKeep

(* A statement that found its row, or did not find it                      *)
LEMMA CallCounts ==
    ASSUME IInv, NEW c \in Calls, ImportRow(c),
           \/ call' = [call EXCEPT ![c].row = @ + 1, ![c].created = @ + 1]
           \/ call' = [call EXCEPT ![c].row = @ + 1, ![c].updated = @ + 1]
    PROVE  /\ call' \in [Calls -> Call] /\ \A d \in Calls : d # c => call'[d] = call[d]
           /\ call'[c].pc = "rows" /\ call'[c].op = call[c].op /\ call'[c].rows = call[c].rows
           /\ call'[c].result = call[c].result /\ call'[c].row = call[c].row + 1
           /\ call'[c].errors = call[c].errors
<1>1. call \in [Calls -> Call] /\ call[c].pc = "rows"
  BY DEF IInv, State, ImportRow
<1> DEFINE row == call[c].row + 1
           created == call[c].created + 1
           updated == call[c].updated + 1
<1>2. \/ call' = [call EXCEPT ![c] = [call[c] EXCEPT !.row = row, !.created = created]]
      \/ call' = [call EXCEPT ![c] = [call[c] EXCEPT !.row = row, !.updated = updated]]
  BY <1>1 DEF Call
<1>3. row \in Nat \ {0} /\ created \in Nat /\ updated \in Nat /\ call[c] \in Call
  BY <1>1 DEF Call
<1> HIDE DEF row, created, updated
<1>4. PICK r : /\ r \in Call /\ r.pc = "rows" /\ r.op = call[c].op /\ r.rows = call[c].rows
               /\ r.result = call[c].result /\ r.row = row /\ r.errors = call[c].errors
               /\ call' = [call EXCEPT ![c] = r]
  <2>1. CASE call' = [call EXCEPT ![c] = [call[c] EXCEPT !.row = row, !.created = created]]
    <3>1. [call[c] EXCEPT !.row = row, !.created = created] \in Call
      BY <1>3 DEF Call
    <3> QED  BY <1>1, <1>3, <2>1, <3>1 DEF Call
  <2>2. CASE call' = [call EXCEPT ![c] = [call[c] EXCEPT !.row = row, !.updated = updated]]
    <3>1. [call[c] EXCEPT !.row = row, !.updated = updated] \in Call
      BY <1>3 DEF Call
    <3> QED  BY <1>1, <1>3, <2>2, <3>1 DEF Call
  <2> QED  BY <1>2, <2>1, <2>2
<1>5. call'[c] = r /\ call' \in [Calls -> Call] /\ \A d \in Calls : d # c => call'[d] = call[d]
  BY <1>1, <1>4
<1> QED  BY <1>4, <1>5 DEF row

LEMMA CallReports ==
    ASSUME IInv, NEW c \in Calls, ImportRow(c),
           call' = [call EXCEPT ![c].row = @ + 1, ![c].errors = @ \cup {call[c].row}]
    PROVE  /\ call' \in [Calls -> Call] /\ \A d \in Calls : d # c => call'[d] = call[d]
           /\ call'[c].pc = "rows" /\ call'[c].op = call[c].op /\ call'[c].rows = call[c].rows
           /\ call'[c].result = call[c].result /\ call'[c].row = call[c].row + 1
           /\ call'[c].errors = call[c].errors \cup {call[c].row}
<1>1. call \in [Calls -> Call] /\ call[c].pc = "rows"
  BY DEF IInv, State, ImportRow
<1>2. call[c].errors \cup {call[c].row} \in SUBSET Nat
  BY <1>1 DEF Call
<1> DEFINE row == call[c].row + 1
           errors == call[c].errors \cup {call[c].row}
<1>3. call' = [call EXCEPT ![c] = [call[c] EXCEPT !.row = row, !.errors = errors]]
  BY <1>1 DEF Call
<1>4. row \in Nat \ {0} /\ errors \in SUBSET Nat
  BY <1>1, <1>2 DEF Call
<1> HIDE DEF row, errors
<1>5. [call[c] EXCEPT !.row = row, !.errors = errors] \in Call
  BY <1>1, <1>4 DEF Call
<1>6. /\ call' \in [Calls -> Call] /\ call'[c] = [call[c] EXCEPT !.row = row, !.errors = errors]
      /\ \A d \in Calls : d # c => call'[d] = call[d]
  BY <1>1, <1>3, <1>5
<1>7. \A r \in Call :
        LET s == [r EXCEPT !.row = row, !.errors = errors]
        IN  /\ s.pc = r.pc /\ s.op = r.op /\ s.rows = r.rows /\ s.result = r.result
            /\ s.row = row /\ s.errors = errors
  BY DEF Call
<1>8. call[c] \in Call
  BY <1>1
<1>9. /\ call'[c].pc = "rows" /\ call'[c].op = call[c].op /\ call'[c].rows = call[c].rows
      /\ call'[c].result = call[c].result /\ call'[c].row = row /\ call'[c].errors = errors
  BY <1>1, <1>6, <1>7, <1>8
<1> QED  BY <1>6, <1>9 DEF row, errors

LEMMA InsertRowKeeps ==
    ASSUME IInv, NEW c \in Calls, ImportRow(c), Rows(c)[Done(c) + 1].id = NoId
    PROVE  IInv'
<1> DEFINE v == View(c)
           k == Done(c)
           row == Rows(c)[k + 1]
           id == v.used + 1
           stored == Stored(row.content)
<1>1. /\ Rows(c) \in Seq(Row) /\ InvalidRows(Rows(c)) = {} /\ k \in Nat /\ k < Len(Rows(c))
      /\ call[c].row = k + 1 /\ items \in Table /\ used \in Nat
      /\ Holds(v, c, k, call[c].errors)
  BY ViewIs
<1>2. InsertRow(c, row)
  BY <1>1 DEF ImportRow, Rows
<1>3. /\ v.used < MaxId /\ NoCommit
      /\ call' = [call EXCEPT ![c].row = @ + 1, ![c].created = @ + 1]
      /\ tx' = [v EXCEPT !.items[id] = stored, !.used = @ + 1]
  BY <1>2 DEF InsertRow
<1>4. id \in Ids /\ id \in 0..MaxId /\ stored \in Item
  <2>1. v.used \in Nat
    BY <1>1, RowsAssumption DEF Holds, Tx
  <2>2. k + 1 \in DOMAIN Rows(c)
    BY <1>1
  <2> QED  BY <1>1, <1>3, <2>1, <2>2, RowsAssumption, StoredIsItem DEF Ids
<1>5. /\ ~Store!Missing(Rows(c), items, used, k + 1)
      /\ Store!Target(Rows(c), used, k + 1) = used + (Cardinality(Inserts(Rows(c), k)) + 1)
      /\ Cardinality(Inserts(Rows(c), k + 1)) = Cardinality(Inserts(Rows(c), k)) + 1
      /\ Cardinality(Inserts(Rows(c), k)) \in Nat
  BY <1>1, InsertIs, InsertsAre
<1>6. Store!Target(Rows(c), used, k + 1) = id
  BY <1>1, <1>5 DEF Holds
<1>7. /\ Store!After(Rows(c), items, used, k + 1) =
           [Store!After(Rows(c), items, used, k) EXCEPT ![id] = stored]
      /\ Store!MissingRows(Rows(c), items, used, k + 1) = Store!MissingRows(Rows(c), items, used, k)
  BY <1>1, <1>4, <1>5, <1>6, AfterWriting
<1> HIDE DEF v, k, id, stored
<1>8. v \in Tx /\ v.owner = c
  BY <1>1 DEF Holds
<1>9. tx' \in Tx /\ tx'.owner = c /\ tx'.items = [v.items EXCEPT ![id] = stored] /\ tx'.used = v.used + 1
  <2>1. [v.items EXCEPT ![id] = stored] \in Table
    BY <1>4, <1>8 DEF Tx, Table
  <2>2. v.used + 1 \in 0..MaxId
    BY <1>4 DEF id
  <2> QED  BY <1>3, <1>8, <2>1, <2>2 DEF Tx
<1>10. Holds(tx', c, k + 1, call[c].errors)
  BY <1>1, <1>5, <1>7, <1>9 DEF Holds
<1> QED  BY <1>3, <1>10, CallCounts, RowDone DEF k

LEMMA UpdateRowKeeps ==
    ASSUME IInv, NEW c \in Calls, ImportRow(c), Rows(c)[Done(c) + 1].id # NoId
    PROVE  IInv'
<1> DEFINE v == View(c)
           k == Done(c)
           row == Rows(c)[k + 1]
           id == row.id
           stored == Stored(row.content)
<1>1. /\ Rows(c) \in Seq(Row) /\ InvalidRows(Rows(c)) = {} /\ k \in Nat /\ k < Len(Rows(c))
      /\ call[c].row = k + 1 /\ items \in Table /\ used \in Nat
      /\ Holds(v, c, k, call[c].errors)
  BY ViewIs
<1>2. UpdateRow(c, row)
  BY <1>1 DEF ImportRow, Rows
<1>3. /\ Store!Target(Rows(c), used, k + 1) = id /\ id \in Ids
      /\ Store!Missing(Rows(c), items, used, k + 1) <=> v.items[id] = NoItem
  BY <1>1, MissingIs DEF Holds
<1>4. stored \in Item
  <2>1. k + 1 \in DOMAIN Rows(c)
    BY <1>1
  <2> QED  BY <1>1, <2>1, StoredIsItem
<1>5. Inserts(Rows(c), k + 1) = Inserts(Rows(c), k)
  BY <1>1, InsertsAre
<1>7. CASE v.items[id] = NoItem
  <2>1. /\ NoCommit /\ tx' = v
        /\ call' = [call EXCEPT ![c].row = @ + 1, ![c].errors = @ \cup {call[c].row}]
    BY <1>2, <1>7 DEF UpdateRow
  <2>2. /\ Store!After(Rows(c), items, used, k + 1) = Store!After(Rows(c), items, used, k)
        /\ Store!MissingRows(Rows(c), items, used, k + 1) =
             Store!MissingRows(Rows(c), items, used, k) \cup {k + 1}
    BY <1>1, <1>3, <1>7, AfterMissing
  <2>3. Holds(tx', c, k + 1, call[c].errors \cup {call[c].row})
    BY <1>1, <1>5, <2>1, <2>2 DEF Holds
  <2> QED  BY <2>1, <2>3, CallReports, RowDone
<1>8. CASE v.items[id] # NoItem
  <2>1. /\ NoCommit /\ tx' = [v EXCEPT !.items[id] = stored]
        /\ call' = [call EXCEPT ![c].row = @ + 1, ![c].updated = @ + 1]
    BY <1>2, <1>8 DEF UpdateRow
  <2>2. /\ Store!After(Rows(c), items, used, k + 1) =
             [Store!After(Rows(c), items, used, k) EXCEPT ![id] = stored]
        /\ Store!MissingRows(Rows(c), items, used, k + 1) = Store!MissingRows(Rows(c), items, used, k)
    BY <1>1, <1>3, <1>8, AfterWriting
  <2> HIDE DEF v, k, id, stored
  <2>3. v \in Tx /\ v.owner = c
    BY <1>1 DEF Holds
  <2>4. tx' \in Tx /\ tx'.owner = c /\ tx'.items = [v.items EXCEPT ![id] = stored] /\ tx'.used = v.used
    <3>1. [v.items EXCEPT ![id] = stored] \in Table
      BY <1>3, <1>4, <2>3 DEF Tx, Table
    <3> QED  BY <2>1, <2>3, <3>1 DEF Tx
  <2>5. Holds(tx', c, k + 1, call[c].errors)
    BY <1>1, <1>5, <2>2, <2>4 DEF Holds
  <2> QED  BY <2>1, <2>5, CallCounts, RowDone DEF k
<1> QED  BY <1>7, <1>8

LEMMA StepKeeps == ASSUME IInv, [Next]_vars PROVE IInv'
<1>1. ASSUME NEW c \in Calls, ImportRow(c) PROVE IInv'
  BY <1>1, InsertRowKeeps, UpdateRowKeeps
<1>2. CASE Next
  <2>1. ASSUME NEW r \in Readers, NEW match \in Matches, NEW offset \in Offsets,
               ListRows(r, match, offset) \/ CountRows(r) \/ ListDone(r)
        PROVE  UNCHANGED <<items, used, tx, call, unannounced, lost>>
    BY <2>1 DEF ListRows, CountRows, ListDone
  <2>2. ASSUME NEW r \in Readers, CountRows(r) \/ ListDone(r)
        PROVE  UNCHANGED <<items, used, tx, call, unannounced, lost>>
    BY <2>2 DEF CountRows, ListDone
  <2>3. ASSUME UNCHANGED <<items, used, tx, call, unannounced, lost>> PROVE IInv'
    BY <2>3 DEF IInv, State, Asking, Importing, Working
  <2> QED
    BY <1>1, <1>2, <2>1, <2>2, <2>3, RefusalsKeep, FailKeeps, StatementsKeep, CommitImportKeeps,
       BeginKeeps, ArriveKeeps, ReplyKeeps, CutKeeps DEF Next
<1>3. CASE UNCHANGED vars
  BY <1>3 DEF vars, IInv, State, Asking, Importing, Working
<1> QED  BY <1>2, <1>3

LEMMA InitInv == Init => IInv
<1> SUFFICES ASSUME Init PROVE IInv
  OBVIOUS
<1>1. items \in Table /\ used \in 0..MaxId /\ call \in [Calls -> Call]
  BY RowsAssumption, IdleIs DEF Init, Table
<1>2. State
  BY <1>1, NoTxIs DEF Init, State, Tx
<1>3. \A c \in Calls : call[c] = Idle /\ tx.owner # c
  BY NoTxIs, CallsAssumption DEF Init
<1>4. \A c \in Calls : Asking(c) /\ Importing(c) /\ Working(c)
  BY <1>3, IdleIs DEF Asking, Importing, Working
<1> QED  BY <1>2, <1>4 DEF IInv

(* What is known of the calls and of the open transaction in every         *)
(* reachable state.                                                        *)
THEOREM Invariant == Spec => []IInv
BY InitInv, StepKeeps, PTL DEF Spec

(* The state has its types, and the transaction belongs to an import that  *)
(* has run a statement.                                                    *)
THEOREM TypeCorrect == Spec => []TypeOK
<1>1. IInv => TypeOK
  BY DEF IInv, State, Call, Table, Working, TypeOK
<1> QED  BY <1>1, Invariant, PTL

-----------------------------------------------------------------------------
(* Announcements *)

(* A change nobody was told of has a call that is about to tell, unless a  *)
(* call was cut between its commit and notify_changed.                     *)
THEOREM ChangesAreTold == Spec => []SilentOnlyIfCut
<1>1. Init => SilentOnlyIfCut
  BY DEF Init, SilentOnlyIfCut
<1>2. ASSUME IInv, SilentOnlyIfCut, [Next]_vars PROVE SilentOnlyIfCut'
  <2>1. ASSUME NEW c \in Calls, call[c].pc # "notify", NoCommit,
               \A d \in Calls : d # c => call'[d] = call[d]
        PROVE  SilentOnlyIfCut'
    BY <1>2, <2>1 DEF NoCommit, SilentOnlyIfCut
  <2>2. ASSUME NEW c \in Calls, Goto(c, "notify") PROVE SilentOnlyIfCut'
    BY <1>2, <2>2, GotoIs DEF SilentOnlyIfCut
  <2>3. ASSUME NEW c \in Calls, Create(c) \/ Update(c) \/ Delete(c) \/ CommitImport(c)
        PROVE  Goto(c, "notify")
    BY <2>3 DEF Create, Update, Delete, CommitImport
  <2>4. ASSUME NEW c \in Calls, NEW request \in Requests, Arrive(c, request)
        PROVE  /\ call[c].pc # "notify" /\ NoCommit
               /\ \A d \in Calls : d # c => call'[d] = call[d]
    <3>1. call \in [Calls -> Call]
      BY <1>2 DEF IInv, State
    <3> QED  BY <2>4, <3>1 DEF Arrive
  <2>5. ASSUME NEW c \in Calls, Begin(c) PROVE SilentOnlyIfCut'
    BY <1>2, <2>1, <2>5, GotoIs DEF Begin
  <2>6. ASSUME NEW c \in Calls, ImportRow(c) PROVE SilentOnlyIfCut'
    <3>1. call \in [Calls -> Call]
      BY <1>2 DEF IInv, State
    <3>2. call[c].pc # "notify" /\ NoCommit /\ \A d \in Calls : d # c => call'[d] = call[d]
      BY <2>6, <3>1 DEF ImportRow, InsertRow, UpdateRow
    <3> QED  BY <2>1, <3>2
  <2>7. ASSUME NEW c \in Calls, Notify(c) PROVE SilentOnlyIfCut'
    BY <2>7 DEF Notify, SilentOnlyIfCut
  <2>8. ASSUME NEW S \in SUBSET Calls, Cut(S) PROVE SilentOnlyIfCut'
    BY <1>2, <2>8 DEF Cut, SilentOnlyIfCut
  <2>9. ASSUME UNCHANGED <<call, unannounced, lost>> PROVE SilentOnlyIfCut'
    BY <1>2, <2>9 DEF SilentOnlyIfCut
  <2>10. CASE Next
    <3>1. ASSUME NEW r \in Readers, NEW match \in Matches, NEW offset \in Offsets,
                 ListRows(r, match, offset)
          PROVE  SilentOnlyIfCut'
      BY <2>9, <3>1 DEF ListRows
    <3>2. ASSUME NEW r \in Readers, CountRows(r) \/ ListDone(r) PROVE SilentOnlyIfCut'
      BY <2>9, <3>2 DEF CountRows, ListDone
    <3>3. CASE \E c \in Calls :
                  \/ \E request \in Requests : Arrive(c, request)
                  \/ InvalidInput(c) \/ Create(c) \/ Update(c) \/ Delete(c) \/ NotFound(c)
                  \/ TooMany(c) \/ NothingToImport(c) \/ RejectInvalid(c) \/ Begin(c)
                  \/ ImportRow(c) \/ RollBack(c) \/ CommitImport(c)
                  \/ Notify(c) \/ Fail(c) \/ Reply(c)
      <4>1. PICK c \in Calls :
                  \/ \E request \in Requests : Arrive(c, request)
                  \/ InvalidInput(c) \/ Create(c) \/ Update(c) \/ Delete(c) \/ NotFound(c)
                  \/ TooMany(c) \/ NothingToImport(c) \/ RejectInvalid(c) \/ Begin(c)
                  \/ ImportRow(c) \/ RollBack(c) \/ CommitImport(c)
                  \/ Notify(c) \/ Fail(c) \/ Reply(c)
        BY <3>3
      <4>2. CASE \E request \in Requests : Arrive(c, request)
        BY <2>1, <2>4, <4>2
      <4>3. CASE InvalidInput(c) \/ NotFound(c) \/ TooMany(c) \/ NothingToImport(c)
                 \/ RejectInvalid(c) \/ RollBack(c) \/ Fail(c) \/ Reply(c)
        <5>1. call[c].pc # "notify" /\ NoCommit /\ \A d \in Calls : d # c => call'[d] = call[d]
          <6>1. call \in [Calls -> Call]
            BY <1>2 DEF IInv, State
          <6> QED
            BY <4>3, <6>1 DEF InvalidInput, NotFound, TooMany, NothingToImport, RejectInvalid,
               RollBack, Fail, Reply, Statement, UsesStorage, Answer
        <5> QED  BY <2>1, <5>1
      <4> QED  BY <2>2, <2>3, <2>5, <2>6, <2>7, <4>1, <4>2, <4>3
    <3> QED  BY <2>8, <2>10, <3>1, <3>2, <3>3 DEF Next
  <2> QED  BY <1>2, <2>9, <2>10 DEF vars
<1> QED  BY <1>1, <1>2, Invariant, PTL DEF Spec

-----------------------------------------------------------------------------
(* The service implements ItemsStore. *)

(* What the callers of the store see of a call                              *)
Seen(r) ==
    [phase |-> Phase(r.pc), op |-> r.op, rows |-> r.rows, result |-> r.result,
     errors |-> IF r.pc = "answered" THEN r.errors ELSE {}]

LEMMA AskedIsSeen == Asked = [c \in Calls |-> Seen(call[c])]
BY DEF Asked, Seen

LEMMA AskedSteps ==
    ASSUME NEW c \in Calls, call \in [Calls -> Call], call' \in [Calls -> Call],
           \A d \in Calls : d # c => call'[d] = call[d]
    PROVE  /\ Asked' = [Asked EXCEPT ![c] = Seen(call'[c])]
           /\ Asked[c] = Seen(call[c])
<1>1. Asked' = [d \in Calls |-> Seen(call'[d])]
  BY DEF Asked, Seen
<1>2. Asked = [d \in Calls |-> Seen(call[d])]
  BY AskedIsSeen
<1> QED  BY <1>1, <1>2

LEMMA SeenIs ==
    ASSUME IInv, NEW c \in Calls
    PROVE  /\ Asked[c] = Seen(call[c])
           /\ Asked[c].op = call[c].op /\ Asked[c].rows = call[c].rows
           /\ call[c].pc \in {"check", "rows"} => Asked[c].phase = "asked"
           /\ call[c].pc = "notify" => Asked[c].phase = "changed"
           /\ call[c].pc = "answered" => Asked[c].phase = "answered"
           /\ call[c].pc = "idle" => Asked[c] = Store!Idle
           /\ call[c].pc # "idle" => Asked[c] # Store!Idle
<1>1. Asked[c] = Seen(call[c])
  BY AskedIsSeen
<1>2. call[c].pc = "idle" => call[c] = Idle
  BY DEF IInv, Asking
<1>3. Seen(Idle) = Store!Idle
  BY DEF Seen, Idle, Store!Idle, Phase
<1>4. call[c].pc \in {"idle", "check", "rows", "notify", "answered"}
  BY DEF IInv, State, Call
<1>5. /\ call[c].pc \in {"check", "rows"} => Seen(call[c]).phase = "asked"
      /\ call[c].pc = "notify" => Seen(call[c]).phase = "changed"
      /\ call[c].pc = "answered" => Seen(call[c]).phase = "answered"
  BY DEF Seen, Phase
<1>6. Store!Idle.phase = "idle"
  BY DEF Store!Idle
<1>7. Seen(call[c]).op = call[c].op /\ Seen(call[c]).rows = call[c].rows
  BY DEF Seen
<1> QED  BY <1>1, <1>2, <1>3, <1>4, <1>5, <1>6, <1>7

LEMMA AnswerSeen ==
    ASSUME IInv, NEW c \in Calls, NEW result \in Results, NEW errors \in SUBSET Nat,
           Answer(c, result, errors)
    PROVE  Store!Answer(c, result, errors)
<1>1. call \in [Calls -> Call]
  BY DEF IInv, State
<1>2. /\ call' \in [Calls -> Call] /\ call'[c] = AnsweredCall(result, errors)
      /\ \A d \in Calls : d # c => call'[d] = call[d]
  <2>1. call' = [call EXCEPT ![c] = AnsweredCall(result, errors)]
    BY DEF Answer, AnsweredCall
  <2>2. AnsweredCall(result, errors) \in Call
    BY AnsweredIs
  <2> QED  BY <1>1, <2>1, <2>2
<1>3. Seen(AnsweredCall(result, errors)) = Store!Answered(result, errors)
  BY AnsweredIs DEF Seen, Phase, Store!Answered
<1> QED  BY <1>1, <1>2, <1>3, AskedSteps DEF Store!Answer

(* A call that moves on without being seen to                              *)
LEMMA Stutters ==
    ASSUME IInv, NEW c \in Calls, NoCommit, call' \in [Calls -> Call],
           \A d \in Calls : d # c => call'[d] = call[d],
           call[c].pc \in {"check", "rows"}, call'[c].pc = "rows", call'[c].op = call[c].op,
           call'[c].rows = call[c].rows, call'[c].result = call[c].result
    PROVE  UNCHANGED Store!vars
<1>1. call \in [Calls -> Call]
  BY DEF IInv, State
<1>2. Seen(call'[c]) = Seen(call[c])
  BY DEF Seen, Phase
<1>3. Asked' = [Asked EXCEPT ![c] = Asked[c]]
  BY <1>1, <1>2, AskedSteps
<1>4. Asked' = Asked
  BY <1>3, AskedIsSeen
<1> QED  BY <1>4 DEF Store!vars, NoCommit

LEMMA Changes ==
    ASSUME IInv, NEW c \in Calls, call[c].pc \in {"check", "rows"}, Goto(c, "notify")
    PROVE  Asked' = [Asked EXCEPT ![c].phase = "changed"]
<1>1. call \in [Calls -> Call] /\ call'[c].pc = "notify"
  BY GotoIs DEF IInv, State
<1>2. Asked' = [Asked EXCEPT ![c] = Seen(call'[c])] /\ Asked[c] = Seen(call[c])
  BY <1>1, GotoIs, AskedSteps
<1>3. Seen(call'[c]) = [Seen(call[c]) EXCEPT !.phase = "changed"]
  BY <1>1, GotoIs DEF Seen, Phase
<1>4. [Asked EXCEPT ![c].phase = "changed"] = [Asked EXCEPT ![c] = [Asked[c] EXCEPT !.phase = "changed"]]
  BY AskedIsSeen
<1> QED  BY <1>2, <1>3, <1>4

(* A batch of one row                                                      *)
LEMMA OneMissing ==
    ASSUME NEW rows \in Seq(Row), Len(rows) = 1, NEW t \in Table, NEW u \in Nat
    PROVE  /\ Store!MissingRows(rows, t, u, 1) # {} <=> Store!Missing(rows, t, u, 1)
           /\ rows[1].id = NoId =>
                /\ ~Store!Missing(rows, t, u, 1)
                /\ Store!Target(rows, u, 1) = u + 1 /\ Cardinality(Inserts(rows, 1)) = 1
           /\ rows[1].id # NoId =>
                /\ Store!Missing(rows, t, u, 1) <=> t[rows[1].id] = NoItem
                /\ Store!Target(rows, u, 1) = rows[1].id /\ Cardinality(Inserts(rows, 1)) = 0
           /\ ~Store!Missing(rows, t, u, 1) /\ Store!Target(rows, u, 1) \in Ids =>
                Store!After(rows, t, u, 1) =
                  [t EXCEPT ![Store!Target(rows, u, 1)] = Stored(rows[1].content)]
<1>1. 0 + 1 = 1 /\ 1..1 = {1}
  OBVIOUS
<1>2. Store!MissingRows(rows, t, u, 1) # {} <=> Store!Missing(rows, t, u, 1)
  BY <1>1 DEF Store!MissingRows
<1>3. ASSUME rows[1].id = NoId
      PROVE  /\ ~Store!Missing(rows, t, u, 1)
             /\ Store!Target(rows, u, 1) = u + 1 /\ Cardinality(Inserts(rows, 1)) = 1
  <2>1. PICK k \in Nat : k = 0
    OBVIOUS
  <2>2. k + 1 = 1 /\ rows[k + 1].id = NoId
    BY <1>3, <2>1
  <2>3. /\ ~Store!Missing(rows, t, u, k + 1)
        /\ Store!Target(rows, u, k + 1) = u + (Cardinality(Inserts(rows, k)) + 1)
        /\ Cardinality(Inserts(rows, k + 1)) = Cardinality(Inserts(rows, k)) + 1
    BY <2>2, InsertIs, InsertsAre
  <2>4. Cardinality(Inserts(rows, k)) = 0
    BY <2>1, InsertsAre
  <2> QED  BY <2>2, <2>3, <2>4
<1>4. ASSUME rows[1].id # NoId
      PROVE  /\ Store!Missing(rows, t, u, 1) <=> t[rows[1].id] = NoItem
             /\ Store!Target(rows, u, 1) = rows[1].id /\ Cardinality(Inserts(rows, 1)) = 0
  <2>1. Inserts(rows, 1) = {}
    BY <1>1, <1>4 DEF Inserts
  <2>2. Store!Inserts(rows, 1) = {}
    BY <2>1, StoreNames
  <2>3. Store!Target(rows, u, 1) = rows[1].id
    BY <1>4 DEF Store!Target
  <2> QED  BY <1>4, <2>1, <2>2, <2>3, FS_EmptySet DEF Store!Missing
<1>5. ASSUME ~Store!Missing(rows, t, u, 1), Store!Target(rows, u, 1) \in Ids
      PROVE  Store!After(rows, t, u, 1) =
               [t EXCEPT ![Store!Target(rows, u, 1)] = Stored(rows[1].content)]
  <2>1. PICK k \in Nat : k = 0
    OBVIOUS
  <2>2. k + 1 = 1 /\ ~Store!Missing(rows, t, u, k + 1) /\ Store!Target(rows, u, k + 1) \in Ids
    BY <1>5, <2>1
  <2>3. Store!After(rows, t, u, k) = t
    BY <2>1, AfterNone
  <2>4. Store!After(rows, t, u, k + 1) =
          [t EXCEPT ![Store!Target(rows, u, k + 1)] = Stored(rows[k + 1].content)]
    BY <2>2, <2>3, AfterWriting
  <2> QED  BY <2>2, <2>4
<1> QED  BY <1>2, <1>3, <1>4, <1>5

(* One lemma for each step of the store                                    *)

LEMMA Refusals ==
    ASSUME IInv, NEW c \in Calls, InvalidInput(c) \/ TooMany(c) \/ NothingToImport(c)
    PROVE  Store!Refuse(c)
<1>1. UNCHANGED <<items, used, unannounced, lost>> /\ Asked[c].phase = "asked"
      /\ Asked[c].op = call[c].op /\ Asked[c].rows = call[c].rows
  BY SeenIs DEF InvalidInput, TooMany, NothingToImport, NoCommit
<1>2. "invalid" \in Results /\ "ok" \in Results /\ {} \in SUBSET Nat
  BY DEF Results
<1>3. CASE InvalidInput(c)
  <2>1. call[c].op \in {"create", "update"} /\ InvalidRows(call[c].rows) # {} /\ Answer(c, "invalid", {})
    BY <1>3 DEF InvalidInput
  <2>2. Store!Answer(c, "invalid", {})
    BY <1>2, <2>1, AnswerSeen
  <2> QED  BY <1>1, <2>1, <2>2, StoreNames DEF Store!Refuse
<1>4. CASE TooMany(c)
  <2>1. call[c].op = "import" /\ Len(call[c].rows) > MaxImportRows /\ Answer(c, "invalid", {})
    BY <1>4 DEF TooMany
  <2>2. Store!Answer(c, "invalid", {})
    BY <1>2, <2>1, AnswerSeen
  <2> QED  BY <1>1, <2>1, <2>2 DEF Store!Refuse
<1>5. CASE NothingToImport(c)
  <2>1. call[c].op = "import" /\ call[c].rows = <<>> /\ Answer(c, "ok", {})
    BY <1>5 DEF NothingToImport
  <2>2. Store!Answer(c, "ok", {})
    BY <1>2, <2>1, AnswerSeen
  <2> QED  BY <1>1, <2>1, <2>2 DEF Store!Refuse
<1> QED  BY <1>3, <1>4, <1>5

LEMMA Reports ==
    ASSUME IInv, NEW c \in Calls, NotFound(c) \/ RejectInvalid(c) \/ RollBack(c)
    PROVE  Store!Report(c)
<1> DEFINE rows == call[c].rows
<1>1. UNCHANGED <<items, used, unannounced, lost>> /\ Asked[c].phase = "asked"
      /\ Asked[c].op = call[c].op /\ Asked[c].rows = rows
  BY SeenIs DEF NotFound, RejectInvalid, RollBack, NoCommit, Statement
<1>2. "rejected" \in Results /\ "not_found" \in Results /\ {} \in SUBSET Nat
  BY DEF Results
<1>3. rows \in Seq(Row) /\ items \in Table /\ used \in Nat /\ call[c].pc \in {"check", "rows"}
  BY RequestIs, RowsAssumption DEF NotFound, RejectInvalid, RollBack, Statement, IInv, State
<1>4. CASE NotFound(c)
  <2>1. /\ call[c].op \in {"update", "delete"} /\ items[rows[1].id] = NoItem
        /\ Answer(c, "not_found", {})
    BY <1>4 DEF NotFound, Statement
  <2>2. Len(rows) = 1 /\ rows[1].id # NoId
    BY <1>3, <2>1, RequestIs
  <2>3. Store!MissingRows(rows, items, used, Len(rows)) # {}
    BY <1>3, <2>1, <2>2, OneMissing
  <2>4. Store!Answer(c, "not_found", {})
    BY <1>2, <2>1, AnswerSeen
  <2> HIDE DEF rows
  <2> QED  BY <1>1, <2>1, <2>3, <2>4 DEF Store!Report
<1>5. CASE RejectInvalid(c)
  <2>1. /\ call[c].op = "import" /\ Len(rows) <= MaxImportRows /\ InvalidRows(rows) # {}
        /\ Answer(c, "rejected", InvalidRows(rows))
    BY <1>5 DEF RejectInvalid
  <2>2. InvalidRows(rows) \in SUBSET Nat
    <3>1. DOMAIN rows \subseteq Nat
      BY <1>3
    <3> QED  BY <3>1 DEF InvalidRows
  <2>3. Store!Answer(c, "rejected", InvalidRows(rows))
    BY <1>2, <2>1, <2>2, AnswerSeen
  <2> HIDE DEF rows
  <2> QED  BY <1>1, <2>1, <2>3, StoreNames DEF Store!Report
<1>6. CASE RollBack(c)
  <2>1. /\ call[c].pc = "rows" /\ call[c].row > Len(rows) /\ call[c].errors # {}
        /\ Answer(c, "rejected", call[c].errors)
    BY <1>6 DEF RollBack
  <2>2. /\ call[c].op = "import" /\ InvalidRows(rows) = {} /\ Len(rows) <= MaxImportRows
        /\ call[c].row <= Len(rows) + 1 /\ rows # <<>> /\ call[c].row \in Nat /\ Working(c)
        /\ call[c].errors \in SUBSET Nat
    BY <2>1 DEF IInv, Importing, State, Call
  <2>3. call[c].row - 1 = Len(rows) /\ call[c].row > 1
    BY <1>3, <2>1, <2>2
  <2>4. call[c].errors = Store!MissingRows(rows, items, used, Len(rows))
    BY <2>1, <2>2, <2>3 DEF Working
  <2>5. Store!Answer(c, "rejected", call[c].errors)
    BY <1>2, <2>1, <2>2, AnswerSeen
  <2> HIDE DEF rows
  <2> QED  BY <1>1, <2>1, <2>2, <2>4, <2>5, StoreNames DEF Store!Report
<1> QED  BY <1>4, <1>5, <1>6

LEMMA Statements ==
    ASSUME IInv, NEW c \in Calls, Create(c) \/ Update(c) \/ Delete(c)
    PROVE  Store!Perform(c)
<1> DEFINE rows == call[c].rows
<1>1. /\ call[c].pc = "check" /\ call[c].op \in {"create", "update", "delete"}
      /\ Goto(c, "notify") /\ unannounced' = TRUE /\ lost' = lost
  BY DEF Create, Update, Delete, Statement, Commit
<1>2. rows \in Seq(Row) /\ items \in Table /\ used \in 0..MaxId /\ used \in Nat
  BY <1>1, RequestIs, RowsAssumption DEF IInv, State
<1>3. Len(rows) = 1 /\ rows # <<>>
  BY <1>1, <1>2, RequestIs
<1>4. Asked[c].phase = "asked" /\ Asked[c].op = call[c].op /\ Asked[c].rows = rows
  BY <1>1, SeenIs
<1>5. Asked' = [Asked EXCEPT ![c].phase = "changed"]
  BY <1>1, Changes
<1>6. CASE Create(c)
  <2>1. /\ call[c].op = "create" /\ Valid(rows[1].content) /\ used < MaxId
        /\ items' = [items EXCEPT ![used + 1] = Stored(rows[1].content)] /\ used' = used + 1
    BY <1>6 DEF Create, Statement, Commit
  <2>2. rows[1].id = NoId /\ InvalidRows(rows) = {}
    BY <1>1, <1>2, <1>3, <2>1, RequestIs, OneRow
  <2>3. used + 1 \in Ids /\ used + 1 <= MaxId
    BY <1>2, <2>1, RowsAssumption DEF Ids
  <2>4. /\ Store!MissingRows(rows, items, used, 1) = {} /\ Cardinality(Inserts(rows, 1)) = 1
        /\ Store!After(rows, items, used, 1) = [items EXCEPT ![used + 1] = Stored(rows[1].content)]
    BY <1>2, <1>3, <2>2, <2>3, OneMissing
  <2> HIDE DEF rows
  <2> QED  BY <1>1, <1>3, <1>4, <1>5, <2>1, <2>2, <2>3, <2>4, StoreNames DEF Store!Perform
<1>7. CASE Update(c)
  <2>1. /\ call[c].op = "update" /\ Valid(rows[1].content) /\ items[rows[1].id] # NoItem
        /\ items' = [items EXCEPT ![rows[1].id] = Stored(rows[1].content)] /\ used' = used
    BY <1>7 DEF Update, Statement, Commit
  <2>2. rows[1].id # NoId /\ rows[1].id \in Ids /\ InvalidRows(rows) = {}
    BY <1>1, <1>2, <1>3, <2>1, RequestIs, OneRow
  <2>3. /\ Store!MissingRows(rows, items, used, 1) = {} /\ Cardinality(Inserts(rows, 1)) = 0
        /\ Store!After(rows, items, used, 1) = [items EXCEPT ![rows[1].id] = Stored(rows[1].content)]
    BY <1>2, <1>3, <2>1, <2>2, OneMissing
  <2>4. used' = used + 0 /\ used' <= MaxId
    BY <1>2, <2>1, RowsAssumption
  <2> HIDE DEF rows
  <2> QED  BY <1>1, <1>3, <1>4, <1>5, <2>1, <2>2, <2>3, <2>4, StoreNames DEF Store!Perform
<1>8. CASE Delete(c)
  <2>1. /\ call[c].op = "delete" /\ items[rows[1].id] # NoItem
        /\ items' = [items EXCEPT ![rows[1].id] = NoItem] /\ used' = used
    BY <1>8 DEF Delete, Statement, Commit
  <2>2. rows[1].id # NoId
    BY <1>1, <2>1, RequestIs
  <2>3. Store!MissingRows(rows, items, used, 1) = {}
    BY <1>2, <1>3, <2>1, <2>2, OneMissing
  <2> HIDE DEF rows
  <2> QED  BY <1>1, <1>3, <1>4, <1>5, <2>1, <2>3 DEF Store!Perform
<1> QED  BY <1>6, <1>7, <1>8

LEMMA ImportsCommit ==
    ASSUME IInv, NEW c \in Calls, CommitImport(c)
    PROVE  Store!Perform(c)
<1> DEFINE rows == call[c].rows
<1>1. /\ call[c].pc = "rows" /\ call[c].row > Len(rows) /\ call[c].errors = {}
      /\ items' = tx.items /\ used' = tx.used /\ unannounced' = TRUE /\ lost' = lost
      /\ Goto(c, "notify")
  BY DEF CommitImport, Commit
<1>2. /\ call[c].op = "import" /\ InvalidRows(rows) = {} /\ Len(rows) <= MaxImportRows
      /\ call[c].row <= Len(rows) + 1 /\ rows # <<>> /\ call[c].row \in Nat /\ rows \in Seq(Row)
      /\ Working(c) /\ tx.used \in 0..MaxId
  BY <1>1 DEF IInv, Importing, State, Call
<1>3. call[c].row - 1 = Len(rows) /\ call[c].row > 1
  BY <1>1, <1>2
<1>4. /\ tx.items = Store!After(rows, items, used, Len(rows))
      /\ tx.used = used + Cardinality(Inserts(rows, Len(rows)))
      /\ Store!MissingRows(rows, items, used, Len(rows)) = {}
  BY <1>1, <1>2, <1>3 DEF Working
<1>5. used' <= MaxId
  BY <1>1, <1>2, RowsAssumption
<1>6. Asked[c].phase = "asked" /\ Asked[c].op = call[c].op /\ Asked[c].rows = rows
  BY <1>1, SeenIs
<1>7. Asked' = [Asked EXCEPT ![c].phase = "changed"]
  BY <1>1, Changes
<1> HIDE DEF rows
<1> QED  BY <1>1, <1>2, <1>4, <1>5, <1>6, <1>7, StoreNames DEF Store!Perform

LEMMA Endings ==
    ASSUME IInv, NEW c \in Calls
    PROVE  /\ Notify(c) => Store!Announce(c)
           /\ Fail(c) => Store!Fail(c)
           /\ Reply(c) => Store!Reply(c)
<1>1. call \in [Calls -> Call]
  BY DEF IInv, State
<1>2. "ok" \in Results /\ "failed" \in Results /\ {} \in SUBSET Nat
  BY DEF Results
<1>3. ASSUME Notify(c) PROVE Store!Announce(c)
  <2>1. Answer(c, "ok", {}) /\ call[c].pc = "notify"
        /\ unannounced' = FALSE /\ lost' = FALSE /\ UNCHANGED <<items, used>>
    BY <1>3 DEF Notify
  <2> QED  BY <1>2, <2>1, AnswerSeen, SeenIs DEF Store!Announce
<1>4. ASSUME Fail(c) PROVE Store!Fail(c)
  <2>1. Answer(c, "failed", {}) /\ call[c].pc \in {"check", "rows"}
        /\ UNCHANGED <<items, used, unannounced, lost>>
    BY <1>4 DEF Fail, UsesStorage, NoCommit
  <2> QED  BY <1>2, <2>1, AnswerSeen, SeenIs DEF Store!Fail
<1>5. ASSUME Reply(c) PROVE Store!Reply(c)
  <2>1. call[c].pc = "answered" /\ call' = [call EXCEPT ![c] = Idle]
        /\ UNCHANGED <<items, used, unannounced, lost>>
    BY <1>5 DEF Reply, NoCommit
  <2>2. call' \in [Calls -> Call] /\ call'[c] = Idle /\ \A d \in Calls : d # c => call'[d] = call[d]
    BY <1>1, <2>1, IdleIs
  <2>3. Seen(Idle) = Store!Idle
    BY DEF Seen, Idle, Store!Idle, Phase
  <2>4. Asked' = [Asked EXCEPT ![c] = Store!Idle]
    BY <1>1, <2>2, <2>3, AskedSteps
  <2> QED  BY <2>1, <2>4, SeenIs DEF Store!Reply
<1> QED  BY <1>3, <1>4, <1>5

LEMMA Asks ==
    ASSUME IInv, NEW c \in Calls, NEW request \in Requests, Arrive(c, request)
    PROVE  Store!Ask(c, request)
<1> DEFINE op == request.op
           rows == request.rows
           r == AskedCall(op, rows)
<1>1. op \in {"create", "update", "delete", "import"} /\ rows \in Seq(Row)
  <2>1. request \in Request
    BY RequestsAssumption
  <2>2. \A row \in [id : {NoId}, content : Contents] : <<row>> \in Seq(Row)
    BY DEF Row
  <2>3. \A row \in [id : Ids, content : Contents] : <<row>> \in Seq(Row)
    BY DEF Row
  <2> QED  BY <2>1, <2>2, <2>3 DEF Request
<1>2. /\ call[c].pc = "idle" /\ call' = [call EXCEPT ![c] = r]
      /\ UNCHANGED <<items, used, unannounced, lost>>
  BY DEF Arrive, AskedCall, NoCommit
<1>3. /\ r \in Call /\ r.pc = "check" /\ r.op = op /\ r.rows = rows /\ r.errors = {}
      /\ r.result = "none"
  BY <1>1, AskedIs
<1> HIDE DEF op, rows, r
<1>4. Seen(r) = [phase |-> "asked", op |-> op, rows |-> rows, result |-> "none", errors |-> {}]
  BY <1>3 DEF Seen, Phase
<1>5. call \in [Calls -> Call]
  BY DEF IInv, State
<1>6. call' \in [Calls -> Call] /\ call'[c] = r /\ \A d \in Calls : d # c => call'[d] = call[d]
  BY <1>2, <1>3, <1>5
<1>7. Asked' = [Asked EXCEPT ![c] = Seen(r)]
  BY <1>5, <1>6, AskedSteps
<1> QED  BY <1>2, <1>4, <1>7, SeenIs DEF Store!Ask, op, rows

LEMMA Cuts ==
    ASSUME IInv, NEW S \in SUBSET Calls, Cut(S)
    PROVE  Store!Cut(S)
<1>1. /\ \E c \in S : call[c].pc # "idle"
      /\ call' = [c \in Calls |-> IF c \in S THEN Idle ELSE call[c]]
      /\ lost' = (lost \/ \E c \in S : call[c].pc = "notify")
      /\ UNCHANGED <<items, used, unannounced>>
  BY DEF Cut
<1>2. Seen(Idle) = Store!Idle
  BY DEF Seen, Idle, Store!Idle, Phase
<1>3. Asked' = [c \in Calls |-> Seen(call'[c])]
  BY DEF Asked, Seen
<1>4. Asked' = [c \in Calls |-> IF c \in S THEN Store!Idle ELSE Asked[c]]
  BY <1>1, <1>2, <1>3, AskedIsSeen
<1>5. \E c \in S : Asked[c] # Store!Idle
  BY <1>1, SeenIs
<1>6. \A c \in S : Asked[c].phase = "changed" <=> call[c].pc = "notify"
  <2> TAKE c \in S
  <2>1. call[c].pc \in {"idle", "check", "rows", "notify", "answered"}
    BY DEF IInv, State, Call
  <2>2. Store!Idle.phase = "idle"
    BY DEF Store!Idle
  <2> QED  BY <2>1, <2>2, SeenIs
<1> QED  BY <1>1, <1>4, <1>5, <1>6 DEF Store!Cut

LEMMA ImportsWork ==
    ASSUME IInv, NEW c \in Calls, Begin(c) \/ ImportRow(c)
    PROVE  UNCHANGED Store!vars
<1>1. CASE Begin(c)
  <2>1. Goto(c, "rows") /\ call[c].pc = "check" /\ NoCommit
    BY <1>1 DEF Begin
  <2> QED  BY <2>1, GotoIs, Stutters
<1>2. CASE ImportRow(c)
  <2>1. call[c].pc = "rows"
    BY <1>2 DEF ImportRow
  <2>2. CASE Rows(c)[Done(c) + 1].id = NoId
    <3>1. InsertRow(c, Rows(c)[Done(c) + 1])
      BY <1>2, <2>2, ViewIs DEF ImportRow, Rows
    <3>2. NoCommit /\ call' = [call EXCEPT ![c].row = @ + 1, ![c].created = @ + 1]
      BY <3>1 DEF InsertRow
    <3> QED  BY <1>2, <2>1, <3>2, CallCounts, Stutters
  <2>3. CASE Rows(c)[Done(c) + 1].id # NoId
    <3>1. UpdateRow(c, Rows(c)[Done(c) + 1])
      BY <1>2, <2>3, ViewIs DEF ImportRow, Rows
    <3>2. /\ NoCommit
          /\ \/ call' = [call EXCEPT ![c].row = @ + 1, ![c].errors = @ \cup {call[c].row}]
             \/ call' = [call EXCEPT ![c].row = @ + 1, ![c].updated = @ + 1]
      BY <3>1 DEF UpdateRow
    <3> QED  BY <1>2, <2>1, <3>2, CallCounts, CallReports, Stutters
  <2> QED  BY <2>2, <2>3
<1> QED  BY <1>1, <1>2

LEMMA StoreSteps == ASSUME IInv, [Next]_vars PROVE [Store!Next]_Store!vars
<1>1. ASSUME UNCHANGED <<items, used, call, unannounced, lost>> PROVE UNCHANGED Store!vars
  BY <1>1 DEF Store!vars, Asked
<1>2. CASE \E c \in Calls :
              \/ \E request \in Requests : Arrive(c, request)
              \/ InvalidInput(c) \/ Create(c) \/ Update(c) \/ Delete(c) \/ NotFound(c)
              \/ TooMany(c) \/ NothingToImport(c) \/ RejectInvalid(c) \/ Begin(c)
              \/ ImportRow(c) \/ RollBack(c) \/ CommitImport(c)
              \/ Notify(c) \/ Fail(c) \/ Reply(c)
  BY <1>2, Asks, Refusals, Reports, Statements, ImportsCommit, Endings, ImportsWork DEF Store!Next
<1>3. CASE \E S \in SUBSET Calls : Cut(S)
  BY <1>3, Cuts DEF Store!Next
<1>4. CASE \E r \in Readers :
              \/ \E match \in Matches, offset \in Offsets : ListRows(r, match, offset)
              \/ CountRows(r) \/ ListDone(r)
  <2>1. UNCHANGED <<items, used, call, unannounced, lost>>
    BY <1>4 DEF ListRows, CountRows, ListDone
  <2> QED  BY <1>1, <2>1
<1>5. CASE UNCHANGED vars
  BY <1>1, <1>5 DEF vars
<1> QED  BY <1>2, <1>3, <1>4, <1>5 DEF Next

(* The service implements the store: with other calls between its          *)
(* statements, with errors, dropped requests and the end of the process,   *)
(* every write and every import is one step of the table or none, answers  *)
(* with what that step found and is announced before its caller is         *)
(* answered.                                                               *)
THEOREM ImplementsStore == Spec => AtomicStore
<1>1. Init => Store!Init
  <2> SUFFICES ASSUME Init PROVE Store!Init
    OBVIOUS
  <2>1. \A c \in Calls : call[c] = Idle
    BY DEF Init
  <2>2. Seen(Idle) = Store!Idle
    BY DEF Seen, Idle, Store!Idle, Phase
  <2>3. Asked = [c \in Calls |-> Store!Idle]
    BY <2>1, <2>2, AskedIsSeen
  <2> QED  BY <2>3, StoreNames DEF Init, Store!Init
<1>2. IInv /\ [Next]_vars => [Store!Next]_Store!vars
  BY StoreSteps
<1> QED  BY <1>1, <1>2, Invariant, PTL DEF Spec, AtomicStore, Store!Spec

-----------------------------------------------------------------------------
(* Pages *)

(* A page of the elements that have at least a and less than a + size       *)
(* elements before them is as long as there are elements left for it.      *)
LEMMA PageLength ==
    ASSUME NEW S \in SUBSET Nat, IsFiniteSet(S), NEW a \in Nat, NEW size \in Nat,
           NEW Page, Page = {i \in S : Cardinality({j \in S : j < i}) \in a..(a + size - 1)}
    PROVE  LET rest == Cardinality(S) - a
           IN  Cardinality(Page) = IF rest < 0 THEN 0 ELSE IF rest > size THEN size ELSE rest
<1> DEFINE Before(i) == {j \in S : j < i}
           n == Cardinality(S)
           rank == [i \in S |-> Cardinality(Before(i))]
<1>1. n \in Nat
  BY FS_CardinalityType
<1>2. \A i \in S : /\ IsFiniteSet(Before(i)) /\ rank[i] \in Nat
                   /\ Cardinality(Before(i) \cup {i}) = rank[i] + 1
                   /\ IsFiniteSet(Before(i) \cup {i})
  <2> TAKE i \in S
  <2>1. Before(i) \in SUBSET S /\ i \notin Before(i)
    OBVIOUS
  <2>2. IsFiniteSet(Before(i))
    BY <2>1, FS_Subset
  <2> HIDE DEF Before
  <2>3. Cardinality(Before(i)) \in Nat
    BY <2>2, FS_CardinalityType
  <2>4. Cardinality(Before(i) \cup {i}) = Cardinality(Before(i)) + 1 /\ IsFiniteSet(Before(i) \cup {i})
    BY <2>1, <2>2, FS_AddElement
  <2> QED  BY <2>2, <2>3, <2>4
<1>3. \A i \in S : rank[i] + 1 <= n
  <2> TAKE i \in S
  <2>1. Before(i) \cup {i} \in SUBSET S
    OBVIOUS
  <2>2. Cardinality(Before(i) \cup {i}) <= Cardinality(S)
    BY <2>1, FS_Subset
  <2> HIDE DEF Before, rank
  <2> QED  BY <1>2, <2>2
<1>4. \A i, k \in S : i < k => rank[i] + 1 <= rank[k]
  <2> SUFFICES ASSUME NEW i \in S, NEW k \in S, i < k PROVE rank[i] + 1 <= rank[k]
    OBVIOUS
  <2>1. Before(i) \cup {i} \in SUBSET Before(k)
    <3>1. i \in Before(k)
      OBVIOUS
    <3>2. \A j \in S : j < i => j < k
      <4>1. \A x, y, z \in Nat : x < y /\ y < z => x < z
        OBVIOUS
      <4>2. i \in Nat /\ k \in Nat /\ \A j \in S : j \in Nat
        OBVIOUS
      <4> QED  BY <4>1, <4>2
    <3>3. Before(i) \subseteq Before(k)
      BY <3>2
    <3> QED  BY <3>1, <3>3
  <2>2. IsFiniteSet(Before(k))
    BY <1>2
  <2> HIDE DEF Before
  <2>3. rank[k] = Cardinality(Before(k))
    OBVIOUS
  <2> HIDE DEF rank
  <2>4. Cardinality(Before(i) \cup {i}) <= Cardinality(Before(k))
    BY <2>1, <2>2, FS_Subset
  <2> QED  BY <1>2, <2>3, <2>4
<1>5. Page = {i \in S : rank[i] \in a..(a + size - 1)}
  OBVIOUS
<1>6. rank = [i \in S |-> rank[i]]
  OBVIOUS
<1> HIDE DEF rank, n, Before
<1>7. rank \in Injection(S, 0..(n - 1))
  <2>1. rank \in [S -> 0..(n - 1)]
    <3>1. ASSUME NEW i \in S PROVE rank[i] \in 0..(n - 1)
      <4>1. rank[i] \in Nat /\ rank[i] + 1 <= n
        BY <1>2, <1>3
      <4> QED  BY <1>1, <4>1
    <3> QED  BY <1>6, <3>1
  <2>2. \A i, k \in S : rank[i] = rank[k] => i = k
    <3> SUFFICES ASSUME NEW i \in S, NEW k \in S, i # k PROVE rank[i] # rank[k]
      OBVIOUS
    <3>1. i \in Nat /\ k \in Nat /\ rank[i] \in Nat /\ rank[k] \in Nat
      BY <1>2
    <3>2. i < k \/ k < i
      BY <3>1
    <3> QED  BY <1>4, <3>1, <3>2
  <2> QED  BY <2>1, <2>2 DEF Injection, IsInjective
<1>8. IsFiniteSet(0..(n - 1)) /\ Cardinality(0..(n - 1)) = n
  <2>1. 0 \in Int /\ n - 1 \in Int
    BY <1>1
  <2>2. Cardinality(0..(n - 1)) = IF 0 > n - 1 THEN 0 ELSE n - 1 - 0 + 1
    BY <2>1, FS_Interval
  <2> QED  BY <1>1, <2>1, <2>2, FS_Interval
<1>9. rank \in Surjection(S, 0..(n - 1))
  BY <1>7, <1>8, FS_Injection DEF n
<1> DEFINE last == IF a + size - 1 <= n - 1 THEN a + size - 1 ELSE n - 1
<1>10. last \in Int /\ \A t : t \in a..last <=> t \in a..(a + size - 1) /\ t \in 0..(n - 1)
  BY <1>1
<1> HIDE DEF last
<1> DEFINE place == [i \in Page |-> rank[i]]
<1>11. place \in Bijection(Page, a..last)
  <2>1. \A i \in Page : i \in S /\ rank[i] \in a..last
    BY <1>5, <1>7, <1>10 DEF Injection, IsInjective
  <2>2. \A t \in a..last : \E i \in Page : rank[i] = t
    BY <1>5, <1>9, <1>10 DEF Surjection
  <2>3. \A i, k \in Page : rank[i] = rank[k] => i = k
    BY <1>7, <2>1 DEF Injection, IsInjective
  <2> QED  BY <2>1, <2>2, <2>3 DEF Bijection, Injection, IsInjective, Surjection
<1>12. IsFiniteSet(Page)
  <2>1. Page \in SUBSET S
    BY <1>5
  <2> QED  BY <2>1, FS_Subset
<1>13. Cardinality(a..last) = Cardinality(Page)
  <2>1. ExistsBijection(Page, a..last)
    BY <1>11 DEF ExistsBijection
  <2> QED  BY <1>12, <2>1, FS_Bijection
<1>14. Cardinality(a..last) = IF a > last THEN 0 ELSE last - a + 1
  BY <1>10, FS_Interval
<1>15. Cardinality(Page) = IF n - a < 0 THEN 0 ELSE IF n - a > size THEN size ELSE n - a
  BY <1>1, <1>13, <1>14 DEF last
<1> QED  BY <1>15 DEF n

Read ==
    [match : Matches \cup {{}}, offset : Nat, rows : SUBSET Ids, total : Nat,
     pc : {"idle", "count", "answered"}, raced : BOOLEAN]

PageFits(page, total, offset) ==
    LET rest == total - offset
    IN  Cardinality(page) = IF rest < 0 THEN 0 ELSE IF rest > Limit THEN Limit ELSE rest

(* What a list holds is of the table as it is, unless it was overtaken.    *)
ReadsFit ==
    /\ read \in [Readers -> Read]
    /\ \A r \in Readers :
         ~read[r].raced =>
            /\ read[r].pc = "count" => read[r].rows = PageOf(read[r].match, read[r].offset)
            /\ read[r].pc = "answered" => PageFits(read[r].rows, read[r].total, read[r].offset)

LEMMA PageOfFits ==
    ASSUME NEW match, NEW offset \in Nat
    PROVE  /\ PageOf(match, offset) \in SUBSET Ids
           /\ Cardinality(Matching(match)) \in Nat
           /\ PageFits(PageOf(match, offset), Cardinality(Matching(match)), offset)
<1> DEFINE S == Matching(match)
<1>1. S \in SUBSET Ids /\ Ids \subseteq Nat
  BY RowsAssumption DEF Matching, Ids
<1>2. IsFiniteSet(S)
  BY <1>1, NoTxIs, FS_Subset
<1>3. PageOf(match, offset) = {i \in S : Cardinality({j \in S : j < i}) \in offset..(offset + Limit - 1)}
  BY DEF PageOf
<1> HIDE DEF S
<1>4. S \in SUBSET Nat /\ Limit \in Nat
  BY <1>1, CallsAssumption
<1>5. PageFits(PageOf(match, offset), Cardinality(S), offset)
  BY <1>2, <1>3, <1>4, PageLength DEF PageFits
<1>6. PageOf(match, offset) \in SUBSET Ids
  BY <1>1, <1>3
<1> QED  BY <1>2, <1>5, <1>6, FS_CardinalityType DEF S

LEMMA ReadSteps ==
    ASSUME IInv, ReadsFit, NEW r \in Readers, NEW match \in Matches, NEW offset \in Offsets,
           ListRows(r, match, offset)
    PROVE  ReadsFit'
<1> DEFINE page == PageOf(match, offset)
           now == [match |-> match, offset |-> offset, rows |-> page,
                   total |-> 0, pc |-> "count", raced |-> FALSE]
<1>1. offset \in Nat
  BY CallsAssumption
<1>2. page \in SUBSET Ids
  BY <1>1, PageOfFits
<1>3. items' = items /\ read' = [read EXCEPT ![r] = now]
  BY DEF ListRows
<1>4. \A m, o : PageOf(m, o)' = PageOf(m, o)
  BY <1>3 DEF PageOf, Matching
<1> HIDE DEF page
<1>5. now \in Read /\ now.pc = "count" /\ now.rows = page /\ now.match = match /\ now.offset = offset
  BY <1>1, <1>2 DEF Read
<1> HIDE DEF now
<1>6. read' \in [Readers -> Read] /\ read'[r] = now /\ \A q \in Readers : q # r => read'[q] = read[q]
  BY <1>3, <1>5 DEF ReadsFit
<1>7. now.rows = PageOf(now.match, now.offset)
  BY <1>5 DEF page
<1> QED  BY <1>4, <1>5, <1>6, <1>7 DEF ReadsFit

LEMMA CountSteps ==
    ASSUME IInv, ReadsFit, NEW r \in Readers, CountRows(r) \/ ListDone(r)
    PROVE  ReadsFit'
<1>1. read \in [Readers -> Read] /\ read[r] \in Read
  BY DEF ReadsFit
<1>2. items' = items
  BY DEF CountRows, ListDone
<1>3. \A m, o : PageOf(m, o)' = PageOf(m, o)
  BY <1>2 DEF PageOf, Matching
<1>4. CASE CountRows(r)
  <2> DEFINE total == Cardinality(Matching(read[r].match))
             now == [read[r] EXCEPT !.pc = "answered", !.total = total]
  <2>1. read' = [read EXCEPT ![r] = now] /\ read[r].pc = "count"
    BY <1>1, <1>4 DEF CountRows
  <2>2. read[r].offset \in Nat
    BY <1>1 DEF Read
  <2>3. total \in Nat /\ PageFits(PageOf(read[r].match, read[r].offset), total, read[r].offset)
    BY <2>2, PageOfFits
  <2> HIDE DEF total
  <2>4. \A old \in Read, pc \in {"answered"} :
          LET new == [old EXCEPT !.pc = pc, !.total = total]
          IN  /\ new \in Read /\ new.pc = pc /\ new.total = total /\ new.rows = old.rows
              /\ new.offset = old.offset /\ new.raced = old.raced
    BY <2>3 DEF Read
  <2>5. /\ now \in Read /\ now.pc = "answered" /\ now.total = total /\ now.rows = read[r].rows
        /\ now.offset = read[r].offset /\ now.raced = read[r].raced
    BY <1>1, <2>4
  <2> HIDE DEF now
  <2>6. read' \in [Readers -> Read] /\ read'[r] = now /\ \A q \in Readers : q # r => read'[q] = read[q]
    BY <1>1, <2>1, <2>5
  <2>7. ~now.raced => PageFits(now.rows, now.total, now.offset)
    BY <2>1, <2>3, <2>5 DEF ReadsFit
  <2> QED  BY <1>3, <2>5, <2>6, <2>7 DEF ReadsFit
<1>5. CASE ListDone(r)
  <2>1. NotReading \in Read /\ NotReading.pc = "idle"
    BY DEF NotReading, Read
  <2>2. /\ read' \in [Readers -> Read] /\ read'[r] = NotReading
        /\ \A q \in Readers : q # r => read'[q] = read[q]
    BY <1>1, <1>5, <2>1 DEF ListDone
  <2> QED  BY <1>3, <2>1, <2>2 DEF ReadsFit
<1> QED  BY <1>4, <1>5

LEMMA CommitsRace ==
    ASSUME ReadsFit, NEW table, NEW counter, Commit(table, counter)
    PROVE  ReadsFit'
<1>1. read \in [Readers -> Read]
  BY DEF ReadsFit
<1>2. read' = [r \in Readers |-> [read[r] EXCEPT !.raced = read[r].pc # "idle"]]
  BY DEF Commit
<1>3. \A old \in Read, raced \in BOOLEAN :
        LET new == [old EXCEPT !.raced = raced]
        IN  new \in Read /\ new.pc = old.pc /\ new.raced = raced
  BY DEF Read
<1>4. \A r \in Readers : /\ read'[r] \in Read /\ read'[r].pc = read[r].pc
                         /\ read'[r].raced = (read[r].pc # "idle")
  BY <1>1, <1>2, <1>3
<1>5. read' \in [Readers -> Read]
  BY <1>2, <1>4
<1> QED  BY <1>4, <1>5 DEF ReadsFit

(* A list whose two statements no commit has separated answers with a page *)
(* as long as its total promises.                                          *)
THEOREM PagesFitTotals == Spec => []TornOnlyInRace
<1>1. Init => ReadsFit
  <2>1. NotReading \in Read /\ NotReading.pc = "idle"
    BY DEF NotReading, Read
  <2> QED  BY <2>1 DEF Init, ReadsFit
<1>2. ASSUME IInv, ReadsFit, [Next]_vars PROVE ReadsFit'
  <2>1. ASSUME UNCHANGED <<items, read>> PROVE ReadsFit'
    <3>1. \A m, o : PageOf(m, o)' = PageOf(m, o)
      BY <2>1 DEF PageOf, Matching
    <3> QED  BY <1>2, <2>1, <3>1 DEF ReadsFit
  <2>2. ASSUME NEW c \in Calls, Create(c) \/ Update(c) \/ Delete(c) \/ CommitImport(c)
        PROVE  ReadsFit'
    <3>1. \E table, counter : Commit(table, counter)
      BY <2>2 DEF Create, Update, Delete, CommitImport
    <3> QED  BY <1>2, <3>1, CommitsRace
  <2>3. ASSUME NEW c \in Calls, NEW request \in Requests, Arrive(c, request)
        PROVE  UNCHANGED <<items, read>>
    BY <2>3 DEF Arrive, NoCommit
  <2>4. ASSUME NEW c \in Calls,
               \/ InvalidInput(c) \/ NotFound(c) \/ TooMany(c) \/ NothingToImport(c)
               \/ RejectInvalid(c) \/ Begin(c) \/ ImportRow(c) \/ RollBack(c)
               \/ Notify(c) \/ Fail(c) \/ Reply(c)
        PROVE  UNCHANGED <<items, read>>
    BY <2>4 DEF InvalidInput, NotFound, TooMany, NothingToImport, RejectInvalid, Begin, ImportRow,
       InsertRow, UpdateRow, RollBack, Notify, Fail, Reply, NoCommit
  <2>5. ASSUME NEW S \in SUBSET Calls, Cut(S) PROVE UNCHANGED <<items, read>>
    BY <2>5 DEF Cut
  <2>6. CASE Next
    BY <1>2, <2>1, <2>2, <2>3, <2>4, <2>5, <2>6, ReadSteps, CountSteps DEF Next
  <2>7. CASE UNCHANGED vars
    BY <2>1, <2>7 DEF vars
  <2> QED  BY <1>2, <2>6, <2>7
<1>3. ReadsFit => TornOnlyInRace
  BY DEF ReadsFit, TornOnlyInRace, PageFits
<1> QED  BY <1>1, <1>2, <1>3, Invariant, PTL DEF Spec
==============================================================================
