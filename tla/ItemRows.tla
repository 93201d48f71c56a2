------------------------------ MODULE ItemRows ------------------------------
(***************************************************************************)
(* The payloads of the items service (core/src/items.rs): what a row of a  *)
(* create, an update or an import may say, when validate_item_input takes  *)
(* it, and what a statement stores of it. A name is a sequence of          *)
(* characters, of which only Blank matters; updated_at is left out.        *)
(***************************************************************************)
EXTENDS Integers, Sequences, FiniteSets

CONSTANTS
    Calls,          \* writing calls that can be under way at the same time
    Requests,       \* the requests that callers send
    Contents,       \* payloads: records with name, price and stock
    NoItem,         \* no row
    NoId,           \* a payload without an id
    Blank,          \* white space
    MaxId,          \* the largest id SQLite hands out
    MaxNameLen, MaxPrice, MaxImportRows

Ids == 1..MaxId

Trim(name) ==
    LET Solid == {i \in DOMAIN name : name[i] # Blank}
        first == CHOOSE i \in Solid : \A j \in Solid : i <= j
        last  == CHOOSE i \in Solid : \A j \in Solid : j <= i
    IN  IF Solid = {} THEN <<>> ELSE SubSeq(name, first, last)

(* validate_item_input finds no violation *)
Valid(content) ==
    /\ Trim(content.name) # <<>> /\ Len(Trim(content.name)) <= MaxNameLen
    /\ content.price \in 0..MaxPrice /\ content.stock >= 0

(* what the statements bind *)
Stored(content) == [content EXCEPT !.name = Trim(content.name)]

(* Everything the table may hold *)
Item == {Stored(content) : content \in {c \in Contents : Valid(c)}}

ASSUME RowsAssumption ==
    /\ MaxId \in Nat /\ MaxImportRows \in Nat /\ NoId \notin Ids /\ NoItem \notin Item

(* One row of a batch. A create carries one row without an id, an update    *)
(* one with its id, a delete one of which only the id counts.              *)
Row == [id : Ids \cup {NoId}, content : Contents]

Request ==
    [op : {"create"}, rows : {<<row>> : row \in [id : {NoId}, content : Contents]}]
    \cup [op : {"update", "delete"}, rows : {<<row>> : row \in [id : Ids, content : Contents]}]
    \cup [op : {"import"}, rows : Seq(Row)]

ASSUME RequestsAssumption == Requests \subseteq Request

InvalidRows(rows) == {n \in DOMAIN rows : ~Valid(rows[n].content)}

Inserts(rows, k) == {n \in 1..k : rows[n].id = NoId}

=============================================================================
