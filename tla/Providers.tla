----------------------------- MODULE Providers ------------------------------
(***************************************************************************)
(* One screen over two DataProviders: the in-memory one of the playground, *)
(* the tests and the mocks (packages/admin-core/src/providers/inMemory.ts) *)
(* and the one that ends in SQL (list_query.rs). The same calls go to      *)
(* both; what they list is compared.                                       *)
(***************************************************************************)
EXTENDS ListQuery

CONSTANTS
    Contents,       \* what a row may hold: functions from Columns to values
    JsLower,        \* toLowerCase on characters: letters of every alphabet
    LocaleLess(_, _), \* localeCompare puts one text before the other
    Queries,        \* the ListParams to compare
    MaxRows, MaxId  \* bounds: rows in a table, ids handed out

ASSUME BoundAssumption ==
    /\ MaxRows \in 0..(SignBit - 1) /\ MaxId \in Nat
    /\ "id" \in Columns => 1..MaxId \subseteq Numbers

ASSUME ContentsAssumption ==
    \A content \in Contents, column \in Columns :
        content[column] = Null \/ content[column] \in Values(column)

ASSUME LettersAssumption == DOMAIN JsLower = Characters

Operands(filter) == IF filter.op = "in" THEN {filter.value[n] : n \in DOMAIN filter.value} ELSE {filter.value}

(* An operand has the type of its column, that of a text match is a text:  *)
(* SQLite's conversions to a column's affinity are not modelled.           *)
FitsColumn(filter) ==
    /\ filter.op \in {"eq", "ne", "lt", "lte", "gt", "gte", "in"} /\ filter.field \in Columns =>
         Operands(filter) \subseteq Values(filter.field) \cup {Null}
    /\ filter.op \in {"contains", "starts_with"} => filter.value \in Texts

Operators == {"eq", "ne", "lt", "lte", "gt", "gte", "contains", "starts_with",
              "in", "is_null", "not_null"}

ASSUME QueriesAssumption ==
    \A params \in Queries :
        /\ DOMAIN params.sort \subseteq Nat
        /\ \A n \in DOMAIN params.filters :
             params.filters[n].op \in Operators /\ FitsColumn(params.filters[n])
        /\ \/ params.pagination = NoPage
           \/ /\ params.pagination.offset \in Nat
              /\ params.pagination.limit \in 0..(2 * SignBit - 1)

VARIABLES
    sqlRows, sqlUsed,   \* the table and its AUTOINCREMENT counter
    memRows,            \* the array of the in-memory provider
    reused              \* history: the in-memory provider handed out an id again

providersVars == <<sqlRows, sqlUsed, memRows, reused>>

Row(id, content) == [column \in Columns \cup {"id"} |-> IF column = "id" THEN id ELSE content[column]]

-----------------------------------------------------------------------------
(* Listing in memory *)

(* String(a) === String(b), but a null equals only itself *)
LooseEquals(column, v, w) ==
    IF v = Null \/ w = Null THEN v = w ELSE AsText(column, v) = AsText(column, w)

(* toComparable is NaN of null and of text that reads neither as a number  *)
(* nor as a date, and NaN compares with nothing.                           *)
Comparable(column, v) == v # Null /\ column \notin Textual

ToLowerCase(text) == [i \in DOMAIN text |-> JsLower[text[i]]]

Within(text, v, from) ==
    /\ from + Len(text) - 1 <= Len(v)
    /\ ToLowerCase(SubSeq(v, from, from + Len(text) - 1)) = ToLowerCase(text)

MatchOne(row, filter) ==
    LET v == row[filter.field]
        w == filter.value
        text == IF v = Null THEN <<>> ELSE AsText(filter.field, v)
        both == Comparable(filter.field, v) /\ Comparable(filter.field, w)
    IN  CASE filter.op = "eq"  -> LooseEquals(filter.field, v, w)
          [] filter.op = "ne"  -> ~LooseEquals(filter.field, v, w)
          [] filter.op = "lt"  -> both /\ v < w
          [] filter.op = "lte" -> both /\ v <= w
          [] filter.op = "gt"  -> both /\ v > w
          [] filter.op = "gte" -> both /\ v >= w
          [] filter.op = "contains"    -> \E from \in 1..(Len(text) + 1) : Within(w, text, from)
          [] filter.op = "starts_with" -> Within(w, text, 1)
          [] filter.op = "in"          -> \E n \in DOMAIN w : LooseEquals(filter.field, v, w[n])
          [] filter.op = "is_null"     -> v = Null
          [] filter.op = "not_null"    -> v # Null

CompareLess(column, v, w) == IF column \in Textual THEN LocaleLess(v, w) ELSE v < w

(* compareForSort: null last in both directions *)
SortsBefore(sort, a, b) ==
    LET v == a[sort.field]
        w == b[sort.field]
    IN  /\ v # Null
        /\ \/ w = Null
           \/ IF sort.direction = "asc" THEN CompareLess(sort.field, v, w) ELSE CompareLess(sort.field, w, v)

(* applySort is stable; an unknown field is undefined in every row.        *)
SortedFirst(rows, sorts, i, j) ==
    LET tied(n) == ~SortsBefore(sorts[n], rows[i], rows[j]) /\ ~SortsBefore(sorts[n], rows[j], rows[i])
        known == {n \in DOMAIN sorts : sorts[n].field \in Columns}
    IN  \/ \E n \in known :
             SortsBefore(sorts[n], rows[i], rows[j]) /\ \A m \in known : m < n => tied(m)
        \/ i < j /\ \A n \in known : tied(n)

ApplySort(rows, sorts) ==
    LET all == DOMAIN rows
        at == Enumeration(all, {p \in all \X all : SortedFirst(rows, sorts, p[1], p[2])})
    IN  [n \in all |-> rows[at[n]]]

(* rows.slice(offset, offset + limit) *)
Slice(rows, offset, limit) ==
    SubSeq(rows, offset + 1, IF offset + limit > Len(rows) THEN Len(rows) ELSE offset + limit)

(* rows.filter(): what is at these places, in the order of the array *)
Picked(rows, places) ==
    LET at == Enumeration(places, {p \in places \X places : p[1] < p[2]})
    IN  [n \in 1..Cardinality(places) |-> rows[at[n]]]

Filtered(rows, filters) ==
    Picked(rows, {i \in DOMAIN rows : \A n \in DOMAIN filters : MatchOne(rows[i], filters[n])})

GetList(rows, params) ==
    LET sorted == ApplySort(Filtered(rows, params.filters), params.sort)
    IN  IF params.pagination = NoPage THEN sorted
        ELSE Slice(sorted, params.pagination.offset, params.pagination.limit)

-----------------------------------------------------------------------------
(* Writing *)

HighestId(rows) == CHOOSE n \in 0..MaxId :
    /\ n = 0 \/ \E i \in DOMAIN rows : rows[i].id = n
    /\ \A i \in DOMAIN rows : rows[i].id <= n

MemIndex(id) == {i \in DOMAIN memRows : memRows[i].id = id}

Create(content) ==
    /\ Len(memRows) < MaxRows /\ sqlUsed < MaxId
    /\ sqlRows' = sqlRows \cup {Row(sqlUsed + 1, content)}
    /\ sqlUsed' = sqlUsed + 1
    /\ memRows' = Append(memRows, Row(HighestId(memRows) + 1, content))
    /\ reused' = (reused \/ HighestId(memRows) < sqlUsed)

(* An id that is missing is an error (not_found) and changes nothing.       *)
Update(id, content) ==
    /\ MemIndex(id) # {} \/ \E row \in sqlRows : row.id = id
    /\ sqlRows' = {IF row.id = id THEN Row(id, content) ELSE row : row \in sqlRows}
    /\ memRows' = [i \in DOMAIN memRows |-> IF memRows[i].id = id THEN Row(id, content) ELSE memRows[i]]
    /\ UNCHANGED <<sqlUsed, reused>>

DeleteOne(id) ==
    /\ MemIndex(id) # {} \/ \E row \in sqlRows : row.id = id
    /\ sqlRows' = {row \in sqlRows : row.id # id}
    /\ memRows' = Picked(memRows, {i \in DOMAIN memRows : memRows[i].id # id})
    /\ UNCHANGED <<sqlUsed, reused>>

ProvidersInit == sqlRows = {} /\ sqlUsed = 0 /\ memRows = <<>> /\ reused = FALSE

(* The page is reloaded, or the next test begins, on fresh tables.         *)
Reseed ==
    /\ sqlRows' = {} /\ sqlUsed' = 0 /\ memRows' = <<>> /\ reused' = FALSE

ProvidersNext ==
    \/ \E content \in Contents : Create(content)
    \/ \E id \in 1..MaxId, content \in Contents : Update(id, content)
    \/ \E id \in 1..MaxId : DeleteOne(id)
    \/ Reseed

ProvidersSpec == ProvidersInit /\ [][ProvidersNext]_providersVars

-----------------------------------------------------------------------------
AnyRow == {Row(id, content) : id \in 1..MaxId, content \in Contents}

(* The type invariant: the rows of sqlRows under ids that were handed out,  *)
(* those of memRows in ascending order of their ids (inMemory.ts:196-208). *)
ProvidersTypeOK ==
    /\ sqlRows \subseteq AnyRow /\ sqlUsed \in 0..MaxId
    /\ \A row \in sqlRows : row.id <= sqlUsed
    /\ memRows \in Seq(AnyRow) /\ Len(memRows) <= MaxRows
    /\ \A i \in DOMAIN memRows :
         /\ memRows[i].id <= sqlUsed
         /\ \A j \in DOMAIN memRows : i < j => memRows[i].id < memRows[j].id
    /\ reused \in BOOLEAN

Holds(column) == {row[column] : row \in sqlRows} \ {Null}

(* Both collations sort the column's texts alike: they differ once upper   *)
(* and lower case are mixed.                                               *)
SameCollation(column) == \A v, w \in Holds(column) : Less(column, v, w) <=> CompareLess(column, v, w)

(* LOWER() and toLowerCase fold alike the letters of a text that is looked *)
(* for and of those it is looked for in: they differ once a letter beyond  *)
(* ASCII is there in upper and in lower case.                              *)
SameFolding(column, text) ==
    \A v \in Holds(column), j \in DOMAIN text :
      LET held == AsText(column, v)
      IN  \A i \in DOMAIN held :
            Lower[held[i]] = Lower[text[j]] <=> JsLower[held[i]] = JsLower[text[j]]

(* A condition that means the same to SQL and to matchOne: its operands    *)
(* are not null, one that compares is about numbers, one that looks for a  *)
(* text stays within the letters both fold alike, and a NULL in the column *)
(* is not asked to differ from a value or to contain the empty text.       *)
PortableFilter(filter) ==
    LET noNull == \A row \in sqlRows : row[filter.field] # Null
    IN  /\ filter.field \in Columns
        /\ filter.op \in {"is_null", "not_null"} \/ Null \notin Operands(filter)
        /\ filter.op \in {"lt", "lte", "gt", "gte"} => filter.field \notin Textual
        /\ filter.op \in {"contains", "starts_with"} =>
             SameFolding(filter.field, filter.value) /\ (filter.value # <<>> \/ noNull)
        /\ filter.op = "ne" => noNull

Portable(params) ==
    /\ \A n \in DOMAIN params.filters : PortableFilter(params.filters[n])
    /\ \A n \in DOMAIN params.sort :
         params.sort[n].field \in Textual => SameCollation(params.sort[n].field)
    /\ params.pagination.offset < SignBit

(* After any calls both providers list the same rows in the same order and *)
(* count the same total, NULLs last in either direction ("keeps all three   *)
(* implementations in agreement", list_query.rs:147), for every query that *)
(* means the same to both, as long as no id has been handed out twice      *)
(* (inMemory.ts:199: the next id is the highest present plus one).          *)
ListsAgree ==
    ~reused => \A params \in Queries : Portable(params) =>
        /\ ~Refused(params.filters)
        /\ SelectRows(sqlRows, params) = GetList(memRows, params)
        /\ SelectCount(sqlRows, params) = Len(Filtered(memRows, params.filters))

=============================================================================
