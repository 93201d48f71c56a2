----------------------------- MODULE ListQuery ------------------------------
(***************************************************************************)
(* What the SQL that crates/banto-storage/src/list_query.rs assembles from *)
(* a ListParams returns when SQLite runs it on a table: WHERE (three-      *)
(* valued, so NULL satisfies no comparison), ORDER BY, LIMIT / OFFSET.     *)
(*                                                                         *)
(* A table is a set of rows; a row is a record with a number `id` and one  *)
(* field per column. A text is a sequence of characters, a character a     *)
(* number in the order of SQLite's BINARY collation.                       *)
(***************************************************************************)
EXTENDS Integers, Sequences, FiniteSets

CONSTANTS
    Columns,    \* wire names in the service's ColumnMap (whitelist)
    Textual,    \* those that hold text; the others hold numbers
    Null,       \* SQL NULL, JSON null
    Numbers,    \* the integers that columns and operands hold
    Numeral,    \* their decimal text
    Lower,      \* SQLite's LOWER() and LIKE on characters: ASCII letters only
    Wildcards,  \* the characters that a LIKE pattern gives a meaning
    SignBit     \* of Pagination's integers, read as signed (2^63 in the code)

Characters == DOMAIN Lower

Texts == Seq(Characters)

Values(column) == IF column \in Textual THEN Texts ELSE Numbers

ASSUME ColumnsAssumption == Textual \subseteq Columns /\ "id" \notin Textual

ASSUME NullAssumption == Null \notin Numbers /\ Null \notin Texts

ASSUME NumeralAssumption ==
    /\ Numbers \subseteq Int /\ Numeral \in [Numbers -> Texts]
    /\ \A m, n \in Numbers : Numeral[m] = Numeral[n] => m = n

(* % _ and \ have no case. *)
ASSUME CharactersAssumption ==
    /\ Wildcards \subseteq Characters /\ Characters \subseteq Nat \ {0}
    /\ \A w \in Wildcards, c \in Characters : Lower[c] = Lower[w] => c = w

ASSUME SignBitAssumption == SignBit \in Nat \ {0}

(* The elements of a set from the first to the last of a strict order *)
Enumeration(S, order) ==
    [n \in 1..Cardinality(S) |->
        CHOOSE x \in S : Cardinality({y \in S : <<y, x>> \in order}) = n - 1]

-----------------------------------------------------------------------------
(* Values *)

TextLess(s, t) ==
    \E n \in 0..Len(s) :
        /\ n < Len(t)
        /\ \A i \in 1..n : s[i] = t[i]
        /\ n = Len(s) \/ s[n + 1] < t[n + 1]

AsText(column, v) == IF v = Null \/ column \in Textual THEN v ELSE Numeral[v]

Less(column, v, w) == IF column \in Textual THEN TextLess(v, w) ELSE v < w

-----------------------------------------------------------------------------
(* WHERE *)

AnyText == 0

Escaped(character) == -character

(* escape_like: what would be a wildcard is escaped. *)
EscapeLike(text) ==
    [i \in DOMAIN text |-> IF text[i] \in Wildcards THEN Escaped(text[i]) ELSE text[i]]

(* One token of a pattern matches the characters after `from' up to `to'.  *)
Matches(text, token, from, to) ==
    IF token \in Wildcards \cup {AnyText} THEN from <= to
    ELSE /\ to = from + 1
         /\ \/ text[to] \in Wildcards /\ token = Escaped(text[to])
            \/ token > 0 /\ Lower[text[to]] = Lower[token]

(* LIKE ... ESCAPE '\': token n takes what is after end[n - 1] up to end[n]. *)
Like(text, pattern) ==
    \E end \in [0..Len(pattern) -> 0..Len(text)] :
        /\ end[0] = 0 /\ end[Len(pattern)] = Len(text)
        /\ \A n \in 1..Len(pattern) : Matches(text, pattern[n], end[n - 1], end[n])

(* push_binop for =, <>, <, <=, >, >= : not true of a NULL on either side.  *)
Binop(op, column, v, w) ==
    /\ v # Null
    /\ CASE op = "eq"  -> v = w
         [] op = "ne"  -> v # w
         [] op = "lt"  -> Less(column, v, w)
         [] op = "lte" -> v = w \/ Less(column, v, w)
         [] op = "gt"  -> Less(column, w, v)
         [] op = "gte" -> v = w \/ Less(column, w, v)

Contains(v, text) == v # Null /\ Like(v, <<AnyText>> \o EscapeLike(text) \o <<AnyText>>)

StartsWith(v, text) == v # Null /\ Like(v, EscapeLike(text) \o <<AnyText>>)

(* push_condition: whether the row satisfies one condition; LOWER() of a   *)
(* number is its text.                                                     *)
Satisfies(row, filter) ==
    LET v == row[filter.field]
        text == AsText(filter.field, v)
    IN  CASE filter.op = "contains"    -> Contains(text, filter.value)
          [] filter.op = "starts_with" -> StartsWith(text, filter.value)
          [] filter.op = "in"          -> v # Null /\ \E n \in DOMAIN filter.value : v = filter.value[n]
          [] filter.op = "is_null"     -> v = Null
          [] filter.op = "not_null"    -> v # Null
          [] OTHER                     -> Binop(filter.op, filter.field, v, filter.value)

(* bind_value refuses a null; an operand of is_null and not_null is ignored. *)
Bindable(filter) ==
    CASE filter.op \in {"is_null", "not_null"} -> TRUE
      [] filter.op = "in" -> \A n \in DOMAIN filter.value : filter.value[n] # Null
      [] OTHER -> filter.value # Null

(* An unknown filter field is an error, not a condition that is ignored.   *)
Refused(filters) ==
    \E n \in DOMAIN filters : filters[n].field \notin Columns \/ ~Bindable(filters[n])

(* append_where *)
Where(table, filters) == {row \in table : \A n \in DOMAIN filters : Satisfies(row, filters[n])}

-----------------------------------------------------------------------------
(* ORDER BY *)

(* A slip: no NULLS LAST, so a NULL is smaller than any value. *)
PrecedesByDefault(sort, a, b) ==
    LET below(v, w) == w # Null /\ (v = Null \/ Less(sort.field, v, w))
    IN  IF sort.direction = "asc" THEN below(a[sort.field], b[sort.field])
        ELSE below(b[sort.field], a[sort.field])

(* One entry, with NULLS LAST in both directions *)
Precedes(sort, a, b) ==
    LET v == a[sort.field]
        w == b[sort.field]
    IN  /\ v # Null
        /\ \/ w = Null
           \/ IF sort.direction = "asc" THEN Less(sort.field, v, w) ELSE Less(sort.field, w, v)

(* append_order_by skips unknown fields. *)
Resolved(sorts) == {n \in DOMAIN sorts : sorts[n].field \in Columns}

(* What the entries leave equal stays in the order of the scan (by id).    *)
Before(sorts, a, b) ==
    LET tied(n) == a[sorts[n].field] = b[sorts[n].field]
    IN  \/ \E n \in Resolved(sorts) :
             Precedes(sorts[n], a, b) /\ \A m \in Resolved(sorts) : m < n => tied(m)
        \/ a.id < b.id /\ \A n \in Resolved(sorts) : tied(n)

InOrder(rows, sorts) ==
    Enumeration(rows, {p \in rows \X rows : Before(sorts, p[1], p[2])})

-----------------------------------------------------------------------------
(* LIMIT / OFFSET *)

NoPage == [offset |-> 0, limit |-> -1]

(* `as i64` of a u64 *)
AsSigned(n) == IF n >= SignBit THEN n - 2 * SignBit ELSE n

(* SQLite takes a negative LIMIT for none and a negative OFFSET for 0.     *)
Window(rows, offset, limit) ==
    LET from == IF offset < 0 THEN 0 ELSE offset
        end  == from + limit
    IN  SubSeq(rows, from + 1, IF limit < 0 \/ end > Len(rows) THEN Len(rows) ELSE end)

(* append_pagination: nothing without a pagination *)
Page(rows, page) ==
    IF page = NoPage THEN rows ELSE Window(rows, AsSigned(page.offset), AsSigned(page.limit))

-----------------------------------------------------------------------------
(* The two statements of a service's list *)

SelectRows(table, params) ==
    Page(InOrder(Where(table, params.filters), params.sort), params.pagination)

SelectCount(table, params) == Cardinality(Where(table, params.filters))

=============================================================================
