----------------------------- MODULE ListsProofs -----------------------------
(***************************************************************************)
(* Proofs about the lists a screen shows.                                  *)
(*                                                                         *)
(* Providers and ListQuery, for any columns, alphabet, collations, queries *)
(* and tables: the provider in memory lists what the SQL lists, for every  *)
(* query that means the same to both.                                      *)
(*                                                                         *)
(* ItemsPage, for any parameters, block size, ranges, row counts, channel  *)
(* capacity and number of changes and failures: whatever order answers and *)
(* events come in, what the two grids show once nothing is under way is    *)
(* the table, but for what they were never told or were refused.           *)
(***************************************************************************)
EXTENDS ItemsPage, Providers, FiniteSetTheorems, SequenceTheorems, WellFoundedInduction, TLAPS

-----------------------------------------------------------------------------
(* Orders and what they sort                                               *)

StrictOrder(S, order) ==
    /\ \A x \in S : <<x, x>> \notin order
    /\ \A x, y, z \in S : <<x, y>> \in order /\ <<y, z>> \in order => <<x, z>> \in order
    /\ \A x, y \in S : x = y \/ <<x, y>> \in order \/ <<y, x>> \in order

(* A set of natural numbers has a least one, unless it is empty.           *)
LEMMA Least ==
    ASSUME NEW S \in SUBSET Nat, S # {}
    PROVE  \E n \in S : \A m \in S : n <= m
<1> DEFINE order == OpToRel(<, Nat)
<1>1. IsWellFoundedOn(order, Nat)
  BY NatLessThanWellFounded, Zenon
<1>2. \A x, y \in Nat : y < x => <<y, x>> \in order
  BY DEF OpToRel
<1> HIDE DEF order
<1>3. PICK n \in S : \A m \in S : ~(<<m, n>> \in order)
  BY <1>1, WFMin
<1>4. \A m \in S : m \in Nat /\ n \in Nat /\ ~(m < n)
  BY <1>2, <1>3
<1> QED  BY <1>3, <1>4

(* f runs through S in the order given. *)
RunsThrough(f, N, S, order) ==
    /\ f \in [1..N -> S]
    /\ \A x \in S : \E n \in 1..N : f[n] = x
    /\ \A m, n \in 1..N : m < n => <<f[m], f[n]>> \in order

(* What runs through a set in the given order is its enumeration.          *)
LEMMA EnumerationOnly ==
    ASSUME NEW S, NEW order, StrictOrder(S, order), NEW N \in Nat, NEW f, RunsThrough(f, N, S, order)
    PROVE  Enumeration(S, order) = f /\ Cardinality(S) = N /\ IsFiniteSet(S)
<1> USE DEF RunsThrough
<1> DEFINE below(x) == {y \in S : <<y, x>> \in order}
<1>1. \A m, n \in 1..N : f[m] = f[n] => m = n
  <2> SUFFICES ASSUME NEW m \in 1..N, NEW n \in 1..N, f[m] = f[n], m # n PROVE FALSE
    OBVIOUS
  <2>1. m < n \/ n < m
    OBVIOUS
  <2>2. <<f[m], f[n]>> \in order \/ <<f[n], f[m]>> \in order
    BY <2>1
  <2> QED  BY <2>2 DEF StrictOrder
<1>2. IsFiniteSet(S) /\ Cardinality(S) = N
  <2>1. f \in Bijection(1..N, S)
    BY <1>1 DEF Bijection, Injection, Surjection, IsInjective
  <2>2. IsFiniteSet(1..N) /\ Cardinality(1..N) = N
    BY FS_Interval
  <2> QED  BY <2>1, <2>2, FS_Bijection DEF ExistsBijection
<1>3. \A n \in 1..N : Cardinality(below(f[n])) = n - 1
  <2> TAKE n \in 1..N
  <2> DEFINE g == [m \in 1..(n - 1) |-> f[m]]
  <2>1. \A m \in 1..(n - 1) : m \in 1..N /\ m < n
    OBVIOUS
  <2>2. \A m \in 1..(n - 1) : f[m] \in below(f[n])
    BY <2>1
  <2>3. \A y \in below(f[n]) : \E m \in 1..(n - 1) : f[m] = y
    <3> TAKE y \in below(f[n])
    <3>1. PICK m \in 1..N : f[m] = y
      OBVIOUS
    <3>2. CASE m < n
      BY <3>1, <3>2
    <3>3. CASE m = n
      BY <3>1, <3>3 DEF StrictOrder
    <3>4. CASE n < m
      <4>1. <<f[n], f[m]>> \in order /\ <<f[m], f[n]>> \in order
        BY <3>1, <3>4
      <4> QED  BY <4>1 DEF StrictOrder
    <3> QED  BY <3>2, <3>3, <3>4
  <2>4. g \in [1..(n - 1) -> below(f[n])]
    BY <2>2
  <2>5. g \in Bijection(1..(n - 1), below(f[n]))
    <3>1. \A k, m \in 1..(n - 1) : g[k] = g[m] => k = m
      BY <1>1, <2>1
    <3>2. \A y \in below(f[n]) : \E m \in 1..(n - 1) : g[m] = y
      BY <2>3
    <3> HIDE DEF g, below
    <3> QED  BY <2>4, <3>1, <3>2 DEF Bijection, Injection, Surjection, IsInjective
  <2> HIDE DEF g, below
  <2>6. IsFiniteSet(1..(n - 1)) /\ Cardinality(1..(n - 1)) = n - 1
    BY FS_Interval
  <2> QED  BY <2>5, <2>6, FS_Bijection DEF ExistsBijection
<1>4. \A n \in 1..N : f[n] = CHOOSE x \in S : Cardinality(below(x)) = n - 1
  <2> HIDE DEF below
  <2> TAKE n \in 1..N
  <2>1. f[n] \in S /\ Cardinality(below(f[n])) = n - 1
    BY <1>3
  <2>2. \A x \in S : Cardinality(below(x)) = n - 1 => x = f[n]
    <3> SUFFICES ASSUME NEW x \in S, Cardinality(below(x)) = n - 1 PROVE x = f[n]
      OBVIOUS
    <3>1. PICK m \in 1..N : f[m] = x
      OBVIOUS
    <3>2. m - 1 = n - 1
      BY <1>3, <3>1
    <3> QED  BY <3>1, <3>2
  <2> QED  BY <2>1, <2>2
<1>5. Enumeration(S, order) = [n \in 1..N |-> CHOOSE x \in S : Cardinality(below(x)) = n - 1]
  BY <1>2 DEF Enumeration
<1> HIDE DEF below
<1> QED  BY <1>2, <1>4, <1>5

(* A finite set has one.                                                   *)
LEMMA EnumerationIs ==
    ASSUME NEW S, IsFiniteSet(S), NEW order, StrictOrder(S, order), NEW N, N = Cardinality(S),
           NEW f, f = Enumeration(S, order)
    PROVE  /\ N \in Nat /\ f \in [1..N -> S]
           /\ \A x \in S : \E n \in 1..N : f[n] = x
           /\ \A m, n \in 1..N : f[m] = f[n] => m = n
           /\ \A m, n \in 1..N : m < n => <<f[m], f[n]>> \in order
<1> DEFINE below(x) == {y \in S : <<y, x>> \in order}
           rank == [x \in S |-> Cardinality(below(x)) + 1]
<1>1. N \in Nat
  BY FS_CardinalityType
<1>2. \A x \in S : /\ IsFiniteSet(below(x)) /\ Cardinality(below(x)) \in Nat
                   /\ Cardinality(below(x) \cup {x}) = Cardinality(below(x)) + 1
                   /\ IsFiniteSet(below(x) \cup {x})
  <2> TAKE x \in S
  <2>1. below(x) \in SUBSET S /\ x \notin below(x)
    BY DEF StrictOrder
  <2>2. IsFiniteSet(below(x))
    BY <2>1, FS_Subset
  <2> HIDE DEF below
  <2> QED  BY <2>1, <2>2, FS_CardinalityType, FS_AddElement
<1>3. \A x \in S : rank[x] \in 1..N
  <2> TAKE x \in S
  <2>1. below(x) \cup {x} \in SUBSET S
    OBVIOUS
  <2>2. Cardinality(below(x) \cup {x}) <= Cardinality(S)
    BY <2>1, FS_Subset
  <2>3. rank[x] = Cardinality(below(x) \cup {x})
    BY <1>2
  <2> HIDE DEF below, rank
  <2>4. rank[x] \in Nat /\ rank[x] >= 1
    BY <1>2, <2>3
  <2> QED  BY <1>1, <2>2, <2>3, <2>4
<1>4. \A x, y \in S : <<x, y>> \in order => rank[x] < rank[y]
  <2> SUFFICES ASSUME NEW x \in S, NEW y \in S, <<x, y>> \in order PROVE rank[x] < rank[y]
    OBVIOUS
  <2>1. below(x) \cup {x} \in SUBSET below(y)
    BY DEF StrictOrder
  <2>2. IsFiniteSet(below(y)) /\ Cardinality(below(y)) \in Nat
    BY <1>2
  <2>3. Cardinality(below(x) \cup {x}) <= Cardinality(below(y))
    BY <2>1, <2>2, FS_Subset
  <2>4. rank[x] = Cardinality(below(x) \cup {x}) /\ rank[y] = Cardinality(below(y)) + 1
    BY <1>2
  <2>5. rank[x] \in Nat
    BY <1>3
  <2> HIDE DEF below, rank
  <2> QED  BY <2>2, <2>3, <2>4, <2>5
<1>5. rank \in [S -> 1..N]
  <2>1. rank = [x \in S |-> rank[x]]
    OBVIOUS
  <2> HIDE DEF rank
  <2> QED  BY <1>3, <2>1
<1> HIDE DEF rank
<1>6. \A x, y \in S : rank[x] = rank[y] => x = y
  <2> SUFFICES ASSUME NEW x \in S, NEW y \in S, rank[x] = rank[y], x # y PROVE FALSE
    OBVIOUS
  <2>1. <<x, y>> \in order \/ <<y, x>> \in order
    BY DEF StrictOrder
  <2>2. rank[x] < rank[y] \/ rank[y] < rank[x]
    BY <1>4, <2>1
  <2>3. rank[x] \in 1..N
    BY <1>3
  <2> QED  BY <2>2, <2>3
<1>7. \A n \in 1..N : \E x \in S : rank[x] = n
  <2>1. rank \in Injection(S, 1..N)
    BY <1>5, <1>6 DEF Injection, IsInjective
  <2>2. IsFiniteSet(1..N) /\ Cardinality(1..N) = N
    BY <1>1, FS_Interval
  <2>3. rank \in Surjection(S, 1..N)
    BY <2>1, <2>2, FS_Injection
  <2> QED  BY <2>3 DEF Surjection
<1>8. \A n \in 1..N : f[n] \in S /\ rank[f[n]] = n
  <2> TAKE n \in 1..N
  <2>1. PICK x \in S : rank[x] = n
    BY <1>7
  <2>2. \A y \in S : rank[y] = n <=> Cardinality(below(y)) = n - 1
    <3> TAKE y \in S
    <3>1. rank[y] = Cardinality(below(y)) + 1 /\ Cardinality(below(y)) \in Nat
      BY <1>2 DEF rank
    <3> HIDE DEF below
    <3> QED  BY <3>1
  <2>3. f[n] = CHOOSE y \in S : Cardinality(below(y)) = n - 1
    BY DEF Enumeration
  <2> HIDE DEF below
  <2>4. f[n] \in S /\ Cardinality(below(f[n])) = n - 1
    BY <2>1, <2>2, <2>3
  <2> QED  BY <2>2, <2>4
<1>9. f \in [1..N -> S]
  <2>1. f = [n \in 1..N |-> CHOOSE y \in S : Cardinality(below(y)) = n - 1]
    BY DEF Enumeration
  <2> HIDE DEF below
  <2>2. f = [n \in 1..N |-> f[n]]
    BY <2>1
  <2> QED  BY <1>8, <2>2
<1>10. \A x \in S : \E n \in 1..N : f[n] = x
  BY <1>3, <1>6, <1>8
<1>11. \A m, n \in 1..N : f[m] = f[n] => m = n
  BY <1>8
<1>12. \A m, n \in 1..N : m < n => <<f[m], f[n]>> \in order
  <2> SUFFICES ASSUME NEW m \in 1..N, NEW n \in 1..N, m < n PROVE <<f[m], f[n]>> \in order
    OBVIOUS
  <2>1. f[m] # f[n] /\ f[m] \in S /\ f[n] \in S
    BY <1>8
  <2>2. CASE <<f[n], f[m]>> \in order
    <3>1. rank[f[n]] < rank[f[m]]
      BY <1>4, <2>1, <2>2
    <3> QED  BY <1>8, <3>1
  <2> QED  BY <2>1, <2>2 DEF StrictOrder
<1> QED  BY <1>1, <1>9, <1>10, <1>11, <1>12

-----------------------------------------------------------------------------
(* The order of the values of a column                                     *)

LEMMA TextsAre ==
    ASSUME NEW s \in Texts
    PROVE  /\ Len(s) \in Nat /\ s = [i \in 1..Len(s) |-> s[i]]
           /\ \A i \in 1..Len(s) : s[i] \in Characters /\ s[i] \in Nat
<1>1. s \in Seq(Characters)
  BY DEF Texts
<1>2. Len(s) \in Nat /\ \A i \in 1..Len(s) : s[i] \in Characters
  BY <1>1
<1>3. s = [i \in 1..Len(s) |-> s[i]]
  BY <1>1
<1> QED  BY <1>2, <1>3, CharactersAssumption

LEMMA TextsApart ==
    ASSUME NEW s \in Texts, NEW t \in Texts, s # t
    PROVE  TextLess(s, t) \/ TextLess(t, s)
<1> DEFINE stop == {n \in 0..Len(s) : n = Len(s) \/ n = Len(t) \/ s[n + 1] # t[n + 1]}
<1>1. /\ Len(s) \in Nat /\ \A i \in 1..Len(s) : s[i] \in Nat
      /\ Len(t) \in Nat /\ \A i \in 1..Len(t) : t[i] \in Nat
  BY TextsAre
<1>2. stop \in SUBSET Nat /\ Len(s) \in stop
  BY <1>1
<1>3. PICK n \in stop : \A m \in stop : n <= m
  <2> HIDE DEF stop
  <2> QED  BY <1>2, Least
<1>4. n \in Nat /\ n <= Len(s)
  BY <1>1
<1>5. \A i \in 1..n : s[i] = t[i] /\ i <= Len(t)
  <2>1. \A m \in 0..Len(s) : m < n => m # Len(t) /\ s[m + 1] = t[m + 1]
    <3> SUFFICES ASSUME NEW m \in 0..Len(s), m < n PROVE m # Len(t) /\ s[m + 1] = t[m + 1]
      OBVIOUS
    <3>1. m \notin stop
      BY <1>1, <1>3, <1>4
    <3> QED  BY <3>1
  <2>2. n <= Len(t)
    BY <1>1, <1>4, <2>1
  <2> TAKE i \in 1..n
  <2>3. i - 1 \in 0..Len(s) /\ i - 1 < n /\ (i - 1) + 1 = i /\ i <= Len(t)
    BY <1>1, <1>4, <2>2
  <2>4. s[(i - 1) + 1] = t[(i - 1) + 1]
    BY <2>1, <2>3
  <2> QED  BY <2>3, <2>4
<1>6. n <= Len(t)
  BY <1>1, <1>4, <1>5
<1>7. CASE n = Len(s) /\ n = Len(t)
  <2>1. s = t
    BY <1>1, <1>5, <1>7, TextsAre
  <2> QED  BY <2>1
<1>8. CASE n = Len(s) /\ n < Len(t)
  BY <1>1, <1>4, <1>5, <1>8 DEF TextLess
<1>9. CASE n < Len(s) /\ n = Len(t)
  BY <1>1, <1>4, <1>5, <1>9 DEF TextLess
<1>10. CASE n < Len(s) /\ n < Len(t)
  <2>1. s[n + 1] # t[n + 1] /\ s[n + 1] \in Nat /\ t[n + 1] \in Nat
    BY <1>1, <1>4, <1>10
  <2>2. s[n + 1] < t[n + 1] \/ t[n + 1] < s[n + 1]
    BY <2>1
  <2>3. n \in 0..Len(s) /\ n \in 0..Len(t) /\ \A i \in 1..n : t[i] = s[i]
    BY <1>1, <1>4, <1>5, <1>6
  <2> QED  BY <1>5, <1>10, <2>2, <2>3 DEF TextLess
<1> QED  BY <1>1, <1>4, <1>6, <1>7, <1>8, <1>9, <1>10

LEMMA TextsOrdered ==
    ASSUME NEW s \in Texts, NEW t \in Texts, NEW u \in Texts, TextLess(s, t), TextLess(t, u)
    PROVE  TextLess(s, u)
<1>1. /\ Len(s) \in Nat /\ \A i \in 1..Len(s) : s[i] \in Nat
      /\ Len(t) \in Nat /\ \A i \in 1..Len(t) : t[i] \in Nat
      /\ Len(u) \in Nat /\ \A i \in 1..Len(u) : u[i] \in Nat
  BY TextsAre
<1>2. PICK m \in 0..Len(s) : /\ m < Len(t) /\ \A i \in 1..m : s[i] = t[i]
                             /\ m = Len(s) \/ s[m + 1] < t[m + 1]
  BY DEF TextLess
<1>3. PICK n \in 0..Len(t) : /\ n < Len(u) /\ \A i \in 1..n : t[i] = u[i]
                             /\ n = Len(t) \/ t[n + 1] < u[n + 1]
  BY DEF TextLess
<1>4. CASE m < n
  <2>1. \A i \in 1..m : s[i] = u[i]
    BY <1>1, <1>2, <1>3, <1>4
  <2>2. t[m + 1] = u[m + 1] /\ m < Len(u)
    BY <1>1, <1>2, <1>3, <1>4
  <2> QED  BY <1>2, <2>1, <2>2 DEF TextLess
<1>5. CASE m = n
  <2>1. \A i \in 1..m : s[i] = u[i]
    BY <1>1, <1>2, <1>3, <1>5
  <2>2. m = Len(s) \/ s[m + 1] < u[m + 1]
    <3>1. SUFFICES ASSUME m < Len(s) PROVE s[m + 1] < u[m + 1]
      BY <1>1
    <3>2. s[m + 1] \in Nat /\ t[m + 1] \in Nat /\ u[m + 1] \in Nat
      BY <1>1, <1>2, <1>3, <1>5, <3>1
    <3> QED  BY <1>1, <1>2, <1>3, <1>5, <3>1, <3>2
  <2> QED  BY <1>2, <1>3, <1>5, <2>1, <2>2 DEF TextLess
<1>6. CASE n < m
  <2>1. \A i \in 1..n : s[i] = u[i]
    BY <1>1, <1>2, <1>3, <1>6
  <2>2. s[n + 1] = t[n + 1] /\ t[n + 1] < u[n + 1] /\ n \in 0..Len(s)
    BY <1>1, <1>2, <1>3, <1>6
  <2> QED  BY <1>3, <2>1, <2>2 DEF TextLess
<1> QED  BY <1>1, <1>4, <1>5, <1>6

(* Less is a strict order of the column's values.                          *)
LEMMA ValuesOrdered ==
    ASSUME NEW column
    PROVE  /\ \A v \in Values(column) : ~Less(column, v, v)
           /\ \A v, w, x \in Values(column) :
                Less(column, v, w) /\ Less(column, w, x) => Less(column, v, x)
           /\ \A v, w \in Values(column) : v = w \/ Less(column, v, w) \/ Less(column, w, v)
<1>1. CASE column \in Textual
  <2>1. Values(column) = Texts
    BY <1>1 DEF Values
  <2>2. \A v, w \in Texts : Less(column, v, w) <=> TextLess(v, w)
    BY <1>1 DEF Less
  <2>3. \A v \in Texts : ~TextLess(v, v)
    <3> SUFFICES ASSUME NEW v \in Texts, TextLess(v, v) PROVE FALSE
      OBVIOUS
    <3>1. Len(v) \in Nat /\ \A i \in 1..Len(v) : v[i] \in Nat
      BY TextsAre
    <3>2. PICK n \in 0..Len(v) : n < Len(v) /\ (n = Len(v) \/ v[n + 1] < v[n + 1])
      BY DEF TextLess
    <3> QED  BY <3>1, <3>2
  <2> QED  BY <2>1, <2>2, <2>3, TextsApart, TextsOrdered
<1>2. CASE column \notin Textual
  <2>1. Values(column) = Numbers /\ Numbers \subseteq Int
    BY <1>2, NumeralAssumption DEF Values
  <2>2. \A v, w : Less(column, v, w) <=> v < w
    BY <1>2 DEF Less
  <2>3. \A v \in Numbers : ~(v < v)
    BY <2>1
  <2>4. \A v, w, x \in Numbers : v < w /\ w < x => v < x
    BY <2>1
  <2>5. \A v, w \in Numbers : v = w \/ v < w \/ w < v
    BY <2>1
  <2> QED  BY <2>1, <2>2, <2>3, <2>4, <2>5
<1> QED  BY <1>1, <1>2

-----------------------------------------------------------------------------
(* The order of the rows                                                   *)

(* A row as a table may hold it.                                           *)
RowFits(row) ==
    /\ row.id \in Nat
    /\ \A column \in Columns : row[column] = Null \/ row[column] \in Values(column)

LEMMA PrecedesIs ==
    ASSUME NEW sort, sort.field \in Columns,
           NEW a, RowFits(a), NEW b, RowFits(b), NEW c, RowFits(c)
    PROVE  /\ Precedes(sort, a, b) => a[sort.field] # b[sort.field]
           /\ Precedes(sort, a, b) /\ Precedes(sort, b, c) => Precedes(sort, a, c)
           /\ a[sort.field] # b[sort.field] => Precedes(sort, a, b) \/ Precedes(sort, b, a)
           /\ Precedes(sort, a, b) /\ b[sort.field] = c[sort.field] => Precedes(sort, a, c)
           /\ a[sort.field] = b[sort.field] /\ Precedes(sort, b, c) => Precedes(sort, a, c)
<1> DEFINE f == sort.field
<1>1. /\ a[f] = Null \/ a[f] \in Values(f)
      /\ b[f] = Null \/ b[f] \in Values(f)
      /\ c[f] = Null \/ c[f] \in Values(f)
  BY DEF RowFits
<1>2. Null \notin Values(f)
  BY NullAssumption DEF Values
<1>3. \A v \in Values(f) : ~Less(f, v, v)
  BY ValuesOrdered
<1>4. \A v, w, x \in Values(f) : Less(f, v, w) /\ Less(f, w, x) => Less(f, v, x)
  BY ValuesOrdered
<1>5. \A v, w \in Values(f) : v = w \/ Less(f, v, w) \/ Less(f, w, v)
  BY ValuesOrdered
<1>6. ASSUME Precedes(sort, a, b) PROVE a[f] # b[f]
  BY <1>1, <1>2, <1>3, <1>6 DEF Precedes
<1>7. ASSUME Precedes(sort, a, b), Precedes(sort, b, c) PROVE Precedes(sort, a, c)
  BY <1>1, <1>2, <1>4, <1>7 DEF Precedes
<1>8. ASSUME a[f] # b[f] PROVE Precedes(sort, a, b) \/ Precedes(sort, b, a)
  BY <1>1, <1>2, <1>5, <1>8 DEF Precedes
<1>9. ASSUME Precedes(sort, a, b), b[f] = c[f] PROVE Precedes(sort, a, c)
  BY <1>9 DEF Precedes
<1>10. ASSUME a[f] = b[f], Precedes(sort, b, c) PROVE Precedes(sort, a, c)
  BY <1>10 DEF Precedes
<1> QED  BY <1>6, <1>7, <1>8, <1>9, <1>10

(* The rows of a table: no two have the same id.                           *)
Table(rows) ==
    /\ \A a \in rows : RowFits(a)
    /\ \A a, b \in rows : a.id = b.id => a = b

LEMMA BeforeOrders ==
    ASSUME NEW rows, Table(rows), NEW sorts, DOMAIN sorts \subseteq Nat,
           NEW order, order = {p \in rows \X rows : Before(sorts, p[1], p[2])}
    PROVE  StrictOrder(rows, order)
<1> DEFINE R == Resolved(sorts)
           f(n) == sorts[n].field
           Tied(n, a, b) == a[f(n)] = b[f(n)]
           P(n, a, b) == Precedes(sorts[n], a, b)
<1>1. R \in SUBSET Nat /\ \A n \in R : f(n) \in Columns
  BY DEF Resolved
<1>2. \A a, b : Before(sorts, a, b) <=>
        \/ \E n \in R : P(n, a, b) /\ \A m \in R : m < n => Tied(m, a, b)
        \/ a.id < b.id /\ \A n \in R : Tied(n, a, b)
  BY DEF Before
<1>3. \A a, b \in rows : <<a, b>> \in order <=> Before(sorts, a, b)
  OBVIOUS
<1>4. \A a \in rows : RowFits(a) /\ a.id \in Nat
  BY DEF Table, RowFits
<1>5. \A n \in R : \A a, b, c \in rows :
        /\ P(n, a, b) => ~Tied(n, a, b)
        /\ P(n, a, b) /\ P(n, b, c) => P(n, a, c)
        /\ ~Tied(n, a, b) => P(n, a, b) \/ P(n, b, a)
        /\ P(n, a, b) /\ Tied(n, b, c) => P(n, a, c)
        /\ Tied(n, a, b) /\ P(n, b, c) => P(n, a, c)
  BY <1>1, <1>4, PrecedesIs
<1>6. /\ \A n, a, b : Tied(n, a, b) => Tied(n, b, a)
      /\ \A n, a, b, c : Tied(n, a, b) /\ Tied(n, b, c) => Tied(n, a, c)
      /\ \A n, a : Tied(n, a, a)
  OBVIOUS
<1> HIDE DEF R, f, Tied, P
<1>7. \A a \in rows : <<a, a>> \notin order
  <2> SUFFICES ASSUME NEW a \in rows, Before(sorts, a, a) PROVE FALSE
    BY <1>3
  <2>1. ~(a.id < a.id)
    BY <1>4
  <2> QED  BY <1>2, <1>5, <1>6, <2>1
<1>8. \A a, b, c \in rows : <<a, b>> \in order /\ <<b, c>> \in order => <<a, c>> \in order
  <2> SUFFICES ASSUME NEW a \in rows, NEW b \in rows, NEW c \in rows,
                      Before(sorts, a, b), Before(sorts, b, c)
               PROVE  Before(sorts, a, c)
    BY <1>3
  <2>1. CASE \A n \in R : Tied(n, a, b)
    <3>1. a.id < b.id
      BY <1>2, <1>5, <2>1
    <3>2. CASE \A n \in R : Tied(n, b, c)
      <4>1. b.id < c.id
        BY <1>2, <1>5, <3>2
      <4>2. a.id < c.id
        BY <1>4, <3>1, <4>1
      <4> QED  BY <1>2, <1>6, <2>1, <3>2, <4>2
    <3>3. CASE ~\A n \in R : Tied(n, b, c)
      <4>1. PICK n \in R : P(n, b, c) /\ \A m \in R : m < n => Tied(m, b, c)
        BY <1>2, <3>3
      <4>2. P(n, a, c) /\ \A m \in R : m < n => Tied(m, a, c)
        BY <1>5, <1>6, <2>1, <4>1
      <4> QED  BY <1>2, <4>2
    <3> QED  BY <3>2, <3>3
  <2>2. CASE ~\A n \in R : Tied(n, a, b)
    <3>1. PICK m \in R : P(m, a, b) /\ \A k \in R : k < m => Tied(k, a, b)
      BY <1>2, <2>2
    <3>2. CASE \A n \in R : Tied(n, b, c)
      <4>1. P(m, a, c) /\ \A k \in R : k < m => Tied(k, a, c)
        BY <1>5, <1>6, <3>1, <3>2
      <4> QED  BY <1>2, <4>1
    <3>3. CASE ~\A n \in R : Tied(n, b, c)
      <4>1. PICK n \in R : P(n, b, c) /\ \A k \in R : k < n => Tied(k, b, c)
        BY <1>2, <3>3
      <4>2. \A k, i, j \in R : (k < i /\ i < j => k < j) /\ (i < j \/ i = j \/ j < i)
        BY <1>1
      <4>3. CASE m < n
        <5>1. P(m, a, c) /\ \A k \in R : k < m => Tied(k, a, c)
          BY <1>5, <1>6, <3>1, <4>1, <4>2, <4>3
        <5> QED  BY <1>2, <5>1
      <4>4. CASE m = n
        <5>1. P(m, a, c) /\ \A k \in R : k < m => Tied(k, a, c)
          BY <1>5, <1>6, <3>1, <4>1, <4>4
        <5> QED  BY <1>2, <5>1
      <4>5. CASE n < m
        <5>1. P(n, a, c) /\ \A k \in R : k < n => Tied(k, a, c)
          BY <1>5, <1>6, <3>1, <4>1, <4>2, <4>5
        <5> QED  BY <1>2, <5>1
      <4> QED  BY <4>2, <4>3, <4>4, <4>5
    <3> QED  BY <3>2, <3>3
  <2> QED  BY <2>1, <2>2
<1>9. \A a, b \in rows : a = b \/ <<a, b>> \in order \/ <<b, a>> \in order
  <2> SUFFICES ASSUME NEW a \in rows, NEW b \in rows, a # b
               PROVE  Before(sorts, a, b) \/ Before(sorts, b, a)
    BY <1>3
  <2>1. CASE \A n \in R : Tied(n, a, b)
    <3>1. a.id # b.id
      BY DEF Table
    <3>2. a.id < b.id \/ b.id < a.id
      BY <1>4, <3>1
    <3> QED  BY <1>2, <1>6, <2>1, <3>2
  <2>2. CASE ~\A n \in R : Tied(n, a, b)
    <3> DEFINE untied == {n \in R : ~Tied(n, a, b)}
    <3>1. untied \in SUBSET Nat /\ untied # {}
      BY <1>1, <2>2
    <3>2. PICK n \in untied : \A m \in untied : n <= m
      <4> HIDE DEF untied
      <4> QED  BY <3>1, Least
    <3>3. \A m \in R : m < n => Tied(m, a, b)
      <4>1. \A m, k \in R : m < k => ~(k <= m)
        BY <1>1
      <4> QED  BY <3>2, <4>1
    <3>4. P(n, a, b) \/ P(n, b, a)
      BY <1>5
    <3> QED  BY <1>2, <1>6, <3>3, <3>4
  <2> QED  BY <2>1, <2>2
<1> QED  BY <1>7, <1>8, <1>9 DEF StrictOrder

-----------------------------------------------------------------------------
(* LIKE and includes()                                                     *)

(* One token of an escaped operand matches what has its lower case.        *)
LEMMA TokenIs ==
    ASSUME NEW c \in Characters, NEW d \in Characters,
           NEW token, token = IF d \in Wildcards THEN Escaped(d) ELSE d
    PROVE  /\ token \notin Wildcards \cup {AnyText}
           /\ (\/ c \in Wildcards /\ token = Escaped(c)
               \/ token > 0 /\ Lower[c] = Lower[token]) <=> Lower[c] = Lower[d]
<1>1. c \in Nat \ {0} /\ d \in Nat \ {0} /\ \A w \in Wildcards : w \in Nat \ {0}
  BY CharactersAssumption
<1>2. CASE d \in Wildcards
  <2>1. token = -d /\ \A w \in Wildcards : -d # w
    BY <1>1, <1>2 DEF Escaped
  <2>2. Lower[c] = Lower[d] => c = d
    BY <1>2, CharactersAssumption
  <2>3. (c \in Wildcards /\ token = Escaped(c)) <=> c = d
    BY <1>1, <1>2, <2>1 DEF Escaped
  <2>4. ~(token > 0) /\ token # 0
    BY <1>1, <2>1
  <2> QED  BY <2>1, <2>2, <2>3, <2>4 DEF AnyText
<1>3. CASE d \notin Wildcards
  <2>1. token = d /\ token > 0 /\ token # 0 /\ token # Escaped(c)
    BY <1>1, <1>3 DEF Escaped
  <2> QED  BY <1>3, <2>1 DEF AnyText
<1> QED  BY <1>2, <1>3

(* Both fold alike what the operand and the text have of letters.          *)
FoldAlike(text, v) ==
    \A i \in 1..Len(v), k \in 1..Len(text) :
      Lower[v[i]] = Lower[text[k]] <=> JsLower[v[i]] = JsLower[text[k]]

LEMMA WithinIs ==
    ASSUME NEW text \in Texts, NEW v \in Texts, FoldAlike(text, v), NEW from \in 1..(Len(v) + 1)
    PROVE  Within(text, v, from) <=>
             /\ from + Len(text) - 1 <= Len(v)
             /\ \A k \in 1..Len(text) : Lower[v[from + k - 1]] = Lower[text[k]]
<1>1. /\ Len(text) \in Nat /\ text = [i \in 1..Len(text) |-> text[i]]
      /\ Len(v) \in Nat /\ v = [i \in 1..Len(v) |-> v[i]]
  BY TextsAre
<1>2. SUFFICES ASSUME from + Len(text) - 1 <= Len(v)
               PROVE  ToLowerCase(SubSeq(v, from, from + Len(text) - 1)) = ToLowerCase(text) <=>
                        \A k \in 1..Len(text) : Lower[v[from + k - 1]] = Lower[text[k]]
  BY DEF Within
<1>3. SubSeq(v, from, from + Len(text) - 1) = [k \in 1..Len(text) |-> v[from + k - 1]]
  <2>1. 1..((from + Len(text) - 1) - from + 1) = 1..Len(text)
    BY <1>1
  <2>2. \A k \in 1..Len(text) : (k + from) - 1 = (from + k) - 1
    BY <1>1
  <2> QED  BY <1>1, <2>1, <2>2
<1>4. ToLowerCase(SubSeq(v, from, from + Len(text) - 1))
        = [k \in 1..Len(text) |-> JsLower[v[from + k - 1]]]
  BY <1>3 DEF ToLowerCase
<1>5. ToLowerCase(text) = [k \in 1..Len(text) |-> JsLower[text[k]]]
  BY <1>1 DEF ToLowerCase
<1>6. \A k \in 1..Len(text) : from + k - 1 \in 1..Len(v)
  BY <1>1, <1>2
<1>7. \A k \in 1..Len(text) :
        Lower[v[from + k - 1]] = Lower[text[k]] <=> JsLower[v[from + k - 1]] = JsLower[text[k]]
  BY <1>6 DEF FoldAlike
<1> QED  BY <1>4, <1>5, <1>7

(* What grows by one at every step has grown by k after k steps.           *)
LEMMA Counting ==
    ASSUME NEW f, NEW n \in Nat, NEW a \in Nat, f[a] \in Nat,
           \A k \in 1..n : f[a + k] = f[a + k - 1] + 1
    PROVE  \A k \in 0..n : f[a + k] = f[a] + k
<1> DEFINE bad == {k \in 0..n : f[a + k] # f[a] + k}
<1>1. SUFFICES ASSUME bad # {} PROVE FALSE
  OBVIOUS
<1>2. bad \in SUBSET Nat
  OBVIOUS
<1>3. PICK k \in bad : \A m \in bad : k <= m
  <2> HIDE DEF bad
  <2> QED  BY <1>1, <1>2, Least
<1>4. k # 0
  OBVIOUS
<1>5. k - 1 \in 0..n /\ k - 1 \notin bad /\ k \in 1..n
  BY <1>3, <1>4
<1>6. f[a + (k - 1)] = f[a] + (k - 1) /\ a + (k - 1) = a + k - 1
  BY <1>5
<1>7. f[a + k] = f[a + k - 1] + 1
  BY <1>5
<1>8. f[a + k] = f[a] + k
  BY <1>6, <1>7
<1> QED  BY <1>3, <1>8

LEMMA EscapeLikeIs ==
    ASSUME NEW text \in Texts, NEW e, e = EscapeLike(text)
    PROVE  /\ e \in Seq(Int) /\ Len(e) = Len(text)
           /\ \A k \in 1..Len(text) :
                e[k] = IF text[k] \in Wildcards THEN Escaped(text[k]) ELSE text[k]
<1>1. Len(text) \in Nat /\ text = [i \in 1..Len(text) |-> text[i]] /\ \A i \in 1..Len(text) : text[i] \in Nat
  BY TextsAre
<1>2. DOMAIN text = 1..Len(text)
  BY <1>1
<1>3. e = [i \in 1..Len(text) |-> IF text[i] \in Wildcards THEN Escaped(text[i]) ELSE text[i]]
  BY <1>2 DEF EscapeLike
<1>4. \A i \in 1..Len(text) : (IF text[i] \in Wildcards THEN Escaped(text[i]) ELSE text[i]) \in Int
  BY <1>1 DEF Escaped
<1>5. e \in [1..Len(text) -> Int]
  BY <1>3, <1>4
<1>6. e \in Seq(Int) /\ Len(e) = Len(text)
  BY <1>1, <1>5
<1> QED  BY <1>3, <1>6

LEMMA StartsWithPattern ==
    ASSUME NEW text \in Texts, NEW p, p = EscapeLike(text) \o <<AnyText>>
    PROVE  /\ Len(p) = Len(text) + 1 /\ p[Len(text) + 1] = AnyText
           /\ \A k \in 1..Len(text) : p[k] = EscapeLike(text)[k]
<1> DEFINE e == EscapeLike(text)
           any == <<AnyText>>
<1>1. e \in Seq(Int) /\ Len(e) = Len(text) /\ Len(text) \in Nat
  BY EscapeLikeIs, TextsAre
<1>2. any \in Seq(Int) /\ Len(any) = 1 /\ any[1] = AnyText
  BY DEF AnyText
<1>3. p = e \o any
  OBVIOUS
<1> HIDE DEF e, any
<1>4. /\ Len(p) = Len(e) + Len(any)
      /\ \A i \in 1..(Len(e) + Len(any)) : p[i] = IF i <= Len(e) THEN e[i] ELSE any[i - Len(e)]
  <2> DEFINE r == e \o any
  <2>1. /\ Len(r) = Len(e) + Len(any)
        /\ \A i \in 1..(Len(e) + Len(any)) : r[i] = IF i <= Len(e) THEN e[i] ELSE any[i - Len(e)]
    BY <1>1, <1>2, ConcatProperties
  <2>2. p = r
    BY <1>3
  <2> HIDE DEF r
  <2> QED  BY <2>1, <2>2
<1>5. Len(p) = Len(text) + 1 /\ p[Len(text) + 1] = AnyText
  BY <1>1, <1>2, <1>4
<1>6. \A k \in 1..Len(text) : p[k] = e[k]
  BY <1>1, <1>2, <1>4
<1> QED  BY <1>5, <1>6 DEF e

LEMMA ContainsPattern ==
    ASSUME NEW text \in Texts, NEW p, p = <<AnyText>> \o EscapeLike(text) \o <<AnyText>>
    PROVE  /\ Len(p) = Len(text) + 2 /\ p[1] = AnyText /\ p[Len(text) + 2] = AnyText
           /\ \A k \in 1..Len(text) : p[1 + k] = EscapeLike(text)[k]
<1> DEFINE e == EscapeLike(text)
           any == <<AnyText>>
           q == any \o e
<1>1. e \in Seq(Int) /\ Len(e) = Len(text) /\ Len(text) \in Nat
  BY EscapeLikeIs, TextsAre
<1>2. any \in Seq(Int) /\ Len(any) = 1 /\ any[1] = AnyText
  BY DEF AnyText
<1>3. p = q \o any
  OBVIOUS
<1> HIDE DEF e, any
<1>4. /\ q \in Seq(Int) /\ Len(q) = Len(any) + Len(e)
      /\ \A i \in 1..(Len(any) + Len(e)) : q[i] = IF i <= Len(any) THEN any[i] ELSE e[i - Len(any)]
  BY <1>1, <1>2, ConcatProperties
<1> HIDE DEF q
<1>5. /\ Len(p) = Len(q) + Len(any)
      /\ \A i \in 1..(Len(q) + Len(any)) : p[i] = IF i <= Len(q) THEN q[i] ELSE any[i - Len(q)]
  <2> DEFINE r == q \o any
  <2>1. /\ Len(r) = Len(q) + Len(any)
        /\ \A i \in 1..(Len(q) + Len(any)) : r[i] = IF i <= Len(q) THEN q[i] ELSE any[i - Len(q)]
    <3>1. q \in Seq(Int) /\ any \in Seq(Int)
      BY <1>2, <1>4
    <3> QED  BY <3>1, ConcatProperties
  <2>2. p = r
    BY <1>3
  <2> HIDE DEF r
  <2> QED  BY <2>1, <2>2
<1>6. Len(p) = Len(text) + 2 /\ p[1] = AnyText /\ p[Len(text) + 2] = AnyText
  <2>1. Len(p) = Len(text) + 2 /\ Len(q) = Len(text) + 1
    BY <1>1, <1>2, <1>4, <1>5
  <2>2. p[1] = q[1] /\ q[1] = any[1]
    BY <1>1, <1>2, <1>4, <1>5
  <2>3. p[Len(text) + 2] = any[(Len(text) + 2) - Len(q)] /\ (Len(text) + 2) - Len(q) = 1
    BY <1>1, <1>2, <1>5, <2>1
  <2> QED  BY <1>2, <2>1, <2>2, <2>3
<1>7. \A k \in 1..Len(text) : p[1 + k] = e[k]
  <2> TAKE k \in 1..Len(text)
  <2>1. p[1 + k] = q[1 + k]
    BY <1>1, <1>2, <1>4, <1>5
  <2>2. q[1 + k] = e[(1 + k) - Len(any)] /\ (1 + k) - Len(any) = k
    BY <1>1, <1>2, <1>4
  <2> QED  BY <2>1, <2>2
<1> QED  BY <1>6, <1>7 DEF e

(* The operand's tokens are those of p after the first a. *)
OperandAfter(text, v, p, a, end) ==
    /\ \A k \in 1..Len(text) : p[a + k] = EscapeLike(text)[k]
    /\ \A k \in 0..Len(text) : end[a + k] \in 0..Len(v)

TokensMatch(text, v, p, a, end) ==
    \A k \in 1..Len(text) : Matches(v, p[a + k], end[a + k - 1], end[a + k])

SameLetters(text, v, a, end) ==
    \A k \in 1..Len(text) : end[a + k] = end[a + k - 1] + 1 /\ Lower[v[end[a + k]]] = Lower[text[k]]

(* The tokens of an escaped operand match exactly its characters, in       *)
(* whatever case, one after the other.                                     *)
LEMMA OperandMatches ==
    ASSUME NEW text \in Texts, NEW v \in Texts, NEW p, NEW a \in Nat, NEW end,
           OperandAfter(text, v, p, a, end)
    PROVE  TokensMatch(text, v, p, a, end) <=> SameLetters(text, v, a, end)
<1>1. Len(text) \in Nat /\ Len(v) \in Nat
  BY TextsAre
<1>2. \A k \in 1..Len(text) : text[k] \in Characters
  BY TextsAre
<1>3. \A i \in 1..Len(v) : v[i] \in Characters
  BY TextsAre
<1> SUFFICES ASSUME NEW k \in 1..Len(text)
             PROVE  Matches(v, p[a + k], end[a + k - 1], end[a + k]) <=>
                      /\ end[a + k] = end[a + k - 1] + 1
                      /\ Lower[v[end[a + k]]] = Lower[text[k]]
  BY DEF TokensMatch, SameLetters
<1> DEFINE from == end[a + k - 1]
           to == end[a + k]
           token == p[a + k]
<1>4. from \in 0..Len(v) /\ to \in 0..Len(v)
  <2>1. k - 1 \in 0..Len(text) /\ k \in 0..Len(text) /\ a + (k - 1) = a + k - 1
    BY <1>1
  <2>2. end[a + (k - 1)] \in 0..Len(v) /\ end[a + k] \in 0..Len(v)
    BY <2>1 DEF OperandAfter
  <2> QED  BY <2>1, <2>2
<1>5. token = IF text[k] \in Wildcards THEN Escaped(text[k]) ELSE text[k]
  BY EscapeLikeIs DEF OperandAfter
<1> HIDE DEF from, to, token
<1>6. token \notin Wildcards \cup {AnyText}
  BY <1>2, <1>5, TokenIs
<1>7. ASSUME to = from + 1
      PROVE  (\/ v[to] \in Wildcards /\ token = Escaped(v[to])
              \/ token > 0 /\ Lower[v[to]] = Lower[token]) <=> Lower[v[to]] = Lower[text[k]]
  <2>1. v[to] \in Characters
    BY <1>1, <1>3, <1>4, <1>7
  <2> QED  BY <1>2, <1>5, <2>1, TokenIs
<1>8. Matches(v, token, from, to) <=> to = from + 1 /\ Lower[v[to]] = Lower[text[k]]
  BY <1>6, <1>7 DEF Matches
<1> QED  BY <1>8 DEF from, to, token

LEMMA ContainsIs ==
    ASSUME NEW text \in Texts, NEW v \in Texts, FoldAlike(text, v)
    PROVE  Like(v, <<AnyText>> \o EscapeLike(text) \o <<AnyText>>) <=>
             \E from \in 1..(Len(v) + 1) : Within(text, v, from)
<1> DEFINE p == <<AnyText>> \o EscapeLike(text) \o <<AnyText>>
           L == Len(text)
<1>1. L \in Nat /\ Len(v) \in Nat
  BY TextsAre
<1>2. /\ Len(p) = L + 2 /\ p[1] = AnyText /\ p[L + 2] = AnyText
      /\ \A k \in 1..L : p[1 + k] = EscapeLike(text)[k]
  BY ContainsPattern
<1> HIDE DEF p
<1>3. \A from, to : Matches(v, AnyText, from, to) <=> from <= to
  BY DEF Matches
<1>4. ASSUME Like(v, p) PROVE \E from \in 1..(Len(v) + 1) : Within(text, v, from)
  <2>1. PICK end \in [0..Len(p) -> 0..Len(v)] :
          /\ end[0] = 0 /\ end[Len(p)] = Len(v)
          /\ \A n \in 1..Len(p) : Matches(v, p[n], end[n - 1], end[n])
    BY <1>4 DEF Like
  <2>2. \A k \in 0..L : 1 + k \in 0..Len(p) /\ end[1 + k] \in 0..Len(v)
    BY <1>1, <1>2, <2>1
  <2>3. \A k \in 1..L : Matches(v, p[1 + k], end[1 + k - 1], end[1 + k])
    <3> TAKE k \in 1..L
    <3>1. 1 + k \in 1..Len(p)
      BY <1>1, <1>2
    <3> QED  BY <2>1, <3>1
  <2>4. \A k \in 1..L : end[1 + k] = end[1 + k - 1] + 1 /\ Lower[v[end[1 + k]]] = Lower[text[k]]
    <3>1. OperandAfter(text, v, p, 1, end) /\ TokensMatch(text, v, p, 1, end)
      BY <1>2, <2>2, <2>3 DEF OperandAfter, TokensMatch
    <3>2. SameLetters(text, v, 1, end)
      BY <3>1, OperandMatches
    <3> QED  BY <3>2 DEF SameLetters
  <2>5. end[1] \in 0..Len(v) /\ end[1] \in Nat
    <3>1. 1 \in 0..Len(p)
      BY <1>1, <1>2
    <3> QED  BY <1>1, <2>1, <3>1
  <2>6. \A k \in 0..L : end[1 + k] = end[1] + k
    <3> HIDE DEF L
    <3>1. PICK a \in Nat : a = 1
      OBVIOUS
    <3>2. end[a] \in Nat /\ \A k \in 1..L : end[a + k] = end[a + k - 1] + 1
      BY <2>4, <2>5, <3>1
    <3>3. \A k \in 0..L : end[a + k] = end[a] + k
      BY <1>1, <3>2, Counting
    <3> QED  BY <3>1, <3>3
  <2> DEFINE from == end[1] + 1
  <2>7. from \in 1..(Len(v) + 1)
    BY <1>1, <2>5
  <2>8. from + L - 1 <= Len(v)
    <3>1. L \in 0..L
      BY <1>1
    <3>2. end[1 + L] = end[1] + L /\ end[1 + L] \in 0..Len(v)
      BY <2>2, <2>6, <3>1
    <3> QED  BY <1>1, <2>5, <3>2
  <2>9. \A k \in 1..L : Lower[v[from + k - 1]] = Lower[text[k]]
    <3> TAKE k \in 1..L
    <3>1. k \in 0..L
      BY <1>1
    <3>2. end[1 + k] = end[1] + k
      BY <2>6, <3>1
    <3>3. from + k - 1 = end[1] + k
      BY <1>1, <2>5
    <3> QED  BY <2>4, <3>2, <3>3
  <2>10. Within(text, v, from)
    <3> HIDE DEF from
    <3> QED  BY <2>7, <2>8, <2>9, WithinIs DEF L
  <2> QED  BY <2>7, <2>10
<1>5. ASSUME NEW from \in 1..(Len(v) + 1), Within(text, v, from) PROVE Like(v, p)
  <2> DEFINE end == [n \in 0..Len(p) |-> IF n = 0 THEN 0 ELSE IF n = L + 2 THEN Len(v) ELSE from + n - 2]
  <2>1. from + L - 1 <= Len(v) /\ \A k \in 1..L : Lower[v[from + k - 1]] = Lower[text[k]]
    BY <1>5, WithinIs
  <2>2. end \in [0..Len(p) -> 0..Len(v)]
    <3>1. \A n \in 0..Len(p) : n = 0 \/ n = L + 2 \/ from + n - 2 \in 0..Len(v)
      BY <1>1, <1>2, <2>1
    <3>2. Len(v) \in 0..Len(v) /\ 0 \in 0..Len(v)
      BY <1>1
    <3> QED  BY <3>1, <3>2
  <2>3. end[0] = 0 /\ end[Len(p)] = Len(v)
    BY <1>1, <1>2
  <2>4. \A k \in 0..L : end[1 + k] = from + k - 1 /\ end[1 + k] \in 0..Len(v)
    BY <1>1, <1>2, <2>1
  <2>5. end[L + 2] = Len(v) /\ end[(L + 2) - 1] <= Len(v)
    <3>1. L \in 0..L /\ (L + 2) - 1 = 1 + L
      BY <1>1
    <3>2. end[1 + L] \in 0..Len(v)
      BY <2>4, <3>1
    <3> QED  BY <1>1, <1>2, <3>1, <3>2
  <2> HIDE DEF end
  <2>6. \A k \in 1..L : end[1 + k] = end[1 + k - 1] + 1 /\ Lower[v[end[1 + k]]] = Lower[text[k]]
    <3> TAKE k \in 1..L
    <3>1. k \in 0..L /\ k - 1 \in 0..L /\ 1 + k - 1 = 1 + (k - 1)
      BY <1>1
    <3>2. end[1 + k] = from + k - 1 /\ end[1 + (k - 1)] = from + (k - 1) - 1
      BY <2>4, <3>1
    <3>3. end[1 + k] = end[1 + k - 1] + 1
      BY <1>1, <3>1, <3>2
    <3> QED  BY <2>1, <3>2, <3>3
  <2>7. \A k \in 1..L : Matches(v, p[1 + k], end[1 + k - 1], end[1 + k])
    <3>1. OperandAfter(text, v, p, 1, end) /\ SameLetters(text, v, 1, end)
      BY <1>2, <2>4, <2>6 DEF OperandAfter, SameLetters
    <3>2. TokensMatch(text, v, p, 1, end)
      BY <3>1, OperandMatches
    <3> QED  BY <3>2 DEF TokensMatch
  <2>8. \A n \in 1..Len(p) : Matches(v, p[n], end[n - 1], end[n])
    <3> TAKE n \in 1..Len(p)
    <3>1. CASE n = 1
      <4>1. end[1] \in 0..Len(v)
        <5>1. 0 \in 0..L /\ 1 + 0 = 1
          BY <1>1
        <5> QED  BY <2>4, <5>1
      <4> QED  BY <1>2, <1>3, <2>3, <3>1, <4>1
    <3>2. CASE n = L + 2
      BY <1>2, <1>3, <2>5, <3>2
    <3>3. CASE n # 1 /\ n # L + 2
      <4>1. n - 1 \in 1..L /\ 1 + (n - 1) = n
        BY <1>1, <1>2, <3>3
      <4>2. Matches(v, p[1 + (n - 1)], end[1 + (n - 1) - 1], end[1 + (n - 1)])
        BY <2>7, <4>1
      <4> QED  BY <4>1, <4>2
    <3> QED  BY <3>1, <3>2, <3>3
  <2> QED  BY <2>2, <2>3, <2>8 DEF Like
<1> QED  BY <1>4, <1>5 DEF p

LEMMA StartsWithIs ==
    ASSUME NEW text \in Texts, NEW v \in Texts, FoldAlike(text, v)
    PROVE  Like(v, EscapeLike(text) \o <<AnyText>>) <=> Within(text, v, 1)
<1> DEFINE p == EscapeLike(text) \o <<AnyText>>
           L == Len(text)
<1>1. L \in Nat /\ Len(v) \in Nat /\ 1 \in 1..(Len(v) + 1)
  BY TextsAre
<1>2. Len(p) = L + 1 /\ p[L + 1] = AnyText /\ \A k \in 1..L : p[0 + k] = EscapeLike(text)[k]
  <2>1. Len(p) = L + 1 /\ p[L + 1] = AnyText /\ \A k \in 1..L : p[k] = EscapeLike(text)[k]
    BY StartsWithPattern
  <2> HIDE DEF p
  <2>2. \A k \in 1..L : 0 + k = k
    BY <1>1
  <2> QED  BY <2>1, <2>2
<1> HIDE DEF p
<1>3. \A from, to : Matches(v, AnyText, from, to) <=> from <= to
  BY DEF Matches
<1>4. Within(text, v, 1) <=> L <= Len(v) /\ \A k \in 1..L : Lower[v[k]] = Lower[text[k]]
  <2>1. PICK from \in 1..(Len(v) + 1) : from = 1
    BY <1>1
  <2>2. Within(text, v, from) <=>
          from + L - 1 <= Len(v) /\ \A k \in 1..L : Lower[v[from + k - 1]] = Lower[text[k]]
    BY WithinIs
  <2>3. from + L - 1 = L /\ \A k \in 1..L : from + k - 1 = k
    BY <1>1, <2>1
  <2> HIDE DEF L
  <2> QED  BY <2>1, <2>2, <2>3
<1>5. ASSUME Like(v, p) PROVE Within(text, v, 1)
  <2>1. PICK end \in [0..Len(p) -> 0..Len(v)] :
          /\ end[0] = 0 /\ end[Len(p)] = Len(v)
          /\ \A n \in 1..Len(p) : Matches(v, p[n], end[n - 1], end[n])
    BY <1>5 DEF Like
  <2>2. \A k \in 0..L : 0 + k \in 0..Len(p) /\ end[0 + k] \in 0..Len(v)
    BY <1>1, <1>2, <2>1
  <2>3. \A k \in 1..L : Matches(v, p[0 + k], end[0 + k - 1], end[0 + k])
    <3> TAKE k \in 1..L
    <3>1. 0 + k \in 1..Len(p)
      BY <1>1, <1>2
    <3> QED  BY <2>1, <3>1
  <2>4. \A k \in 1..L : end[0 + k] = end[0 + k - 1] + 1 /\ Lower[v[end[0 + k]]] = Lower[text[k]]
    <3>1. OperandAfter(text, v, p, 0, end) /\ TokensMatch(text, v, p, 0, end)
      BY <1>2, <2>2, <2>3 DEF OperandAfter, TokensMatch
    <3>2. SameLetters(text, v, 0, end)
      BY <3>1, OperandMatches
    <3> QED  BY <3>2 DEF SameLetters
  <2>5. \A k \in 0..L : end[0 + k] = end[0] + k
    <3> HIDE DEF L
    <3>1. 0 \in Nat /\ end[0] \in Nat
      BY <2>1
    <3>2. \A k \in 1..L : end[0 + k] = end[0 + k - 1] + 1
      BY <2>4
    <3> QED  BY <1>1, <3>1, <3>2, Counting
  <2>6. \A k \in 0..L : end[k] = k
    BY <1>1, <2>1, <2>5
  <2>7. L <= Len(v)
    <3>1. L \in 0..L /\ 0 + L = L
      BY <1>1
    <3> QED  BY <1>1, <2>2, <2>6, <3>1
  <2>8. \A k \in 1..L : Lower[v[k]] = Lower[text[k]]
    <3> TAKE k \in 1..L
    <3>1. k \in 0..L /\ 0 + k = k
      BY <1>1
    <3> QED  BY <2>4, <2>6, <3>1
  <2> QED  BY <1>4, <2>7, <2>8
<1>6. ASSUME Within(text, v, 1) PROVE Like(v, p)
  <2> DEFINE end == [n \in 0..Len(p) |-> IF n = L + 1 THEN Len(v) ELSE n]
  <2>1. L <= Len(v) /\ \A k \in 1..L : Lower[v[k]] = Lower[text[k]]
    BY <1>4, <1>6
  <2>2. end \in [0..Len(p) -> 0..Len(v)]
    <3>1. \A n \in 0..Len(p) : n = L + 1 \/ n \in 0..Len(v)
      BY <1>1, <1>2, <2>1
    <3>2. Len(v) \in 0..Len(v)
      BY <1>1
    <3> QED  BY <3>1, <3>2
  <2>3. end[0] = 0 /\ end[Len(p)] = Len(v)
    BY <1>1, <1>2
  <2>4. \A k \in 0..L : end[0 + k] = k /\ end[0 + k] \in 0..Len(v)
    BY <1>1, <1>2, <2>1
  <2>5. end[L + 1] = Len(v) /\ end[(L + 1) - 1] = L
    BY <1>1, <1>2
  <2> HIDE DEF end
  <2>6. \A k \in 1..L : end[0 + k] = end[0 + k - 1] + 1 /\ Lower[v[end[0 + k]]] = Lower[text[k]]
    <3> TAKE k \in 1..L
    <3>1. k \in 0..L /\ k - 1 \in 0..L /\ 0 + k - 1 = 0 + (k - 1)
      BY <1>1
    <3>2. end[0 + k] = k /\ end[0 + (k - 1)] = k - 1
      BY <2>4, <3>1
    <3> QED  BY <1>1, <2>1, <3>1, <3>2
  <2>7. \A k \in 1..L : Matches(v, p[0 + k], end[0 + k - 1], end[0 + k])
    <3>1. OperandAfter(text, v, p, 0, end) /\ SameLetters(text, v, 0, end)
      BY <1>2, <2>4, <2>6 DEF OperandAfter, SameLetters
    <3>2. TokensMatch(text, v, p, 0, end)
      BY <3>1, OperandMatches
    <3> QED  BY <3>2 DEF TokensMatch
  <2>8. \A n \in 1..Len(p) : Matches(v, p[n], end[n - 1], end[n])
    <3> TAKE n \in 1..Len(p)
    <3>1. CASE n = L + 1
      BY <1>2, <1>3, <2>1, <2>5, <3>1
    <3>2. CASE n # L + 1
      <4>1. n \in 1..L /\ 0 + n = n /\ 0 + n - 1 = n - 1
        BY <1>1, <1>2, <3>2
      <4> QED  BY <2>7, <4>1
    <3> QED  BY <3>1, <3>2
  <2> QED  BY <2>2, <2>3, <2>8 DEF Like
<1> QED  BY <1>5, <1>6 DEF p

-----------------------------------------------------------------------------
(* One condition, one sort entry, in SQL and in memory                     *)

LEMMA NotWithinNothing ==
    ASSUME NEW text \in Texts, text # <<>>
    PROVE  \A from \in 1..(Len(<<>>) + 1) : ~Within(text, <<>>, from)
<1>1. Len(text) \in Nat /\ text \in Seq(Characters)
  BY TextsAre DEF Texts
<1>2. Len(text) # 0
  BY <1>1
<1>3. Len(<<>>) = 0
  OBVIOUS
<1> SUFFICES ASSUME NEW from \in 1..(Len(<<>>) + 1), Within(text, <<>>, from) PROVE FALSE
  OBVIOUS
<1>4. from = 1
  BY <1>3
<1>5. from + Len(text) - 1 <= 0
  BY <1>3 DEF Within
<1> QED  BY <1>1, <1>2, <1>4, <1>5

(* String() tells apart the values of one column.                          *)
LEMMA SameText ==
    ASSUME NEW column, NEW v \in Values(column), NEW w \in Values(column)
    PROVE  AsText(column, v) = AsText(column, w) <=> v = w
BY NumeralAssumption, NullAssumption DEF AsText, Values

LEMMA EqualsIs ==
    ASSUME NEW column, NEW v, v = Null \/ v \in Values(column), NEW w \in Values(column)
    PROVE  LooseEquals(column, v, w) <=> v # Null /\ v = w
<1>1. w # Null
  BY NullAssumption DEF Values
<1>2. CASE v = Null
  BY <1>1, <1>2 DEF LooseEquals
<1>3. CASE v # Null
  <2>1. v \in Values(column)
    BY <1>3
  <2>2. AsText(column, v) = AsText(column, w) <=> v = w
    BY <2>1, SameText
  <2> QED  BY <1>1, <1>3, <2>2 DEF LooseEquals
<1> QED  BY <1>2, <1>3

LEMMA SameMatch ==
    ASSUME NEW row \in sqlRows, RowFits(row), NEW filter, filter.op \in Operators,
           FitsColumn(filter), PortableFilter(filter)
    PROVE  Satisfies(row, filter) <=> MatchOne(row, filter)
<1> DEFINE v == row[filter.field]
           w == filter.value
           f == filter.field
<1>1. f \in Columns /\ (v = Null \/ v \in Values(f)) /\ Null \notin Values(f)
  BY NullAssumption DEF PortableFilter, RowFits, Values
<1>2. filter.op \in {"is_null", "not_null"} \/ Null \notin Operands(filter)
  BY DEF PortableFilter
<1>3. CASE filter.op = "is_null"
  BY <1>3 DEF Satisfies, MatchOne
<1>4. CASE filter.op = "not_null"
  BY <1>4 DEF Satisfies, MatchOne
<1>5. CASE filter.op = "eq"
  <2>1. w \in Values(f)
    BY <1>1, <1>2, <1>5 DEF Operands, FitsColumn
  <2>2. Satisfies(row, filter) <=> v # Null /\ v = w
    BY <1>5 DEF Satisfies, Binop
  <2>3. MatchOne(row, filter) <=> LooseEquals(f, v, w)
    BY <1>5 DEF MatchOne
  <2> HIDE DEF v, w, f
  <2> QED  BY <1>1, <2>1, <2>2, <2>3, EqualsIs
<1>6. CASE filter.op = "ne"
  <2>1. v # Null
    BY <1>6 DEF PortableFilter
  <2>2. Satisfies(row, filter) <=> v # Null /\ v # w
    BY <1>6 DEF Satisfies, Binop
  <2>3. MatchOne(row, filter) <=> ~LooseEquals(f, v, w)
    BY <1>6 DEF MatchOne
  <2>4. w \in Values(f)
    BY <1>1, <1>2, <1>6 DEF Operands, FitsColumn
  <2> HIDE DEF v, w, f
  <2> QED  BY <1>1, <2>1, <2>2, <2>3, <2>4, EqualsIs
<1>7. CASE filter.op \in {"lt", "lte", "gt", "gte"}
  <2>1. f \notin Textual /\ w # Null /\ w \in Int
    <3>1. f \notin Textual /\ w # Null /\ w \in Values(f)
      BY <1>1, <1>2, <1>7 DEF PortableFilter, Operands, FitsColumn
    <3> QED  BY <3>1, NumeralAssumption DEF Values
  <2>2. v = Null \/ v \in Int
    BY <1>1, <2>1, NumeralAssumption DEF Values
  <2>3. Comparable(f, w) /\ (Comparable(f, v) <=> v # Null)
    BY <2>1 DEF Comparable
  <2>4. \A x, y : Less(f, x, y) <=> x < y
    BY <2>1 DEF Less
  <2>5. CASE filter.op = "lt"
    <3>1. Satisfies(row, filter) <=> v # Null /\ v < w
      BY <2>4, <2>5 DEF Satisfies, Binop
    <3>2. MatchOne(row, filter) <=> v # Null /\ v < w
      BY <2>3, <2>5 DEF MatchOne
    <3> QED  BY <3>1, <3>2
  <2>6. CASE filter.op = "lte"
    <3>1. Satisfies(row, filter) <=> v # Null /\ (v = w \/ v < w)
      BY <2>4, <2>6 DEF Satisfies, Binop
    <3>2. MatchOne(row, filter) <=> v # Null /\ v <= w
      BY <2>3, <2>6 DEF MatchOne
    <3> QED  BY <2>1, <2>2, <3>1, <3>2
  <2>7. CASE filter.op = "gt"
    <3>1. Satisfies(row, filter) <=> v # Null /\ w < v
      BY <2>4, <2>7 DEF Satisfies, Binop
    <3>2. MatchOne(row, filter) <=> v # Null /\ v > w
      BY <2>3, <2>7 DEF MatchOne
    <3> QED  BY <2>1, <2>2, <3>1, <3>2
  <2>8. CASE filter.op = "gte"
    <3>1. Satisfies(row, filter) <=> v # Null /\ (v = w \/ w < v)
      BY <2>4, <2>8 DEF Satisfies, Binop
    <3>2. MatchOne(row, filter) <=> v # Null /\ v >= w
      BY <2>3, <2>8 DEF MatchOne
    <3> QED  BY <2>1, <2>2, <3>1, <3>2
  <2> QED  BY <1>7, <2>5, <2>6, <2>7, <2>8
<1>8. CASE filter.op \in {"contains", "starts_with"}
  <2> DEFINE held == AsText(f, v)
             text == IF v = Null THEN <<>> ELSE held
  <2>1. (w # <<>> \/ v # Null) /\ w \in Texts /\ SameFolding(f, w)
    BY <1>8 DEF PortableFilter, FitsColumn
  <2>2. /\ v # Null => held \in Texts /\ held # Null
        /\ v = Null => held = Null
    BY <1>1, NumeralAssumption, NullAssumption DEF Values, AsText
  <2>3. v # Null => FoldAlike(w, held)
    <3> SUFFICES ASSUME v # Null PROVE FoldAlike(w, held)
      OBVIOUS
    <3>1. v \in Holds(f)
      BY DEF Holds
    <3>2. DOMAIN held = 1..Len(held) /\ DOMAIN w = 1..Len(w)
      BY <2>1, <2>2, TextsAre
    <3>3. \A j \in DOMAIN w : \A i \in DOMAIN held :
            Lower[held[i]] = Lower[w[j]] <=> JsLower[held[i]] = JsLower[w[j]]
      BY <2>1, <3>1 DEF SameFolding
    <3> QED  BY <3>2, <3>3 DEF FoldAlike
  <2>4. CASE filter.op = "contains"
    <3>1. Satisfies(row, filter) <=>
            held # Null /\ Like(held, <<AnyText>> \o EscapeLike(w) \o <<AnyText>>)
      BY <2>4 DEF Satisfies, Contains
    <3>2. MatchOne(row, filter) <=> \E from \in 1..(Len(text) + 1) : Within(w, text, from)
      BY <2>4 DEF MatchOne
    <3>3. CASE v = Null
      <4>1. text = <<>> /\ w # <<>> /\ held = Null
        BY <2>1, <2>2, <3>3
      <4> HIDE DEF text, held, w
      <4> QED  BY <2>1, <3>1, <3>2, <4>1, NotWithinNothing
    <3>4. CASE v # Null
      <4>1. text = held /\ held \in Texts /\ held # Null /\ FoldAlike(w, held)
        BY <2>2, <2>3, <3>4
      <4> HIDE DEF text, held, w
      <4> QED  BY <2>1, <3>1, <3>2, <4>1, ContainsIs
    <3> QED  BY <3>3, <3>4
  <2>5. CASE filter.op = "starts_with"
    <3>1. Satisfies(row, filter) <=> held # Null /\ Like(held, EscapeLike(w) \o <<AnyText>>)
      BY <2>5 DEF Satisfies, StartsWith
    <3>2. MatchOne(row, filter) <=> Within(w, text, 1)
      BY <2>5 DEF MatchOne
    <3>3. CASE v = Null
      <4>1. text = <<>> /\ w # <<>> /\ held = Null /\ 1 \in 1..(Len(<<>>) + 1)
        BY <2>1, <2>2, <3>3
      <4> HIDE DEF text, held, w
      <4> QED  BY <2>1, <3>1, <3>2, <4>1, NotWithinNothing
    <3>4. CASE v # Null
      <4>1. text = held /\ held \in Texts /\ held # Null /\ FoldAlike(w, held)
        BY <2>2, <2>3, <3>4
      <4> HIDE DEF text, held, w
      <4> QED  BY <2>1, <3>1, <3>2, <4>1, StartsWithIs
    <3> QED  BY <3>3, <3>4
  <2> QED  BY <1>8, <2>4, <2>5
<1>9. CASE filter.op = "in"
  <2>1. \A n \in DOMAIN w : w[n] \in Values(f)
    BY <1>1, <1>2, <1>9 DEF Operands, FitsColumn
  <2>2. Satisfies(row, filter) <=> v # Null /\ \E n \in DOMAIN w : v = w[n]
    BY <1>9 DEF Satisfies
  <2>3. MatchOne(row, filter) <=> \E n \in DOMAIN w : LooseEquals(f, v, w[n])
    BY <1>9 DEF MatchOne
  <2> HIDE DEF v, w, f
  <2>4. \A n \in DOMAIN w : LooseEquals(f, v, w[n]) <=> v # Null /\ v = w[n]
    BY <1>1, <2>1, EqualsIs
  <2> QED  BY <2>2, <2>3, <2>4
<1> QED  BY <1>3, <1>4, <1>5, <1>6, <1>7, <1>8, <1>9 DEF Operators

LEMMA SamePrecedence ==
    ASSUME NEW sort, sort.field \in Textual => SameCollation(sort.field),
           NEW a \in sqlRows, NEW b \in sqlRows
    PROVE  SortsBefore(sort, a, b) <=> Precedes(sort, a, b)
<1> DEFINE f == sort.field
           v == a[f]
           w == b[f]
<1>1. ASSUME v # Null, w # Null
      PROVE  (Less(f, v, w) <=> CompareLess(f, v, w)) /\ (Less(f, w, v) <=> CompareLess(f, w, v))
  <2>1. CASE f \in Textual
    <3>1. v \in Holds(f) /\ w \in Holds(f)
      BY <1>1 DEF Holds
    <3> QED  BY <2>1, <3>1 DEF SameCollation
  <2>2. CASE f \notin Textual
    BY <2>2 DEF Less, CompareLess
  <2> QED  BY <2>1, <2>2
<1> QED  BY <1>1 DEF SortsBefore, Precedes

-----------------------------------------------------------------------------
(* The two lists                                                           *)

(* The n-th element of q is that of rows at place at[n], in their order. *)
PickedAt(at, q, K, rows, places) ==
    /\ at \in [1..K -> places] /\ q = [n \in 1..K |-> rows[at[n]]]
    /\ \A i \in places : \E n \in 1..K : at[n] = i
    /\ \A m, n \in 1..K : m < n => at[m] < at[n]

LEMMA PickedIs ==
    ASSUME NEW N \in Nat, NEW places \in SUBSET (1..N), NEW rows
    PROVE  /\ Cardinality(places) \in 0..N
           /\ \E at : PickedAt(at, Picked(rows, places), Cardinality(places), rows, places)
<1> DEFINE K == Cardinality(places)
           order == {p \in places \X places : p[1] < p[2]}
           at == Enumeration(places, order)
<1>1. IsFiniteSet(places) /\ K <= N /\ K \in Nat
  <2>1. IsFiniteSet(1..N) /\ Cardinality(1..N) = N
    BY FS_Interval
  <2> QED  BY <2>1, FS_Subset, FS_CardinalityType
<1>2. \A i, j \in places : <<i, j>> \in order <=> i < j
  OBVIOUS
<1>3. \A i \in places : i \in Nat
  OBVIOUS
<1>4. Picked(rows, places) = [n \in 1..K |-> rows[at[n]]]
  BY DEF Picked
<1> HIDE DEF order
<1>5. StrictOrder(places, order)
  BY <1>2, <1>3 DEF StrictOrder
<1>6. /\ at \in [1..K -> places]
      /\ \A i \in places : \E n \in 1..K : at[n] = i
      /\ \A m, n \in 1..K : m < n => <<at[m], at[n]>> \in order
  BY <1>1, <1>5, EnumerationIs
<1> HIDE DEF at
<1>7. \A m, n \in 1..K : m < n => at[m] < at[n]
  BY <1>2, <1>6
<1>8. PickedAt(at, Picked(rows, places), K, rows, places)
  BY <1>4, <1>6, <1>7 DEF PickedAt
<1> QED  BY <1>1, <1>8

(* The array holds the rows of the table, in ascending order of their ids. *)
Arrayed(array, rows) ==
    /\ Len(array) \in Nat /\ array \in [1..Len(array) -> rows]
    /\ \A row \in rows : \E i \in 1..Len(array) : array[i] = row
    /\ \A i, j \in 1..Len(array) : i < j => array[i].id < array[j].id

(* Picking rows out of the array is picking them out of the table.         *)
LEMMA PickedArrayed ==
    ASSUME NEW rows, Table(rows), NEW array, Arrayed(array, rows),
           NEW picks \in SUBSET rows,
           NEW places, places = {i \in 1..Len(array) : array[i] \in picks},
           NEW some, some = Picked(array, places)
    PROVE  /\ Arrayed(some, picks) /\ Len(some) <= Len(array)
           /\ IsFiniteSet(picks) /\ Cardinality(picks) = Len(some)
<1> DEFINE N == Len(array)
           K == Cardinality(places)
<1>1. /\ N \in Nat /\ places \in SUBSET (1..N)
      /\ \A row \in rows : \E i \in 1..N : array[i] = row
      /\ \A i, j \in 1..N : i < j => array[i].id < array[j].id
  BY DEF Arrayed
<1> HIDE DEF N, K
<1>2. K \in Nat /\ K <= N
  BY <1>1, PickedIs DEF K
<1>3. \E at : PickedAt(at, some, K, array, places)
  BY <1>1, PickedIs DEF K
<1> PICK at : PickedAt(at, some, K, array, places)
  BY <1>3
<1>4. Len(some) = K
  BY <1>2 DEF PickedAt
<1>5. some \in [1..K -> picks]
  <2>1. \A n \in 1..K : array[at[n]] \in picks
    BY DEF PickedAt
  <2> QED  BY <2>1 DEF PickedAt
<1>6. \A row \in picks : \E n \in 1..K : some[n] = row
  <2> TAKE row \in picks
  <2>1. PICK i \in 1..N : array[i] = row
    BY <1>1
  <2>2. i \in places
    BY <2>1 DEF N
  <2>3. PICK n \in 1..K : at[n] = i
    BY <2>2 DEF PickedAt
  <2> QED  BY <2>1, <2>3 DEF PickedAt
<1>7. \A m, n \in 1..K : m < n => some[m].id < some[n].id
  <2> SUFFICES ASSUME NEW m \in 1..K, NEW n \in 1..K, m < n PROVE some[m].id < some[n].id
    OBVIOUS
  <2>1. at[m] \in 1..N /\ at[n] \in 1..N /\ at[m] < at[n]
    BY <1>1 DEF PickedAt
  <2> QED  BY <1>1, <2>1 DEF PickedAt
<1>8. Arrayed(some, picks)
  BY <1>2, <1>4, <1>5, <1>6, <1>7 DEF Arrayed
<1> DEFINE byId == {p \in picks \X picks : p[1].id < p[2].id}
<1>9. StrictOrder(picks, byId)
  <2>1. \A a, b \in picks : <<a, b>> \in byId <=> a.id < b.id
    OBVIOUS
  <2>2. \A a, b \in picks : a.id \in Nat /\ (a.id = b.id => a = b)
    BY DEF Table, RowFits
  <2> HIDE DEF byId
  <2> QED  BY <2>1, <2>2 DEF StrictOrder
<1>10. \A m, n \in 1..K : m < n => <<some[m], some[n]>> \in byId
  BY <1>5, <1>7
<1> HIDE DEF byId
<1>11. IsFiniteSet(picks) /\ Cardinality(picks) = K
  <2>1. RunsThrough(some, K, picks, byId)
    BY <1>5, <1>6, <1>10 DEF RunsThrough
  <2> QED  BY <1>2, <1>9, <2>1, EnumerationOnly
<1> QED  BY <1>2, <1>4, <1>8, <1>11 DEF N

(* A stable sort of an array in the order of the ids is the ORDER BY that  *)
(* ends with the id.                                                       *)
LEMMA SortedArrayed ==
    ASSUME NEW rows \in SUBSET sqlRows, Table(rows), NEW array, Arrayed(array, rows),
           NEW sorts, DOMAIN sorts \subseteq Nat,
           \A n \in DOMAIN sorts : sorts[n].field \in Textual => SameCollation(sorts[n].field)
    PROVE  ApplySort(array, sorts) = InOrder(rows, sorts) /\ Len(ApplySort(array, sorts)) = Len(array)
<1> DEFINE N == Len(array)
           all == 1..N
           first == {p \in all \X all : SortedFirst(array, sorts, p[1], p[2])}
           at == Enumeration(all, first)
           order == {p \in rows \X rows : Before(sorts, p[1], p[2])}
           sorted == [n \in all |-> array[at[n]]]
<1>1. /\ N \in Nat /\ array \in [all -> rows]
      /\ \A row \in rows : \E i \in all : array[i] = row
      /\ \A i, j \in all : i < j => array[i].id < array[j].id
  BY DEF Arrayed
<1>2. ApplySort(array, sorts) = sorted
  <2>1. DOMAIN array = all
    BY <1>1
  <2> QED  BY <2>1 DEF ApplySort
<1>3. InOrder(rows, sorts) = Enumeration(rows, order)
  BY DEF InOrder
<1>4. \A i, j \in all : (i = j <=> array[i] = array[j]) /\ (i < j <=> array[i].id < array[j].id)
  <2> SUFFICES ASSUME NEW i \in all, NEW j \in all
               PROVE  (i = j <=> array[i] = array[j]) /\ (i < j <=> array[i].id < array[j].id)
    OBVIOUS
  <2>1. array[i].id \in Nat /\ array[j].id \in Nat
    BY <1>1 DEF Table, RowFits
  <2>2. (i < j => array[i].id < array[j].id) /\ (j < i => array[j].id < array[i].id)
    BY <1>1
  <2> QED  BY <1>1, <2>1, <2>2
<1>5. \A i, j \in all : SortedFirst(array, sorts, i, j) <=> Before(sorts, array[i], array[j])
  <2> SUFFICES ASSUME NEW i \in all, NEW j \in all
               PROVE  SortedFirst(array, sorts, i, j) <=> Before(sorts, array[i], array[j])
    OBVIOUS
  <2> DEFINE R == Resolved(sorts)
             Tied(n) == array[i][sorts[n].field] = array[j][sorts[n].field]
             Even(n) == /\ ~SortsBefore(sorts[n], array[i], array[j])
                        /\ ~SortsBefore(sorts[n], array[j], array[i])
  <2>1. array[i] \in sqlRows /\ array[j] \in sqlRows /\ RowFits(array[i]) /\ RowFits(array[j])
    BY <1>1 DEF Table
  <2>2. \A n \in R :
          /\ SortsBefore(sorts[n], array[i], array[j]) <=> Precedes(sorts[n], array[i], array[j])
          /\ SortsBefore(sorts[n], array[j], array[i]) <=> Precedes(sorts[n], array[j], array[i])
    BY <2>1, SamePrecedence DEF Resolved
  <2>6. \A n \in R : Even(n) <=> Tied(n)
    <3> TAKE n \in R
    <3>1. sorts[n].field \in Columns
      BY DEF Resolved
    <3>2. /\ Precedes(sorts[n], array[i], array[j]) => ~Tied(n)
          /\ Precedes(sorts[n], array[j], array[i]) => ~Tied(n)
          /\ ~Tied(n) => \/ Precedes(sorts[n], array[i], array[j])
                         \/ Precedes(sorts[n], array[j], array[i])
      BY <2>1, <3>1, PrecedesIs
    <3> QED  BY <2>2, <3>2
  <2>3. i < j <=> array[i].id < array[j].id
    BY <1>4
  <2>4. SortedFirst(array, sorts, i, j) <=>
          \/ \E n \in R : SortsBefore(sorts[n], array[i], array[j]) /\ \A m \in R : m < n => Even(m)
          \/ i < j /\ \A n \in R : Even(n)
    BY DEF SortedFirst, Resolved
  <2>5. Before(sorts, array[i], array[j]) <=>
          \/ \E n \in R : Precedes(sorts[n], array[i], array[j]) /\ \A m \in R : m < n => Tied(m)
          \/ array[i].id < array[j].id /\ \A n \in R : Tied(n)
    BY DEF Before
  <2> HIDE DEF R, Tied, Even, all
  <2> QED  BY <2>2, <2>3, <2>4, <2>5, <2>6
<1>6. StrictOrder(rows, order)
  BY BeforeOrders
<1>7. \A i, j \in all : <<i, j>> \in first <=> <<array[i], array[j]>> \in order
  BY <1>1, <1>5
<1> HIDE DEF first, order
<1>8. StrictOrder(all, first)
  <2>1. \A i \in all : array[i] \in rows
    BY <1>1
  <2> HIDE DEF all
  <2>2. \A i \in all : <<i, i>> \notin first
    BY <1>6, <1>7, <2>1 DEF StrictOrder
  <2>3. \A i, j, k \in all : <<i, j>> \in first /\ <<j, k>> \in first => <<i, k>> \in first
    BY <1>6, <1>7, <2>1 DEF StrictOrder
  <2>4. \A i, j \in all : i = j \/ <<i, j>> \in first \/ <<j, i>> \in first
    BY <1>4, <1>6, <1>7, <2>1 DEF StrictOrder
  <2> QED  BY <2>2, <2>3, <2>4 DEF StrictOrder
<1>9. /\ at \in [all -> all]
      /\ \A i \in all : \E n \in all : at[n] = i
      /\ \A m, n \in all : m < n => <<at[m], at[n]>> \in first
  <2>1. IsFiniteSet(all) /\ N = Cardinality(all)
    BY <1>1, FS_Interval
  <2> QED  BY <1>8, <2>1, EnumerationIs
<1> HIDE DEF at
<1>10. sorted \in [1..N -> rows]
  BY <1>1, <1>9
<1>11. \A row \in rows : \E n \in 1..N : sorted[n] = row
  <2> TAKE row \in rows
  <2>1. PICK i \in all : array[i] = row
    BY <1>1
  <2>2. PICK n \in all : at[n] = i
    BY <1>9
  <2> QED  BY <2>1, <2>2
<1>12. \A m, n \in 1..N : m < n => <<sorted[m], sorted[n]>> \in order
  <2> SUFFICES ASSUME NEW m \in all, NEW n \in all, m < n PROVE <<array[at[m]], array[at[n]]>> \in order
    OBVIOUS
  <2>1. at[m] \in all /\ at[n] \in all /\ <<at[m], at[n]>> \in first
    BY <1>9
  <2> QED  BY <1>7, <2>1
<1>13. Len(sorted) = N
  BY <1>1
<1> HIDE DEF sorted, N
<1>14. Enumeration(rows, order) = sorted
  <2>1. RunsThrough(sorted, N, rows, order)
    BY <1>10, <1>11, <1>12 DEF RunsThrough
  <2> QED  BY <1>1, <1>6, <2>1, EnumerationOnly
<1> QED  BY <1>2, <1>3, <1>13, <1>14 DEF N

(* Reading limit and offset as signed changes nothing for an offset below  *)
(* the sign bit: a limit at or above it stands for no limit.               *)
LEMMA SamePage ==
    ASSUME NEW listed, Len(listed) \in 0..MaxRows, NEW paging,
           \/ paging = NoPage
           \/ paging.offset \in Nat /\ paging.limit \in 0..(2 * SignBit - 1),
           paging.offset < SignBit
    PROVE  Page(listed, paging) =
             IF paging = NoPage THEN listed ELSE Slice(listed, paging.offset, paging.limit)
<1>1. CASE paging = NoPage
  BY <1>1 DEF Page
<1>2. CASE paging # NoPage
  <2> DEFINE offset == paging.offset
             limit == paging.limit
  <2>1. offset \in Nat /\ limit \in 0..(2 * SignBit - 1) /\ offset < SignBit
    BY <1>2
  <2>2. SignBit \in Nat \ {0} /\ MaxRows \in 0..(SignBit - 1)
    BY SignBitAssumption, BoundAssumption
  <2>3. Page(listed, paging) = Window(listed, AsSigned(offset), AsSigned(limit))
    BY <1>2 DEF Page
  <2> HIDE DEF offset, limit
  <2>4. AsSigned(offset) = offset /\ ~(offset < 0)
    BY <2>1, <2>2 DEF AsSigned
  <2> DEFINE L == Len(listed)
             signed == AsSigned(limit)
             there == IF signed < 0 \/ offset + signed > L THEN L ELSE offset + signed
             here == IF offset + limit > L THEN L ELSE offset + limit
  <2>5. L \in Nat /\ L < SignBit
    BY <2>2
  <2>6. Window(listed, AsSigned(offset), signed) = SubSeq(listed, offset + 1, there)
    BY <2>4 DEF Window
  <2>7. Slice(listed, offset, limit) = SubSeq(listed, offset + 1, here)
    BY DEF Slice
  <2>8. there = here
    <3>1. CASE limit >= SignBit
      <4>1. signed = limit - 2 * SignBit
        BY <3>1 DEF AsSigned
      <4>2. signed < 0 /\ offset + limit > L
        BY <2>1, <2>2, <2>5, <3>1, <4>1
      <4> QED  BY <4>2
    <3>2. CASE ~(limit >= SignBit)
      <4>1. signed = limit /\ ~(limit < 0)
        BY <2>1, <2>2, <3>2 DEF AsSigned
      <4> QED  BY <4>1
    <3> QED  BY <3>1, <3>2
  <2> HIDE DEF there, here
  <2>9. Page(listed, paging) = Slice(listed, offset, limit)
    BY <2>3, <2>6, <2>7, <2>8
  <2> QED  BY <1>2, <2>9 DEF offset, limit
<1> QED  BY <1>1, <1>2

-----------------------------------------------------------------------------
(* The inductive invariant                                                 *)

InArray(array) == {array[i] : i \in 1..Len(array)}

ListsInv == ProvidersTypeOK /\ (~reused => sqlRows = InArray(memRows))

LEMMA RowIs ==
    ASSUME NEW id \in 1..MaxId, NEW content \in Contents
    PROVE  Row(id, content).id = id /\ RowFits(Row(id, content))
<1> DEFINE row == Row(id, content)
<1>1. row.id = id
  BY DEF Row
<1>2. ASSUME NEW column \in Columns PROVE row[column] = Null \/ row[column] \in Values(column)
  <2>1. CASE column = "id"
    BY <2>1, BoundAssumption, ColumnsAssumption DEF Row, Values
  <2>2. CASE column # "id"
    <3>1. row[column] = content[column]
      BY <2>2 DEF Row
    <3> QED  BY <3>1, ContentsAssumption
  <2> QED  BY <2>1, <2>2
<1> HIDE DEF row
<1>3. RowFits(row)
  BY <1>1, <1>2, BoundAssumption DEF RowFits
<1> QED  BY <1>1, <1>3 DEF row

LEMMA AnyRowIs == \A row \in AnyRow : RowFits(row) /\ row.id \in 1..MaxId
<1> SUFFICES ASSUME NEW id \in 1..MaxId, NEW content \in Contents
             PROVE  RowFits(Row(id, content)) /\ Row(id, content).id \in 1..MaxId
  BY DEF AnyRow
<1> QED  BY RowIs

LEMMA InArrayIs ==
    ASSUME NEW array, array \in Seq(AnyRow),
           \A i, j \in DOMAIN array : i < j => array[i].id < array[j].id
    PROVE  Table(InArray(array)) /\ Arrayed(array, InArray(array))
<1> DEFINE N == Len(array)
<1>1. N \in Nat /\ DOMAIN array = 1..N /\ array \in [1..N -> AnyRow]
  BY SMT
<1>2. \A i \in 1..N : RowFits(array[i]) /\ array[i].id \in Nat
  BY <1>1, AnyRowIs DEF RowFits
<1>3. \A i, j \in 1..N : array[i].id = array[j].id => array[i] = array[j]
  <2> SUFFICES ASSUME NEW i \in 1..N, NEW j \in 1..N, array[i].id = array[j].id, i # j PROVE FALSE
    OBVIOUS
  <2>1. i < j \/ j < i
    BY <1>1
  <2> QED  BY <1>1, <1>2, <2>1
<1> HIDE DEF N
<1>4. InArray(array) = {array[i] : i \in 1..N}
  BY DEF InArray, N
<1>5. Table(InArray(array))
  BY <1>2, <1>3, <1>4 DEF Table
<1>6. array \in [1..N -> InArray(array)]
  BY <1>1, <1>4
<1>7. \A i, j \in 1..N : i < j => array[i].id < array[j].id
  BY <1>1
<1> QED  BY <1>1, <1>4, <1>5, <1>6, <1>7 DEF Arrayed, N

LEMMA MemArrayed ==
    ASSUME ProvidersTypeOK
    PROVE  /\ Len(memRows) \in Nat /\ DOMAIN memRows = 1..Len(memRows)
           /\ Table(InArray(memRows)) /\ Arrayed(memRows, InArray(memRows))
<1>1. memRows \in Seq(AnyRow) /\ \A i, j \in DOMAIN memRows : i < j => memRows[i].id < memRows[j].id
  BY DEF ProvidersTypeOK
<1>2. Len(memRows) \in Nat /\ DOMAIN memRows = 1..Len(memRows)
  BY <1>1
<1> QED  BY <1>1, <1>2, InArrayIs

-----------------------------------------------------------------------------
(* The writes                                                              *)

LEMMA HighestIs ==
    ASSUME ProvidersTypeOK
    PROVE  /\ HighestId(memRows) \in 0..sqlUsed
           /\ \A i \in DOMAIN memRows : memRows[i].id <= HighestId(memRows)
<1> DEFINE L == Len(memRows)
           Fits(n) == /\ n = 0 \/ \E i \in DOMAIN memRows : memRows[i].id = n
                      /\ \A i \in DOMAIN memRows : memRows[i].id <= n
<1>1. L \in Nat /\ DOMAIN memRows = 1..L
  BY MemArrayed
<1>2. /\ \A i \in 1..L : memRows[i].id \in 1..MaxId /\ memRows[i].id <= sqlUsed
      /\ \A i, j \in 1..L : i < j => memRows[i].id < memRows[j].id
      /\ sqlUsed \in 0..MaxId /\ MaxId \in Nat
  <2>1. \A i \in 1..L : memRows[i] \in AnyRow
    BY <1>1 DEF ProvidersTypeOK
  <2> QED  BY <1>1, <2>1, AnyRowIs, BoundAssumption DEF ProvidersTypeOK
<1> HIDE DEF L
<1>3. \E n \in 0..MaxId : Fits(n)
  <2>1. CASE L = 0
    BY <1>1, <1>2, <2>1
  <2>2. CASE L # 0
    <3>1. L \in 1..L /\ \A i \in 1..L : i = L \/ i < L
      BY <1>1, <2>2
    <3>2. memRows[L].id \in 0..MaxId
      BY <1>2, <3>1
    <3>3. \A i \in 1..L : memRows[i].id <= memRows[L].id
      <4> TAKE i \in 1..L
      <4>1. memRows[i].id \in Nat /\ memRows[L].id \in Nat
        BY <1>2, <3>1
      <4>2. i = L \/ memRows[i].id < memRows[L].id
        BY <1>2, <3>1
      <4> QED  BY <4>1, <4>2
    <3>4. Fits(memRows[L].id)
      BY <1>1, <3>1, <3>3
    <3> QED  BY <3>2, <3>4
  <2> QED  BY <2>1, <2>2
<1>4. HighestId(memRows) = CHOOSE n \in 0..MaxId : Fits(n)
  BY DEF HighestId
<1>5. HighestId(memRows) \in 0..MaxId /\ Fits(HighestId(memRows))
  <2> HIDE DEF Fits
  <2> QED  BY <1>3, <1>4
<1>6. HighestId(memRows) <= sqlUsed
  BY <1>1, <1>2, <1>5
<1> QED  BY <1>2, <1>5, <1>6

LEMMA ProvidersInitInv == ProvidersInit => ListsInv
<1> SUFFICES ASSUME ProvidersInit PROVE ListsInv
  OBVIOUS
<1>1. sqlRows = {} /\ sqlUsed = 0 /\ memRows = <<>> /\ reused = FALSE
  BY DEF ProvidersInit
<1>2. Len(memRows) = 0 /\ DOMAIN memRows = {} /\ memRows \in Seq(AnyRow)
  BY <1>1
<1>3. ProvidersTypeOK
  <2>1. 0 \in 0..MaxId /\ 0 <= MaxRows
    BY BoundAssumption, SignBitAssumption
  <2> QED  BY <1>1, <1>2, <2>1 DEF ProvidersTypeOK
<1>4. InArray(memRows) = {}
  BY <1>2 DEF InArray
<1> QED  BY <1>1, <1>3, <1>4 DEF ListsInv

LEMMA CreateInv ==
    ASSUME ListsInv, NEW content \in Contents, Create(content)
    PROVE  ListsInv'
<1> DEFINE L == Len(memRows)
           h == HighestId(memRows)
           inMem == Row(h + 1, content)
           inSql == Row(sqlUsed + 1, content)
<1>1. /\ L \in Nat /\ DOMAIN memRows = 1..L /\ memRows \in Seq(AnyRow) /\ ProvidersTypeOK
      /\ sqlRows \subseteq AnyRow /\ sqlUsed \in 0..MaxId /\ MaxId \in Nat /\ MaxRows \in Nat
      /\ \A row \in sqlRows : row.id <= sqlUsed
      /\ \A i, j \in 1..L : i < j => memRows[i].id < memRows[j].id
  <2>1. ProvidersTypeOK
    BY DEF ListsInv
  <2>2. MaxId \in Nat /\ MaxRows \in Nat
    BY BoundAssumption, SignBitAssumption
  <2> QED  BY <2>1, <2>2, MemArrayed DEF ProvidersTypeOK
<1>2. /\ L < MaxRows /\ sqlUsed < MaxId
      /\ sqlRows' = sqlRows \cup {inSql} /\ sqlUsed' = sqlUsed + 1
      /\ memRows' = Append(memRows, inMem) /\ reused' = (reused \/ h < sqlUsed)
  BY DEF Create
<1>3. h \in 0..sqlUsed /\ \A i \in 1..L : memRows[i].id <= h
  BY <1>1, HighestIs
<1>4. /\ inSql \in AnyRow /\ inSql.id = sqlUsed + 1
      /\ inMem \in AnyRow /\ inMem.id = h + 1
  <2>1. sqlUsed + 1 \in 1..MaxId /\ h + 1 \in 1..MaxId /\ sqlUsed + 1 \in Nat /\ h + 1 \in Nat
    BY <1>1, <1>2, <1>3
  <2> QED  BY <2>1, RowIs DEF AnyRow
<1> HIDE DEF L, h, inMem, inSql
<1>5. /\ memRows' \in Seq(AnyRow) /\ Len(memRows') = L + 1 /\ DOMAIN memRows' = 1..(L + 1)
      /\ memRows'[L + 1] = inMem /\ \A i \in 1..L : memRows'[i] = memRows[i]
  BY <1>1, <1>2, <1>4 DEF L
<1>6. \A i \in 1..L : memRows[i].id \in Nat
  <2>1. \A i \in 1..L : memRows[i] \in AnyRow
    BY <1>1 DEF L
  <2> QED  BY <1>1, <2>1, AnyRowIs
<1>7. \A i \in 1..(L + 1) : i \in 1..L \/ i = L + 1
  BY <1>1
<1>8. \A i \in 1..(L + 1) : memRows'[i].id <= sqlUsed + 1
  <2> TAKE i \in 1..(L + 1)
  <2>1. CASE i \in 1..L
    BY <1>1, <1>3, <1>5, <1>6, <2>1
  <2>2. CASE i = L + 1
    BY <1>1, <1>3, <1>4, <1>5, <2>2
  <2> QED  BY <1>7, <2>1, <2>2
<1>9. \A i, j \in 1..(L + 1) : i < j => memRows'[i].id < memRows'[j].id
  <2> SUFFICES ASSUME NEW i \in 1..(L + 1), NEW j \in 1..(L + 1), i < j
               PROVE  memRows'[i].id < memRows'[j].id
    OBVIOUS
  <2>1. i \in 1..L
    BY <1>1
  <2>2. CASE j \in 1..L
    BY <1>1, <1>5, <2>1, <2>2
  <2>3. CASE j = L + 1
    BY <1>3, <1>4, <1>5, <1>6, <2>1, <2>3
  <2> QED  BY <1>7, <2>2, <2>3
<1>10. \A row \in sqlRows' : row \in AnyRow /\ row.id <= sqlUsed + 1
  <2> SUFFICES ASSUME NEW row \in sqlRows' PROVE row \in AnyRow /\ row.id <= sqlUsed + 1
    OBVIOUS
  <2>1. CASE row \in sqlRows
    <3>1. row \in AnyRow /\ row.id <= sqlUsed
      BY <1>1, <2>1
    <3>2. row.id \in Nat
      BY <1>1, <3>1, AnyRowIs
    <3> QED  BY <1>1, <3>1, <3>2
  <2>2. CASE row = inSql
    BY <1>1, <1>4, <2>2
  <2> QED  BY <1>2, <2>1, <2>2
<1>11. ProvidersTypeOK'
  <2>1. reused \in BOOLEAN
    BY <1>1 DEF ProvidersTypeOK
  <2>2. reused' \in BOOLEAN /\ sqlUsed' \in 0..MaxId /\ sqlRows' \subseteq AnyRow
    BY <1>1, <1>2, <1>10, <2>1
  <2>3. memRows' \in Seq(AnyRow) /\ Len(memRows') <= MaxRows
    BY <1>1, <1>2, <1>5
  <2>4. \A i \in DOMAIN memRows' :
          /\ memRows'[i].id <= sqlUsed'
          /\ \A j \in DOMAIN memRows' : i < j => memRows'[i].id < memRows'[j].id
    BY <1>2, <1>5, <1>8, <1>9
  <2>5. \A row \in sqlRows' : row.id <= sqlUsed'
    BY <1>2, <1>10
  <2> QED  BY <2>2, <2>3, <2>4, <2>5 DEF ProvidersTypeOK
<1>12. ASSUME ~reused' PROVE sqlRows' = InArray(memRows')
  <2>1. ~reused /\ ~(h < sqlUsed)
    BY <1>2, <1>12
  <2>2. h = sqlUsed
    BY <1>1, <1>3, <2>1
  <2>3. inMem = inSql
    BY <2>2 DEF inMem, inSql
  <2>4. sqlRows = {memRows[i] : i \in 1..L}
    BY <2>1 DEF ListsInv, InArray, L
  <2>5. InArray(memRows') = {memRows'[i] : i \in 1..(L + 1)}
    BY <1>5 DEF InArray
  <2>6. \A i \in 1..L : i \in 1..(L + 1)
    BY <1>1
  <2>7. L + 1 \in 1..(L + 1)
    BY <1>1
  <2> QED  BY <1>2, <1>5, <1>7, <2>3, <2>4, <2>5, <2>6, <2>7
<1> QED  BY <1>11, <1>12 DEF ListsInv

LEMMA UpdateInv ==
    ASSUME ListsInv, NEW id \in 1..MaxId, NEW content \in Contents, Update(id, content)
    PROVE  ListsInv'
<1> DEFINE L == Len(memRows)
           new == Row(id, content)
           Now(row) == IF row.id = id THEN new ELSE row
<1>1. /\ L \in Nat /\ DOMAIN memRows = 1..L /\ memRows \in Seq(AnyRow) /\ ProvidersTypeOK
  BY MemArrayed DEF ListsInv, ProvidersTypeOK
<1>2. new \in AnyRow /\ new.id = id
  BY RowIs DEF AnyRow
<1> HIDE DEF new, L
<1>3. /\ sqlRows' = {Now(row) : row \in sqlRows}
      /\ memRows' = [i \in 1..L |-> Now(memRows[i])]
      /\ sqlUsed' = sqlUsed /\ reused' = reused
  BY <1>1 DEF Update, new
<1>4. \A row : Now(row).id = row.id
  BY <1>2
<1>5. \A row \in AnyRow : Now(row) \in AnyRow
  BY <1>2
<1> HIDE DEF Now
<1>6. \A i \in 1..L : memRows[i] \in AnyRow
  BY <1>1 DEF L
<1>7. /\ memRows' \in Seq(AnyRow) /\ Len(memRows') = L /\ DOMAIN memRows' = 1..L
      /\ \A i \in 1..L : memRows'[i] = Now(memRows[i]) /\ memRows'[i].id = memRows[i].id
  <2>1. memRows' \in [1..L -> AnyRow]
    BY <1>3, <1>5, <1>6
  <2>2. memRows' \in Seq(AnyRow) /\ Len(memRows') = L /\ DOMAIN memRows' = 1..L
    BY <1>1, <1>3, <2>1
  <2>3. \A i \in 1..L : memRows'[i] = Now(memRows[i])
    BY <1>3
  <2> QED  BY <1>4, <2>2, <2>3
<1>8. ProvidersTypeOK'
  <2>1. reused' \in BOOLEAN /\ sqlUsed' \in 0..MaxId
    BY <1>1, <1>3 DEF ProvidersTypeOK
  <2>2. sqlRows' \subseteq AnyRow /\ \A row \in sqlRows' : row.id <= sqlUsed'
    BY <1>1, <1>3, <1>4, <1>5 DEF ProvidersTypeOK
  <2>3. Len(memRows') <= MaxRows
    BY <1>1, <1>7 DEF ProvidersTypeOK, L
  <2>4. \A i \in DOMAIN memRows' :
          /\ memRows'[i].id <= sqlUsed'
          /\ \A j \in DOMAIN memRows' : i < j => memRows'[i].id < memRows'[j].id
    BY <1>1, <1>3, <1>7 DEF ProvidersTypeOK
  <2> QED  BY <1>7, <2>1, <2>2, <2>3, <2>4 DEF ProvidersTypeOK
<1>9. ASSUME ~reused' PROVE sqlRows' = InArray(memRows')
  <2>1. sqlRows = {memRows[i] : i \in 1..L}
    BY <1>3, <1>9 DEF ListsInv, InArray, L
  <2>2. InArray(memRows') = {memRows'[i] : i \in 1..L}
    BY <1>7 DEF InArray
  <2> QED  BY <1>3, <1>7, <2>1, <2>2
<1> QED  BY <1>8, <1>9 DEF ListsInv

LEMMA DeleteInv ==
    ASSUME ListsInv, NEW id \in 1..MaxId, DeleteOne(id)
    PROVE  ListsInv'
<1> DEFINE L == Len(memRows)
           rows == InArray(memRows)
           left == {row \in rows : row.id # id}
           places == {i \in 1..L : memRows[i].id # id}
           array == Picked(memRows, places)
<1>1. /\ L \in Nat /\ DOMAIN memRows = 1..L /\ memRows \in Seq(AnyRow) /\ ProvidersTypeOK
      /\ Table(rows) /\ Arrayed(memRows, rows)
  BY MemArrayed DEF ListsInv, ProvidersTypeOK
<1>2. /\ sqlRows' = {row \in sqlRows : row.id # id} /\ memRows' = array
      /\ sqlUsed' = sqlUsed /\ reused' = reused
  BY <1>1 DEF DeleteOne
<1>3. places = {i \in 1..Len(memRows) : memRows[i] \in left}
  BY DEF InArray
<1>4. left \in SUBSET rows
  OBVIOUS
<1> HIDE DEF places, array, left, rows
<1>5. Arrayed(array, left) /\ Len(array) <= L
  <2>1. array = Picked(memRows, places)
    BY DEF array
  <2> QED  BY <1>1, <1>3, <1>4, <2>1, PickedArrayed
<1>6. /\ Len(array) \in Nat /\ array \in [1..Len(array) -> left]
      /\ \A row \in left : \E i \in 1..Len(array) : array[i] = row
      /\ \A i, j \in 1..Len(array) : i < j => array[i].id < array[j].id
  BY <1>5 DEF Arrayed
<1>7. \A row \in left : row \in AnyRow /\ row.id <= sqlUsed
  <2>1. \A i \in 1..L : memRows[i] \in AnyRow /\ memRows[i].id <= sqlUsed
    BY <1>1 DEF ProvidersTypeOK
  <2> QED  BY <2>1 DEF left, rows, InArray
<1>8. ProvidersTypeOK'
  <2>1. reused' \in BOOLEAN /\ sqlUsed' \in 0..MaxId
    BY <1>1, <1>2 DEF ProvidersTypeOK
  <2>2. sqlRows' \subseteq AnyRow /\ \A row \in sqlRows' : row.id <= sqlUsed'
    BY <1>1, <1>2 DEF ProvidersTypeOK
  <2>3. array \in Seq(AnyRow) /\ DOMAIN array = 1..Len(array)
    <3>1. array \in [1..Len(array) -> AnyRow]
      BY <1>6, <1>7
    <3> QED  BY <1>6, <3>1
  <2>4. Len(array) <= MaxRows
    <3>1. L <= MaxRows /\ MaxRows \in Nat
      BY <1>1, BoundAssumption, SignBitAssumption DEF ProvidersTypeOK
    <3> QED  BY <1>1, <1>5, <1>6, <3>1
  <2>5. \A i \in DOMAIN array :
          /\ array[i].id <= sqlUsed
          /\ \A j \in DOMAIN array : i < j => array[i].id < array[j].id
    BY <1>6, <1>7, <2>3
  <2> QED  BY <1>2, <2>1, <2>2, <2>3, <2>4, <2>5 DEF ProvidersTypeOK
<1>9. ASSUME ~reused' PROVE sqlRows' = InArray(memRows')
  <2>1. sqlRows = rows
    BY <1>2, <1>9 DEF ListsInv, rows
  <2>2. sqlRows' = left
    BY <1>2, <2>1 DEF left
  <2>3. InArray(array) = left
    BY <1>6 DEF InArray
  <2>4. InArray(memRows') = InArray(array)
    BY <1>2
  <2> QED  BY <2>2, <2>3, <2>4
<1> QED  BY <1>8, <1>9 DEF ListsInv

LEMMA ProvidersNextInv == ListsInv /\ [ProvidersNext]_providersVars => ListsInv'
<1> SUFFICES ASSUME ListsInv, [ProvidersNext]_providersVars PROVE ListsInv'
  OBVIOUS
<1>1. ASSUME NEW content \in Contents, Create(content) PROVE ListsInv'
  BY <1>1, CreateInv
<1>2. ASSUME NEW id \in 1..MaxId, NEW content \in Contents, Update(id, content) PROVE ListsInv'
  BY <1>2, UpdateInv
<1>3. ASSUME NEW id \in 1..MaxId, DeleteOne(id) PROVE ListsInv'
  BY <1>3, DeleteInv
<1>4. CASE Reseed
  <2>1. sqlRows' = {} /\ sqlUsed' = 0 /\ memRows' = <<>> /\ reused' = FALSE
    BY <1>4 DEF Reseed
  <2>2. Len(memRows') = 0 /\ DOMAIN memRows' = {} /\ memRows' \in Seq(AnyRow)
    BY <2>1
  <2>3. ProvidersTypeOK'
    <3>1. 0 \in 0..MaxId /\ 0 <= MaxRows
      BY BoundAssumption, SignBitAssumption
    <3> QED  BY <2>1, <2>2, <3>1 DEF ProvidersTypeOK
  <2>4. InArray(memRows') = {}
    BY <2>2 DEF InArray
  <2> QED  BY <2>1, <2>3, <2>4 DEF ListsInv
<1>5. CASE UNCHANGED providersVars
  BY <1>5 DEF ListsInv, ProvidersTypeOK, InArray, providersVars
<1> QED  BY <1>1, <1>2, <1>3, <1>4, <1>5 DEF ProvidersNext

-----------------------------------------------------------------------------
(* What both list                                                          *)

LEMMA NotRefused ==
    ASSUME NEW filters, \A n \in DOMAIN filters : PortableFilter(filters[n])
    PROVE  ~Refused(filters)
<1> SUFFICES ASSUME NEW n \in DOMAIN filters
             PROVE  filters[n].field \in Columns /\ Bindable(filters[n])
  BY DEF Refused
<1>1. PortableFilter(filters[n])
  OBVIOUS
<1> QED  BY <1>1 DEF PortableFilter, Bindable, Operands

LEMMA InvAgrees == ListsInv => ListsAgree
<1> SUFFICES ASSUME ListsInv, ~reused, NEW params \in Queries, Portable(params)
             PROVE  /\ ~Refused(params.filters)
                    /\ SelectRows(sqlRows, params) = GetList(memRows, params)
                    /\ SelectCount(sqlRows, params) = Len(Filtered(memRows, params.filters))
  BY DEF ListsAgree
<1> DEFINE filters == params.filters
           sorts == params.sort
           paging == params.pagination
           picks == Where(sqlRows, filters)
           L == Len(memRows)
           places == {i \in 1..L : \A n \in DOMAIN filters : MatchOne(memRows[i], filters[n])}
           some == Filtered(memRows, filters)
           sorted == ApplySort(some, sorts)
<1>1. /\ ProvidersTypeOK /\ sqlRows = InArray(memRows)
      /\ L \in Nat /\ DOMAIN memRows = 1..L
      /\ Table(sqlRows) /\ Arrayed(memRows, sqlRows)
  BY MemArrayed DEF ListsInv
<1>2. /\ \A n \in DOMAIN filters : PortableFilter(filters[n])
      /\ \A n \in DOMAIN sorts : sorts[n].field \in Textual => SameCollation(sorts[n].field)
      /\ paging.offset < SignBit
  BY DEF Portable
<1>3. /\ DOMAIN sorts \subseteq Nat
      /\ \A n \in DOMAIN filters : filters[n].op \in Operators /\ FitsColumn(filters[n])
      /\ \/ paging = NoPage
         \/ paging.offset \in Nat /\ paging.limit \in 0..(2 * SignBit - 1)
  BY QueriesAssumption
<1> HIDE DEF filters, sorts, paging
<1>4. ~Refused(filters)
  BY <1>2, NotRefused
<1>5. \A i \in 1..L : memRows[i] \in sqlRows /\ RowFits(memRows[i])
  BY <1>1 DEF Arrayed, Table
<1>6. places = {i \in 1..L : memRows[i] \in picks}
  <2>1. \A i \in 1..L : \A n \in DOMAIN filters :
          Satisfies(memRows[i], filters[n]) <=> MatchOne(memRows[i], filters[n])
    BY <1>2, <1>3, <1>5, SameMatch
  <2> QED  BY <1>5, <2>1 DEF Where
<1>7. some = Picked(memRows, places)
  BY <1>1 DEF Filtered
<1>8. picks \in SUBSET sqlRows
  BY DEF Where
<1> HIDE DEF places, picks, some
<1>9. Arrayed(some, picks) /\ Len(some) <= L /\ Cardinality(picks) = Len(some)
  BY <1>1, <1>6, <1>7, <1>8, PickedArrayed
<1>10. Table(picks)
  BY <1>1, <1>8 DEF Table
<1>11. sorted = InOrder(picks, sorts) /\ Len(sorted) = Len(some)
  BY <1>2, <1>3, <1>8, <1>9, <1>10, SortedArrayed
<1> HIDE DEF sorted
<1>12. Len(sorted) \in 0..MaxRows
  <2>1. L <= MaxRows /\ MaxRows \in Nat
    BY <1>1, BoundAssumption, SignBitAssumption DEF ProvidersTypeOK
  <2>2. Len(some) \in Nat
    BY <1>9 DEF Arrayed
  <2> QED  BY <1>1, <1>9, <1>11, <2>1, <2>2
<1>13. Page(sorted, paging) =
         IF paging = NoPage THEN sorted ELSE Slice(sorted, paging.offset, paging.limit)
  BY <1>2, <1>3, <1>12, SamePage
<1>14. SelectRows(sqlRows, params) = Page(sorted, paging)
  BY <1>11 DEF SelectRows, picks, filters, sorts, paging
<1>15. GetList(memRows, params) =
         IF paging = NoPage THEN sorted ELSE Slice(sorted, paging.offset, paging.limit)
  BY DEF GetList, sorted, some, filters, sorts, paging
<1>16. SelectCount(sqlRows, params) = Len(some)
  BY <1>9 DEF SelectCount, picks, filters
<1> QED  BY <1>4, <1>13, <1>14, <1>15, <1>16 DEF filters, some

(* Every row of either provider is one that was written, under an id that  *)
(* was handed out; the array in memory stays in the order of the ids.      *)
THEOREM ProvidersTypeCorrect == ProvidersSpec => []ProvidersTypeOK
<1>1. ListsInv => ProvidersTypeOK
  BY DEF ListsInv
<1> QED  BY <1>1, ProvidersInitInv, ProvidersNextInv, PTL DEF ProvidersSpec

(* After any calls, to tables of any size, the in-memory provider lists    *)
(* what the SQL lists, in the same order and with the same total, for      *)
(* every query that means the same to both, until it hands out an id twice.*)
THEOREM ProvidersAgree == ProvidersSpec => []ListsAgree
BY ProvidersInitInv, ProvidersNextInv, InvAgrees, PTL DEF ProvidersSpec

-----------------------------------------------------------------------------
(* What is known of the windowed list.  `late' are the answers that have   *)
(* arrived, but whose ensureRange() call has not noticed yet.              *)

Asked(w, late) == w.fetches \cup late

Current(w) == {c \in w.calls : c.generation = w.generation}

(* A call waits for blocks no other call of its generation asks for.       *)
CallsApart(w) ==
    /\ \A c \in w.calls :
         c.generation <= w.generation /\ c.left # {} /\ c.left \subseteq c.blocks
    /\ \A c, d \in w.calls :
         c.generation = d.generation /\ c # d => c.blocks \cap d.blocks = {}

(* There is one request for each block a call waits for.                   *)
OnePerBlock(w, late) ==
    /\ \A f \in Asked(w, late) :
         /\ f.generation <= w.generation
         /\ \E c \in w.calls : c.generation = f.generation /\ f.block \in c.left
    /\ \A c \in w.calls : \A b \in c.left :
         \E f \in Asked(w, late) : f.generation = c.generation /\ f.block = b
    /\ \A f, g \in Asked(w, late) :
         f.generation = g.generation /\ f.block = g.block => f = g

Has(w, b) == w.rows[b] # Hole \/ b \in w.failed

(* Requests and rows of this generation are of these parameters, and a     *)
(* block its call no longer waits for is there.                            *)
OfThisQuery(w, late) ==
    /\ \A f \in Asked(w, late) : f.generation = w.generation => f.params = w.params
    /\ \A b \in Blocks : w.rows[b] # Hole => w.rows[b].params = w.params /\ w.counted
    /\ \A c \in Current(w) : \A b \in c.blocks \ c.left : Has(w, b)
    /\ \A f \in late : f.generation = w.generation => Has(w, f.block)

(* The flag: a generation that has not asked for anything may have it set. *)
FlagFits(w) ==
    \/ w.loading <=> Current(w) # {}
    \/ Current(w) = {} /\ \A b \in Blocks : ~Has(w, b)

Kept(w, late) ==
    /\ w \in Windows
    /\ CallsApart(w) /\ OnePerBlock(w, late) /\ OfThisQuery(w, late) /\ FlagFits(w)

(* The last range has been asked for.                                      *)
Covered(w) ==
    \A b \in BlocksFor(w.lastRange) : Has(w, b) \/ \E c \in Current(w) : b \in c.blocks

(* Its rows, and answers on their way, are of the table as it is now.      *)
Fresh(w, ver, tot) ==
    /\ \A f \in w.fetches : f.generation = w.generation =>
         f.answer \in {Waiting, Failed, [version |-> ver, total |-> tot[f.params]]}
    /\ \A b \in Blocks : w.rows[b] # Hole => w.rows[b].version = ver
    /\ w.counted => w.totalCount = tot[w.params]

-----------------------------------------------------------------------------
(* What is known of the client grid's list: its newest load is the only    *)
(* one that can still set it.                                              *)
ListKept(l) ==
    /\ l \in Lists
    /\ \A x \in l.loads : x.token <= l.token
    /\ \A x, y \in l.loads : x.token = y.token => x = y
    /\ l.loading <=> \E x \in l.loads : x.token = l.token

ListFresh(l, ver, tot) ==
    LET now == [version |-> ver, total |-> tot[AllRows]] IN
    /\ \A x \in l.loads : x.token = l.token => x.answer \in {Waiting, Failed, now}
    /\ (\A x \in l.loads : x.token # l.token) /\ ~l.error => l.rows = now

Told == ~missed /\ Untold(queue)

IInv ==
    /\ TypeOK
    /\ Kept(windowed, {}) /\ Covered(windowed)
    /\ ListKept(list)
    /\ Told => IF page = "server" THEN Fresh(windowed, version, totals)
               ELSE ListFresh(list, version, totals)
-----------------------------------------------------------------------------
(* The markers *)

LEMMA Markers ==
    /\ Hole \notin Served /\ Waiting \notin Served /\ Failed \notin Served
    /\ Waiting # Failed
    /\ \A p, v : v \in Nat => [version |-> v, params |-> p] # Hole
BY DEF Hole, Waiting, Failed, Served

-----------------------------------------------------------------------------
(* The client grid's list *)

LEMMA NewListIs == NewList \in Lists /\ ListKept(NewList)
BY DEF NewList, Lists, ListKept

LEMMA LoadIs ==
    ASSUME NEW l \in Lists
    PROVE  /\ Load(l) \in Lists /\ Load(l).token = l.token + 1 /\ Load(l).loading = TRUE
           /\ Load(l).loads = l.loads \cup {[token |-> l.token + 1, answer |-> Waiting]}
<1> DEFINE t == l.token + 1
           s == l.loads \cup {[token |-> t, answer |-> Waiting]}
<1>1. t \in Nat
  BY DEF Lists
<1>2. s \in SUBSET [token : Nat, answer : Answers]
  BY <1>1 DEF Lists, Answers
<1>3. Load(l) = [l EXCEPT !.token = t, !.loading = TRUE, !.error = FALSE, !.loads = s]
  BY DEF Load
<1> HIDE DEF t, s
<1>4. /\ Load(l) \in Lists /\ Load(l).token = t /\ Load(l).loading = TRUE
      /\ Load(l).loads = s
  BY <1>1, <1>2, <1>3 DEF Lists
<1> QED  BY <1>4 DEF t, s

LEMMA LoadKeeps ==
    ASSUME NEW l, ListKept(l), NEW ver, NEW tot
    PROVE  ListKept(Load(l)) /\ ListFresh(Load(l), ver, tot)
<1> DEFINE new == [token |-> l.token + 1, answer |-> Waiting]
           k == Load(l)
<1>1. /\ k \in Lists /\ k.token = l.token + 1 /\ k.loading = TRUE
      /\ k.loads = l.loads \cup {new}
  BY LoadIs DEF ListKept
<1>2. new.token = l.token + 1 /\ new.answer = Waiting
  OBVIOUS
<1>3. l.token \in Nat /\ \A x \in l.loads : x.token \in Nat /\ x.token <= l.token
  BY DEF ListKept, Lists
<1> HIDE DEF new, k
<1>4. ListKept(k)
  BY <1>1, <1>2, <1>3 DEF ListKept
<1>5. ListFresh(k, ver, tot)
  BY <1>1, <1>2, <1>3 DEF ListFresh
<1> QED  BY <1>4, <1>5 DEF k

(* The server answers a load. *)
LEMMA AnsweredLoadKeeps ==
    ASSUME NEW l, ListKept(l), NEW load \in l.loads, NEW a \in Answers,
           NEW k, k = [l EXCEPT !.loads = (@ \ {load}) \cup {[load EXCEPT !.answer = a]}]
    PROVE  /\ ListKept(k)
           /\ \A ver, tot :
                /\ ListFresh(l, ver, tot)
                /\ a \in {Waiting, Failed, [version |-> ver, total |-> tot[AllRows]]}
                => ListFresh(k, ver, tot)
<1> DEFINE new == [load EXCEPT !.answer = a]
<1>1. l \in Lists /\ load \in [token : Nat, answer : Answers]
  BY DEF ListKept, Lists
<1>2. new \in [token : Nat, answer : Answers] /\ new.token = load.token /\ new.answer = a
  BY <1>1
<1>3. k = [l EXCEPT !.loads = (l.loads \ {load}) \cup {new}]
  BY <1>1 DEF Lists
<1> HIDE DEF new
<1>4. /\ k \in Lists /\ k.loads = (l.loads \ {load}) \cup {new} /\ k.token = l.token
      /\ k.rows = l.rows /\ k.loading = l.loading /\ k.error = l.error
  BY <1>1, <1>2, <1>3 DEF Lists
<1>5. ListKept(k)
  BY <1>2, <1>4 DEF ListKept
<1>6. ASSUME NEW ver, NEW tot, ListFresh(l, ver, tot),
             a \in {Waiting, Failed, [version |-> ver, total |-> tot[AllRows]]}
      PROVE  ListFresh(k, ver, tot)
  <2>1. \A x \in k.loads : x = new \/ x \in l.loads
    BY <1>4
  <2>2. (\A x \in k.loads : x.token # k.token) => \A x \in l.loads : x.token # l.token
    BY <1>2, <1>4
  <2> QED  BY <1>2, <1>4, <1>6, <2>1, <2>2 DEF ListFresh
<1> QED  BY <1>5, <1>6

LEMMA LoadedKeeps ==
    ASSUME NEW l, ListKept(l), NEW load \in l.loads, load.answer # Waiting
    PROVE  /\ ListKept(Loaded(l, load))
           /\ \A ver, tot : ListFresh(l, ver, tot) => ListFresh(Loaded(l, load), ver, tot)
<1> DEFINE rest == [l EXCEPT !.loads = @ \ {load}]
           k == Loaded(l, load)
<1>1. l \in Lists /\ load.token \in Nat /\ load.answer \in Answers
  BY DEF ListKept, Lists
<1>2. /\ rest \in Lists /\ rest.loads = l.loads \ {load} /\ rest.token = l.token
      /\ rest.rows = l.rows /\ rest.loading = l.loading /\ rest.error = l.error
  BY <1>1 DEF Lists
<1>3. CASE load.token # l.token
  <2>1. k = rest
    BY <1>3 DEF Loaded, Overtaken
  <2> HIDE DEF rest, k
  <2>2. ListKept(k)
    BY <1>2, <1>3, <2>1 DEF ListKept
  <2>3. \A ver, tot : ListFresh(l, ver, tot) => ListFresh(k, ver, tot)
    BY <1>2, <1>3, <2>1 DEF ListFresh
  <2> QED  BY <2>2, <2>3 DEF k
<1>4. CASE load.token = l.token /\ load.answer = Failed
  <2>1. k = [rest EXCEPT !.error = TRUE, !.loading = FALSE]
    BY <1>4 DEF Loaded, Overtaken
  <2> HIDE DEF rest, k
  <2>2. /\ k \in Lists /\ k.loads = l.loads \ {load} /\ k.token = l.token
        /\ k.loading = FALSE /\ k.error = TRUE
    BY <1>2, <2>1 DEF Lists
  <2>3. ListKept(k)
    BY <1>4, <2>2 DEF ListKept
  <2>4. \A ver, tot : ListFresh(l, ver, tot) => ListFresh(k, ver, tot)
    BY <2>2 DEF ListFresh
  <2> QED  BY <2>3, <2>4 DEF k
<1>5. CASE load.token = l.token /\ load.answer # Failed
  <2>1. k = [rest EXCEPT !.rows = load.answer, !.loading = FALSE] /\ load.answer \in Served
    BY <1>1, <1>5 DEF Loaded, Overtaken, Answers
  <2> HIDE DEF rest, k
  <2>2. /\ k \in Lists /\ k.loads = l.loads \ {load} /\ k.token = l.token
        /\ k.loading = FALSE /\ k.rows = load.answer
    BY <1>2, <2>1 DEF Lists
  <2>3. ListKept(k)
    BY <1>5, <2>2 DEF ListKept
  <2>4. \A ver, tot : ListFresh(l, ver, tot) => ListFresh(k, ver, tot)
    BY <1>5, <2>2 DEF ListFresh
  <2> QED  BY <2>3, <2>4 DEF k
<1> QED  BY <1>3, <1>4, <1>5
-----------------------------------------------------------------------------
(* The windowed list: ensureRange *)

Calls == [generation : Nat, blocks : SUBSET Blocks, left : SUBSET Blocks]
Requests == [generation : Nat, block : Blocks, params : Filters, answer : Answers]

LEMMA WindowHas ==
    ASSUME NEW w \in Windows
    PROVE  /\ w.generation \in Nat /\ w.params \in Filters /\ w.lastRange \in Ranges
           /\ w.rows \in [Blocks -> {Hole} \cup [version : Nat, params : Filters]]
           /\ w.totalCount \in Totals \cup {0} /\ w.failed \subseteq Blocks
           /\ w.calls \subseteq Calls /\ w.fetches \subseteq Requests
BY DEF Windows, Calls, Requests

(* Two lists that agree on all but what waits for answers                  *)
SameRows(v, w) ==
    /\ v.generation = w.generation /\ v.params = w.params /\ v.rows = w.rows
    /\ v.failed = w.failed /\ v.counted = w.counted /\ v.totalCount = w.totalCount

LEMMA InFlightIs ==
    ASSUME NEW w, NEW b
    PROVE  b \in InFlight(w) <=> \E c \in Current(w) : b \in c.blocks
BY DEF InFlight, Current

LEMMA NothingToFetch ==
    ASSUME NEW w \in Windows, NEW range \in Ranges, ToFetch(w, range) = {},
           NEW v, v = EnsureRange(w, range)
    PROVE  /\ v \in Windows /\ SameRows(v, w) /\ v.lastRange = range
           /\ v.calls = w.calls /\ v.fetches = w.fetches /\ v.loading = w.loading
<1>1. v = [w EXCEPT !.lastRange = range]
  BY DEF EnsureRange
<1> QED  BY <1>1 DEF Windows, SameRows

(* What one more call and its requests change                              *)
Extends(v, w, blocks, call, new) ==
    /\ v.calls = w.calls \cup {call} /\ v.fetches = w.fetches \cup new
    /\ call.generation = w.generation /\ call.blocks = blocks /\ call.left = blocks
    /\ \A f \in new : /\ f.generation = w.generation /\ f.block \in blocks
                      /\ f.params = w.params /\ f.answer = Waiting
    /\ \A b \in blocks : \E f \in new : f.block = b
    /\ \A f, g \in new : f.block = g.block => f = g

LEMMA SomeToFetch ==
    ASSUME NEW w \in Windows, NEW range \in Ranges, ToFetch(w, range) # {},
           NEW v, v = EnsureRange(w, range)
    PROVE  /\ v \in Windows /\ SameRows(v, w) /\ v.lastRange = range /\ v.loading = TRUE
           /\ \E call, new : Extends(v, w, ToFetch(w, range), call, new)
<1> DEFINE blocks == ToFetch(w, range)
           ask(b) == [generation |-> w.generation, block |-> b,
                      params |-> w.params, answer |-> Waiting]
           call == [generation |-> w.generation, blocks |-> blocks, left |-> blocks]
           new == {ask(b) : b \in blocks}
           calls == w.calls \cup {call}
           fetches == w.fetches \cup new
<1>1. blocks \subseteq Blocks
  BY ListsAssumption DEF ToFetch
<1>2. v = [[w EXCEPT !.lastRange = range] EXCEPT !.loading = TRUE, !.calls = calls, !.fetches = fetches]
  BY DEF EnsureRange
<1> HIDE DEF blocks
<1>3. call \in Calls /\ call.generation = w.generation /\ call.blocks = blocks /\ call.left = blocks
  BY <1>1, WindowHas DEF Calls
<1>4. \A b \in blocks :
        /\ ask(b) \in Requests
        /\ ask(b).generation = w.generation /\ ask(b).block = b
        /\ ask(b).params = w.params /\ ask(b).answer = Waiting
  BY <1>1, WindowHas DEF Requests, Answers
<1> HIDE DEF ask, call
<1>5. new \subseteq Requests
  BY <1>4
<1>6. /\ \A f \in new : /\ f.generation = w.generation /\ f.block \in blocks
                        /\ f.params = w.params /\ f.answer = Waiting
      /\ \A b \in blocks : \E f \in new : f.block = b
      /\ \A f, g \in new : f.block = g.block => f = g
  <2>1. \A f \in new : \E b \in blocks : f = ask(b)
    OBVIOUS
  <2>2. \A b \in blocks : ask(b) \in new
    OBVIOUS
  <2> HIDE DEF new
  <2> QED  BY <1>4, <2>1, <2>2
<1> HIDE DEF new
<1>7. calls \in SUBSET Calls /\ fetches \in SUBSET Requests
  BY <1>3, <1>5, WindowHas
<1> HIDE DEF calls, fetches
<1>8. /\ v \in Windows /\ SameRows(v, w) /\ v.lastRange = range
      /\ v.calls = calls /\ v.fetches = fetches /\ v.loading = TRUE
  BY <1>2, <1>7 DEF Windows, SameRows, Calls, Requests
<1>9. Extends(v, w, blocks, call, new)
  BY <1>3, <1>6, <1>8 DEF Extends, calls, fetches
<1> QED  BY <1>8, <1>9 DEF blocks

LEMMA EnsureRangeKeeps ==
    ASSUME NEW w, NEW late, Kept(w, late), NEW range \in Ranges, NEW v, v = EnsureRange(w, range)
    PROVE  /\ Kept(v, late) /\ Covered(v) /\ v.lastRange = range
           /\ SameRows(v, w) /\ \A f \in v.fetches : f \in w.fetches \/ f.answer = Waiting
           /\ \A ver, tot : Fresh(w, ver, tot) => Fresh(v, ver, tot)
<1>1. w \in Windows
  BY DEF Kept
<1>2. \A b \in BlocksFor(range) :
        b \in Blocks /\ (b \in ToFetch(w, range)
                         <=> w.rows[b] = Hole /\ ~\E c \in Current(w) : b \in c.blocks)
  BY ListsAssumption, InFlightIs DEF ToFetch
<1>3. CASE ToFetch(w, range) = {}
  <2>1. /\ v \in Windows /\ SameRows(v, w) /\ v.lastRange = range
        /\ v.calls = w.calls /\ v.fetches = w.fetches /\ v.loading = w.loading
    BY <1>1, <1>3, NothingToFetch
  <2>2. Current(v) = Current(w) /\ Asked(v, late) = Asked(w, late)
        /\ \A b : Has(v, b) <=> Has(w, b)
    BY <2>1 DEF Current, Asked, Has, SameRows
  <2>3. Kept(v, late)
    BY <2>1, <2>2 DEF Kept, CallsApart, OnePerBlock, OfThisQuery, FlagFits, SameRows
  <2>4. Covered(v)
    BY <1>2, <1>3, <2>1, <2>2 DEF Covered, Has
  <2>5. \A ver, tot : Fresh(w, ver, tot) => Fresh(v, ver, tot)
    BY <2>1 DEF Fresh, SameRows
  <2> QED  BY <2>1, <2>3, <2>4, <2>5
<1>4. CASE ToFetch(w, range) # {}
  <2> DEFINE blocks == ToFetch(w, range)
  <2>0. PICK call, new : Extends(v, w, blocks, call, new)
    BY <1>1, <1>4, SomeToFetch
  <2>1. /\ v \in Windows /\ SameRows(v, w) /\ v.lastRange = range /\ v.loading = TRUE
        /\ Extends(v, w, blocks, call, new)
    BY <1>1, <1>4, <2>0, SomeToFetch
  <2>2. blocks \subseteq BlocksFor(range) /\ blocks # {}
    BY <1>4 DEF ToFetch
  <2>3. \A c \in Current(w) : c.blocks \cap blocks = {}
    BY <1>2, <2>2
  <2> HIDE DEF blocks
  <2>4. /\ Current(v) = Current(w) \cup {call} /\ Asked(v, late) = Asked(w, late) \cup new
        /\ \A b : Has(v, b) <=> Has(w, b)
    BY <2>1 DEF Current, Asked, Has, SameRows, Extends
  <2>5. w.generation \in Nat /\ v.generation = w.generation
    BY <1>1, <2>1, WindowHas DEF SameRows
  <2>6. CallsApart(v)
    BY <2>1, <2>2, <2>3, <2>5 DEF Kept, CallsApart, Current, Extends
  <2>7. OnePerBlock(v, late)
    <3>1. \A f \in Asked(w, late) : f.generation = w.generation => f.block \notin blocks
      <4> SUFFICES ASSUME NEW f \in Asked(w, late), f.generation = w.generation
                   PROVE  f.block \notin blocks
        OBVIOUS
      <4>1. PICK c \in w.calls : c.generation = f.generation /\ f.block \in c.left
        BY DEF Kept, OnePerBlock
      <4>2. f.block \in c.blocks /\ c \in Current(w)
        BY <4>1 DEF Kept, CallsApart, Current
      <4> QED  BY <2>3, <4>2
    <3>2. \A f \in Asked(v, late) :
             /\ f.generation <= v.generation
             /\ \E c \in v.calls : c.generation = f.generation /\ f.block \in c.left
      BY <2>1, <2>4, <2>5 DEF Kept, OnePerBlock, Extends
    <3>3. \A c \in v.calls : \A b \in c.left :
             \E f \in Asked(v, late) : f.generation = c.generation /\ f.block = b
      BY <2>1, <2>4 DEF Kept, OnePerBlock, Extends
    <3>4. \A f, g \in Asked(v, late) :
             f.generation = g.generation /\ f.block = g.block => f = g
      BY <2>1, <2>4, <3>1 DEF Kept, OnePerBlock, Extends
    <3> QED  BY <3>2, <3>3, <3>4 DEF OnePerBlock
  <2>8. OfThisQuery(v, late)
    BY <2>1, <2>4, <2>5 DEF Kept, OfThisQuery, SameRows, Extends
  <2>9. FlagFits(v)
    BY <2>1, <2>4 DEF FlagFits
  <2>10. Covered(v)
    BY <1>2, <2>1, <2>4 DEF Covered, Has, blocks, Extends
  <2>11. \A ver, tot : Fresh(w, ver, tot) => Fresh(v, ver, tot)
    BY <2>1 DEF Fresh, SameRows, Extends
  <2> QED  BY <2>1, <2>6, <2>7, <2>8, <2>9, <2>10, <2>11 DEF Kept, Extends
<1> QED  BY <1>3, <1>4
-----------------------------------------------------------------------------
(* A new list, and a new generation *)

LEMMA NewWindowedIs ==
    /\ Kept(NewWindowed, {}) /\ Covered(NewWindowed)
    /\ NewWindowed.lastRange = <<0, 0>>
    /\ \A ver, tot : Fresh(NewWindowed, ver, tot)
<1> DEFINE w == NewWindowed
<1>1. <<0, 0>> \in Ranges /\ BlocksFor(<<0, 0>>) = {}
  BY DEF Ranges, BlocksFor
<1>2. /\ w \in Windows /\ w.generation = 0 /\ w.calls = {} /\ w.fetches = {}
      /\ w.loading = FALSE /\ w.counted = FALSE /\ w.lastRange = <<0, 0>>
      /\ \A b \in Blocks : w.rows[b] = Hole
  BY <1>1, ListsAssumption DEF NewWindowed, Windows
<1> HIDE DEF w
<1>3. Kept(w, {})
  BY <1>2 DEF Kept, CallsApart, OnePerBlock, OfThisQuery, FlagFits, Asked, Current
<1>4. Covered(w) /\ \A ver, tot : Fresh(w, ver, tot)
  BY <1>1, <1>2 DEF Covered, Fresh
<1> QED  BY <1>2, <1>3, <1>4 DEF w

(* What a new generation starts from: nothing of it has been asked for.    *)
Bumped(v, w, params) ==
    /\ v \in Windows /\ v.generation = w.generation + 1 /\ v.params = params
    /\ v.calls = w.calls /\ v.fetches = w.fetches /\ v.lastRange = w.lastRange
    /\ v.counted = FALSE /\ v.failed = {} /\ \A b \in Blocks : v.rows[b] = Hole

LEMMA BumpIs ==
    ASSUME NEW w \in Windows
    PROVE  /\ Bumped(BumpGeneration(w), w, w.params)
           /\ \A params \in Filters : Bumped(SetParams(w, params), w, params)
<1>1. ASSUME NEW u \in Windows
      PROVE  Bumped(BumpGeneration(u), u, u.params)
  <2> DEFINE g == u.generation + 1
             rows == [b \in Blocks |-> Hole]
  <2>1. g \in Nat
    BY WindowHas
  <2>2. rows \in [Blocks -> {Hole} \cup [version : Nat, params : Filters]]
        /\ \A b \in Blocks : rows[b] = Hole
    OBVIOUS
  <2>3. BumpGeneration(u) = [u EXCEPT !.generation = g, !.counted = FALSE, !.failed = {}, !.rows = rows]
    BY DEF BumpGeneration
  <2> HIDE DEF g, rows
  <2>4. /\ BumpGeneration(u) \in Windows /\ BumpGeneration(u).generation = g
        /\ BumpGeneration(u).params = u.params /\ BumpGeneration(u).calls = u.calls
        /\ BumpGeneration(u).fetches = u.fetches /\ BumpGeneration(u).lastRange = u.lastRange
        /\ BumpGeneration(u).counted = FALSE /\ BumpGeneration(u).failed = {}
        /\ BumpGeneration(u).rows = rows
    BY <2>1, <2>2, <2>3 DEF Windows
  <2> QED  BY <2>2, <2>4 DEF Bumped, g
<1>2. ASSUME NEW params \in Filters
      PROVE  Bumped(SetParams(w, params), w, params)
  <2> DEFINE u == [w EXCEPT !.params = params]
  <2>1. /\ u \in Windows /\ u.generation = w.generation /\ u.params = params
        /\ u.calls = w.calls /\ u.fetches = w.fetches /\ u.lastRange = w.lastRange
    BY DEF Windows
  <2>2. SetParams(w, params) = BumpGeneration(u)
    BY DEF SetParams
  <2> HIDE DEF u
  <2>3. Bumped(BumpGeneration(u), u, u.params)
    BY <1>1, <2>1
  <2> QED  BY <2>1, <2>2, <2>3 DEF Bumped
<1> QED  BY <1>1, <1>2

LEMMA BumpedKeeps ==
    ASSUME NEW w, Kept(w, {}), NEW params, NEW v, Bumped(v, w, params)
    PROVE  Kept(v, {}) /\ \A ver, tot : Fresh(v, ver, tot)
<1>1. w.generation \in Nat /\ v.generation = w.generation + 1 /\ w.calls \subseteq Calls
      /\ w.fetches \subseteq Requests
  BY WindowHas DEF Kept, Bumped
<1>2. /\ \A c \in w.calls : c.generation \in Nat /\ c.generation <= w.generation
      /\ \A f \in w.fetches : f.generation \in Nat /\ f.generation <= w.generation
  BY <1>1 DEF Kept, CallsApart, OnePerBlock, Asked, Calls, Requests
<1>3. /\ v.calls = w.calls /\ v.fetches = w.fetches
      /\ \A c \in v.calls : c.generation # v.generation /\ c.generation <= v.generation
      /\ \A f \in v.fetches : f.generation # v.generation /\ f.generation <= v.generation
  BY <1>1, <1>2 DEF Bumped
<1>4. Current(v) = {} /\ Asked(v, {}) = Asked(w, {}) /\ Asked(v, {}) = v.fetches
  BY <1>3 DEF Current, Asked
<1>5. CallsApart(v) /\ OnePerBlock(v, {})
  BY <1>3, <1>4 DEF Kept, CallsApart, OnePerBlock
<1>6. OfThisQuery(v, {}) /\ FlagFits(v)
  BY <1>3, <1>4 DEF Bumped, OfThisQuery, FlagFits, Has
<1>7. \A ver, tot : Fresh(v, ver, tot)
  BY <1>3 DEF Bumped, Fresh
<1> QED  BY <1>5, <1>6, <1>7 DEF Kept, Bumped

LEMMA RefreshKeeps ==
    ASSUME NEW w, Kept(w, {})
    PROVE  /\ Kept(Refresh(w), {}) /\ Covered(Refresh(w))
           /\ \A ver, tot : Fresh(Refresh(w), ver, tot)
<1> DEFINE v == BumpGeneration(w)
<1>1. Bumped(v, w, w.params) /\ w.lastRange \in Ranges
  BY BumpIs, WindowHas DEF Kept
<1> HIDE DEF v
<1>2. Kept(v, {}) /\ \A ver, tot : Fresh(v, ver, tot)
  BY <1>1, BumpedKeeps
<1>3. Refresh(w) = EnsureRange(v, w.lastRange)
  BY DEF Refresh, v
<1> QED  BY <1>1, <1>2, <1>3, EnsureRangeKeeps

(* The server answers a request. *)
LEMMA AnsweredFetchKeeps ==
    ASSUME NEW w, Kept(w, {}), NEW f \in w.fetches, NEW a \in Answers,
           NEW v, v = [w EXCEPT !.fetches = (@ \ {f}) \cup {[f EXCEPT !.answer = a]}]
    PROVE  /\ Kept(v, {}) /\ (Covered(w) => Covered(v))
           /\ \A ver, tot :
                /\ Fresh(w, ver, tot)
                /\ a \in {Waiting, Failed, [version |-> ver, total |-> tot[f.params]]}
                => Fresh(v, ver, tot)
<1> DEFINE new == [f EXCEPT !.answer = a]
           fetches == (w.fetches \ {f}) \cup {new}
<1>1. w \in Windows /\ f \in Requests
  BY WindowHas DEF Kept
<1>2. /\ new \in Requests /\ new.generation = f.generation /\ new.block = f.block
      /\ new.params = f.params /\ new.answer = a
  BY <1>1 DEF Requests
<1> HIDE DEF new
<1>3. fetches \in SUBSET Requests
  BY <1>1, <1>2, WindowHas
<1>4. v = [w EXCEPT !.fetches = fetches]
  BY DEF new
<1> HIDE DEF fetches
<1>5. /\ v \in Windows /\ SameRows(v, w) /\ v.calls = w.calls /\ v.loading = w.loading
      /\ v.lastRange = w.lastRange /\ v.fetches = fetches
  BY <1>1, <1>3, <1>4 DEF Windows, SameRows, Requests
<1>6. /\ Current(v) = Current(w) /\ Asked(v, {}) = fetches /\ Asked(w, {}) = w.fetches
      /\ \A b : Has(v, b) <=> Has(w, b)
  BY <1>5 DEF Current, Asked, Has, SameRows
<1>7. /\ \A g \in fetches : g = new \/ (g \in w.fetches /\ g # f)
      /\ new \in fetches /\ \A g \in w.fetches : g = f \/ g \in fetches
  BY DEF fetches
<1>8. CallsApart(v) /\ FlagFits(v)
  BY <1>5, <1>6 DEF Kept, CallsApart, FlagFits, SameRows
<1>9. OnePerBlock(v, {})
  <2>1. \A g \in Asked(v, {}) :
         /\ g.generation <= v.generation
         /\ \E c \in v.calls : c.generation = g.generation /\ g.block \in c.left
    BY <1>2, <1>5, <1>6, <1>7 DEF Kept, OnePerBlock, SameRows
  <2>2. \A c \in v.calls : \A b \in c.left :
         \E g \in Asked(v, {}) : g.generation = c.generation /\ g.block = b
    BY <1>2, <1>5, <1>6, <1>7 DEF Kept, OnePerBlock
  <2>3. \A g, h \in Asked(v, {}) :
         g.generation = h.generation /\ g.block = h.block => g = h
    BY <1>2, <1>5, <1>6, <1>7 DEF Kept, OnePerBlock
  <2> QED  BY <2>1, <2>2, <2>3 DEF OnePerBlock
<1>10. OfThisQuery(v, {})
  <2>1. \A g \in fetches : g.generation = v.generation => g.params = v.params
    BY <1>2, <1>5, <1>6, <1>7 DEF Kept, OfThisQuery, SameRows
  <2>2. /\ \A b \in Blocks : v.rows[b] # Hole => v.rows[b].params = v.params /\ v.counted
        /\ \A c \in Current(v) : \A b \in c.blocks \ c.left : Has(v, b)
    BY <1>5, <1>6 DEF Kept, OfThisQuery, SameRows
  <2> QED  BY <1>6, <2>1, <2>2 DEF OfThisQuery
<1>11. Covered(w) => Covered(v)
  BY <1>5, <1>6 DEF Covered
<1>12. ASSUME NEW ver, NEW tot, Fresh(w, ver, tot),
              a \in {Waiting, Failed, [version |-> ver, total |-> tot[f.params]]}
       PROVE  Fresh(v, ver, tot)
  BY <1>2, <1>5, <1>7, <1>12 DEF Fresh, SameRows
<1> QED  BY <1>5, <1>8, <1>9, <1>10, <1>11, <1>12 DEF Kept
-----------------------------------------------------------------------------
(* An answer arrives, and the call that waited for it notices. *)

(* What an answer changes                                                  *)
Arrived(v, w, f) ==
    /\ v.fetches = w.fetches \ {f}
    /\ v.generation = w.generation /\ v.params = w.params /\ v.calls = w.calls
    /\ v.loading = w.loading /\ v.lastRange = w.lastRange
    /\ \/ f.generation # w.generation /\ SameRows(v, w)
       \/ /\ f.generation = w.generation /\ f.answer = Failed
          /\ v.rows = w.rows /\ v.failed = w.failed \cup {f.block}
          /\ v.counted = w.counted /\ v.totalCount = w.totalCount
       \/ /\ f.generation = w.generation /\ f.answer \in Served
          /\ v.rows = [w.rows EXCEPT ![f.block] = [version |-> f.answer.version,
                                                   params |-> f.params]]
          /\ v.failed = w.failed \ {f.block} /\ v.counted = TRUE
          /\ v.totalCount = IF w.counted THEN w.totalCount ELSE f.answer.total

LEMMA ArriveIs ==
    ASSUME NEW w \in Windows, NEW f \in w.fetches, f.answer # Waiting,
           NEW v, v = Arrive(w, f)
    PROVE  v \in Windows /\ Arrived(v, w, f)
<1> DEFINE rest == [w EXCEPT !.fetches = @ \ {f}]
<1>1. /\ f.block \in Blocks /\ f.params \in Filters /\ f.answer \in Answers
      /\ f \in Requests /\ w.fetches \ {f} \in SUBSET Requests
  BY WindowHas DEF Requests
<1>2. /\ rest \in Windows /\ SameRows(rest, w) /\ rest.fetches = w.fetches \ {f}
      /\ rest.calls = w.calls /\ rest.loading = w.loading /\ rest.lastRange = w.lastRange
  BY <1>1 DEF Windows, SameRows, Requests
<1>3. CASE f.generation # w.generation
  <2>1. v = rest
    BY <1>3 DEF Arrive, Superseded
  <2> HIDE DEF rest
  <2> QED  BY <1>2, <1>3, <2>1 DEF SameRows, Arrived
<1>4. CASE f.generation = w.generation /\ f.answer = Failed
  <2> DEFINE failed == rest.failed \cup {f.block}
  <2>1. v = [rest EXCEPT !.error = TRUE, !.failed = failed]
    BY <1>4 DEF Arrive, Superseded
  <2> HIDE DEF rest
  <2>2. failed \in SUBSET Blocks
    BY <1>1, <1>2, WindowHas
  <2> HIDE DEF failed
  <2>3. /\ v \in Windows /\ v.fetches = rest.fetches /\ v.generation = rest.generation
        /\ v.params = rest.params /\ v.calls = rest.calls /\ v.loading = rest.loading
        /\ v.lastRange = rest.lastRange /\ v.rows = rest.rows /\ v.failed = failed
        /\ v.counted = rest.counted /\ v.totalCount = rest.totalCount
    BY <1>2, <2>1, <2>2 DEF Windows
  <2> QED  BY <1>2, <1>4, <2>3 DEF SameRows, Arrived, failed
<1>5. CASE f.generation = w.generation /\ f.answer # Failed
  <2> DEFINE row == [version |-> f.answer.version, params |-> f.params]
             rows == [rest.rows EXCEPT ![f.block] = row]
             failed == rest.failed \ {f.block}
             total == IF w.counted THEN rest.totalCount ELSE f.answer.total
  <2>1. v = [rest EXCEPT !.totalCount = total, !.counted = TRUE, !.error = FALSE,
                         !.failed = failed, !.rows = rows]
    BY <1>5, <1>2 DEF Arrive, Superseded, Windows
  <2>2. f.answer \in Served /\ f.answer.version \in Nat /\ f.answer.total \in Totals
    BY <1>1, <1>5 DEF Answers, Served
  <2> HIDE DEF rest
  <2>3. row \in [version : Nat, params : Filters]
    BY <1>1, <2>2
  <2> HIDE DEF row
  <2>4. /\ rows \in [Blocks -> {Hole} \cup [version : Nat, params : Filters]]
        /\ failed \in SUBSET Blocks /\ total \in Totals \cup {0}
    BY <1>1, <1>2, <2>2, <2>3, WindowHas
  <2>5. rows = [w.rows EXCEPT ![f.block] = row] /\ failed = w.failed \ {f.block}
        /\ total = IF w.counted THEN w.totalCount ELSE f.answer.total
    BY <1>2 DEF SameRows
  <2> HIDE DEF rows, failed, total
  <2>6. /\ v \in Windows /\ v.fetches = rest.fetches /\ v.generation = rest.generation
        /\ v.params = rest.params /\ v.calls = rest.calls /\ v.loading = rest.loading
        /\ v.lastRange = rest.lastRange /\ v.rows = rows /\ v.failed = failed
        /\ v.counted = TRUE /\ v.totalCount = total
    BY <1>2, <2>1, <2>4 DEF Windows
  <2> QED  BY <1>2, <1>5, <2>2, <2>5, <2>6 DEF SameRows, Arrived, row
<1> QED  BY <1>3, <1>4, <1>5

LEMMA ArriveKeeps ==
    ASSUME NEW w, Kept(w, {}), Covered(w), NEW f \in w.fetches, f.answer # Waiting,
           NEW v, v = Arrive(w, f)
    PROVE  /\ Kept(v, {f}) /\ Covered(v) /\ f \notin v.fetches
           /\ \A ver, tot : Fresh(w, ver, tot) => Fresh(v, ver, tot)
<1>1. w \in Windows /\ f.block \in Blocks /\ w.rows \in [Blocks -> {Hole} \cup [version : Nat, params : Filters]]
  BY WindowHas DEF Kept, Requests
<1>2. v \in Windows /\ Arrived(v, w, f)
  BY <1>1, ArriveIs
<1>3. /\ Current(v) = Current(w) /\ Asked(v, {f}) = w.fetches /\ Asked(w, {}) = w.fetches
  BY <1>2 DEF Current, Asked, Arrived
<1>4. f.generation = w.generation => f.params = w.params /\ Current(w) # {}
  BY <1>3 DEF Kept, OfThisQuery, OnePerBlock, Current
<1>5. f.answer \in Served => f.answer.version \in Nat
  BY DEF Served
<1>6. /\ \A b \in Blocks : b # f.block \/ f.answer \notin Served \/ f.generation # w.generation
                           => v.rows[b] = w.rows[b]
      /\ f.generation = w.generation /\ f.answer \in Served =>
           /\ v.rows[f.block] = [version |-> f.answer.version, params |-> f.params]
           /\ v.rows[f.block] # Hole
  BY <1>1, <1>2, <1>5, Markers DEF SameRows, Arrived
<1>7. /\ \A b : Has(w, b) /\ b \in Blocks => Has(v, b)
      /\ f.generation = w.generation => Has(v, f.block)
      /\ f.generation # w.generation => \A b : Has(v, b) <=> Has(w, b)
  BY <1>1, <1>2, <1>6 DEF Has, SameRows, Arrived
<1>8. CallsApart(v) /\ OnePerBlock(v, {f})
  <2>1. CallsApart(v)
    BY <1>2 DEF Kept, CallsApart, Arrived
  <2>2. v.generation = w.generation /\ v.calls = w.calls
    BY <1>2 DEF Arrived
  <2>3. OnePerBlock(w, {}) /\ Asked(v, {f}) = Asked(w, {})
    BY <1>3 DEF Kept
  <2> DEFINE F == Asked(w, {})
  <2>4. /\ \A g \in F : /\ g.generation <= w.generation
                       /\ \E c \in w.calls : c.generation = g.generation /\ g.block \in c.left
        /\ \A c \in w.calls : \A b \in c.left : \E g \in F : g.generation = c.generation /\ g.block = b
        /\ \A g, h \in F : g.generation = h.generation /\ g.block = h.block => g = h
    BY <2>3 DEF OnePerBlock
  <2>5. Asked(v, {f}) = F
    BY <2>3
  <2> HIDE DEF F
  <2>6. OnePerBlock(v, {f})
    BY <2>2, <2>4, <2>5 DEF OnePerBlock
  <2> QED  BY <2>1, <2>6
<1>9. OfThisQuery(v, {f})
  <2>1. \A g \in Asked(v, {f}) : g.generation = v.generation => g.params = v.params
    BY <1>2, <1>3 DEF Kept, OfThisQuery, Arrived
  <2>2. ASSUME NEW b \in Blocks, v.rows[b] # Hole PROVE v.rows[b].params = v.params /\ v.counted
    BY <1>2, <1>4, <1>6, <2>2 DEF Kept, OfThisQuery, SameRows, Arrived
  <2>3. \A c \in Current(v) : \A b \in c.blocks \ c.left : Has(v, b)
    <3>1. \A c \in w.calls : c.blocks \subseteq Blocks
      BY <1>1, WindowHas DEF Calls
    <3> QED  BY <1>3, <1>7, <3>1 DEF Kept, OfThisQuery, Current
  <2> QED  BY <1>2, <1>7, <2>1, <2>2, <2>3 DEF OfThisQuery, Arrived
<1>10. FlagFits(v)
  BY <1>2, <1>3, <1>4, <1>7 DEF Kept, FlagFits, Arrived
<1>11. Covered(v)
  BY <1>1, <1>2, <1>3, <1>7, WindowHas, ListsAssumption DEF Covered, Arrived
<1>12. ASSUME NEW ver, NEW tot, Fresh(w, ver, tot) PROVE Fresh(v, ver, tot)
  <2>1. f.generation = w.generation /\ f.answer \in Served =>
           f.answer.version = ver /\ f.answer.total = tot[w.params]
    BY <1>4, <1>12, Markers DEF Fresh
  <2>2. \A g \in v.fetches : g.generation = v.generation =>
          g.answer \in {Waiting, Failed, [version |-> ver, total |-> tot[g.params]]}
    BY <1>2, <1>12 DEF Fresh, Arrived
  <2>3. \A b \in Blocks : v.rows[b] # Hole => v.rows[b].version = ver
    BY <1>2, <1>6, <1>12, <2>1 DEF Fresh, SameRows, Arrived
  <2>4. v.counted => v.totalCount = tot[v.params]
    BY <1>2, <1>12, <2>1 DEF Fresh, SameRows, Arrived
  <2> QED  BY <2>2, <2>3, <2>4 DEF Fresh
<1> QED  BY <1>2, <1>8, <1>9, <1>10, <1>11, <1>12 DEF Kept, Arrived
LEMMA CallOfIs ==
    ASSUME NEW w, NEW f, Kept(w, {f})
    PROVE  /\ CallOf(w, f) \in w.calls /\ CallOf(w, f).generation = f.generation
           /\ f.block \in CallOf(w, f).left
BY DEF CallOf, Kept, OnePerBlock, Asked

(* What the end of a wait changes: its call goes on with fewer blocks, or  *)
(* goes, and only the last call of the generation clears the flag.         *)
Finished(v, w, f, c) ==
    /\ SameRows(v, w) /\ v.fetches = w.fetches /\ v.lastRange = w.lastRange
    /\ \/ /\ c.left # {f.block} /\ v.loading = w.loading
          /\ \E d : /\ v.calls = (w.calls \ {c}) \cup {d}
                    /\ d.generation = c.generation /\ d.blocks = c.blocks
                    /\ d.left = c.left \ {f.block}
       \/ /\ c.left = {f.block} /\ v.calls = w.calls \ {c}
          /\ IF c.generation = w.generation THEN v.loading <=> InFlight(v) # {}
             ELSE v.loading = w.loading

LEMMA FinishIs ==
    ASSUME NEW w, NEW f, Kept(w, {f}), NEW v, v = Finish(w, f)
    PROVE  v \in Windows /\ Finished(v, w, f, CallOf(w, f))
<1> DEFINE c == CallOf(w, f)
           left == c.left \ {f.block}
           d == [c EXCEPT !.left = left]
           calls == (w.calls \ {c}) \cup IF left = {} THEN {} ELSE {d}
           kept == [w EXCEPT !.calls = calls]
           busy == InFlight(kept) # {}
<1>1. w \in Windows /\ c \in w.calls /\ f.block \in c.left /\ c \in Calls
  BY CallOfIs, WindowHas DEF Kept
<1>2. v = IF left # {} \/ c.generation # w.generation THEN kept ELSE [kept EXCEPT !.loading = busy]
  BY DEF Finish
<1>3. left = {} <=> c.left = {f.block}
  BY <1>1
<1> HIDE DEF c
<1>4. /\ d \in Calls /\ d.generation = c.generation /\ d.blocks = c.blocks /\ d.left = left
  BY <1>1 DEF Calls
<1> HIDE DEF d
<1>5. calls \in SUBSET Calls
  BY <1>1, <1>4, WindowHas
<1>6. /\ left # {} => calls = (w.calls \ {c}) \cup {d}
      /\ left = {} => calls = w.calls \ {c}
  OBVIOUS
<1>7. busy \in BOOLEAN
  OBVIOUS
<1> HIDE DEF calls
<1>8. /\ kept \in Windows /\ SameRows(kept, w) /\ kept.fetches = w.fetches
      /\ kept.lastRange = w.lastRange /\ kept.calls = calls /\ kept.loading = w.loading
  BY <1>1, <1>5 DEF Windows, SameRows, Calls
<1>9. CASE left # {} \/ c.generation # w.generation
  <2>1. v = kept
    BY <1>2, <1>9
  <2> HIDE DEF kept
  <2> QED  BY <1>3, <1>4, <1>6, <1>8, <1>9, <2>1 DEF Finished, c
<1>10. CASE left = {} /\ c.generation = w.generation
  <2>1. v = [kept EXCEPT !.loading = busy]
    BY <1>2, <1>10
  <2>2. \A x, y : x.calls = y.calls /\ x.generation = y.generation => InFlight(x) = InFlight(y)
    BY DEF InFlight
  <2>3. busy <=> InFlight(kept) # {}
    OBVIOUS
  <2> HIDE DEF kept, busy
  <2>4. /\ v \in Windows /\ SameRows(v, kept) /\ v.fetches = kept.fetches
        /\ v.lastRange = kept.lastRange /\ v.calls = kept.calls /\ v.loading = busy
    BY <1>7, <1>8, <2>1 DEF Windows, SameRows
  <2>5. InFlight(v) = InFlight(kept)
    BY <2>2, <2>4 DEF SameRows
  <2>6. /\ SameRows(v, w) /\ v.fetches = w.fetches /\ v.lastRange = w.lastRange
        /\ v.calls = w.calls \ {c} /\ (v.loading <=> InFlight(v) # {})
    BY <1>6, <1>8, <1>10, <2>3, <2>4, <2>5 DEF SameRows
  <2> QED  BY <1>3, <1>10, <2>4, <2>6 DEF Finished, c
<1> QED  BY <1>9, <1>10

LEMMA FinishKeeps ==
    ASSUME NEW w, NEW f, Kept(w, {f}), Covered(w), f \notin w.fetches, NEW v, v = Finish(w, f)
    PROVE  /\ Kept(v, {}) /\ Covered(v) /\ SameRows(v, w)
           /\ \A ver, tot : Fresh(w, ver, tot) => Fresh(v, ver, tot)
<1> DEFINE c == CallOf(w, f)
<1>1. /\ v \in Windows /\ Finished(v, w, f, c)
      /\ c \in w.calls /\ c.generation = f.generation /\ f.block \in c.left
  BY FinishIs, CallOfIs
<1> HIDE DEF c
<1>2. /\ SameRows(v, w) /\ v.fetches = w.fetches /\ v.lastRange = w.lastRange
      /\ \A b : Has(v, b) <=> Has(w, b)
      /\ Asked(w, {f}) = w.fetches \cup {f} /\ Asked(v, {}) = w.fetches
  BY <1>1 DEF Finished, SameRows, Has, Asked
<1>3. /\ CallsApart(w) /\ OnePerBlock(w, {f}) /\ OfThisQuery(w, {f}) /\ FlagFits(w)
  BY DEF Kept
<1>4. \A ver, tot : Fresh(w, ver, tot) => Fresh(v, ver, tot)
  BY <1>2 DEF Fresh, SameRows
<1>5. \A e \in w.calls : e.generation = f.generation /\ f.block \in e.left => e = c
  BY <1>1, <1>3 DEF CallsApart
<1>6. f.generation = w.generation => Has(w, f.block)
  BY <1>3 DEF OfThisQuery
<1>7. \A g \in w.fetches : g.generation = f.generation => g.block # f.block
  BY <1>2, <1>3 DEF OnePerBlock
<1>8. /\ \A g \in w.fetches : g.generation <= w.generation
      /\ \A g, h \in w.fetches : g.generation = h.generation /\ g.block = h.block => g = h
  BY <1>2, <1>3 DEF OnePerBlock
<1>11. \A g \in w.fetches : \E e \in w.calls : e.generation = g.generation /\ g.block \in e.left
  BY <1>2, <1>3 DEF OnePerBlock
<1>12. ASSUME NEW e \in w.calls, NEW b \in e.left, e # c \/ b # f.block
       PROVE  \E g \in w.fetches : g.generation = e.generation /\ g.block = b
  <2>1. PICK g \in w.fetches \cup {f} : g.generation = e.generation /\ g.block = b
    BY <1>2, <1>3 DEF OnePerBlock
  <2>2. g # f
    BY <1>5, <1>12, <2>1
  <2> QED  BY <2>1, <2>2
<1>9. CASE c.left # {f.block}
  <2>1. PICK d : /\ v.calls = (w.calls \ {c}) \cup {d} /\ v.loading = w.loading
                 /\ d.generation = c.generation /\ d.blocks = c.blocks
                 /\ d.left = c.left \ {f.block}
    BY <1>1, <1>9 DEF Finished
  <2>2. CallsApart(v)
    BY <1>1, <1>2, <1>3, <1>9, <2>1 DEF CallsApart, SameRows
  <2>3. OnePerBlock(v, {})
    <3>1. \A g \in w.fetches : \E e \in v.calls : e.generation = g.generation /\ g.block \in e.left
      BY <1>1, <1>7, <1>11, <2>1
    <3>2. \A e \in v.calls : \A b \in e.left :
            \E g \in w.fetches : g.generation = e.generation /\ g.block = b
      BY <1>1, <1>12, <2>1
    <3>3. \A g \in Asked(v, {}) :
            /\ g.generation <= v.generation
            /\ \E e \in v.calls : e.generation = g.generation /\ g.block \in e.left
      BY <1>2, <1>8, <3>1 DEF SameRows
    <3> QED  BY <1>2, <1>8, <3>2, <3>3 DEF OnePerBlock
  <2>4. OfThisQuery(v, {})
    <3>1. \A g \in Asked(v, {}) : g.generation = v.generation => g.params = v.params
      BY <1>2, <1>3 DEF OfThisQuery, SameRows
    <3>2. \A b \in Blocks : v.rows[b] # Hole => v.rows[b].params = v.params /\ v.counted
      BY <1>2, <1>3 DEF OfThisQuery, SameRows
    <3>3. \A e \in Current(v) : \A b \in e.blocks \ e.left : Has(v, b)
      BY <1>1, <1>2, <1>3, <1>6, <2>1 DEF OfThisQuery, SameRows, Current
    <3> QED  BY <3>1, <3>2, <3>3 DEF OfThisQuery
  <2>5. Current(v) = {} <=> Current(w) = {}
    BY <1>1, <1>2, <2>1 DEF Current, SameRows
  <2>6. FlagFits(v)
    BY <1>2, <1>3, <2>1, <2>5 DEF FlagFits
  <2>7. Covered(v)
    BY <1>1, <1>2, <2>1 DEF Covered, Current, SameRows
  <2> QED  BY <1>1, <1>2, <1>4, <2>2, <2>3, <2>4, <2>6, <2>7 DEF Kept
<1>10. CASE c.left = {f.block}
  <2>1. /\ v.calls = w.calls \ {c}
        /\ c.generation = w.generation => (v.loading <=> InFlight(v) # {})
        /\ c.generation # w.generation => v.loading = w.loading
    BY <1>1, <1>10 DEF Finished
  <2>2. CallsApart(v)
    BY <1>2, <1>3, <2>1 DEF CallsApart, SameRows
  <2>3. OnePerBlock(v, {})
    <3>1. \A g \in w.fetches : \E e \in v.calls : e.generation = g.generation /\ g.block \in e.left
      BY <1>1, <1>7, <1>10, <1>11, <2>1
    <3>2. \A e \in v.calls : \A b \in e.left :
            \E g \in w.fetches : g.generation = e.generation /\ g.block = b
      BY <1>1, <1>12, <2>1
    <3>3. \A g \in Asked(v, {}) :
            /\ g.generation <= v.generation
            /\ \E e \in v.calls : e.generation = g.generation /\ g.block \in e.left
      BY <1>2, <1>8, <3>1 DEF SameRows
    <3> QED  BY <1>2, <1>8, <3>2, <3>3 DEF OnePerBlock
  <2>4. OfThisQuery(v, {})
    <3>1. \A g \in Asked(v, {}) : g.generation = v.generation => g.params = v.params
      BY <1>2, <1>3 DEF OfThisQuery, SameRows
    <3>2. \A b \in Blocks : v.rows[b] # Hole => v.rows[b].params = v.params /\ v.counted
      BY <1>2, <1>3 DEF OfThisQuery, SameRows
    <3>3. \A e \in Current(v) : \A b \in e.blocks \ e.left : Has(v, b)
      BY <1>2, <1>3, <2>1 DEF OfThisQuery, SameRows, Current
    <3> QED  BY <3>1, <3>2, <3>3 DEF OfThisQuery
  <2>5. FlagFits(v)
    <3>1. CASE c.generation = w.generation
      <4>1. \A e \in Current(v) : e.blocks # {}
        BY <2>2 DEF CallsApart, Current
      <4>2. InFlight(v) # {} <=> Current(v) # {}
        BY <4>1, InFlightIs
      <4> QED  BY <2>1, <3>1, <4>2 DEF FlagFits
    <3>2. CASE c.generation # w.generation
      <4>1. Current(v) = Current(w)
        BY <1>2, <2>1, <3>2 DEF Current, SameRows
      <4> QED  BY <1>2, <1>3, <2>1, <3>2, <4>1 DEF FlagFits
    <3> QED  BY <3>1, <3>2
  <2>6. Covered(v)
    <3> SUFFICES ASSUME NEW b \in BlocksFor(w.lastRange), ~Has(w, b)
                 PROVE  \E e \in Current(v) : b \in e.blocks
      BY <1>2 DEF Covered
    <3>1. PICK e \in Current(w) : b \in e.blocks
      BY DEF Covered
    <3>2. b \in e.left
      BY <1>3, <3>1 DEF OfThisQuery
    <3>3. e # c
      BY <1>1, <1>6, <1>10, <3>1, <3>2 DEF Current
    <3> QED  BY <1>2, <2>1, <3>1, <3>3 DEF Current, SameRows
  <2> QED  BY <1>1, <1>2, <1>4, <2>2, <2>3, <2>4, <2>5, <2>6 DEF Kept
<1> QED  BY <1>9, <1>10
-----------------------------------------------------------------------------
(* The events *)

Events == {"items", "other"}

LEMMA WindowOfIs ==
    ASSUME NEW total \in Totals \cup {0}, NEW scroll \in Scrolls \cup {0}
    PROVE  WindowOf(total, scroll) \in Ranges
BY DEF Ranges

LEMMA LagIs ==
    ASSUME NEW q \in Seq(Events), NEW e \in Events
    PROVE  Lag(q, e) \in Seq(Events) /\ ~Untold(Lag(q, "items"))
<1>1. CASE Len(q) < Capacity
  <2>1. Lag(q, e) = Append(q, e) /\ Lag(q, "items") = Append(q, "items")
    BY <1>1 DEF Lag
  <2>2. Append(q, "items")[Len(q) + 1] = "items" /\ Len(Append(q, "items")) = Len(q) + 1
        /\ Len(q) \in Nat
    BY DEF Events
  <2> QED  BY <2>1, <2>2 DEF Untold
<1>2. CASE ~(Len(q) < Capacity)
  <2>1. Lag(q, e) = Append(Tail(q), e) /\ Lag(q, "items") = Append(Tail(q), "items")
    BY <1>2 DEF Lag
  <2>2. q # <<>>
    BY <1>2, ListsAssumption
  <2>3. Tail(q) \in Seq(Events)
    BY <2>2
  <2> DEFINE t == Tail(q)
  <2> HIDE DEF t
  <2>4. Append(t, "items")[Len(t) + 1] = "items" /\ Len(Append(t, "items")) = Len(t) + 1
        /\ Len(t) \in Nat /\ Append(t, e) \in Seq(Events)
    BY <2>3 DEF Events, t
  <2> QED  BY <2>1, <2>4 DEF Untold, t
<1> QED  BY <1>1, <1>2

LEMMA UntoldTail ==
    ASSUME NEW q \in Seq(Events), q # <<>>
    PROVE  /\ Tail(q) \in Seq(Events)
           /\ Head(q) # "items" /\ Untold(Tail(q)) => Untold(q)
<1>1. Tail(q) \in Seq(Events) /\ Len(Tail(q)) = Len(q) - 1 /\ Len(q) \in Nat
      /\ Head(q) = q[1] /\ \A i \in 1 .. Len(q) - 1 : Tail(q)[i] = q[i + 1]
  OBVIOUS
<1>2. ASSUME Head(q) # "items", Untold(Tail(q)), NEW i \in 1 .. Len(q)
      PROVE  q[i] # "items"
  <2>1. CASE i = 1
    BY <1>1, <1>2, <2>1
  <2>2. CASE i # 1
    <3>1. i - 1 \in 1 .. Len(q) - 1 /\ (i - 1) + 1 = i
      BY <1>1, <2>2
    <3> QED  BY <1>1, <1>2, <3>1 DEF Untold
  <2> QED  BY <2>1, <2>2
<1> QED  BY <1>1, <1>2 DEF Untold

-----------------------------------------------------------------------------
(* The invariant, step by step *)

(* What a step that leaves the table and the events alone has to show      *)
LEMMA ViewKeeps ==
    ASSUME IInv, UNCHANGED <<server, feed, page>>, failures' \in Nat,
           list' \in Lists, windowed' \in Windows,
           grid' \in [scroll : Scrolls \cup {0}, reported : Ranges, tracking : BOOLEAN],
           chosen' \in Filters,
           Kept(windowed', {}), Covered(windowed'), ListKept(list'),
           Fresh(windowed, version, totals) => Fresh(windowed', version, totals),
           ListFresh(list, version, totals) => ListFresh(list', version, totals)
    PROVE  IInv'
<1>1. /\ version' = version /\ totals' = totals /\ queue' = queue /\ stream' = stream
      /\ missed' = missed /\ page' = page
  BY DEF server, feed
<1>2. TypeOK'
  BY <1>1 DEF IInv, TypeOK
<1>3. Told' <=> Told
  BY <1>1 DEF Told, Untold
<1>4. Kept(windowed, {})' /\ Covered(windowed)' /\ ListKept(list)'
  OBVIOUS
<1>5. Told' => IF page' = "server" THEN Fresh(windowed', version', totals')
               ELSE ListFresh(list', version', totals')
  BY <1>1, <1>3 DEF IInv
<1> QED  BY <1>2, <1>4, <1>5 DEF IInv

(* What a step that leaves the view alone has to show                      *)
LEMMA FeedKeeps ==
    ASSUME IInv, UNCHANGED view, failures' = failures,
           version' \in Nat, totals' \in [Filters -> Totals], queue' \in Seq(Events),
           stream' \in {"up", "down"}, missed' \in BOOLEAN,
           Told' => Told /\ version' = version /\ totals' = totals
    PROVE  IInv'
<1>1. page' = page /\ list' = list /\ windowed' = windowed /\ grid' = grid /\ chosen' = chosen
  BY DEF view
<1>2. TypeOK'
  BY <1>1 DEF IInv, TypeOK, Events
<1>3. Kept(windowed, {})' /\ Covered(windowed)' /\ ListKept(list)'
  BY <1>1 DEF IInv
<1>4. Told' => IF page' = "server" THEN Fresh(windowed', version', totals')
               ELSE ListFresh(list', version', totals')
  BY <1>1 DEF IInv
<1> QED  BY <1>2, <1>3, <1>4 DEF IInv

LEMMA ChangeKeeps == ASSUME IInv, Change PROVE IInv'
<1>1. /\ version' = version + 1 /\ totals' \in [Filters -> Totals] /\ Announce("items")
      /\ UNCHANGED view /\ failures' = failures
  BY DEF Change
<1>2. /\ version \in Nat /\ queue \in Seq(Events) /\ stream \in {"up", "down"}
      /\ missed \in BOOLEAN /\ "items" \in Events
  BY DEF IInv, TypeOK, Events
<1>3. /\ queue' \in Seq(Events) /\ stream' = stream /\ missed' \in BOOLEAN /\ ~Told'
  <2>1. CASE stream = "down"
    BY <1>1, <1>2, <2>1 DEF Announce, Told
  <2>2. CASE stream # "down"
    <3>1. queue' = Lag(queue, "items") /\ stream' = stream
          /\ missed' = (missed \/ (~Untold(queue) /\ Untold(queue')))
      BY <1>1, <2>2 DEF Announce
    <3>2. ~Untold(queue') /\ queue' \in Seq(Events)
      BY <1>2, <3>1, LagIs
    <3> QED  BY <3>1, <3>2 DEF Told, Untold
  <2> QED  BY <2>1, <2>2
<1> QED  BY <1>1, <1>2, <1>3, FeedKeeps

LEMMA OtherChangeKeeps == ASSUME IInv, OtherChange PROVE IInv'
<1>1. Announce("other") /\ UNCHANGED view /\ failures' = failures /\ version' = version
      /\ totals' = totals
  BY DEF OtherChange, server
<1>2. /\ version \in Nat /\ totals \in [Filters -> Totals] /\ queue \in Seq(Events)
      /\ stream \in {"up", "down"} /\ missed \in BOOLEAN /\ "other" \in Events
  BY DEF IInv, TypeOK, Events
<1>3. /\ queue' \in Seq(Events) /\ stream' = stream /\ missed' \in BOOLEAN /\ (Told' => Told)
  <2>1. CASE stream = "down"
    BY <1>1, <1>2, <2>1 DEF Announce, Told, Untold
  <2>2. CASE stream # "down"
    <3>1. queue' = Lag(queue, "other") /\ stream' = stream
          /\ missed' = (missed \/ (~Untold(queue) /\ Untold(queue')))
      BY <1>1, <2>2 DEF Announce
    <3>2. queue' \in Seq(Events)
      BY <1>2, <3>1, LagIs
    <3>3. Told' <=> ~missed' /\ Untold(queue')
      BY DEF Told, Untold
    <3> QED  BY <3>1, <3>2, <3>3 DEF Told
  <2> QED  BY <2>1, <2>2
<1> QED  BY <1>1, <1>2, <1>3, FeedKeeps

LEMMA ConnectionKeeps == ASSUME IInv, Disconnect \/ Reconnect PROVE IInv'
<1>1. UNCHANGED view /\ failures' = failures /\ version' = version /\ totals' = totals
  BY DEF Disconnect, Reconnect, server
<1>2. /\ version \in Nat /\ totals \in [Filters -> Totals] /\ queue \in Seq(Events)
      /\ missed \in BOOLEAN
  BY DEF IInv, TypeOK, Events
<1>3. CASE Disconnect
  <2>1. queue' = <<>> /\ stream' = "down" /\ missed' = (missed \/ ~Untold(queue))
    BY <1>3 DEF Disconnect
  <2>2. Told' => Told
    BY <2>1 DEF Told
  <2> QED  BY <1>1, <1>2, <2>1, <2>2, FeedKeeps
<1>4. CASE Reconnect
  <2>1. queue' = queue /\ stream' = "up" /\ missed' = missed
    BY <1>4 DEF Reconnect
  <2>2. Told' => Told
    BY <2>1 DEF Told, Untold
  <2> QED  BY <1>1, <1>2, <2>1, <2>2, FeedKeeps
<1> QED  BY <1>3, <1>4
(* What a step that refetches has to show                                  *)
LEMMA RefetchKeeps ==
    ASSUME IInv, UNCHANGED server, failures' = failures,
           queue' \in Seq(Events), stream' = stream, missed' \in BOOLEAN,
           page' \in {"client", "server"}, Kept(windowed', {}), Covered(windowed'),
           grid' \in [scroll : Scrolls \cup {0}, reported : Ranges, tracking : BOOLEAN],
           chosen' \in Filters,
           ListKept(list'),
           IF page' = "server" THEN Fresh(windowed', version, totals)
           ELSE ListFresh(list', version, totals)
    PROVE  IInv'
<1>1. version' = version /\ totals' = totals
  BY DEF server
<1>2. windowed' \in Windows /\ list' \in Lists
  BY DEF Kept, ListKept
<1>3. TypeOK'
  BY <1>1, <1>2 DEF IInv, TypeOK, Events
<1> QED  BY <1>1, <1>3 DEF IInv

LEMMA DeliverKeeps == ASSUME IInv, Deliver PROVE IInv'
<1>1. /\ queue # <<>> /\ queue' = Tail(queue) /\ UNCHANGED server /\ stream' = stream
      /\ failures' = failures
  BY DEF Deliver
<1>2. /\ queue \in Seq(Events) /\ missed \in BOOLEAN /\ page \in {"client", "server"}
      /\ grid \in [scroll : Scrolls \cup {0}, reported : Ranges, tracking : BOOLEAN]
      /\ version \in Nat /\ totals \in [Filters -> Totals] /\ stream \in {"up", "down"}
      /\ Kept(windowed, {}) /\ Covered(windowed) /\ ListKept(list)
  BY DEF IInv, TypeOK, Events
<1>3. queue' \in Seq(Events) /\ (Head(queue) # "items" /\ Untold(queue') => Untold(queue))
  BY <1>1, <1>2, UntoldTail
<1>4. CASE Head(queue) = "items"
  <2>0. chosen \in Filters
    BY DEF IInv, TypeOK
  <2>1. /\ IF page = "client" THEN list' = Load(list) /\ windowed' = windowed
           ELSE windowed' = Refresh(windowed) /\ list' = list
        /\ missed' = FALSE /\ page' = page /\ grid' = grid /\ chosen' = chosen
    BY <1>4 DEF Deliver, Invalidate
  <2>2. CASE page = "client"
    <3>1. ListKept(list') /\ ListFresh(list', version, totals)
      BY <1>2, <2>1, <2>2, LoadKeeps
    <3>2. Kept(windowed', {}) /\ Covered(windowed')
      BY <1>2, <2>1, <2>2
    <3> QED  BY <1>1, <1>2, <1>3, <2>0, <2>1, <2>2, <3>1, <3>2, RefetchKeeps
  <2>3. CASE page = "server"
    <3>1. Kept(windowed', {}) /\ Covered(windowed') /\ Fresh(windowed', version, totals)
      BY <1>2, <2>1, <2>3, RefreshKeeps
    <3>2. ListKept(list')
      BY <1>2, <2>1, <2>3
    <3> QED  BY <1>1, <1>2, <1>3, <2>0, <2>1, <2>3, <3>1, <3>2, RefetchKeeps
  <2> QED  BY <1>2, <2>2, <2>3
<1>5. CASE Head(queue) # "items"
  <2>1. missed' = missed /\ UNCHANGED view
    BY <1>5 DEF Deliver
  <2>2. Told' => Told
    BY <1>3, <1>5, <2>1 DEF Told, Untold
  <2> QED  BY <1>1, <1>2, <1>3, <2>1, <2>2, FeedKeeps DEF server
<1> QED  BY <1>4, <1>5

(* A grid that has just been mounted                                       *)
LEMMA MountedIs ==
    /\ ListKept(Load(NewList)) /\ \A ver, tot : ListFresh(Load(NewList), ver, tot)
    /\ LET w == EnsureRange(EnsureRange(NewWindowed, <<0, 0>>), Whole) IN
       Kept(w, {}) /\ Covered(w) /\ \A ver, tot : Fresh(w, ver, tot)
    /\ NoGrid \in [scroll : Scrolls \cup {0}, reported : Ranges, tracking : BOOLEAN]
    /\ [NoGrid EXCEPT !.tracking = TRUE]
         \in [scroll : Scrolls \cup {0}, reported : Ranges, tracking : BOOLEAN]
<1>1. <<0, 0>> \in Ranges /\ Whole \in Ranges
  BY DEF Ranges
<1> DEFINE v == EnsureRange(NewWindowed, <<0, 0>>)
           w == EnsureRange(v, Whole)
<1>2. Kept(v, {}) /\ \A ver, tot : Fresh(v, ver, tot)
  BY <1>1, NewWindowedIs, EnsureRangeKeeps
<1> HIDE DEF v
<1>3. Kept(w, {}) /\ Covered(w) /\ \A ver, tot : Fresh(w, ver, tot)
  BY <1>1, <1>2, EnsureRangeKeeps
<1>4. ListKept(Load(NewList)) /\ \A ver, tot : ListFresh(Load(NewList), ver, tot)
  BY NewListIs, LoadKeeps
<1>5. /\ NoGrid \in [scroll : Scrolls \cup {0}, reported : Ranges, tracking : BOOLEAN]
      /\ [NoGrid EXCEPT !.tracking = TRUE]
           \in [scroll : Scrolls \cup {0}, reported : Ranges, tracking : BOOLEAN]
  BY <1>1 DEF NoGrid
<1> QED  BY <1>3, <1>4, <1>5 DEF v

LEMMA ToggleKeeps == ASSUME IInv, Toggle PROVE IInv'
<1>1. /\ UNCHANGED server /\ queue' = queue /\ stream' = stream /\ failures' = failures
      /\ missed' = FALSE /\ queue \in Seq(Events) /\ chosen' \in Filters
  BY DEF Toggle, IInv, TypeOK, Events
<1>2. CASE MountClient
  BY <1>1, <1>2, MountedIs, NewWindowedIs, RefetchKeeps DEF MountClient
<1>3. CASE MountServer
  BY <1>1, <1>3, MountedIs, NewListIs, RefetchKeeps DEF MountServer
<1> QED  BY <1>2, <1>3 DEF Toggle

(* Requests *)

LEMMA AnswerIs ==
    ASSUME IInv, NEW params \in Filters
    PROVE  /\ Answer(params) \in Answers /\ Failed \in Answers /\ Waiting \in Answers
           /\ Answer(params) = [version |-> version, total |-> totals[params]]
BY DEF Answer, IInv, TypeOK, Answers, Served

LEMMA AnswerLoadKeeps ==
    ASSUME IInv, NEW load \in list.loads, NEW a \in {Failed, Answer(AllRows)},
           AnswerLoad(load, a), failures' \in Nat
    PROVE  IInv'
<1>1. a \in Answers /\ a \in {Waiting, Failed, [version |-> version, total |-> totals[AllRows]]}
  BY AnswerIs, ListsAssumption
<1>2. /\ list' = [list EXCEPT !.loads = (@ \ {load}) \cup {[load EXCEPT !.answer = a]}]
      /\ UNCHANGED <<server, feed, page>> /\ windowed' = windowed /\ grid' = grid /\ chosen' = chosen
  BY DEF AnswerLoad
<1>3. ListKept(list') /\ (ListFresh(list, version, totals) => ListFresh(list', version, totals))
  BY <1>1, <1>2, AnsweredLoadKeeps DEF IInv
<1>4. list' \in Lists
  BY <1>3 DEF ListKept
<1>5. /\ Kept(windowed', {}) /\ Covered(windowed') /\ windowed' \in Windows
      /\ Fresh(windowed, version, totals) => Fresh(windowed', version, totals)
      /\ grid' \in [scroll : Scrolls \cup {0}, reported : Ranges, tracking : BOOLEAN] /\ chosen' \in Filters
  BY <1>2 DEF IInv, TypeOK
<1> QED  BY <1>2, <1>3, <1>4, <1>5, ViewKeeps

LEMMA AnswerFetchKeeps ==
    ASSUME IInv, NEW f \in windowed.fetches, NEW a \in {Failed, Answer(f.params)},
           AnswerFetch(f, a), failures' \in Nat
    PROVE  IInv'
<1>1. f.params \in Filters
  BY WindowHas DEF IInv, TypeOK, Requests
<1>2. a \in Answers /\ a \in {Waiting, Failed, [version |-> version, total |-> totals[f.params]]}
  BY <1>1, AnswerIs
<1>3. /\ windowed' = [windowed EXCEPT !.fetches = (@ \ {f}) \cup {[f EXCEPT !.answer = a]}]
      /\ UNCHANGED <<server, feed, page>> /\ list' = list /\ grid' = grid /\ chosen' = chosen
  BY DEF AnswerFetch
<1>4. /\ Kept(windowed', {}) /\ Covered(windowed')
      /\ Fresh(windowed, version, totals) => Fresh(windowed', version, totals)
  BY <1>2, <1>3, AnsweredFetchKeeps DEF IInv
<1>5. windowed' \in Windows
  BY <1>4 DEF Kept
<1>6. /\ ListKept(list') /\ list' \in Lists
      /\ ListFresh(list, version, totals) => ListFresh(list', version, totals)
      /\ grid' \in [scroll : Scrolls \cup {0}, reported : Ranges, tracking : BOOLEAN] /\ chosen' \in Filters
  BY <1>3 DEF IInv, TypeOK
<1> QED  BY <1>3, <1>4, <1>5, <1>6, ViewKeeps

LEMMA AnswersKeep ==
    ASSUME IInv,
           \/ Fail
           \/ \E load \in list.loads : ServeList(load)
           \/ \E f \in windowed.fetches : ServeBlock(f)
    PROVE  IInv'
<1>1. failures \in Nat
  BY DEF IInv, TypeOK
<1>2. CASE Fail
  <2>1. failures' \in Nat
    BY <1>1, <1>2 DEF Fail
  <2> QED  BY <1>2, <2>1, AnswerLoadKeeps, AnswerFetchKeeps DEF Fail
<1>3. CASE \E load \in list.loads : ServeList(load)
  BY <1>1, <1>3, AnswerLoadKeeps DEF ServeList
<1>4. CASE \E f \in windowed.fetches : ServeBlock(f)
  BY <1>1, <1>4, AnswerFetchKeeps DEF ServeBlock
<1> QED  BY <1>2, <1>3, <1>4

LEMMA ReceiveListKeeps ==
    ASSUME IInv, NEW load \in list.loads, ReceiveList(load) PROVE IInv'
<1>1. /\ load.answer # Waiting /\ list' = Loaded(list, load)
      /\ UNCHANGED <<server, feed, page>> /\ failures' = failures
      /\ windowed' = windowed /\ grid' = grid /\ chosen' = chosen
  BY DEF ReceiveList
<1>2. ListKept(list') /\ (ListFresh(list, version, totals) => ListFresh(list', version, totals))
  BY <1>1, LoadedKeeps DEF IInv
<1>3. list' \in Lists
  BY <1>2 DEF ListKept
<1>4. /\ Kept(windowed', {}) /\ Covered(windowed') /\ windowed' \in Windows
      /\ Fresh(windowed, version, totals) => Fresh(windowed', version, totals)
      /\ grid' \in [scroll : Scrolls \cup {0}, reported : Ranges, tracking : BOOLEAN] /\ chosen' \in Filters
      /\ failures' \in Nat
  BY <1>1 DEF IInv, TypeOK
<1> QED  BY <1>1, <1>2, <1>3, <1>4, ViewKeeps

(* What a step of the server grid has to show                              *)
LEMMA GridKeeps ==
    ASSUME IInv, UNCHANGED <<server, feed, failures, page, list>>,
           Kept(windowed', {}), Covered(windowed'),
           Fresh(windowed, version, totals) => Fresh(windowed', version, totals),
           grid' \in [scroll : Scrolls \cup {0}, reported : Ranges, tracking : BOOLEAN], chosen' \in Filters
    PROVE  IInv'
<1>1. windowed' \in Windows
  BY DEF Kept
<1>2. /\ ListKept(list') /\ list' \in Lists /\ failures' \in Nat
      /\ ListFresh(list, version, totals) => ListFresh(list', version, totals)
  BY DEF IInv, TypeOK
<1> QED  BY <1>1, <1>2, ViewKeeps

LEMMA ReportKeeps ==
    ASSUME NEW w, NEW late, Kept(w, late), Covered(w), NEW range \in Ranges,
           NEW v, v = Report(w, range)
    PROVE  /\ Kept(v, late) /\ Covered(v)
           /\ \A f \in v.fetches : f \in w.fetches \/ f.answer = Waiting
           /\ \A ver, tot : Fresh(w, ver, tot) => Fresh(v, ver, tot)
BY EnsureRangeKeeps DEF Report

LEMMA ReceiveBlockKeeps ==
    ASSUME IInv, NEW f \in windowed.fetches, ReceiveBlock(f) PROVE IInv'
<1> DEFINE arrived == Arrive(windowed, f)
           window == WindowOf(arrived.totalCount, grid.scroll)
           reported == Report(arrived, window)
           finished == Finish(reported, f)
<1>1. /\ f.answer # Waiting /\ windowed' = finished
      /\ grid' = [grid EXCEPT !.reported = window]
      /\ UNCHANGED <<server, feed, failures, page, list>> /\ chosen' = chosen
  BY DEF ReceiveBlock, Show
<1>2. /\ Kept(arrived, {f}) /\ Covered(arrived) /\ f \notin arrived.fetches
      /\ \A ver, tot : Fresh(windowed, ver, tot) => Fresh(arrived, ver, tot)
  BY <1>1, ArriveKeeps DEF IInv
<1> HIDE DEF arrived
<1>3. /\ grid \in [scroll : Scrolls \cup {0}, reported : Ranges, tracking : BOOLEAN]
      /\ arrived.totalCount \in Totals \cup {0} /\ chosen \in Filters
  BY <1>2, WindowHas DEF Kept, IInv, TypeOK
<1>4. window \in Ranges
  BY <1>3, WindowOfIs
<1> HIDE DEF window
<1>5. /\ Kept(reported, {f}) /\ Covered(reported) /\ f \notin reported.fetches
      /\ \A ver, tot : Fresh(arrived, ver, tot) => Fresh(reported, ver, tot)
  BY <1>1, <1>2, <1>4, ReportKeeps
<1> HIDE DEF reported
<1>6. /\ Kept(finished, {}) /\ Covered(finished)
      /\ \A ver, tot : Fresh(reported, ver, tot) => Fresh(finished, ver, tot)
  BY <1>5, FinishKeeps
<1> HIDE DEF finished
<1>7. /\ grid' \in [scroll : Scrolls \cup {0}, reported : Ranges, tracking : BOOLEAN]
      /\ chosen' \in Filters
  BY <1>1, <1>3, <1>4
<1> QED  BY <1>1, <1>2, <1>5, <1>6, <1>7, GridKeeps

LEMMA ScrollKeeps == ASSUME IInv, Scroll PROVE IInv'
<1>1. PICK s \in Scrolls :
         /\ windowed' = Report(windowed, WindowOf(windowed.totalCount, s))
         /\ grid' = [grid EXCEPT !.scroll = s, !.reported = WindowOf(windowed.totalCount, s)]
         /\ UNCHANGED <<server, feed, failures, page, list>> /\ chosen' = chosen
  BY DEF Scroll
<1>2. /\ grid \in [scroll : Scrolls \cup {0}, reported : Ranges, tracking : BOOLEAN]
      /\ windowed.totalCount \in Totals \cup {0} /\ chosen \in Filters
  BY WindowHas DEF IInv, TypeOK
<1> DEFINE window == WindowOf(windowed.totalCount, s)
<1>3. window \in Ranges
  BY <1>2, WindowOfIs
<1>4. windowed' = Report(windowed, window) /\ grid' = [grid EXCEPT !.scroll = s, !.reported = window]
  BY <1>1
<1> HIDE DEF window
<1>5. /\ grid' \in [scroll : Scrolls \cup {0}, reported : Ranges, tracking : BOOLEAN]
      /\ chosen' \in Filters
  BY <1>1, <1>2, <1>3, <1>4
<1>6. /\ Kept(windowed', {}) /\ Covered(windowed')
      /\ Fresh(windowed, version, totals) => Fresh(windowed', version, totals)
  BY <1>3, <1>4, ReportKeeps DEF IInv
<1> QED  BY <1>1, <1>5, <1>6, GridKeeps

LEMMA ChangeParamsKeeps == ASSUME IInv, ChangeParams PROVE IInv'
<1>1. PICK params \in Filters :
         LET w == EnsureRange(SetParams(windowed, params), grid.reported)
         IN /\ chosen' = params
            /\ IF grid.tracking
               THEN /\ windowed' = EnsureRange(w, Whole)
                    /\ grid' = [grid EXCEPT !.tracking = ToFetch(w, Whole) # {}]
               ELSE windowed' = w /\ UNCHANGED grid
  BY DEF ChangeParams
<1> DEFINE u == SetParams(windowed, params)
           w == EnsureRange(u, grid.reported)
           some == ToFetch(w, Whole) # {}
<1>2. /\ grid \in [scroll : Scrolls \cup {0}, reported : Ranges, tracking : BOOLEAN]
      /\ grid.reported \in Ranges /\ Whole \in Ranges
      /\ UNCHANGED <<server, feed, failures, page, list>>
  BY DEF IInv, TypeOK, Ranges, ChangeParams
<1>3. Bumped(u, windowed, params)
  BY BumpIs DEF IInv, TypeOK
<1> HIDE DEF u
<1>4. Kept(u, {}) /\ \A ver, tot : Fresh(u, ver, tot)
  BY <1>3, BumpedKeeps DEF IInv
<1>5. Kept(w, {}) /\ Covered(w) /\ \A ver, tot : Fresh(w, ver, tot)
  BY <1>2, <1>4, EnsureRangeKeeps
<1>6. some \in BOOLEAN
  OBVIOUS
<1>7. IF grid.tracking THEN windowed' = EnsureRange(w, Whole) /\ grid' = [grid EXCEPT !.tracking = some]
      ELSE windowed' = w /\ grid' = grid
  BY <1>1 DEF u
<1> HIDE DEF w, some
<1>8. /\ grid' \in [scroll : Scrolls \cup {0}, reported : Ranges, tracking : BOOLEAN]
      /\ chosen' \in Filters
  BY <1>1, <1>2, <1>6, <1>7
<1>9. Kept(windowed', {}) /\ Covered(windowed') /\ Fresh(windowed', version, totals)
  BY <1>2, <1>5, <1>7, EnsureRangeKeeps
<1> QED  BY <1>2, <1>8, <1>9, GridKeeps

-----------------------------------------------------------------------------
LEMMA InitInv == Init => IInv
<1> SUFFICES ASSUME Init PROVE IInv
  OBVIOUS
<1>1. /\ version = 0 /\ totals \in [Filters -> Totals] /\ queue = <<>> /\ stream = "up"
      /\ missed = FALSE /\ failures = 0 /\ page = "server" /\ list = NewList
      /\ windowed = EnsureRange(EnsureRange(NewWindowed, <<0, 0>>), Whole)
      /\ grid = [NoGrid EXCEPT !.tracking = TRUE] /\ chosen \in Filters
  BY ListsAssumption DEF Init
<1>2. Kept(windowed, {}) /\ Covered(windowed) /\ ListKept(list) /\ Fresh(windowed, version, totals)
  BY <1>1, NewListIs, MountedIs
<1>3. TypeOK
  <2>1. windowed \in Windows /\ list \in Lists
    BY <1>2 DEF Kept, ListKept
  <2>2. grid \in [scroll : Scrolls \cup {0}, reported : Ranges, tracking : BOOLEAN]
    BY <1>1, MountedIs
  <2>3. queue \in Seq({"items", "other"})
    BY <1>1
  <2> QED  BY <1>1, <2>1, <2>2, <2>3 DEF TypeOK
<1> QED  BY <1>1, <1>2, <1>3 DEF IInv

LEMMA NextKeeps == ASSUME IInv, [Next]_vars PROVE IInv'
<1>1. CASE Next
  BY <1>1, ToggleKeeps, ChangeKeeps, OtherChangeKeeps, ConnectionKeeps, DeliverKeeps,
     ScrollKeeps, ChangeParamsKeeps, AnswersKeep, ReceiveListKeeps, ReceiveBlockKeeps DEF Next
<1>2. CASE UNCHANGED vars
  <2>1. UNCHANGED view /\ failures' = failures /\ version' = version /\ totals' = totals
        /\ queue' = queue /\ stream' = stream /\ missed' = missed
    BY <1>2 DEF vars, view
  <2>2. /\ version \in Nat /\ totals \in [Filters -> Totals] /\ queue \in Seq(Events)
        /\ stream \in {"up", "down"} /\ missed \in BOOLEAN /\ (Told' => Told)
    BY <2>1 DEF IInv, TypeOK, Events, Told, Untold
  <2> QED  BY <2>1, <2>2, FeedKeeps
<1> QED  BY <1>1, <1>2

(* What is known of the two lists, of their requests and of the events, in *)
(* every reachable state: the theorems below follow from it.               *)
THEOREM Invariant == Spec => []IInv
<1>1. IInv /\ [Next]_vars => IInv'
  BY NextKeeps
<1> QED  BY <1>1, InitInv, PTL DEF Spec

(* The state has its types.                                                *)
THEOREM TypeCorrect == Spec => []TypeOK
<1>1. IInv => TypeOK
  BY DEF IInv
<1> QED  BY <1>1, Invariant, PTL

(* However loads overlap and whatever order they come back in, the client  *)
(* grid ends up with the rows of the table as it is.                       *)
THEOREM ClientGridEndsCurrent == Spec => []ClientGridCurrent
<1>1. IInv => ClientGridCurrent
  <2> SUFFICES ASSUME IInv, page = "client", Quiet, ~list.error
               PROVE  list.rows = Answer(AllRows)
    BY DEF ClientGridCurrent
  <2>1. ListFresh(list, version, totals)
    BY DEF IInv, Quiet, Told
  <2>2. \A x \in list.loads : x.token # list.token
    BY DEF Quiet, Loads
  <2> QED  BY <2>1, <2>2 DEF ListFresh, Answer
<1> QED  BY <1>1, Invariant, PTL

(* However blocks, parameters, scrolling and refreshes overlap, the range  *)
(* last asked for ends up with the rows of the table as it is.             *)
THEOREM RangeEndsCurrent == Spec => []RangeCurrent
<1>1. IInv => RangeCurrent
  <2> SUFFICES ASSUME IInv, page = "server", Quiet,
                      BlocksFor(windowed.lastRange) \ windowed.failed # {}
               PROVE  Shown(windowed.lastRange)
    BY DEF RangeCurrent
  <2>1. /\ Kept(windowed, {}) /\ Covered(windowed) /\ windowed \in Windows
        /\ Fresh(windowed, version, totals)
    BY DEF IInv, Quiet, Told, TypeOK
  <2>2. BlocksFor(windowed.lastRange) \subseteq Blocks
    BY <2>1, WindowHas, ListsAssumption
  <2>3. Current(windowed) = {}
    <3> SUFFICES ASSUME NEW c \in Current(windowed) PROVE FALSE
      OBVIOUS
    <3>1. PICK b \in c.left : TRUE
      BY <2>1 DEF Kept, CallsApart, Current
    <3>2. c \in windowed.calls /\ c.generation = windowed.generation
      BY DEF Current
    <3>3. PICK f \in windowed.fetches : f.generation = windowed.generation /\ f.block = b
      BY <2>1, <3>1, <3>2 DEF Kept, OnePerBlock, Asked
    <3>4. b \in Blocks
      BY <2>1, <3>1, <3>2, WindowHas DEF Calls
    <3> QED  BY <3>3, <3>4 DEF Quiet, Fetches
  <2>4. \A b \in BlocksFor(windowed.lastRange) \ windowed.failed :
          /\ windowed.rows[b] # Hole /\ windowed.rows[b].version = version
          /\ windowed.rows[b].params = windowed.params /\ windowed.counted
    BY <2>1, <2>2, <2>3 DEF Covered, Has, Kept, OfThisQuery, Fresh
  <2>5. \A b \in BlocksFor(windowed.lastRange) \ windowed.failed :
          windowed.rows[b] = [version |-> version, params |-> windowed.params]
    <3> SUFFICES ASSUME NEW b \in BlocksFor(windowed.lastRange) \ windowed.failed
                 PROVE  windowed.rows[b] = [version |-> version, params |-> windowed.params]
      OBVIOUS
    <3>1. windowed.rows[b] \in [version : Nat, params : Filters]
      BY <2>1, <2>2, <2>4, WindowHas
    <3> QED  BY <2>4, <3>1
  <2>6. windowed.totalCount = totals[windowed.params]
    BY <2>1, <2>4 DEF Fresh
  <2> QED  BY <2>5, <2>6 DEF Shown
<1> QED  BY <1>1, Invariant, PTL

(* Rows fetched under other parameters are never shown with these.         *)
THEOREM OnlyThisQuery == Spec => []OneQuery
<1>1. IInv => OneQuery
  BY DEF IInv, Kept, OfThisQuery, OneQuery
<1> QED  BY <1>1, Invariant, PTL

(* The flag of either list is neither switched off by an overtaken request *)
(* nor left on by one.                                                     *)
THEOREM FlagTellsWaiting == Spec => []LoadingWhileWaiting
<1>1. IInv => LoadingWhileWaiting
  <2> SUFFICES ASSUME IInv PROVE LoadingWhileWaiting
    OBVIOUS
  <2>1. /\ Kept(windowed, {}) /\ Covered(windowed) /\ windowed \in Windows /\ ListKept(list)
        /\ list \in Lists
    BY DEF IInv, TypeOK
  <2>2. list.loading = (Loads(list.token) # {})
    BY <2>1 DEF ListKept, Lists, Loads
  <2>3. ASSUME BlocksFor(windowed.lastRange) # {}
        PROVE  windowed.loading = (\E b \in Blocks : Fetches(windowed.generation, b) # {})
    <3>1. windowed.loading <=> Current(windowed) # {}
      <4>1. BlocksFor(windowed.lastRange) \subseteq Blocks
        BY <2>1, WindowHas, ListsAssumption
      <4> QED  BY <2>1, <2>3, <4>1 DEF Kept, FlagFits, Covered
    <3>2. ASSUME NEW c \in Current(windowed)
          PROVE  \E b \in Blocks : Fetches(windowed.generation, b) # {}
      <4>1. PICK b \in c.left : TRUE
        BY <2>1 DEF Kept, CallsApart, Current
      <4>2. c \in windowed.calls /\ c.generation = windowed.generation
        BY DEF Current
      <4>3. PICK f \in windowed.fetches : f.generation = windowed.generation /\ f.block = b
        BY <2>1, <4>1, <4>2 DEF Kept, OnePerBlock, Asked
      <4>4. b \in Blocks
        BY <2>1, <4>1, <4>2, WindowHas DEF Calls
      <4> QED  BY <4>3, <4>4 DEF Fetches
    <3>3. ASSUME NEW b \in Blocks, Fetches(windowed.generation, b) # {}
          PROVE  Current(windowed) # {}
      <4>1. PICK f \in windowed.fetches : f.generation = windowed.generation
        BY <3>3 DEF Fetches
      <4> QED  BY <2>1, <4>1 DEF Kept, OnePerBlock, Asked, Current
    <3>4. windowed.loading \in BOOLEAN
      BY <2>1 DEF Windows
    <3> QED  BY <3>1, <3>2, <3>3, <3>4
  <2> QED  BY <2>2, <2>3 DEF LoadingWhileWaiting
<1> QED  BY <1>1, Invariant, PTL
==============================================================================
