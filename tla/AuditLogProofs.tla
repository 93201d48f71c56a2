---------------------------- MODULE AuditLogProofs ----------------------------
(***************************************************************************)
(* Proofs about AuditLog, for every set of overlapping calls, every policy *)
(* and any number of entries: a prune is sufficient, and it takes an entry *)
(* that the policy keeps only if it has been overtaken.                    *)
(*                                                                         *)
(* Both rest on what a prune knows between its COUNT and its DELETE: the   *)
(* entries there were when it counted are no more than its limit and its   *)
(* excess together, and exactly as many as long as nobody overtakes it.    *)
(***************************************************************************)
EXTENDS AuditLog, FiniteSetTheorems, WellFoundedInduction, TLAPS

(* The entries left of those there were when c counted *)
Counted(c) == {id \in rows : id < op[c].horizon}

(* A DELETE to come still removes what its limit does not allow.           *)
EnoughExcess(c) ==
    step[c] = "deleteExcess" => Cardinality(Counted(c)) <= op[c].max + op[c].excess

(* A prune nobody has overtaken works with the policy in force, and has    *)
(* counted exactly.                                                        *)
UpToDate(c) ==
    ~raced[c] =>
        /\ step[c] \in {"readRows", "deleteAged", "count", "deleteExcess"} =>
             op[c].days = policy.days
        /\ step[c] \in {"deleteAged", "count", "deleteExcess"} => op[c].max = policy.max
        /\ step[c] = "deleteExcess" =>
             Cardinality(Counted(c)) = op[c].max + op[c].excess

HorizonPassed(c) == step[c] = "deleteExcess" => op[c].horizon <= nextId

IInv ==
    /\ TypeOK
    /\ \A c \in Calls : EnoughExcess(c) /\ UpToDate(c) /\ HorizonPassed(c)

-----------------------------------------------------------------------------
(* Counting *)

LEMMA LeastElement ==
    ASSUME NEW S \in SUBSET Nat, S # {}
    PROVE  \E x \in S : \A y \in S : x <= y
<1> DEFINE Less == OpToRel(<, Nat)
<1>1. IsWellFoundedOn(Less, Nat)
  BY NatLessThanWellFounded, Zenon
<1>2. \A x, y \in Nat : y < x => <<y, x>> \in Less
  BY DEF OpToRel
<1> HIDE DEF Less
<1>3. PICK x \in S : \A y \in S : ~(<<y, x>> \in Less)
  BY <1>1, WFMin
<1>4. \A y \in S : x \in Nat /\ y \in Nat /\ ~(y < x)
  BY <1>2, <1>3
<1> QED  BY <1>4

(* The table is finite, and so is every part of it.                        *)
LEMMA PartsAreFinite ==
    ASSUME TypeOK, NEW S \in SUBSET rows
    PROVE  IsFiniteSet(S) /\ Cardinality(S) \in Nat /\ S \in SUBSET Nat
<1>1. nextId \in Int /\ rows \subseteq 1..(nextId - 1)
  BY IdAssumption DEF TypeOK
<1>2. IsFiniteSet(1..(nextId - 1))
  BY <1>1, FS_Interval
<1>3. IsFiniteSet(S)
  BY <1>1, <1>2, FS_Subset
<1>4. S \in SUBSET Nat
  BY <1>1
<1> QED  BY <1>3, <1>4, FS_CardinalityType

(* Of the ids below h, deleting the n oldest rows leaves all but n.        *)
LEMMA OldestGoFirst ==
    ASSUME TypeOK, NEW h \in Nat, NEW n \in Nat, NEW m \in Nat,
           Cardinality({id \in rows : id < h}) <= m + n
    PROVE  Cardinality({id \in rows \ Oldest(n) : id < h}) <= m
<1> DEFINE R == {id \in rows : id < h}
           K == {id \in rows \ Oldest(n) : id < h}
<1>1. K \in SUBSET rows /\ R \in SUBSET rows /\ K \subseteq R
  OBVIOUS
<1>2. CASE K = {}
  BY <1>2, FS_EmptySet
<1>3. CASE K # {}
  <2>1. PICK x \in K : \A y \in K : x <= y
    BY <1>1, <1>3, PartsAreFinite, LeastElement
  <2> DEFINE B == {other \in rows : other < x}
  <2>2. B \in SUBSET rows
    OBVIOUS
  <2>3. Cardinality(B) \in Nat /\ IsFiniteSet(B)
    BY <2>2, PartsAreFinite
  <2>4. Cardinality(B) >= n
    BY <2>1, <2>3 DEF Oldest
  <2>5. x \in Nat /\ x < h /\ rows \subseteq Nat
    BY <2>1, <1>1, PartsAreFinite
  <2>6. B \cap K = {} /\ B \cup K \in SUBSET R
    <3>1. ASSUME NEW y \in B PROVE y \notin K
      <4>1. y \in Nat /\ y < x
        BY <2>5
      <4>2. ~(x <= y)
        BY <4>1, <2>5
      <4> QED  BY <4>2, <2>1
    <3>2. ASSUME NEW y \in B PROVE y \in R
      <4>1. y \in Nat /\ y < x /\ y \in rows
        BY <2>5
      <4>2. y < h
        BY <4>1, <2>5
      <4> QED  BY <4>1, <4>2
    <3> HIDE DEF B, K, R
    <3> QED  BY <3>1, <3>2, <1>1
  <2>7. Cardinality(K) \in Nat /\ IsFiniteSet(K) /\ IsFiniteSet(R) /\ Cardinality(R) \in Nat
    BY <1>1, PartsAreFinite
  <2> HIDE DEF B, K, R
  <2>8. Cardinality(B \cup K) = Cardinality(B) + Cardinality(K)
    BY <2>3, <2>6, <2>7, FS_Union, FS_EmptySet
  <2>9. Cardinality(B \cup K) <= Cardinality(R)
    BY <2>6, <2>7, FS_Subset
  <2>10. Cardinality(R) <= m + n
    BY DEF R
  <2>11. Cardinality(K) <= m
    BY <2>3, <2>4, <2>7, <2>8, <2>9, <2>10
  <2> QED  BY <2>11 DEF K
<1> QED  BY <1>2, <1>3

(* If m + n rows are there, each of the n oldest has m above it.           *)
LEMMA OldestAreExcess ==
    ASSUME TypeOK, NEW R \in SUBSET rows, NEW n \in Nat, NEW m \in Nat,
           Cardinality(R) = m + n, NEW id \in Oldest(n)
    PROVE  Cardinality({other \in rows : other > id}) >= m
<1> DEFINE Below == {other \in rows : other < id}
           Above == {other \in rows : other > id}
<1>1. id \in rows /\ rows \subseteq Nat
  BY PartsAreFinite DEF Oldest
<1>2. /\ IsFiniteSet(Below) /\ Cardinality(Below) \in Nat
      /\ IsFiniteSet(Above) /\ Cardinality(Above) \in Nat
  BY PartsAreFinite
<1>3. Cardinality(Below) < n
  BY <1>2 DEF Oldest
<1>4. R \subseteq (Below \cup {id}) \cup Above /\ id \notin Below
      /\ (Below \cup {id}) \cap Above = {}
  <2>1. \A y \in R : y \in rows /\ y \in Nat /\ id \in Nat
    BY <1>1
  <2>2. R \subseteq (Below \cup {id}) \cup Above
    BY <2>1
  <2>3. id \notin Below /\ id \notin Above
    BY <1>1
  <2>4. \A y \in Below : y \notin Above
    BY <1>1
  <2> HIDE DEF Below, Above
  <2> QED  BY <2>2, <2>3, <2>4
<1> HIDE DEF Below, Above
<1>5. IsFiniteSet(Below \cup {id}) /\ Cardinality(Below \cup {id}) = Cardinality(Below) + 1
  BY <1>2, <1>4, FS_AddElement
<1> DEFINE All == (Below \cup {id}) \cup Above
<1>6. /\ IsFiniteSet(All)
      /\ Cardinality(All) = (Cardinality(Below) + 1) + Cardinality(Above)
  <2>1. Cardinality((Below \cup {id}) \cap Above) = 0
    BY <1>4, FS_EmptySet
  <2>2. /\ IsFiniteSet(All)
        /\ Cardinality(All) = Cardinality(Below \cup {id}) + Cardinality(Above)
                               - Cardinality((Below \cup {id}) \cap Above)
    BY <1>2, <1>5, FS_Union
  <2> QED  BY <2>1, <2>2, <1>2, <1>5
<1>7. Cardinality(R) <= (Cardinality(Below) + 1) + Cardinality(Above)
  BY <1>4, <1>6, FS_Subset
<1>8. Cardinality(Above) >= m
  BY <1>2, <1>3, <1>7
<1> QED  BY <1>8 DEF Above

-----------------------------------------------------------------------------
(* The invariant *)

Operation == [days : BOOLEAN, max : Nat, excess : Nat, horizon : 0..(MaxId + 1)]

LEMMA InitInv == Init => IInv
<1> SUFFICES ASSUME Init PROVE IInv
  OBVIOUS
<1>1. policy \in [days : BOOLEAN, max : Nat] /\ MaxId \in Nat
  BY PolicyAssumption, IdAssumption DEF Init
<1>2. NoOp \in Operation
  BY <1>1 DEF NoOp, Operation
<1>3. TypeOK
  BY <1>1, <1>2 DEF Init, TypeOK, Steps, Operation
<1> QED  BY <1>3 DEF Init, IInv, EnoughExcess, UpToDate, HorizonPassed

(* Whatever a call deletes or changes, the others keep what they know, or  *)
(* know that they have been overtaken.                                     *)
LEMMA OthersKeep ==
    ASSUME IInv, NEW c \in Calls, NEW d \in Calls, d # c, Overtake(c),
           rows' \subseteq rows, nextId' = nextId, step'[d] = step[d], op'[d] = op[d]
    PROVE  EnoughExcess(d)' /\ UpToDate(d)' /\ HorizonPassed(d)'
<1>1. HorizonPassed(d)'
  BY DEF IInv, HorizonPassed
<1>2. /\ Counted(d)' \subseteq Counted(d)
      /\ rows' = rows => Counted(d)' = Counted(d)
  BY DEF Counted
<1>3. EnoughExcess(d)'
  <2>1. CASE step[d] # "deleteExcess"
    BY <2>1 DEF EnoughExcess
  <2>2. CASE step[d] = "deleteExcess"
    <3>1. IsFiniteSet(Counted(d)) /\ Cardinality(Counted(d)) \in Nat
      BY PartsAreFinite DEF IInv, Counted
    <3>2. /\ Cardinality(Counted(d)') <= Cardinality(Counted(d))
          /\ Cardinality(Counted(d)') \in Nat
      BY <1>2, <3>1, FS_Subset, FS_CardinalityType
    <3>3. Cardinality(Counted(d)) <= op[d].max + op[d].excess
      BY <2>2 DEF IInv, EnoughExcess
    <3>4. op[d].max \in Nat /\ op[d].excess \in Nat
      BY DEF IInv, TypeOK
    <3> QED  BY <3>1, <3>2, <3>3, <3>4 DEF EnoughExcess
  <2> QED  BY <2>1, <2>2
<1>4. raced'[d] = (step[d] # "idle" /\ (raced[d] \/ <<rows, policy>>' # <<rows, policy>>))
  BY DEF Overtake
<1>5. UpToDate(d)'
  <2>1. CASE step[d] = "idle"
    BY <2>1 DEF UpToDate
  <2>2. CASE step[d] # "idle" /\ raced'[d]
    BY <2>2 DEF UpToDate
  <2>3. CASE step[d] # "idle" /\ ~raced'[d]
    <3>1. rows' = rows /\ policy' = policy /\ ~raced[d]
      BY <1>4, <2>3
    <3> QED  BY <1>2, <3>1 DEF IInv, UpToDate
  <2> QED  BY <2>1, <2>2, <2>3
<1> QED  BY <1>1, <1>3, <1>5

(* What is left to show of a step of c: its types, and what c then knows.  *)
LEMMA CallKeeps ==
    ASSUME IInv, NEW c \in Calls, Overtake(c),
           rows' \subseteq rows, nextId' = nextId, aged' = aged,
           policy' \in [days : BOOLEAN, max : Nat],
           NEW s \in Steps, step' = [step EXCEPT ![c] = s],
           op' \in [Calls -> Operation], \A d \in Calls \ {c} : op'[d] = op[d],
           s = "deleteExcess" => op'[c].excess > 0 /\ op'[c].max > 0,
           (EnoughExcess(c) /\ UpToDate(c) /\ HorizonPassed(c))'
    PROVE  IInv'
<1>1. /\ step' \in [Calls -> Steps] /\ step'[c] = s
      /\ \A d \in Calls \ {c} : step'[d] = step[d]
  BY DEF IInv, TypeOK
<1>2. raced' \in [Calls -> BOOLEAN]
  BY DEF Overtake, IInv, TypeOK
<1>3. TypeOK'
  BY <1>1, <1>2 DEF IInv, TypeOK, Operation
<1>4. \A d \in Calls \ {c} : (EnoughExcess(d) /\ UpToDate(d) /\ HorizonPassed(d))'
  BY <1>1, OthersKeep
<1> QED  BY <1>3, <1>4 DEF IInv

(* A call that is over, and one that is not past its COUNT, knows nothing  *)
(* of excess.                                                              *)
LEMMA FinishKeeps ==
    ASSUME IInv, NEW c \in Calls, Finish(c), Overtake(c),
           rows' \subseteq rows, nextId' = nextId, aged' = aged,
           policy' \in [days : BOOLEAN, max : Nat]
    PROVE  IInv'
<1>1. NoOp \in Operation
  BY IdAssumption DEF NoOp, Operation
<1>2. /\ op' \in [Calls -> Operation] /\ \A d \in Calls \ {c} : op'[d] = op[d]
      /\ step'[c] = "idle"
  BY <1>1 DEF Finish, Goto, IInv, TypeOK, Operation
<1>3. (EnoughExcess(c) /\ UpToDate(c) /\ HorizonPassed(c))'
  BY <1>2 DEF EnoughExcess, UpToDate, HorizonPassed
<1>4. "idle" \in Steps /\ step' = [step EXCEPT ![c] = "idle"]
  BY DEF Steps, Finish, Goto
<1> QED  BY <1>2, <1>3, <1>4, CallKeeps

(* The steps of a change of the policy *)
LEMMA PolicyKeeps ==
    ASSUME IInv, NEW c \in Calls, SetDays(c) \/ SetRows(c), Overtake(c)
    PROVE  IInv'
<1>1. CASE SetDays(c)
  <2>1. PICK new \in Policies :
          /\ policy' = [policy EXCEPT !.days = new.days]
          /\ op' = [op EXCEPT ![c].max = new.max]
    BY <1>1 DEF SetDays
  <2>2. /\ policy' \in [days : BOOLEAN, max : Nat]
        /\ op' \in [Calls -> Operation] /\ \A d \in Calls \ {c} : op'[d] = op[d]
    BY <2>1, PolicyAssumption DEF IInv, TypeOK, Operation
  <2>3. /\ step' = [step EXCEPT ![c] = "setRows"] /\ "setRows" \in Steps
        /\ step'[c] = "setRows" /\ rows' = rows /\ nextId' = nextId /\ aged' = aged
    BY <1>1 DEF SetDays, Goto, IInv, TypeOK, Steps
  <2>4. (EnoughExcess(c) /\ UpToDate(c) /\ HorizonPassed(c))'
    BY <2>3 DEF EnoughExcess, UpToDate, HorizonPassed
  <2> QED  BY <2>2, <2>3, <2>4, CallKeeps
<1>2. CASE SetRows(c)
  <2>1. policy' \in [days : BOOLEAN, max : Nat]
    BY <1>2 DEF SetRows, IInv, TypeOK
  <2> QED  BY <1>2, <2>1, FinishKeeps DEF SetRows
<1> QED  BY <1>1, <1>2

(* The steps of a prune up to its COUNT *)
LEMMA ReadKeeps ==
    ASSUME IInv, NEW c \in Calls, ReadDays(c) \/ ReadRows(c), Overtake(c)
    PROVE  IInv'
<1>1. rows' = rows /\ policy' = policy /\ nextId' = nextId /\ aged' = aged
  BY DEF ReadDays, ReadRows
<1>2. raced'[c] = (step'[c] # "idle" /\ raced[c])
  BY <1>1 DEF Overtake
<1>3. policy \in [days : BOOLEAN, max : Nat]
  BY DEF IInv, TypeOK
<1>4. CASE ReadDays(c)
  <2>1. /\ op' \in [Calls -> Operation] /\ \A d \in Calls \ {c} : op'[d] = op[d]
        /\ op'[c].days = policy.days
    BY <1>3, <1>4 DEF ReadDays, IInv, TypeOK, Operation
  <2>2. step' = [step EXCEPT ![c] = "readRows"] /\ "readRows" \in Steps /\ step'[c] = "readRows"
    BY <1>4 DEF ReadDays, Goto, IInv, TypeOK, Steps
  <2>3. (EnoughExcess(c) /\ UpToDate(c) /\ HorizonPassed(c))'
    BY <1>1, <2>1, <2>2 DEF EnoughExcess, UpToDate, HorizonPassed
  <2> QED  BY <1>1, <1>3, <2>1, <2>2, <2>3, CallKeeps
<1>5. CASE ReadRows(c)
  <2>1. /\ op' \in [Calls -> Operation] /\ \A d \in Calls \ {c} : op'[d] = op[d]
        /\ op'[c].days = op[c].days /\ op'[c].max = policy.max
    BY <1>3, <1>5 DEF ReadRows, IInv, TypeOK, Operation
  <2>2. /\ step' = [step EXCEPT ![c] = "deleteAged"] /\ "deleteAged" \in Steps
        /\ step'[c] = "deleteAged" /\ step[c] = "readRows"
    BY <1>5 DEF ReadRows, Goto, IInv, TypeOK, Steps
  <2>3. (EnoughExcess(c) /\ UpToDate(c) /\ HorizonPassed(c))'
    BY <1>1, <1>2, <2>1, <2>2 DEF IInv, EnoughExcess, UpToDate, HorizonPassed
  <2> QED  BY <1>1, <1>3, <2>1, <2>2, <2>3, CallKeeps
<1> QED  BY <1>4, <1>5

LEMMA DeleteAgedKeeps ==
    ASSUME IInv, NEW c \in Calls, DeleteAged(c), Overtake(c)
    PROVE  IInv'
<1>1. /\ rows' \subseteq rows /\ policy' = policy /\ nextId' = nextId /\ aged' = aged
      /\ op' = op /\ step[c] = "deleteAged"
  BY DEF DeleteAged
<1>2. step' = [step EXCEPT ![c] = "count"] /\ "count" \in Steps /\ step'[c] = "count"
  BY DEF DeleteAged, Goto, IInv, TypeOK, Steps
<1>3. raced'[c] = raced[c]
  BY <1>2 DEF Overtake, IInv, TypeOK
<1>4. (EnoughExcess(c) /\ UpToDate(c) /\ HorizonPassed(c))'
  BY <1>1, <1>2, <1>3 DEF IInv, EnoughExcess, UpToDate, HorizonPassed
<1>5. op' \in [Calls -> Operation] /\ policy' \in [days : BOOLEAN, max : Nat]
  BY <1>1 DEF IInv, TypeOK, Operation
<1> QED  BY <1>1, <1>2, <1>4, <1>5, CallKeeps

(* The COUNT sees every entry: its horizon is past them all.               *)
LEMMA CountKeeps ==
    ASSUME IInv, NEW c \in Calls, Count(c), Overtake(c)
    PROVE  IInv'
<1>1. /\ rows' = rows /\ policy' = policy /\ nextId' = nextId /\ aged' = aged
      /\ step[c] = "count"
  BY DEF Count
<1>2. step' = [step EXCEPT ![c] = "deleteExcess"] /\ "deleteExcess" \in Steps
      /\ step'[c] = "deleteExcess"
  BY DEF Count, Goto, IInv, TypeOK, Steps
<1>3. Cardinality(rows) \in Nat /\ nextId \in 0..(MaxId + 1)
  BY PartsAreFinite DEF IInv, TypeOK
<1>4. Excess(c) \in Nat /\ Excess(c) > 0 /\ op[c].max \in Nat /\ op[c].max > 0
      /\ Cardinality(rows) = op[c].max + Excess(c)
  BY <1>3 DEF Count, Excess, IInv, TypeOK
<1>5. /\ op' \in [Calls -> Operation] /\ \A d \in Calls \ {c} : op'[d] = op[d]
      /\ op'[c].days = op[c].days /\ op'[c].max = op[c].max
      /\ op'[c].excess = Excess(c) /\ op'[c].horizon = nextId
  <2> DEFINE n == Excess(c)
  <2>1. op' = [op EXCEPT ![c].excess = n, ![c].horizon = nextId] /\ n \in Nat
    BY <1>4 DEF Count
  <2> HIDE DEF n
  <2>2. op' \in [Calls -> Operation] /\ op'[c].excess = n
        /\ op'[c].days = op[c].days /\ op'[c].max = op[c].max
        /\ op'[c].horizon = nextId /\ \A d \in Calls \ {c} : op'[d] = op[d]
    BY <2>1, <1>3 DEF IInv, TypeOK, Operation
  <2> QED  BY <2>2 DEF n
<1>6. Counted(c)' = rows
  <2>1. \A id \in rows : id < nextId
    BY IdAssumption DEF IInv, TypeOK
  <2> QED  BY <1>1, <1>5, <2>1 DEF Counted
<1>7. raced'[c] = raced[c]
  BY <1>2 DEF Overtake, IInv, TypeOK
<1>8. EnoughExcess(c)' /\ HorizonPassed(c)'
  BY <1>1, <1>3, <1>4, <1>5, <1>6 DEF EnoughExcess, HorizonPassed
<1>9. UpToDate(c)'
  BY <1>1, <1>2, <1>4, <1>5, <1>6, <1>7 DEF IInv, UpToDate
<1>10. op'[c].excess > 0 /\ op'[c].max > 0 /\ policy' \in [days : BOOLEAN, max : Nat]
  BY <1>1, <1>4, <1>5 DEF IInv, TypeOK
<1> QED  BY <1>1, <1>2, <1>5, <1>8, <1>9, <1>10, CallKeeps

(* The world: entries are written above every horizon, and age.            *)
LEMMA RecordKeeps == ASSUME IInv, Record, UNCHANGED raced PROVE IInv'
<1>1. /\ rows' = rows \cup {nextId} /\ nextId' = nextId + 1 /\ nextId \in Int
      /\ UNCHANGED <<aged, policy, step, op, raced>>
  BY IdAssumption DEF Record, IInv, TypeOK
<1>2. TypeOK'
  BY <1>1, IdAssumption DEF Record, IInv, TypeOK, Ids, Operation
<1>3. ASSUME NEW c \in Calls PROVE (EnoughExcess(c) /\ UpToDate(c) /\ HorizonPassed(c))'
  <2>1. CASE step[c] # "deleteExcess"
    BY <1>1, <1>3, <2>1 DEF IInv, EnoughExcess, UpToDate, HorizonPassed
  <2>2. CASE step[c] = "deleteExcess"
    <3>1. op[c].horizon <= nextId /\ op[c].horizon \in Int
      BY <2>2, IdAssumption DEF IInv, HorizonPassed, TypeOK
    <3>2. Counted(c)' = Counted(c)
      BY <1>1, <3>1 DEF Counted
    <3>3. op[c].horizon <= nextId'
      BY <1>1, <3>1
    <3> QED  BY <1>1, <2>2, <3>2, <3>3 DEF IInv, EnoughExcess, UpToDate, HorizonPassed
  <2> QED  BY <2>1, <2>2
<1> QED  BY <1>2, <1>3 DEF IInv

LEMMA TimeKeeps == ASSUME IInv, TimePasses, UNCHANGED raced PROVE IInv'
<1>1. UNCHANGED <<rows, nextId, policy, step, op, raced>>
  BY DEF TimePasses
<1>2. TypeOK'
  BY <1>1, IdAssumption DEF TimePasses, IInv, TypeOK
<1> QED  BY <1>1, <1>2 DEF IInv, EnoughExcess, UpToDate, HorizonPassed, Counted

LEMMA NextInv == IInv /\ [Next]_vars => IInv'
<1> SUFFICES ASSUME IInv, [Next]_vars PROVE IInv'
  OBVIOUS
<1>1. CASE (Record \/ TimePasses) /\ UNCHANGED raced
  BY <1>1, RecordKeeps, TimeKeeps
<1>2. ASSUME NEW c \in Calls, Call(c), Overtake(c) PROVE IInv'
  <2>1. CASE SetDays(c) \/ SetRows(c)
    BY <1>2, <2>1, PolicyKeeps
  <2>2. CASE ReadDays(c) \/ ReadRows(c)
    BY <1>2, <2>2, ReadKeeps
  <2>3. CASE DeleteAged(c)
    BY <1>2, <2>3, DeleteAgedKeeps
  <2>4. CASE Count(c)
    BY <1>2, <2>4, CountKeeps
  <2>5. CASE NoExcess(c) \/ DeleteExcess(c) \/ CutShort(c)
    <3>1. rows' \subseteq rows /\ policy' = policy /\ nextId' = nextId /\ aged' = aged /\ Finish(c)
      BY <2>5 DEF NoExcess, DeleteExcess, CutShort
    <3> QED  BY <1>2, <3>1, FinishKeeps DEF IInv, TypeOK
  <2> QED  BY <1>2, <2>1, <2>2, <2>3, <2>4, <2>5 DEF Call
<1>3. CASE UNCHANGED vars
  BY <1>3 DEF vars, IInv, TypeOK, EnoughExcess, UpToDate, HorizonPassed, Counted
<1> QED  BY <1>1, <1>2, <1>3 DEF Next

THEOREM Invariant == Spec => []IInv
BY InitInv, NextInv, PTL DEF Spec

(* The types of the state.                                                 *)
THEOREM TypeCorrect == Spec => []TypeOK
BY Invariant, PTL DEF IInv

-----------------------------------------------------------------------------
(* What a step deletes *)

(* A step that moves a call on is that call's own.                         *)
LEMMA OwnStep ==
    ASSUME TypeOK, Next, NEW c \in Calls, step'[c] # step[c]
    PROVE  Call(c) /\ Overtake(c)
<1>1. CASE (Record \/ TimePasses) /\ UNCHANGED raced
  BY <1>1 DEF Record, TimePasses
<1>2. CASE \E d \in Calls : Call(d) /\ Overtake(d)
  <2>1. PICK d \in Calls : Call(d) /\ Overtake(d)
    BY <1>2
  <2>2. \E s \in Steps : step' = [step EXCEPT ![d] = s]
    BY <2>1 DEF Call, SetDays, SetRows, ReadDays, ReadRows, DeleteAged, Count, NoExcess,
       DeleteExcess, CutShort, Finish, Goto, Steps
  <2>3. d = c
    BY <2>2 DEF TypeOK
  <2> QED  BY <2>1, <2>3
<1> QED  BY <1>1, <1>2 DEF Next

LEMMA PruneStep ==
    ASSUME IInv, Next, NEW c \in Calls, step[c] = "deleteExcess", step'[c] = "idle", rows' # rows
    PROVE  Cardinality({id \in rows' : id < op[c].horizon}) <= op[c].max
<1>1. Call(c)
  BY OwnStep DEF IInv
<1>2. DeleteExcess(c)
  BY <1>1 DEF Call, SetDays, SetRows, ReadDays, ReadRows, DeleteAged, Count, NoExcess, CutShort
<1>3. /\ op[c].horizon \in Nat /\ op[c].max \in Nat /\ op[c].excess \in Nat
      /\ rows' = rows \ Oldest(op[c].excess)
  BY <1>2, IdAssumption DEF DeleteExcess, IInv, TypeOK
<1>4. Cardinality({id \in rows : id < op[c].horizon}) <= op[c].max + op[c].excess
  BY DEF IInv, EnoughExcess, Counted
<1>5. Cardinality({id \in rows \ Oldest(op[c].excess) : id < op[c].horizon}) <= op[c].max
  BY <1>3, <1>4, OldestGoFirst DEF IInv
<1> QED  BY <1>3, <1>5

(* A prune leaves no more of the entries it counted than its policy allows, *)
(* whatever other prunes and writers do in between.                         *)
THEOREM PruneIsSufficient == Spec => PruneSuffices
<1>1. IInv /\ [Next]_vars =>
        [\A c \in Calls : step[c] = "deleteExcess" /\ step'[c] = "idle" /\ rows' # rows =>
           Cardinality({id \in rows' : id < op[c].horizon}) <= op[c].max]_vars
  BY PruneStep
<1> QED  BY <1>1, Invariant, PTL DEF Spec, PruneSuffices

LEMMA KeptStep ==
    ASSUME IInv, Next, NEW c \in Calls, step'[c] # step[c], ~raced[c], NEW id \in rows \ rows'
    PROVE  Expendable(id)
<1>1. Call(c)
  BY OwnStep DEF IInv
<1>2. DeleteAged(c) \/ DeleteExcess(c)
  BY <1>1 DEF Call, SetDays, SetRows, ReadDays, ReadRows, Count, NoExcess, CutShort
<1>3. CASE DeleteAged(c)
  <2>1. op[c].days /\ id \in 1..aged
    BY <1>3 DEF DeleteAged
  <2>2. op[c].days = policy.days
    BY <1>3 DEF DeleteAged, IInv, UpToDate
  <2> QED  BY <2>1, <2>2 DEF Expendable
<1>4. CASE DeleteExcess(c)
  <2>1. /\ op[c].max \in Nat /\ op[c].excess \in Nat /\ op[c].max > 0
        /\ id \in Oldest(op[c].excess)
    BY <1>4 DEF DeleteExcess, IInv, TypeOK
  <2>2. op[c].max = policy.max /\ Cardinality(Counted(c)) = op[c].max + op[c].excess
    BY <1>4 DEF DeleteExcess, IInv, UpToDate
  <2>3. Counted(c) \in SUBSET rows
    BY DEF Counted
  <2>4. Cardinality({other \in rows : other > id}) >= op[c].max
    BY <2>1, <2>2, <2>3, OldestAreExcess DEF IInv
  <2> QED  BY <2>1, <2>2, <2>4 DEF Expendable
<1> QED  BY <1>2, <1>3, <1>4

(* A prune that nobody has overtaken takes only entries that the policy in *)
(* force does not keep.                                                    *)
THEOREM KeptUnlessOvertaken == Spec => KeptUnlessRaced
<1>1. IInv /\ [Next]_vars =>
        [\A c \in Calls :
           step'[c] # step[c] /\ (\E id \in rows \ rows' : ~Expendable(id)) => raced[c]]_vars
  BY KeptStep
<1> QED  BY <1>1, Invariant, PTL DEF Spec, KeptUnlessRaced

===============================================================================
