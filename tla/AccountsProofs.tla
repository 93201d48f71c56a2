---------------------------- MODULE AccountsProofs ---------------------------
(***************************************************************************)
(* Proofs about the accounts (Users) and the tokens of those who have      *)
(* logged in to the REST server (Sessions), for every set of concurrent    *)
(* calls, names and roles, any number of tokens, identities and requests,  *)
(* and any policy whose bounds exceed the clock lag.                       *)
(*                                                                         *)
(* The inductive invariant of Users says what each call may rely on        *)
(* between its read and its write.  Two results hold for overlapping calls *)
(* without qualification (the names, the target of a write); the guard on  *)
(* the last admin holds for a call nobody has overtaken, hence always      *)
(* where only one call runs at a time.                                     *)
(*                                                                         *)
(* That of Sessions adds to the checked invariants that the record of a    *)
(* token agrees with its history: lookups with late clock readings can     *)
(* move its idle timer back, but by no more than MaxLag.                   *)
(***************************************************************************)
EXTENDS Users, Sessions, TLAPS

HasTarget(w) == step[w] \in {"countUpdate", "update", "countDelete", "delete", "change"}

(* A call's account was handed out before, and is still the one it read.   *)
TargetKnown(w) ==
    HasTarget(w) =>
      /\ op[w].id \in Ids /\ op[w].id < nextId
      /\ Exists(op[w].id) => users[op[w].id].name = op[w].name

(* A call nobody has overtaken that is about to take a role away leaves    *)
(* another admin.                                                          *)
LeavesAdmin(w) ==
    /\ ~raced[w] /\ IsAdmin(op[w].id)
    /\ step[w] = "delete" \/ (step[w] = "update" /\ op[w].role # Admin)
    => OtherAdmin(op[w].id)

IInv ==
    /\ TypeOK
    /\ UsernamesUnique
    /\ \A w \in Workers : TargetKnown(w) /\ LeavesAdmin(w)

-----------------------------------------------------------------------------
(* Writing a password disturbs neither names nor roles.                    *)
LEMMA PasswordOnly ==
    ASSUME TypeOK, NEW id \in Ids, Exists(id), NEW p \in Passwords,
           users' = [users EXCEPT ![id].password = p]
    PROVE  /\ users' \in [Ids -> Row \cup {NoRow}]
           /\ \A i \in Ids : /\ Exists(i)' <=> Exists(i)
                             /\ IsAdmin(i)' <=> IsAdmin(i)
                             /\ Exists(i) => users'[i].name = users[i].name
<1>1. users[id] \in Row
  BY DEF TypeOK, Exists
<1>2. /\ users'[id] \in Row /\ users'[id].name = users[id].name
      /\ users'[id].role = users[id].role
  BY <1>1 DEF TypeOK, Row
<1>3. \A i \in Ids \ {id} : users'[i] = users[i]
  BY DEF TypeOK
<1>4. users' \in [Ids -> Row \cup {NoRow}]
  BY <1>2 DEF TypeOK
<1> QED  BY <1>1, <1>2, <1>3, <1>4, RowAssumption DEF Exists, IsAdmin

(* Writing a role disturbs no name.                                        *)
LEMMA RoleOnly ==
    ASSUME TypeOK, NEW id \in Ids, Exists(id), NEW r \in AllRoles,
           users' = [users EXCEPT ![id].role = r]
    PROVE  /\ users' \in [Ids -> Row \cup {NoRow}]
           /\ \A i \in Ids : /\ Exists(i)' <=> Exists(i)
                             /\ Exists(i) => users'[i].name = users[i].name
           /\ \A i \in Ids \ {id} : users'[i] = users[i]
           /\ users'[id].role = r /\ Exists(id)'
<1>1. users[id] \in Row
  BY DEF TypeOK, Exists
<1>2. /\ users'[id] \in Row /\ users'[id].name = users[id].name
      /\ users'[id].role = r
  BY <1>1 DEF TypeOK, Row
<1>3. \A i \in Ids \ {id} : users'[i] = users[i]
  BY DEF TypeOK
<1>4. users' \in [Ids -> Row \cup {NoRow}]
  BY <1>2 DEF TypeOK
<1> QED  BY <1>1, <1>2, <1>3, <1>4, RowAssumption DEF Exists

LEMMA InitInv == Init => IInv
<1> SUFFICES ASSUME Init PROVE IInv
  OBVIOUS
<1>1. TypeOK
  BY IdAssumption DEF Init, TypeOK, Steps, Exists, NoOp, Ids
<1>2. UsernamesUnique
  BY DEF Init, UsernamesUnique, Exists
<1>3. \A w \in Workers : TargetKnown(w) /\ LeavesAdmin(w)
  BY DEF Init, TargetKnown, HasTarget, LeavesAdmin
<1> QED  BY <1>1, <1>2, <1>3 DEF IInv

(* Beginning a call: the table is as it was, and so are the other calls.   *)
LEMMA BeginKeeps ==
    ASSUME IInv, NEW w \in Workers, NEW s \in Steps, s # "idle",
           NEW id \in Ids \cup {0}, NEW n \in Names, NEW p \in Passwords,
           NEW r \in AllRoles, Begin(w, s, id, n, p, r),
           s \in {"countUpdate", "update", "countDelete", "delete", "change"}
             => id \in Ids /\ id < nextId /\ Exists(id) /\ users[id].name = n,
           s = "update" /\ r # Admin => ~IsAdmin(id),
           s = "delete" => ~IsAdmin(id)
    PROVE  IInv'
<1> DEFINE others == Workers \ {w}
<1>1. /\ step'[w] = s /\ op'[w] = [id |-> id, name |-> n, password |-> p, role |-> r]
      /\ \A v \in others : step'[v] = step[v] /\ op'[v] = op[v] /\ raced'[v] = raced[v]
      /\ users' = users /\ nextId' = nextId
  BY DEF Begin, IInv, TypeOK
<1>2. TypeOK'
  <2>1. op'[w] \in Operation
    BY <1>1 DEF Operation
  <2>2. /\ step' \in [Workers -> Steps] /\ op' \in [Workers -> Operation \cup {NoOp}]
        /\ raced' \in [Workers -> BOOLEAN]
    BY <2>1 DEF Begin, IInv, TypeOK, Operation
  <2> QED  BY <1>1, <2>1, <2>2 DEF IInv, TypeOK, Exists
<1>3. UsernamesUnique'
  BY <1>1 DEF IInv, UsernamesUnique, Exists
<1>4. \A v \in others : (TargetKnown(v) /\ LeavesAdmin(v))'
  BY <1>1 DEF IInv, TargetKnown, HasTarget, LeavesAdmin, Exists, IsAdmin, OtherAdmin
<1>5. TargetKnown(w)'
  BY <1>1 DEF TargetKnown, HasTarget, Exists
<1>6. LeavesAdmin(w)'
  BY <1>1 DEF LeavesAdmin, IsAdmin, Exists
<1> QED  BY <1>2, <1>3, <1>4, <1>5, <1>6 DEF IInv

(* Ending a call, whatever it has written.                                 *)
LEMMA FinishTypes ==
    ASSUME IInv, NEW w \in Workers, Finish(w)
    PROVE  /\ step' \in [Workers -> Steps] /\ op' \in [Workers -> Operation \cup {NoOp}]
           /\ \A v \in Workers : step'[v] # "idle" => op'[v] \in Operation
           /\ step'[w] = "idle"
           /\ \A v \in Workers \ {w} : step'[v] = step[v] /\ op'[v] = op[v]
BY DEF Finish, IInv, TypeOK, Steps

(* A step of w that ends its call and overtakes every other one.           *)
LEMMA OvertakeKeeps ==
    ASSUME IInv, NEW w \in Workers, Finish(w), Overtake(w),
           users' \in [Ids -> Row \cup {NoRow}], nextId' \in 1..(MaxId + 1),
           nextId' >= nextId,
           \A id \in Ids : id >= nextId' => ~Exists(id)',
           UsernamesUnique',
           \A id \in Ids : id < nextId /\ Exists(id)'
                           => Exists(id) /\ users'[id].name = users[id].name
    PROVE  IInv'
<1>1. TypeOK'
  BY FinishTypes DEF IInv, TypeOK, Overtake
<1>2. ASSUME NEW v \in Workers PROVE TargetKnown(v)'
  <2>1. CASE ~HasTarget(v)'
    BY <2>1 DEF TargetKnown
  <2>2. CASE HasTarget(v)'
    <3>1. v # w /\ step'[v] = step[v] /\ op'[v] = op[v]
      BY <2>2, FinishTypes DEF HasTarget
    <3>2. /\ op[v].id \in Ids /\ op[v].id < nextId
          /\ Exists(op[v].id) => users[op[v].id].name = op[v].name
      BY <2>2, <3>1 DEF HasTarget, IInv, TargetKnown
    <3>3. PICK i \in Ids : i = op[v].id
      BY <3>2
    <3>4. nextId \in Nat /\ nextId' \in Nat /\ i \in Nat
      BY IdAssumption DEF IInv, TypeOK, Ids
    <3> QED  BY <3>1, <3>2, <3>3, <3>4 DEF TargetKnown, Exists
  <2> QED  BY <2>1, <2>2
<1>3. \A v \in Workers : LeavesAdmin(v)'
  BY FinishTypes DEF LeavesAdmin, Overtake
<1> QED  BY <1>1, <1>2, <1>3 DEF IInv

(* A password write, whether it ends a call (w) or is one statement.       *)
LEMMA PasswordKeeps ==
    ASSUME IInv, NEW id \in Ids, Exists(id), NEW p \in Passwords,
           users' = [users EXCEPT ![id].password = p], nextId' = nextId, raced' = raced,
           \/ \E w \in Workers : Finish(w)
           \/ step' = step /\ op' = op
    PROVE  IInv'
<1>1. /\ users' \in [Ids -> Row \cup {NoRow}]
      /\ \A i \in Ids : /\ Exists(i)' <=> Exists(i)
                        /\ IsAdmin(i)' <=> IsAdmin(i)
                        /\ Exists(i) => users'[i].name = users[i].name
  BY PasswordOnly DEF IInv
<1>2. /\ step' \in [Workers -> Steps] /\ op' \in [Workers -> Operation \cup {NoOp}]
      /\ \A v \in Workers : step'[v] # "idle" =>
            op'[v] \in Operation /\ step'[v] = step[v] /\ op'[v] = op[v]
  BY FinishTypes DEF IInv, TypeOK
<1>3. TypeOK'
  BY <1>1, <1>2 DEF IInv, TypeOK
<1>4. UsernamesUnique'
  BY <1>1 DEF IInv, UsernamesUnique
<1>5. ASSUME NEW v \in Workers PROVE TargetKnown(v)'
  <2>1. CASE ~HasTarget(v)'
    BY <2>1 DEF TargetKnown
  <2>2. CASE HasTarget(v)'
    <3>1. step'[v] = step[v] /\ op'[v] = op[v]
      BY <1>2, <2>2 DEF HasTarget
    <3>2. /\ op[v].id \in Ids /\ op[v].id < nextId
          /\ Exists(op[v].id) => users[op[v].id].name = op[v].name
      BY <2>2, <3>1 DEF HasTarget, IInv, TargetKnown
    <3>3. PICK i \in Ids : i = op[v].id
      BY <3>2
    <3> QED  BY <1>1, <3>1, <3>2, <3>3 DEF TargetKnown, Exists
  <2> QED  BY <2>1, <2>2
<1>6. ASSUME NEW v \in Workers PROVE LeavesAdmin(v)'
  <2>1. CASE ~(step'[v] \in {"delete", "update"})
    BY <2>1 DEF LeavesAdmin
  <2>2. CASE step'[v] \in {"delete", "update"}
    <3>1. step'[v] = step[v] /\ op'[v] = op[v]
      BY <1>2, <2>2
    <3>2. PICK i \in Ids : i = op[v].id
      BY <2>2, <3>1 DEF HasTarget, IInv, TargetKnown
    <3>3. IsAdmin(op[v].id)' => IsAdmin(op[v].id)
      BY <1>1, <3>1, <3>2 DEF IsAdmin, Exists
    <3>4. OtherAdmin(op[v].id) => OtherAdmin(op[v].id)'
      BY <1>1, <3>1, <3>2 DEF OtherAdmin
    <3> QED  BY <3>1, <3>3, <3>4 DEF IInv, LeavesAdmin
  <2> QED  BY <2>1, <2>2
<1> QED  BY <1>3, <1>4, <1>5, <1>6 DEF IInv

LEMMA NextInv == IInv /\ [Next]_vars => IInv'
<1> SUFFICES ASSUME IInv, [Next]_vars PROVE IInv'
  OBVIOUS
<1>1. ASSUME NEW id \in Ids, NEW p \in Passwords, ResetPassword(id, p) PROVE IInv'
  BY <1>1, PasswordKeeps DEF ResetPassword
<1>2. ASSUME NEW w \in Workers, NEW n \in Names, NEW p \in Passwords,
             SetupBegin(w, n, p)
      PROVE  IInv'
  BY <1>2, BeginKeeps DEF SetupBegin, Steps, AllRoles
<1>3. ASSUME NEW w \in Workers, NEW n \in Names, NEW p \in Passwords,
             NEW r \in AllRoles, CreateBegin(w, n, p, r)
      PROVE  IInv'
  BY <1>3, BeginKeeps DEF CreateBegin, Steps
<1>4. ASSUME NEW id \in Ids, Exists(id)
      PROVE  /\ users[id].name \in Names /\ users[id].password \in Passwords
             /\ users[id].role \in AllRoles /\ id < nextId
  BY <1>4, IdAssumption DEF IInv, TypeOK, Exists, Row, Ids
<1>5. ASSUME NEW w \in Workers, NEW id \in Ids, NEW r \in AllRoles,
             UpdateBegin(w, id, r)
      PROVE  IInv'
  <2>1. PICK n \in Names, p \in Passwords : n = users[id].name /\ p = users[id].password
    BY <1>4, <1>5 DEF UpdateBegin
  <2>2. CASE IsAdmin(id) /\ r # Admin
    <3>1. Begin(w, "countUpdate", id, n, p, r)
      BY <1>5, <2>1, <2>2 DEF UpdateBegin
    <3> QED  BY <1>4, <1>5, <2>1, <3>1, BeginKeeps DEF UpdateBegin, Steps
  <2>3. CASE ~(IsAdmin(id) /\ r # Admin)
    <3>1. Begin(w, "update", id, n, p, r)
      BY <1>5, <2>1, <2>3 DEF UpdateBegin
    <3> QED  BY <1>4, <1>5, <2>1, <2>3, <3>1, BeginKeeps DEF UpdateBegin, Steps
  <2> QED  BY <2>2, <2>3
<1>6. ASSUME NEW w \in Workers, NEW id \in Ids, NEW acting \in Ids,
             DeleteBegin(w, id, acting)
      PROVE  IInv'
  <2>1. PICK n \in Names, p \in Passwords, r \in AllRoles :
          n = users[id].name /\ p = users[id].password /\ r = users[id].role
    BY <1>4, <1>6 DEF DeleteBegin
  <2>2. CASE IsAdmin(id)
    <3>1. Begin(w, "countDelete", id, n, p, r)
      BY <1>6, <2>1, <2>2 DEF DeleteBegin
    <3> QED  BY <1>4, <1>6, <2>1, <3>1, BeginKeeps DEF DeleteBegin, Steps
  <2>3. CASE ~IsAdmin(id)
    <3>1. Begin(w, "delete", id, n, p, r)
      BY <1>6, <2>1, <2>3 DEF DeleteBegin
    <3> QED  BY <1>4, <1>6, <2>1, <2>3, <3>1, BeginKeeps DEF DeleteBegin, Steps
  <2> QED  BY <2>2, <2>3
<1>7. ASSUME NEW w \in Workers, NEW id \in Ids, NEW new \in Passwords,
             ChangeBegin(w, id, new)
      PROVE  IInv'
  <2>1. PICK n \in Names, r \in AllRoles : n = users[id].name /\ r = users[id].role
    BY <1>4, <1>7 DEF ChangeBegin
  <2>2. Begin(w, "change", id, n, new, r)
    BY <1>7, <2>1 DEF ChangeBegin
  <2> QED  BY <1>4, <1>7, <2>1, <2>2, BeginKeeps DEF ChangeBegin, Steps
<1>8. ASSUME NEW w \in Workers, Insert(w) PROVE IInv'
  <2>1. /\ nextId \in Ids /\ nextId \in Nat /\ nextId' = nextId + 1
        /\ op[w] \in Operation /\ ~NameTaken(op[w].name) /\ ~Exists(nextId)
    BY <1>8, IdAssumption DEF Insert, IInv, TypeOK, Ids
  <2> DEFINE row == [name |-> op[w].name, password |-> op[w].password,
                     role |-> op[w].role]
  <2>a. row \in Row /\ row.name = op[w].name
    BY <2>1 DEF Operation, Row
  <2>2. PICK new \in Row : new = row /\ new.name = op[w].name
    BY <2>a
  <2>3. users' = [users EXCEPT ![nextId] = new]
    BY <1>8, <2>2 DEF Insert
  <2>4. /\ users' \in [Ids -> Row \cup {NoRow}] /\ users'[nextId] = new
        /\ \A i \in Ids : i # nextId => users'[i] = users[i]
    BY <2>1, <2>3 DEF IInv, TypeOK
  <2>5. \A i \in Ids : i # nextId => (Exists(i)' <=> Exists(i))
    BY <2>4 DEF Exists
  <2>6. UsernamesUnique'
    <3>1. \A i \in Ids : i # nextId /\ Exists(i)' => users'[i].name # new.name
      BY <2>1, <2>2, <2>4, <2>5 DEF NameTaken
    <3> QED  BY <2>4, <2>5, <3>1 DEF UsernamesUnique, IInv
  <2>7. nextId' \in 1..(MaxId + 1) /\ nextId' >= nextId
    BY <2>1, IdAssumption DEF Ids
  <2>8. \A i \in Ids : i >= nextId' => ~Exists(i)'
    BY <2>1, <2>5 DEF IInv, TypeOK, Ids
  <2>9. \A i \in Ids : i < nextId /\ Exists(i)'
                        => Exists(i) /\ users'[i].name = users[i].name
    BY <2>1, <2>4, <2>5 DEF Ids
  <2> QED  BY <1>8, <2>4, <2>6, <2>7, <2>8, <2>9, OvertakeKeeps DEF Insert
<1>9. ASSUME NEW w \in Workers, Fail(w) \/ LastAdminRefused(w) \/ Gone(w) PROVE IInv'
  <2>1. Finish(w) /\ UNCHANGED <<users, nextId, raced>>
    BY <1>9 DEF Fail, LastAdminRefused, Gone
  <2>2. TypeOK' /\ UsernamesUnique'
    BY <2>1, FinishTypes DEF IInv, TypeOK, UsernamesUnique, Exists
  <2>3. \A v \in Workers : (TargetKnown(v) /\ LeavesAdmin(v))'
    BY <2>1, FinishTypes
    DEF IInv, TargetKnown, HasTarget, LeavesAdmin, Exists, IsAdmin, OtherAdmin
  <2> QED  BY <2>2, <2>3 DEF IInv
<1>10. ASSUME NEW w \in Workers, CountAdmins(w) PROVE IInv'
  <2>1. /\ UNCHANGED <<users, nextId, op, raced>>
        /\ step' \in [Workers -> Steps] /\ step[w] \in {"countUpdate", "countDelete"}
        /\ step'[w] \in {"update", "delete"} /\ OtherAdmin(op[w].id)
        /\ \A v \in Workers \ {w} : step'[v] = step[v]
    BY <1>10 DEF CountAdmins, IInv, TypeOK, Steps
  <2>2. TypeOK' /\ UsernamesUnique'
    BY <2>1 DEF IInv, TypeOK, UsernamesUnique, Exists
  <2>3. \A v \in Workers : TargetKnown(v)'
    BY <2>1 DEF IInv, TargetKnown, HasTarget, Exists
  <2>4. \A v \in Workers : LeavesAdmin(v)'
    BY <2>1 DEF IInv, LeavesAdmin, Exists, IsAdmin, OtherAdmin
  <2> QED  BY <2>2, <2>3, <2>4 DEF IInv
<1>11. ASSUME NEW w \in Workers, UpdateWrite(w) PROVE IInv'
  <2>1. PICK id \in Ids, r \in AllRoles :
          /\ id = op[w].id /\ r = op[w].role /\ Exists(id)
          /\ users' = [users EXCEPT ![id].role = r]
    BY <1>11 DEF UpdateWrite, IInv, TypeOK, TargetKnown, HasTarget, Operation
  <2>2. /\ users' \in [Ids -> Row \cup {NoRow}]
        /\ \A i \in Ids : /\ Exists(i)' <=> Exists(i)
                          /\ Exists(i) => users'[i].name = users[i].name
    BY <2>1, RoleOnly DEF IInv
  <2>3. UsernamesUnique' /\ \A i \in Ids : i >= nextId => ~Exists(i)'
    BY <2>2 DEF IInv, TypeOK, UsernamesUnique
  <2>4. nextId' = nextId /\ nextId \in 1..(MaxId + 1) /\ nextId >= nextId
    BY <1>11, IdAssumption DEF UpdateWrite, IInv, TypeOK
  <2> QED  BY <1>11, <2>2, <2>3, <2>4, OvertakeKeeps DEF UpdateWrite
<1>12. ASSUME NEW w \in Workers, DeleteWrite(w) PROVE IInv'
  <2>1. /\ users' \in [Ids -> Row \cup {NoRow}]
        /\ \A i \in Ids : users'[i] = NoRow \/ users'[i] = users[i]
    BY <1>12 DEF DeleteWrite, IInv, TypeOK
  <2>2. \A i \in Ids : Exists(i)' => Exists(i) /\ users'[i].name = users[i].name
    BY <2>1 DEF Exists
  <2>3. UsernamesUnique' /\ \A i \in Ids : i >= nextId => ~Exists(i)'
    BY <2>2 DEF IInv, TypeOK, UsernamesUnique
  <2>4. nextId' = nextId /\ nextId \in 1..(MaxId + 1) /\ nextId >= nextId
    BY <1>12, IdAssumption DEF DeleteWrite, IInv, TypeOK
  <2> QED  BY <1>12, <2>1, <2>2, <2>3, <2>4, OvertakeKeeps DEF DeleteWrite
<1>13. ASSUME NEW w \in Workers, ChangeWrite(w) PROVE IInv'
  <2>1. PICK id \in Ids, p \in Passwords :
          /\ Exists(id) /\ users' = [users EXCEPT ![id].password = p]
    BY <1>13 DEF ChangeWrite, IInv, TypeOK, TargetKnown, HasTarget, Operation
  <2> QED  BY <1>13, <2>1, PasswordKeeps DEF ChangeWrite
<1>14. CASE UNCHANGED vars
  BY <1>14 DEF vars, IInv, TypeOK, UsernamesUnique, TargetKnown, HasTarget,
               LeavesAdmin, Exists, IsAdmin, OtherAdmin
<1> QED
  BY <1>1, <1>2, <1>3, <1>5, <1>6, <1>7, <1>8, <1>9, <1>10, <1>11, <1>12, <1>13,
     <1>14 DEF Next

(* The invariant holds in every reachable state. *)
LEMMA Invariant == Spec => []IInv
BY InitInv, NextInv, PTL DEF Spec

-----------------------------------------------------------------------------
(* Theorems about overlapping calls *)

(* Types of the table and of the calls. *)
THEOREM TypeCorrect == Spec => []TypeOK
<1>1. IInv => TypeOK
  BY DEF IInv
<1> QED  BY <1>1, Invariant, PTL

(* Names stay unique, though two calls may find the same one free.         *)
THEOREM NamesStayUnique == Spec => []UsernamesUnique
<1>1. IInv => UsernamesUnique
  BY DEF IInv
<1> QED  BY <1>1, Invariant, PTL

(* Only these actions write to an account that exists, and each of them    *)
(* writes to the account of its call.                                      *)
LEMMA WritersOfRow ==
    ASSUME IInv, Next, NEW w \in Workers, NEW id \in Ids, WritesTo(w, id)
    PROVE  (UpdateWrite(w) \/ DeleteWrite(w) \/ ChangeWrite(w)) /\ id = op[w].id
<1>1. ASSUME NEW v \in Workers, UpdateWrite(v) \/ DeleteWrite(v) \/ ChangeWrite(v)
      PROVE  v = w /\ id = op[w].id
  <2>1. v = w
    BY <1>1 DEF UpdateWrite, DeleteWrite, ChangeWrite, Finish, WritesTo, IInv, TypeOK
  <2>2. \A i \in Ids : i # op[v].id => users'[i] = users[i]
    BY <1>1 DEF UpdateWrite, DeleteWrite, ChangeWrite, IInv, TypeOK
  <2> QED  BY <2>1, <2>2 DEF WritesTo
<1>2. ASSUME NEW v \in Workers, Insert(v) PROVE FALSE
  <2>1. \A i \in Ids : i # nextId => users'[i] = users[i]
    BY <1>2 DEF Insert, IInv, TypeOK
  <2>2. ~Exists(nextId)
    BY <1>2, IdAssumption DEF Insert, IInv, TypeOK, Ids
  <2> QED  BY <2>1, <2>2 DEF WritesTo
<1>3. users' # users /\ step'[w] # step[w]
  BY DEF WritesTo
<1>4. ~(\E i \in Ids, p \in Passwords : ResetPassword(i, p))
  BY <1>3 DEF ResetPassword
<1>5. ASSUME NEW v \in Workers
      PROVE  /\ ~(Fail(v) \/ LastAdminRefused(v) \/ CountAdmins(v) \/ Gone(v))
             /\ \A n \in Names, p \in Passwords : ~SetupBegin(v, n, p)
             /\ \A n \in Names, p \in Passwords, r \in AllRoles : ~CreateBegin(v, n, p, r)
             /\ \A i \in Ids, r \in AllRoles : ~UpdateBegin(v, i, r)
             /\ \A i \in Ids, a \in Ids : ~DeleteBegin(v, i, a)
             /\ \A i \in Ids, p \in Passwords : ~ChangeBegin(v, i, p)
  BY <1>3 DEF Fail, LastAdminRefused, CountAdmins, Gone, SetupBegin, CreateBegin,
              UpdateBegin, DeleteBegin, ChangeBegin, Begin
<1> QED  BY <1>1, <1>2, <1>4, <1>5 DEF Next

(* A write hits the account that was read, or nothing.                     *)
THEOREM WritesHitTheirTarget == Spec => WriteHitsWhatWasRead
<1>1. ASSUME IInv, Next, NEW w \in Workers, NEW id \in Ids, WritesTo(w, id)
      PROVE  id = op[w].id /\ users[id].name = op[w].name
  <2>1. HasTarget(w) /\ id = op[w].id
    BY <1>1, WritersOfRow DEF HasTarget, UpdateWrite, DeleteWrite, ChangeWrite
  <2> QED  BY <1>1, <2>1 DEF WritesTo, IInv, TargetKnown
<1>2. IInv /\ [Next]_vars =>
        [\A w \in Workers, id \in Ids :
           WritesTo(w, id) => id = op[w].id /\ users[id].name = op[w].name]_vars
  BY <1>1
<1> QED  BY <1>2, Invariant, PTL DEF Spec, WriteHitsWhatWasRead

(* A call that takes the last admin away has been overtaken.               *)
LEMMA LastAdminStep ==
    ASSUME IInv, Next, NEW w \in Workers, step[w] # step'[w],
           \E id \in Ids : IsAdmin(id),
           \A id \in Ids : users'[id] = NoRow \/ users'[id].role # Admin
    PROVE  raced[w]
<1>1. PICK id \in Ids : IsAdmin(id)
  OBVIOUS
<1>2. WritesTo(w, id)
  BY <1>1 DEF WritesTo, IsAdmin, Exists
<1>3. (UpdateWrite(w) \/ DeleteWrite(w) \/ ChangeWrite(w)) /\ id = op[w].id
  BY <1>1, <1>2, WritersOfRow
<1>4. \A other \in Ids : IsAdmin(other) => other = id
  BY <1>3, WritersOfRow DEF WritesTo, IsAdmin, Exists
<1>5. ~OtherAdmin(id)
  BY <1>4 DEF OtherAdmin
<1>6. ~ChangeWrite(w)
  <2> SUFFICES ASSUME ChangeWrite(w) PROVE FALSE
    OBVIOUS
  <2>1. users'[id] = [users[id] EXCEPT !.password = op[w].password] /\ users[id] \in Row
    BY <1>1, <1>3 DEF ChangeWrite, IInv, TypeOK, IsAdmin, Exists
  <2>2. users'[id].role = Admin /\ users'[id] \in [name : Names, password : {op[w].password}, role : AllRoles]
    BY <1>1, <2>1 DEF Row, IsAdmin
  <2>3. op[w].password \in Passwords
    BY DEF ChangeWrite, IInv, TypeOK, Operation
  <2> QED  BY <2>2, <2>3, RowAssumption DEF Row
<1>7. step[w] = "delete" \/ (step[w] = "update" /\ op[w].role # Admin)
  <2>1. CASE DeleteWrite(w)
    BY <2>1 DEF DeleteWrite
  <2>2. CASE UpdateWrite(w)
    <3>1. /\ users'[id].role = op[w].role /\ users'[id] # NoRow
          /\ step[w] = "update"
      <4>1. PICK r \in AllRoles : r = op[w].role
        BY <2>2 DEF UpdateWrite, IInv, TypeOK, Operation
      <4>2. users' = [users EXCEPT ![id].role = r] /\ Exists(id) /\ step[w] = "update"
        BY <1>3, <2>2, <4>1 DEF UpdateWrite
      <4>3. users'[id].role = r /\ Exists(id)'
        BY <4>2, RoleOnly DEF IInv
      <4> QED  BY <4>1, <4>2, <4>3 DEF Exists
    <3> QED  BY <3>1
  <2> QED  BY <1>3, <1>6, <2>1, <2>2
<1> QED  BY <1>1, <1>3, <1>5, <1>7 DEF IInv, LeavesAdmin, TypeOK

THEOREM LastAdminNeedsRace == Spec => LastAdminLostOnlyInRace
<1>1. IInv /\ [Next]_vars =>
        [\A w \in Workers :
           /\ step[w] # step'[w]
           /\ \E id \in Ids : IsAdmin(id)
           /\ \A id \in Ids : users'[id] = NoRow \/ users'[id].role # Admin
           => raced[w]]_vars
  BY LastAdminStep
<1> QED  BY <1>1, Invariant, PTL DEF Spec, LastAdminLostOnlyInRace

-----------------------------------------------------------------------------
(* Setup: what its check has seen holds until another call writes.         *)

SetupInv ==
    /\ IInv
    /\ \A w \in Workers : step[w] = "setup" /\ ~raced[w] => ~IsInitialized

LEMMA SetupInit == Init => SetupInv
<1> SUFFICES ASSUME Init PROVE SetupInv
  OBVIOUS
<1> QED  BY InitInv DEF Init, SetupInv

LEMMA SetupNext == SetupInv /\ [Next]_vars => SetupInv'
<1> SUFFICES ASSUME SetupInv, [Next]_vars PROVE SetupInv'
  OBVIOUS
<1>0. IInv /\ IInv'
  BY NextInv DEF SetupInv
<1> SUFFICES ASSUME NEW w \in Workers, step'[w] = "setup", ~raced'[w]
             PROVE  ~IsInitialized'
  BY <1>0 DEF SetupInv
<1>1. CASE UNCHANGED vars
  BY <1>1 DEF vars, SetupInv, IsInitialized, Exists
<1>2. ASSUME NEW id \in Ids, NEW p \in Passwords, ResetPassword(id, p)
      PROVE  ~IsInitialized'
  <2>1. /\ \A i \in Ids : Exists(i)' <=> Exists(i)
        /\ UNCHANGED <<nextId, step, op, raced>>
    BY <1>0, <1>2, PasswordOnly DEF ResetPassword, IInv
  <2> QED  BY <2>1 DEF SetupInv, IsInitialized
<1>3. ASSUME NEW v \in Workers,
             \/ \E n \in Names, p \in Passwords :
                  SetupBegin(v, n, p) \/ \E r \in AllRoles : CreateBegin(v, n, p, r)
             \/ \E id \in Ids :
                  \/ \E r \in AllRoles : UpdateBegin(v, id, r)
                  \/ \E acting \in Ids : DeleteBegin(v, id, acting)
                  \/ \E p \in Passwords : ChangeBegin(v, id, p)
      PROVE  ~IsInitialized'
  <2>1. /\ users' = users
        /\ \/ v = w /\ ~IsInitialized
           \/ v # w /\ step[w] = "setup" /\ ~raced[w]
    BY <1>0, <1>3 DEF SetupBegin, CreateBegin, UpdateBegin, DeleteBegin, ChangeBegin,
                      Begin, IInv, TypeOK
  <2> QED  BY <2>1 DEF SetupInv, IsInitialized, Exists
<1>4. ASSUME NEW v \in Workers, Insert(v) \/ UpdateWrite(v) \/ DeleteWrite(v)
      PROVE  FALSE
  BY <1>0, <1>4 DEF Insert, UpdateWrite, DeleteWrite, Finish, Overtake, IInv, TypeOK
<1>5. ASSUME NEW v \in Workers,
             Fail(v) \/ CountAdmins(v) \/ LastAdminRefused(v) \/ Gone(v)
      PROVE  ~IsInitialized'
  <2>1. users' = users /\ step[w] = "setup" /\ ~raced[w]
    BY <1>0, <1>5 DEF Fail, CountAdmins, LastAdminRefused, Gone, Finish, IInv, TypeOK
  <2> QED  BY <2>1 DEF SetupInv, IsInitialized, Exists
<1>6. ASSUME NEW v \in Workers, ChangeWrite(v) PROVE FALSE
  <2>1. step[w] = "setup" /\ ~raced[w]
    BY <1>0, <1>6 DEF ChangeWrite, Finish, IInv, TypeOK
  <2>2. op[v].id \in Ids /\ Exists(op[v].id)
    BY <1>0, <1>6 DEF ChangeWrite, IInv, TargetKnown, HasTarget, TypeOK
  <2> QED  BY <2>1, <2>2 DEF SetupInv, IsInitialized
<1> QED  BY <1>1, <1>2, <1>3, <1>4, <1>5, <1>6 DEF Next

(* Setup adds an account to a store that has one only if another call has  *)
(* written since setup checked.                                            *)
THEOREM SetupLateNeedsRace == Spec => SetupLateOnlyInRace
<1>1. SetupInv /\ [Next]_vars =>
        [\A w \in Workers :
           step[w] = "setup" /\ step'[w] # "setup" /\ users' # users /\ IsInitialized
             => raced[w]]_vars
  BY DEF SetupInv
<1>2. Init => SetupInv
  BY SetupInit
<1>3. SetupInv /\ [Next]_vars => SetupInv'
  BY SetupNext
<1> QED  BY <1>1, <1>2, <1>3, PTL DEF Spec, SetupLateOnlyInRace

-----------------------------------------------------------------------------
(* Theorems about calls that run one at a time *)

OneAtATime == \A v, w \in Workers : v = w

SerialInv ==
    /\ IInv
    /\ AdminRemains
    /\ \A w \in Workers :
         /\ ~raced[w]
         /\ step[w] = "setup" => op[w].role = Admin
         /\ step[w] = "create" => nextId > 1

LEMMA SerialInit == Init => SerialInv
<1> SUFFICES ASSUME Init PROVE SerialInv
  OBVIOUS
<1> QED  BY InitInv DEF Init, SerialInv, AdminRemains

(* Every step of a call moves it, and only it. *)
LEMMA CallMoves ==
    ASSUME IInv, OneAtATime, NEW w \in Workers,
           \/ \E n \in Names, p \in Passwords :
                SetupBegin(w, n, p) \/ \E r \in AllRoles : CreateBegin(w, n, p, r)
           \/ \E id \in Ids :
                \/ \E r \in AllRoles : UpdateBegin(w, id, r)
                \/ \E acting \in Ids : DeleteBegin(w, id, acting)
                \/ \E p \in Passwords : ChangeBegin(w, id, p)
           \/ Insert(w) \/ Fail(w) \/ CountAdmins(w) \/ LastAdminRefused(w)
           \/ UpdateWrite(w) \/ DeleteWrite(w) \/ ChangeWrite(w) \/ Gone(w)
    PROVE  /\ step'[w] # step[w]
           /\ ~raced[w] => ~raced'[w]
           /\ step'[w] = "setup" => op'[w].role = Admin
           /\ step'[w] = "create" => nextId' > 1
           /\ nextId' # nextId => Insert(w)
<1>1. CASE \E n \in Names, p \in Passwords :
             SetupBegin(w, n, p) \/ \E r \in AllRoles : CreateBegin(w, n, p, r)
  BY <1>1 DEF SetupBegin, CreateBegin, Begin, IInv, TypeOK
<1>2. CASE \E id \in Ids :
             \/ \E r \in AllRoles : UpdateBegin(w, id, r)
             \/ \E acting \in Ids : DeleteBegin(w, id, acting)
             \/ \E p \in Passwords : ChangeBegin(w, id, p)
  BY <1>2 DEF UpdateBegin, DeleteBegin, ChangeBegin, Begin, IInv, TypeOK
<1>3. CASE Insert(w) \/ Fail(w) \/ LastAdminRefused(w) \/ UpdateWrite(w)
           \/ DeleteWrite(w) \/ ChangeWrite(w) \/ Gone(w)
  BY <1>3 DEF Insert, Fail, LastAdminRefused, UpdateWrite, DeleteWrite, ChangeWrite,
              Gone, Finish, Overtake, IInv, TypeOK
<1>4. CASE CountAdmins(w)
  BY <1>4 DEF CountAdmins, IInv, TypeOK
<1> QED  BY <1>1, <1>2, <1>3, <1>4

LEMMA SerialNext == OneAtATime => (SerialInv /\ [Next]_vars => SerialInv')
<1> SUFFICES ASSUME OneAtATime, SerialInv, [Next]_vars PROVE SerialInv'
  OBVIOUS
<1>0. IInv /\ IInv'
  BY NextInv DEF SerialInv
<1>1. CASE UNCHANGED vars
  BY <1>0, <1>1 DEF vars, SerialInv, AdminRemains, IsAdmin, Exists
<1>2. ASSUME NEW id \in Ids, NEW p \in Passwords, ResetPassword(id, p) PROVE SerialInv'
  <2>1. /\ \A i \in Ids : (Exists(i)' <=> Exists(i)) /\ (IsAdmin(i)' <=> IsAdmin(i))
        /\ UNCHANGED <<nextId, step, op, raced>>
    BY <1>0, <1>2, PasswordOnly DEF ResetPassword, IInv
  <2>2. AdminRemains'
    BY <2>1 DEF AdminRemains, SerialInv
  <2>3. \A w \in Workers :
          /\ ~raced'[w]
          /\ step'[w] = "setup" => op'[w].role = Admin
          /\ step'[w] = "create" => nextId' > 1
    BY <2>1 DEF SerialInv
  <2> QED  BY <1>0, <2>2, <2>3 DEF SerialInv
<1>3. ASSUME NEW w \in Workers, Next,
           \/ \E n \in Names, p \in Passwords :
                SetupBegin(w, n, p) \/ \E r \in AllRoles : CreateBegin(w, n, p, r)
           \/ \E id \in Ids :
                \/ \E r \in AllRoles : UpdateBegin(w, id, r)
                \/ \E acting \in Ids : DeleteBegin(w, id, acting)
                \/ \E p \in Passwords : ChangeBegin(w, id, p)
           \/ Insert(w) \/ Fail(w) \/ CountAdmins(w) \/ LastAdminRefused(w)
           \/ UpdateWrite(w) \/ DeleteWrite(w) \/ ChangeWrite(w) \/ Gone(w)
      PROVE  SerialInv'
  <2>1. /\ step'[w] # step[w] /\ ~raced'[w]
        /\ step'[w] = "setup" => op'[w].role = Admin
        /\ step'[w] = "create" => nextId' > 1
        /\ nextId' # nextId => Insert(w)
    BY <1>0, <1>3, CallMoves DEF SerialInv
  <2>2. ASSUME nextId' > 1 PROVE \E id \in Ids : IsAdmin(id)'
    <3>1. CASE nextId > 1
      <4>1. \E id \in Ids : IsAdmin(id)
        BY <3>1 DEF SerialInv, AdminRemains
      <4>2. PICK id \in Ids : users'[id] # NoRow /\ users'[id].role = Admin
        BY <1>0, <1>3, <2>1, <4>1, LastAdminStep DEF SerialInv
      <4> QED  BY <4>2 DEF IsAdmin, Exists
    <3>2. CASE ~(nextId > 1)
      <4>1. Insert(w)
        BY <2>1, <2>2, <3>2
      <4>2. op[w].role = Admin /\ op[w] \in Operation
        BY <3>2, <4>1 DEF Insert, SerialInv, IInv, TypeOK
      <4> DEFINE row == [name |-> op[w].name, password |-> op[w].password,
                         role |-> op[w].role]
      <4>3. nextId \in Ids /\ users'[nextId] = row
        BY <1>0, <4>1 DEF Insert, IInv, TypeOK
      <4>4. row \in Row /\ row.role = Admin
        BY <4>2 DEF Operation, Row
      <4>5. PICK id \in Ids : users'[id] \in Row /\ users'[id].role = Admin
        BY <4>3, <4>4
      <4> QED  BY <4>5, RowAssumption DEF IsAdmin, Exists
    <3> QED  BY <3>1, <3>2
  <2>3. AdminRemains'
    BY <2>2 DEF AdminRemains
  <2>5. \A v \in Workers : v = w
    BY DEF OneAtATime
  <2> QED  BY <1>0, <2>1, <2>3, <2>5 DEF SerialInv
<1> QED  BY <1>1, <1>2, <1>3 DEF Next

LEMMA SerialInvariant == OneAtATime => (Spec => []SerialInv)
<1> SUFFICES ASSUME OneAtATime PROVE Spec => []SerialInv
  OBVIOUS
<1>1. SerialInv /\ [Next]_vars => SerialInv'
  BY SerialNext
<1> QED  BY <1>1, SerialInit, PTL DEF Spec

(* Where calls run one at a time, an initialized store keeps an admin.     *)
THEOREM SerialAdminRemains ==
    ASSUME \A v, w \in Workers : v = w
    PROVE  Spec => []AdminRemains
<1>1. OneAtATime
  BY DEF OneAtATime
<1>2. SerialInv => AdminRemains
  BY DEF SerialInv
<1> QED  BY <1>1, <1>2, SerialInvariant, PTL

-----------------------------------------------------------------------------
(* Sessions: of a token, and of the map                                    *)

RecordAgrees(t) ==
    InMap(t) =>
      /\ past[t].issued /\ ~past[t].out
      /\ past[t].at = tokens[t].issuedAt
      /\ past[t].remembered = tokens[t].remembered
      /\ past[t].at <= clock
      /\ past[t].at <= past[t].used
      /\ past[t].used <= clock
      /\ tokens[t].lastUsed <= past[t].used
      /\ past[t].used <= tokens[t].lastUsed + MaxLag

TypeOfMap ==
    /\ tokens \in [Tokens -> TokenRecord]
    /\ past \in [Tokens -> History]

TokensInv ==
    /\ TypeOfMap
    /\ \A t \in Tokens : RecordAgrees(t)
    /\ MapIsSwept
    /\ LiveSessionSurvives

SessionsInv == SessionsTypeOK /\ TokensInv

-----------------------------------------------------------------------------
(* Both bounds of both policies are larger than the lag. *)
LEMMA Bounds ==
    ASSUME NEW b \in BOOLEAN
    PROVE  /\ AbsoluteOf(b) \in Nat /\ AbsoluteOf(b) > MaxLag
           /\ IdleOf(b) \in Nat /\ IdleOf(b) > MaxLag
           /\ MaxLag \in Nat
BY PolicyAssumption DEF AbsoluteOf, IdleOf

(* A lookup keeps the invariant of the map. *)
LEMMA TouchKeeps ==
    ASSUME TokensInv, clock \in Nat, clock' = clock,
           NEW t \in Tokens, NEW now \in Readings, Touch(t, now)
    PROVE  TokensInv'
<1> DEFINE rest == Tokens \ {t}
<1>1. now \in Nat /\ now <= clock /\ clock - now <= MaxLag
  BY DEF Readings
<1>2. TypeOfMap'
  BY <1>1 DEF TokensInv, TypeOfMap, Touch, TokenRecord, NoToken, History
<1>3. \A u \in rest : tokens'[u] = tokens[u] /\ past'[u] = past[u]
  BY DEF TokensInv, TypeOfMap, Touch
<1>4. CASE Live(t, now)
  <2>1. tokens'[t] = [tokens[t] EXCEPT !.lastUsed = now]
    BY <1>4 DEF TokensInv, TypeOfMap, Touch
  <2>2. past'[t] = [past[t] EXCEPT !.used = IF now > @ THEN now ELSE @]
    BY <1>4 DEF TokensInv, TypeOfMap, Touch
  <2>3. InMap(t) /\ RecordAgrees(t)
    BY <1>4 DEF Live, TokensInv
  <2>4. RecordAgrees(t)'
    BY <1>1, <2>1, <2>2, <2>3, PolicyAssumption
    DEF RecordAgrees, InMap, TokensInv, TypeOfMap, TokenRecord, History
  <2>5. \A u \in Tokens : RecordAgrees(u)'
    BY <1>3, <2>4 DEF RecordAgrees, InMap, TokensInv
  <2>6. MapIsSwept'
    <3> SUFFICES ASSUME NEW u \in Tokens, NEW v \in Tokens, InMap(u)', InMap(v)'
                 PROVE  ~Expired(tokens'[u], tokens'[v].issuedAt)
      BY DEF MapIsSwept
    <3>1. InMap(u) /\ InMap(v) /\ RecordAgrees(v) /\ tokens[u] \in TokenRecord
      BY <1>3, <2>3 DEF InMap, TokensInv, TypeOfMap
    <3>2. ~Expired(tokens[u], tokens[v].issuedAt)
      BY <3>1 DEF TokensInv, MapIsSwept
    <3>3. tokens'[v].issuedAt = tokens[v].issuedAt
      BY <1>3, <2>1, <3>1 DEF TokensInv, TypeOfMap, TokenRecord
    <3>4. CASE u # t
      BY <1>3, <3>2, <3>3, <3>4
    <3>5. CASE u = t
      <4>1. /\ tokens'[u].issuedAt = tokens[u].issuedAt
            /\ tokens'[u].remembered = tokens[u].remembered
            /\ tokens'[u].lastUsed = now
        BY <2>1, <3>1, <3>5 DEF TokenRecord
      <4>2. tokens[v].issuedAt \in Nat /\ tokens[v].issuedAt <= clock
        BY <3>1 DEF RecordAgrees, TokensInv, TypeOfMap, TokenRecord
      <4>3. SatSub(tokens[v].issuedAt, now) <= MaxLag
        BY <1>1, <4>2, PolicyAssumption DEF SatSub
      <4>4. /\ IdleOf(tokens[u].remembered) > MaxLag
            /\ IdleOf(tokens[u].remembered) \in Nat
            /\ MaxLag \in Nat
        BY <3>1, Bounds DEF TokenRecord
      <4>5. SatSub(tokens[v].issuedAt, now) \in Nat
        BY <1>1, <4>2 DEF SatSub
      <4> QED  BY <3>2, <3>3, <4>1, <4>3, <4>4, <4>5 DEF Expired
    <3> QED  BY <3>4, <3>5
  <2>7. LiveSessionSurvives'
    BY <1>3, <2>1, <2>3 DEF LiveSessionSurvives, InMap, TokensInv, TypeOfMap, TokenRecord
  <2> QED  BY <1>2, <2>5, <2>6, <2>7 DEF TokensInv
<1>5. CASE ~Live(t, now)
  <2>1. tokens'[t] = NoToken /\ past'[t] = past[t]
    BY <1>5 DEF TokensInv, TypeOfMap, Touch, History
  <2>2. \A u \in Tokens : RecordAgrees(u)'
    BY <1>3, <2>1 DEF RecordAgrees, InMap, TokensInv, NoToken
  <2>3. MapIsSwept'
    BY <1>3, <2>1 DEF MapIsSwept, InMap, TokensInv, NoToken
  <2>4. LiveSessionSurvives'
    <3> SUFFICES ASSUME NEW u \in Tokens,
                        past[u].issued, ~past[u].out,
                        clock - past[u].at < AbsoluteOf(past[u].remembered),
                        clock - past[u].used + MaxLag < IdleOf(past[u].remembered)
                 PROVE  InMap(u)'
      BY <1>3, <2>1 DEF LiveSessionSurvives
    <3>1. InMap(u) /\ RecordAgrees(u)
      BY DEF TokensInv, LiveSessionSurvives
    <3>2. CASE u # t
      BY <1>3, <3>1, <3>2 DEF InMap
    <3>3. CASE u = t
      <4>1. Expired(tokens[u], now)
        BY <1>5, <3>1, <3>3 DEF Live
      <4>2. /\ tokens[u].issuedAt \in Nat /\ tokens[u].lastUsed \in Nat
            /\ past[u].at \in Nat /\ past[u].used \in Nat
            /\ past[u].remembered \in BOOLEAN
        BY DEF TokensInv, TypeOfMap, TokenRecord, History
      <4>3. /\ SatSub(now, tokens[u].issuedAt) < AbsoluteOf(past[u].remembered)
            /\ SatSub(now, tokens[u].lastUsed) < IdleOf(past[u].remembered)
        BY <1>1, <3>1, <4>2, Bounds DEF SatSub, RecordAgrees
      <4>4. /\ SatSub(now, tokens[u].issuedAt) \in Nat
            /\ SatSub(now, tokens[u].lastUsed) \in Nat
        BY <1>1, <4>2 DEF SatSub
      <4> QED  BY <3>1, <4>1, <4>2, <4>3, <4>4, Bounds DEF Expired, RecordAgrees
    <3> QED  BY <3>2, <3>3
  <2> QED  BY <1>2, <2>2, <2>3, <2>4 DEF TokensInv
<1> QED  BY <1>4, <1>5

(* So does a login: its sweep leaves every session that is inside its      *)
(* bounds, and the new token is not expired by any clock reading so far.   *)
LEMMA IssueKeeps ==
    ASSUME TokensInv, clock \in Nat, clock' = clock,
           NEW t \in Tokens, NEW identity \in Identities,
           NEW remembered \in BOOLEAN, NEW now \in Readings,
           ~past[t].issued, IssueToken(t, identity, remembered, now)
    PROVE  TokensInv'
<1> DEFINE rest == Tokens \ {t}
<1>1. now \in Nat /\ now <= clock /\ clock - now <= MaxLag
  BY DEF Readings
<1>2. TypeOfMap'
  BY <1>1 DEF TokensInv, TypeOfMap, IssueToken, Issued, TokenRecord, NoToken, History
<1>3. /\ tokens'[t].identity = identity /\ tokens'[t].remembered = remembered
      /\ tokens'[t].issuedAt = now /\ tokens'[t].lastUsed = now
  BY DEF IssueToken
<1>4. past'[t] = [issued |-> TRUE, identity |-> identity, at |-> now,
                  remembered |-> remembered, used |-> now, out |-> FALSE]
  BY DEF IssueToken, Issued, TokensInv, TypeOfMap
<1>5. \A u \in rest :
        /\ past'[u] = past[u]
        /\ tokens'[u] = IF Expired(tokens[u], now) THEN NoToken ELSE tokens[u]
  BY DEF IssueToken, Issued, TokensInv, TypeOfMap
<1>6. \A u \in rest : InMap(u)' => InMap(u) /\ tokens'[u] = tokens[u]
                                    /\ ~Expired(tokens[u], now)
  BY <1>5 DEF InMap, NoToken
<1>7. \A u \in Tokens : RecordAgrees(u)'
  <2>1. RecordAgrees(t)'
    BY <1>1, <1>3, <1>4, PolicyAssumption DEF RecordAgrees
  <2>2. \A u \in rest : RecordAgrees(u)'
    BY <1>5, <1>6 DEF RecordAgrees, TokensInv, InMap
  <2> QED  BY <2>1, <2>2
<1>8. MapIsSwept'
  <2> SUFFICES ASSUME NEW u \in Tokens, NEW v \in Tokens, InMap(u)', InMap(v)'
               PROVE  ~Expired(tokens'[u], tokens'[v].issuedAt)
    BY DEF MapIsSwept
  <2>1. CASE u # t /\ v # t
    BY <1>6, <2>1 DEF TokensInv, MapIsSwept
  <2>2. CASE u # t /\ v = t
    BY <1>3, <1>6, <2>2
  <2>3. CASE u = t
    <3>1. tokens'[v].issuedAt \in Nat /\ tokens'[v].issuedAt <= clock
      BY <1>1, <1>2, <1>3, <1>6, <2>3
      DEF TypeOfMap, TokenRecord, TokensInv, RecordAgrees
    <3>2. /\ SatSub(tokens'[v].issuedAt, now) <= MaxLag
          /\ SatSub(tokens'[v].issuedAt, now) \in Nat
      BY <1>1, <3>1, PolicyAssumption DEF SatSub
    <3> QED  BY <1>3, <2>3, <3>2, Bounds DEF Expired
  <2> QED  BY <2>1, <2>2, <2>3
<1>9. LiveSessionSurvives'
  <2> SUFFICES ASSUME NEW u \in Tokens, (past[u].issued)', ~(past[u].out)',
                      clock - past'[u].at < AbsoluteOf(past'[u].remembered),
                      clock - past'[u].used + MaxLag < IdleOf(past'[u].remembered)
               PROVE  InMap(u)'
    BY DEF LiveSessionSurvives
  <2>1. CASE u = t
    BY <1>3, <2>1, IdentityAssumption DEF InMap
  <2>2. CASE u # t
    <3>1. past'[u] = past[u] /\ InMap(u) /\ RecordAgrees(u)
      BY <1>5, <2>2 DEF TokensInv, LiveSessionSurvives
    <3>2. /\ tokens[u].issuedAt \in Nat /\ tokens[u].lastUsed \in Nat
          /\ past[u].at \in Nat /\ past[u].used \in Nat
          /\ past[u].remembered \in BOOLEAN
      BY DEF TokensInv, TypeOfMap, TokenRecord, History
    <3>3. /\ SatSub(now, tokens[u].issuedAt) < AbsoluteOf(past[u].remembered)
          /\ SatSub(now, tokens[u].lastUsed) < IdleOf(past[u].remembered)
      BY <1>1, <3>1, <3>2, Bounds DEF SatSub, RecordAgrees
    <3>4. /\ SatSub(now, tokens[u].issuedAt) \in Nat
          /\ SatSub(now, tokens[u].lastUsed) \in Nat
      BY <1>1, <3>2 DEF SatSub
    <3>5. ~Expired(tokens[u], now)
      BY <3>1, <3>2, <3>3, <3>4, Bounds DEF Expired, RecordAgrees
    <3> QED  BY <1>5, <2>2, <3>1, <3>5 DEF InMap
  <2> QED  BY <2>1, <2>2
<1> QED  BY <1>2, <1>7, <1>8, <1>9 DEF TokensInv

(* And a logout, which only takes its own token out. *)
LEMMA LogoutKeeps ==
    ASSUME TokensInv, clock' = clock, NEW t \in Tokens,
           tokens' = [tokens EXCEPT ![t] = NoToken],
           past' = [past EXCEPT ![t].out = TRUE]
    PROVE  TokensInv'
<1>1. TypeOfMap'
  BY DEF TokensInv, TypeOfMap, TokenRecord, NoToken, History
<1>2. tokens'[t] = NoToken /\ past'[t].out
  BY DEF TokensInv, TypeOfMap, History
<1>3. \A u \in Tokens \ {t} : tokens'[u] = tokens[u] /\ past'[u] = past[u]
  BY DEF TokensInv, TypeOfMap
<1>4. \A u \in Tokens : RecordAgrees(u)'
  <2>1. RecordAgrees(t)'
    BY <1>2 DEF RecordAgrees, InMap, NoToken
  <2>2. \A u \in Tokens \ {t} : RecordAgrees(u)'
    BY <1>3 DEF RecordAgrees, InMap, TokensInv
  <2> QED  BY <2>1, <2>2
<1>5. MapIsSwept'
  BY <1>2, <1>3 DEF MapIsSwept, InMap, TokensInv, NoToken
<1>6. LiveSessionSurvives'
  BY <1>2, <1>3 DEF LiveSessionSurvives, InMap, TokensInv
<1> QED  BY <1>1, <1>4, <1>5, <1>6 DEF TokensInv

-----------------------------------------------------------------------------
LEMMA SessionsInitInv == SessionsInit => SessionsInv
<1> SUFFICES ASSUME SessionsInit PROVE SessionsInv
  OBVIOUS
<1>1. SessionsTypeOK
  BY DEF SessionsInit, SessionsTypeOK, TokenRecord, NoToken, History
<1>2. \A t \in Tokens : ~InMap(t) /\ ~past[t].issued
  BY DEF SessionsInit, InMap, NoToken
<1>3. TokensInv
  BY <1>1, <1>2
  DEF TokensInv, TypeOfMap, SessionsTypeOK, RecordAgrees, MapIsSwept, LiveSessionSurvives
<1> QED  BY <1>1, <1>3 DEF SessionsInv

(* The part of the type invariant that is about requests. *)
RequestsOK ==
    /\ pc \in [Requests -> {"idle", "checkRole", "writing", "loggingOut"}]
    /\ bearer \in [Requests -> Tokens \cup {NoBearer}]
    /\ \A r \in Requests : (pc[r] = "idle") <=> (bearer[r] = NoBearer)

LEMMA Compose ==
    ASSUME clock' \in Nat, TokensInv', RequestsOK'
    PROVE  SessionsInv'
BY DEF SessionsInv, SessionsTypeOK, TokensInv, TypeOfMap, RequestsOK

(* Every step of a request that is one lookup. *)
LEMMA RequestTouches ==
    ASSUME SessionsInv, NEW r \in Requests, NEW t \in Tokens, NEW now \in Readings,
           Touch(t, now), clock' = clock, RequestsOK'
    PROVE  SessionsInv'
BY TouchKeeps, Compose DEF SessionsInv, SessionsTypeOK

LEMMA SessionsNextInv == SessionsInv /\ [SessionsNext]_sessionsVars => SessionsInv'
<1> SUFFICES ASSUME SessionsInv, [SessionsNext]_sessionsVars PROVE SessionsInv'
  OBVIOUS
<1>0. RequestsOK /\ TokensInv /\ clock \in Nat
  BY DEF SessionsInv, SessionsTypeOK, RequestsOK
<1>1. CASE Tick
  <2>1. clock' = clock + 1 /\ UNCHANGED <<tokens, pc, bearer, past>>
    BY <1>1 DEF Tick
  <2>2. TokensInv'
    <3>1. TypeOfMap' /\ MapIsSwept'
      BY <1>0, <2>1 DEF TokensInv, TypeOfMap, MapIsSwept, InMap
    <3>2. \A t \in Tokens : RecordAgrees(t)'
      BY <1>0, <2>1 DEF TokensInv, RecordAgrees, InMap, TypeOfMap, History
    <3>3. LiveSessionSurvives'
      <4> SUFFICES ASSUME NEW u \in Tokens, past'[u].issued, ~past'[u].out,
                     clock' - past'[u].at < AbsoluteOf(past'[u].remembered),
                     clock' - past'[u].used + MaxLag < IdleOf(past'[u].remembered)
                   PROVE  InMap(u)'
        BY DEF LiveSessionSurvives
      <4>1. /\ past[u].at \in Nat /\ past[u].used \in Nat
            /\ past[u].remembered \in BOOLEAN
        BY <1>0 DEF TokensInv, TypeOfMap, History
      <4>2. /\ clock - past[u].at < AbsoluteOf(past[u].remembered)
            /\ clock - past[u].used + MaxLag < IdleOf(past[u].remembered)
        BY <1>0, <2>1, <4>1, Bounds
      <4> QED  BY <1>0, <2>1, <4>2 DEF TokensInv, LiveSessionSurvives, InMap
    <3> QED  BY <3>1, <3>2, <3>3 DEF TokensInv
  <2>3. RequestsOK' /\ clock' \in Nat
    BY <1>0, <2>1 DEF RequestsOK
  <2> QED  BY <2>2, <2>3, Compose
<1>2. ASSUME NEW t \in Tokens, NEW identity \in Identities,
             NEW remembered \in BOOLEAN, Login(t, identity, remembered)
      PROVE  SessionsInv'
  <2>1. PICK now \in Readings : IssueToken(t, identity, remembered, now)
    BY <1>2 DEF Login
  <2>2. RequestsOK' /\ clock' = clock /\ ~past[t].issued
    BY <1>0, <1>2 DEF Login, RequestsOK
  <2>3. TokensInv'
    BY <1>0, <2>1, <2>2, IssueKeeps
  <2> QED  BY <1>0, <2>2, <2>3, Compose
<1>3. ASSUME NEW t \in Tokens, LookUp(t) PROVE SessionsInv'
  <2>1. PICK now \in Readings : Touch(t, now)
    BY <1>3 DEF LookUp
  <2>2. RequestsOK' /\ clock' = clock
    BY <1>0, <1>3 DEF LookUp, RequestsOK
  <2>3. TokensInv'
    BY <1>0, <2>1, <2>2, TouchKeeps
  <2> QED  BY <1>0, <2>2, <2>3, Compose
<1>4. ASSUME NEW r \in Requests, NEW t \in Tokens,
             Authenticate(r, t) \/ LogoutStart(r, t)
      PROVE  SessionsInv'
  <2>1. PICK now \in Readings : Touch(t, now)
    BY <1>4 DEF Authenticate, LogoutStart
  <2>2. RequestsOK' /\ clock' = clock
    BY <1>0, <1>4, BearerAssumption DEF Authenticate, LogoutStart, RequestsOK, Goto
  <2> QED  BY <2>1, <2>2, RequestTouches
<1>5. ASSUME NEW r \in Requests,
             PassRole(r) \/ Denied(r) \/ Vanished(r) \/ RecordWrite(r)
      PROVE  SessionsInv'
  <2>1. PICK t \in Tokens : t = bearer[r]
    BY <1>0, <1>5 DEF PassRole, Denied, Vanished, RecordWrite, RequestsOK
  <2>2. PICK now \in Readings : Touch(t, now)
    BY <1>5, <2>1 DEF PassRole, Denied, Vanished, RecordWrite
  <2>3. RequestsOK' /\ clock' = clock
    <3>1. CASE PassRole(r)
      BY <1>0, <3>1 DEF PassRole, RequestsOK, Goto
    <3>2. CASE Denied(r)
      BY <1>0, <3>2 DEF Denied, RequestsOK, Goto, EndRequest
    <3>3. CASE Vanished(r)
      BY <1>0, <3>3 DEF Vanished, RequestsOK, Goto, EndRequest
    <3>4. CASE RecordWrite(r)
      BY <1>0, <3>4 DEF RecordWrite, RequestsOK, Goto, EndRequest
    <3> QED  BY <1>5, <3>1, <3>2, <3>3, <3>4
  <2> QED  BY <2>2, <2>3, RequestTouches
<1>6. ASSUME NEW r \in Requests, LogoutFinish(r) PROVE SessionsInv'
  <2>1. PICK t \in Tokens : t = bearer[r]
    BY <1>0, <1>6 DEF LogoutFinish, RequestsOK
  <2>2. TokensInv' /\ clock' = clock
    BY <1>0, <1>6, <2>1, LogoutKeeps DEF LogoutFinish
  <2>3. RequestsOK'
    BY <1>0, <1>6 DEF LogoutFinish, RequestsOK, Goto, EndRequest
  <2> QED  BY <1>0, <2>2, <2>3, Compose
<1>7. CASE UNCHANGED sessionsVars
  BY <1>7 DEF sessionsVars, SessionsInv, SessionsTypeOK, TokensInv, TypeOfMap, RecordAgrees,
              MapIsSwept, LiveSessionSurvives, InMap
<1> QED
  BY <1>1, <1>2, <1>3, <1>4, <1>5, <1>6, <1>7 DEF SessionsNext

(* The invariant holds in every reachable state. *)
LEMMA SessionsInvariant == SessionsSpec => []SessionsInv
BY SessionsInitInv, SessionsNextInv, PTL DEF SessionsSpec

-----------------------------------------------------------------------------
(* Theorems *)

(* Types of the token map, its requests and their history. *)
THEOREM SessionsTypeCorrect == SessionsSpec => []SessionsTypeOK
<1>1. SessionsInv => SessionsTypeOK
  BY DEF SessionsInv
<1> QED  BY <1>1, SessionsInvariant, PTL

(* Two tokens in the map were never expired at each other's issue, so an   *)
(* abandoned session is gone with the first login after it lapses.         *)
THEOREM MapIsAlwaysSwept == SessionsSpec => []MapIsSwept
<1>1. SessionsInv => MapIsSwept
  BY DEF SessionsInv, TokensInv
<1> QED  BY <1>1, SessionsInvariant, PTL

(* A session inside both of its bounds keeps its token until it logs out.  *)
THEOREM ActiveSessionsSurvive == SessionsSpec => []LiveSessionSurvives
<1>1. SessionsInv => LiveSessionSurvives
  BY DEF SessionsInv, TokensInv
<1> QED  BY <1>1, SessionsInvariant, PTL

(* A guard lets a request pass only with a token that is live at a reading *)
(* of the clock, whose record agrees with its history.                     *)
LEMMA ServedIsLive ==
    ASSUME SessionsInv, SessionsNext, NEW r \in Requests, Served(r)
    PROVE  \E t \in Tokens, now \in Readings :
             /\ bearer'[r] = t /\ Live(t, now)
             /\ RecordAgrees(t) /\ past'[t].out = past[t].out
<1>0. RequestsOK /\ TokensInv
  BY DEF SessionsInv, SessionsTypeOK, RequestsOK
<1>1. \/ \E t \in Tokens : Authenticate(r, t)
      \/ PassRole(r)
  <2>1. ASSUME NEW s \in Requests, s # r PROVE
          ~(\/ \E t \in Tokens : Authenticate(s, t) \/ LogoutStart(s, t)
            \/ PassRole(s) \/ Denied(s) \/ Vanished(s) \/ RecordWrite(s)
            \/ LogoutFinish(s))
    BY <1>0, <2>1 DEF RequestsOK, Served, Authenticate, LogoutStart, PassRole,
                      Denied, Vanished, RecordWrite, LogoutFinish, Goto, EndRequest
  <2>2. ~Tick /\ ~(\E t \in Tokens : LookUp(t))
          /\ ~(\E t \in Tokens, i \in Identities, b \in BOOLEAN : Login(t, i, b))
    BY <1>0 DEF Served, Tick, LookUp, Login
  <2>3. ~(\/ \E t \in Tokens : LogoutStart(r, t)
          \/ Denied(r) \/ Vanished(r) \/ RecordWrite(r) \/ LogoutFinish(r))
    BY <1>0 DEF RequestsOK, Served, LogoutStart, Denied, Vanished, RecordWrite,
                LogoutFinish, Goto, EndRequest
  <2> QED  BY <2>1, <2>2, <2>3 DEF SessionsNext
<1>2. PICK t \in Tokens : /\ bearer'[r] = t
                          /\ \E now \in Readings : Live(t, now) /\ Touch(t, now)
  BY <1>0, <1>1 DEF Authenticate, PassRole, RequestsOK
<1>3. PICK now \in Readings : Live(t, now) /\ Touch(t, now)
  BY <1>2
<1>4. RecordAgrees(t) /\ past'[t].out = past[t].out
  BY <1>0, <1>3 DEF TokensInv, TypeOfMap, History, Touch
<1> QED  BY <1>2, <1>3, <1>4

(* After its logout a token passes no guard, not even the second one of a  *)
(* request that was under way.                                             *)
THEOREM LogoutIsFinal == SessionsSpec => LoggedOutNotServed
<1>1. SessionsInv /\ [SessionsNext]_sessionsVars =>
        [\A r \in Requests : Served(r) => ~past[bearer'[r]].out]_sessionsVars
  BY ServedIsLive DEF Live, RecordAgrees
<1> QED  BY <1>1, SessionsInvariant, PTL DEF SessionsSpec, LoggedOutNotServed

(* No guard lets a token pass beyond the bounds it was issued with.        *)
THEOREM ExpiryIsEnforced == SessionsSpec => ExpiryEnforced
<1>1. ASSUME SessionsInv, SessionsNext, NEW r \in Requests, Served(r)
      PROVE  LET owner == past[bearer'[r]]
             IN  /\ clock - owner.at < AbsoluteOf(owner.remembered) + MaxLag
                 /\ clock - owner.used < IdleOf(owner.remembered) + MaxLag
  <2>1. PICK t \in Tokens, now \in Readings :
          bearer'[r] = t /\ Live(t, now) /\ RecordAgrees(t)
    BY <1>1, ServedIsLive
  <2>2. /\ tokens[t].issuedAt \in Nat /\ tokens[t].lastUsed \in Nat
        /\ past[t].at \in Nat /\ past[t].used \in Nat
        /\ past[t].remembered \in BOOLEAN /\ clock \in Nat
    BY <1>1 DEF SessionsInv, SessionsTypeOK, TokenRecord, History
  <2>3. now \in Nat /\ clock - now <= MaxLag
    BY <2>2 DEF Readings
  <2>4. /\ now - tokens[t].issuedAt < AbsoluteOf(past[t].remembered)
        /\ now - tokens[t].lastUsed < IdleOf(past[t].remembered)
    BY <2>1, <2>2, <2>3, Bounds DEF Live, Expired, RecordAgrees, SatSub
  <2> QED  BY <2>1, <2>2, <2>3, <2>4, Bounds DEF Live, RecordAgrees
<1>2. SessionsInv /\ [SessionsNext]_sessionsVars =>
        [\A r \in Requests : Served(r) =>
           LET owner == past[bearer'[r]]
           IN  /\ clock - owner.at < AbsoluteOf(owner.remembered) + MaxLag
               /\ clock - owner.used < IdleOf(owner.remembered) + MaxLag]_sessionsVars
  BY <1>1
<1> QED  BY <1>2, SessionsInvariant, PTL DEF SessionsSpec, ExpiryEnforced

=============================================================================
