------------------------------- MODULE Users --------------------------------
(***************************************************************************)
(* The account store of the admin template (apps/admin-template/core/src/  *)
(* users.rs): the `users` table and UsersService, called at the same time  *)
(* by the desktop window and by any number of REST requests over one       *)
(* connection pool.                                                        *)
(*                                                                         *)
(* Every SQL statement is atomic, and no operation but a password reset is *)
(* a single one: they read (is the table empty, is the name free, what     *)
(* role does the account have, how many other admins are there), hash a    *)
(* password, and write.  One action below is one statement.                *)
(*                                                                         *)
(* An invalid name or password is refused without a write and is left out; *)
(* so are display names.  Callers of the admin operations hold a session   *)
(* with an admin role (see Sessions), which outlives a demotion or the     *)
(* deletion of its account: the acting id is any id issued so far.         *)
(*                                                                         *)
(* `raced` is a history variable.                                          *)
(***************************************************************************)
EXTENDS Integers

CONSTANTS
    Workers,        \* calls that can be in progress at the same time
    Names,          \* usernames
    Passwords,
    Roles,          \* the CHECK constraint's set, without ...
    Admin,          \* ... this one
    NoRow,          \* no account under an id
    MaxId           \* bound: ids the table hands out

ASSUME RoleAssumption == Admin \notin Roles
ASSUME IdAssumption == MaxId \in Nat

Ids == 1..MaxId
AllRoles == Roles \cup {Admin}
Row == [name : Names, password : Passwords, role : AllRoles]

ASSUME RowAssumption == NoRow \notin Row

VARIABLES
    users,      \* the table, by id
    nextId,     \* AUTOINCREMENT: no id is ever handed out twice
    step,       \* the statement each call will execute next
    op,         \* its arguments, and the account it is about
    raced       \* another call has written roles since this one began

vars == <<users, nextId, step, op, raced>>

-----------------------------------------------------------------------------
Exists(id) == users[id] # NoRow
IsAdmin(id) == Exists(id) /\ users[id].role = Admin
IsInitialized == \E id \in Ids : Exists(id)
NameTaken(n) == \E id \in Ids : Exists(id) /\ users[id].name = n

(* A slip: `AND id != ?` is missing from the count. *)
AdminsAtAll(id) == \E other \in Ids : IsAdmin(other)

(* ensure_not_last_admin: somebody else is an admin, too. *)
OtherAdmin(id) == \E other \in Ids \ {id} : IsAdmin(other)

NoOp == [id |-> 0]
Operation == [id : Ids \cup {0}, name : Names, password : Passwords,
              role : AllRoles]

Steps == {"idle", "setup", "create", "countUpdate", "update",
          "countDelete", "delete", "change"}

Begin(w, s, id, n, p, r) ==
    /\ step[w] = "idle"
    /\ step' = [step EXCEPT ![w] = s]
    /\ op' = [op EXCEPT ![w] = [id |-> id, name |-> n, password |-> p, role |-> r]]
    /\ raced' = [raced EXCEPT ![w] = FALSE]
    /\ UNCHANGED <<users, nextId>>

Finish(w) ==
    /\ step' = [step EXCEPT ![w] = "idle"]
    /\ op' = [op EXCEPT ![w] = NoOp]

(* A UNIQUE constraint or a storage error ends a call without a write. *)
Fail(w) ==
    /\ step[w] # "idle"
    /\ Finish(w)
    /\ UNCHANGED <<users, nextId, raced>>

(* w has written a role: every other call under way has been overtaken. *)
Overtake(w) == raced' = [v \in Workers |-> raced[v] \/ v # w]

Init ==
    /\ users = [id \in Ids |-> NoRow]
    /\ nextId = 1
    /\ step = [w \in Workers |-> "idle"]
    /\ op = [w \in Workers |-> NoOp]
    /\ raced = [w \in Workers |-> FALSE]

-----------------------------------------------------------------------------
(* setup_first_user and create_user *)

(* A slip: setup trusts the client to have asked auth_status. *)
SetupUnchecked(w, n, p) == Begin(w, "setup", 0, n, p, Admin)

SetupBegin(w, n, p) ==
    /\ ~IsInitialized
    /\ Begin(w, "setup", 0, n, p, Admin)

CreateBegin(w, n, p, r) ==
    /\ nextId > 1
    /\ ~NameTaken(n)
    /\ Begin(w, "create", 0, n, p, r)

(* A slip: no UNIQUE constraint behind the friendly check. *)
InsertAnyway(w) ==
    /\ step[w] \in {"setup", "create"}
    /\ nextId \in Ids
    /\ users' = [users EXCEPT ![nextId] = [name |-> op[w].name,
                   password |-> op[w].password, role |-> op[w].role]]
    /\ nextId' = nextId + 1
    /\ Overtake(w)
    /\ Finish(w)

(* The INSERT of both, which the UNIQUE constraint may still refuse. *)
Insert(w) ==
    /\ step[w] \in {"setup", "create"}
    /\ ~NameTaken(op[w].name)
    /\ nextId \in Ids
    /\ users' = [users EXCEPT ![nextId] = [name |-> op[w].name,
                   password |-> op[w].password, role |-> op[w].role]]
    /\ nextId' = nextId + 1
    /\ Overtake(w)
    /\ Finish(w)

-----------------------------------------------------------------------------
(* update_user and delete_user *)

UpdateBegin(w, id, r) ==
    /\ Exists(id)
    /\ Begin(w, IF IsAdmin(id) /\ r # Admin THEN "countUpdate" ELSE "update",
             id, users[id].name, users[id].password, r)

DeleteBegin(w, id, acting) ==
    /\ acting < nextId /\ acting # id
    /\ Exists(id)
    /\ Begin(w, IF IsAdmin(id) THEN "countDelete" ELSE "delete",
             id, users[id].name, users[id].password, users[id].role)

CountAdmins(w) ==
    /\ \/ step[w] = "countUpdate" /\ step' = [step EXCEPT ![w] = "update"]
       \/ step[w] = "countDelete" /\ step' = [step EXCEPT ![w] = "delete"]
    /\ OtherAdmin(op[w].id)
    /\ UNCHANGED <<users, nextId, op, raced>>

LastAdminRefused(w) ==
    /\ step[w] \in {"countUpdate", "countDelete"}
    /\ ~OtherAdmin(op[w].id)
    /\ Finish(w)
    /\ UNCHANGED <<users, nextId, raced>>

UpdateWrite(w) ==
    /\ step[w] = "update"
    /\ Exists(op[w].id)
    /\ users' = [users EXCEPT ![op[w].id].role = op[w].role]
    /\ Overtake(w)
    /\ Finish(w)
    /\ UNCHANGED nextId

DeleteWrite(w) ==
    /\ step[w] = "delete"
    /\ Exists(op[w].id)
    /\ users' = [users EXCEPT ![op[w].id] = NoRow]
    /\ Overtake(w)
    /\ Finish(w)
    /\ UNCHANGED nextId

-----------------------------------------------------------------------------
(* change_password and reset_password *)

(* The current password has been verified against the row just read. *)
ChangeBegin(w, id, new) ==
    /\ Exists(id)
    /\ Begin(w, "change", id, users[id].name, new, users[id].role)

(* A slip: the update goes by the name the session knows. *)
ChangeByName(w) ==
    /\ step[w] = "change"
    /\ \E id \in Ids :
         /\ Exists(id) /\ users[id].name = op[w].name
         /\ users' = [users EXCEPT ![id].password = op[w].password]
    /\ Finish(w)
    /\ UNCHANGED <<nextId, raced>>

ChangeWrite(w) ==
    /\ step[w] = "change"
    /\ Exists(op[w].id)
    /\ users' = [users EXCEPT ![op[w].id].password = op[w].password]
    /\ Finish(w)
    /\ UNCHANGED <<nextId, raced>>

(* The account has gone since it was read: NotFound, and for a password    *)
(* change a success without effect.                                        *)
Gone(w) ==
    /\ step[w] \in {"update", "delete", "change"}
    /\ ~Exists(op[w].id)
    /\ Finish(w)
    /\ UNCHANGED <<users, nextId, raced>>

ResetPassword(id, p) ==
    /\ Exists(id)
    /\ users' = [users EXCEPT ![id].password = p]
    /\ UNCHANGED <<nextId, step, op, raced>>

Next ==
    \/ \E id \in Ids, p \in Passwords : ResetPassword(id, p)
    \/ \E w \in Workers :
         \/ \E n \in Names, p \in Passwords :
              \/ SetupBegin(w, n, p)
              \/ \E r \in AllRoles : CreateBegin(w, n, p, r)
         \/ \E id \in Ids :
              \/ \E r \in AllRoles : UpdateBegin(w, id, r)
              \/ \E acting \in Ids : DeleteBegin(w, id, acting)
              \/ \E p \in Passwords : ChangeBegin(w, id, p)
         \/ Insert(w) \/ Fail(w)
         \/ CountAdmins(w) \/ LastAdminRefused(w)
         \/ UpdateWrite(w) \/ DeleteWrite(w) \/ ChangeWrite(w) \/ Gone(w)

Spec == Init /\ [][Next]_vars

-----------------------------------------------------------------------------
(* Properties *)

(* Type invariant: ids not handed out yet are free. *)
TypeOK ==
    /\ users \in [Ids -> Row \cup {NoRow}]
    /\ nextId \in 1..(MaxId + 1)
    /\ step \in [Workers -> Steps]
    /\ op \in [Workers -> Operation \cup {NoOp}]
    /\ raced \in [Workers -> BOOLEAN]
    /\ \A id \in Ids : id >= nextId => ~Exists(id)
    /\ \A w \in Workers : step[w] # "idle" => op[w] \in Operation

(* No two accounts share a name, though two calls may find it free. *)
UsernamesUnique ==
    \A i, j \in Ids :
      Exists(i) /\ Exists(j) /\ users[i].name = users[j].name => i = j

(* w's statement writes to account id. *)
WritesTo(w, id) == step'[w] # step[w] /\ Exists(id) /\ users'[id] # users[id]

(* An update, deletion or password change hits the account it has read and *)
(* checked, or nothing: not another account that has taken the name of     *)
(* that one, or its place in the table, in the meantime.                   *)
WriteHitsWhatWasRead ==
    [][\A w \in Workers, id \in Ids :
         WritesTo(w, id) => id = op[w].id /\ users[id].name = op[w].name]_vars

(* The guard on the last admin fails only when calls overlap: the call     *)
(* that takes the last admin away has been overtaken by another call's     *)
(* write to a role since it began, be it since the count or since the read *)
(* that made it skip the count.                                            *)
LastAdminLostOnlyInRace ==
    [][\A w \in Workers :
         /\ step[w] # step'[w]
         /\ \E id \in Ids : IsAdmin(id)
         /\ \A id \in Ids : users'[id] = NoRow \/ users'[id].role # Admin
         => raced[w]]_vars

(* Once there is an account there always is an admin (the guard in         *)
(* ensure_not_last_admin: "refuse an operation on account `id` that would  *)
(* leave zero `admin` accounts").                                          *)
AdminRemains == nextId > 1 => \E id \in Ids : IsAdmin(id)

(* setup_first_user "only succeeds while the `users` table is empty": its  *)
(* check is a statement of its own, so an account may come in between, but *)
(* only one that another call inserts after the check.                     *)
SetupLateOnlyInRace ==
    [][\A w \in Workers :
         step[w] = "setup" /\ step'[w] # "setup" /\ users' # users /\ IsInitialized
           => raced[w]]_vars

=============================================================================
