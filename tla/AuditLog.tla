------------------------------- MODULE AuditLog -------------------------------
(***************************************************************************)
(* Retention of the audit trail (core/src/audit.rs, settings.rs): every    *)
(* start of the app and every view of the log prunes it by the stored      *)
(* policy, in separate statements: two reads of the policy, a DELETE of    *)
(* what is too old, a COUNT, a DELETE of as many of the oldest as are in   *)
(* excess.  Entries are written, and the policy's two keys changed, in     *)
(* between.                                                                *)
(*                                                                         *)
(* An entry is its id; time is how far the entries have aged.  Left out:   *)
(* what an entry says, and the viewer's own reads.                         *)
(***************************************************************************)
EXTENDS Integers, FiniteSets

CONSTANTS
    Calls,      \* prunes and changes of the policy in progress together
    Policies,   \* [days : BOOLEAN, max : Nat]; 0 is "unlimited"
    MaxId       \* bound: entries written

ASSUME PolicyAssumption ==
    Policies # {} /\ Policies \subseteq [days : BOOLEAN, max : Nat]
ASSUME IdAssumption == MaxId \in Nat

Ids == 1..MaxId

VARIABLES
    rows,       \* the table: ids
    nextId,     \* AUTOINCREMENT
    aged,       \* entries up to this one are older than retention_days
    policy,     \* the stored keys: audit.retention_days, audit.retention_rows
    step, op,
    raced       \* history: another call has pruned or changed the policy since

vars == <<rows, nextId, aged, policy, step, op, raced>>

NoOp == [days |-> FALSE, max |-> 0, excess |-> 0, horizon |-> 0]

Goto(c, label) == step' = [step EXCEPT ![c] = label]
Finish(c) == Goto(c, "idle") /\ op' = [op EXCEPT ![c] = NoOp]

(* History: when c prunes or changes the policy, every other call under    *)
(* way has been overtaken.                                                 *)
Overtake(c) ==
    raced' = [d \in Calls |->
                /\ step'[d] # "idle"
                /\ raced[d] \/ (d # c /\ <<rows, policy>>' # <<rows, policy>>)]

Init ==
    /\ rows = {} /\ nextId = 1 /\ aged = 0
    /\ policy \in Policies
    /\ step = [c \in Calls |-> "idle"]
    /\ op = [c \in Calls |-> NoOp]
    /\ raced = [c \in Calls |-> FALSE]

-----------------------------------------------------------------------------
(* try_record, from any handler *)
Record ==
    /\ nextId \in Ids
    /\ rows' = rows \cup {nextId}
    /\ nextId' = nextId + 1
    /\ UNCHANGED <<aged, policy, step, op>>

TimePasses ==
    /\ aged < nextId - 1
    /\ aged' = aged + 1
    /\ UNCHANGED <<rows, nextId, policy, step, op>>

-----------------------------------------------------------------------------
(* set_audit_config *)

SetDays(c) ==
    /\ step[c] = "idle"
    /\ \E new \in Policies :
         /\ policy' = [policy EXCEPT !.days = new.days]
         /\ op' = [op EXCEPT ![c].max = new.max]
    /\ Goto(c, "setRows")
    /\ UNCHANGED <<rows, nextId, aged>>

SetRows(c) ==
    /\ step[c] = "setRows"
    /\ policy' = [policy EXCEPT !.max = op[c].max]
    /\ Finish(c)
    /\ UNCHANGED <<rows, nextId, aged>>

-----------------------------------------------------------------------------
(* audit_config, then prune *)

ReadDays(c) ==
    /\ step[c] = "idle"
    /\ op' = [op EXCEPT ![c].days = policy.days]
    /\ Goto(c, "readRows")
    /\ UNCHANGED <<rows, nextId, aged, policy>>

ReadRows(c) ==
    /\ step[c] = "readRows"
    /\ op' = [op EXCEPT ![c].max = policy.max]
    /\ Goto(c, "deleteAged")
    /\ UNCHANGED <<rows, nextId, aged, policy>>

(* Skipped if the days are unlimited *)
DeleteAged(c) ==
    /\ step[c] = "deleteAged"
    /\ rows' = IF op[c].days THEN rows \ (1..aged) ELSE rows
    /\ Goto(c, "count")
    /\ UNCHANGED <<nextId, aged, policy, op>>

Excess(c) == Cardinality(rows) - op[c].max

(* A slip: one entry too many is kept. *)
CountOneLess(c) ==
    /\ step[c] = "count"
    /\ op[c].max > 0 /\ Excess(c) > 1
    /\ op' = [op EXCEPT ![c].excess = Excess(c) - 1, ![c].horizon = nextId]
    /\ Goto(c, "deleteExcess")
    /\ UNCHANGED <<rows, nextId, aged, policy>>

Count(c) ==
    /\ step[c] = "count"
    /\ op[c].max > 0 /\ Excess(c) > 0
    /\ op' = [op EXCEPT ![c].excess = Excess(c), ![c].horizon = nextId]
    /\ Goto(c, "deleteExcess")
    /\ UNCHANGED <<rows, nextId, aged, policy>>

NoExcess(c) ==
    /\ step[c] = "count"
    /\ op[c].max = 0 \/ Excess(c) <= 0
    /\ Finish(c)
    /\ UNCHANGED <<rows, nextId, aged, policy>>

(* A slip: ORDER BY id DESC. *)
Newest(n) == {id \in rows : Cardinality({other \in rows : other > id}) < n}

(* ORDER BY id ASC LIMIT n; no limit if n is negative *)
Oldest(n) == {id \in rows : n < 0 \/ Cardinality({other \in rows : other < id}) < n}

DeleteExcess(c) ==
    /\ step[c] = "deleteExcess"
    /\ rows' = rows \ Oldest(op[c].excess)
    /\ Finish(c)
    /\ UNCHANGED <<nextId, aged, policy>>

(* A statement fails, or the call is cut short: the rest is not done. *)
CutShort(c) ==
    /\ step[c] # "idle"
    /\ Finish(c)
    /\ UNCHANGED <<rows, nextId, aged, policy>>

Call(c) ==
    \/ SetDays(c) \/ SetRows(c)
    \/ ReadDays(c) \/ ReadRows(c) \/ DeleteAged(c) \/ Count(c) \/ NoExcess(c)
    \/ DeleteExcess(c) \/ CutShort(c)

Next ==
    \/ (Record \/ TimePasses) /\ UNCHANGED raced
    \/ \E c \in Calls : Call(c) /\ Overtake(c)

Spec == Init /\ [][Next]_vars

-----------------------------------------------------------------------------
(* Properties *)

Steps == {"idle", "setRows", "readRows", "deleteAged", "count", "deleteExcess"}

(* Type invariant: an excess that is about to be deleted is positive       *)
(* (SQLite reads a negative LIMIT as none) and was counted against a limit.*)
TypeOK ==
    /\ rows \subseteq 1..(nextId - 1)
    /\ nextId \in 1..(MaxId + 1) /\ aged \in 0..(nextId - 1)
    /\ policy \in [days : BOOLEAN, max : Nat]
    /\ step \in [Calls -> Steps]
    /\ op \in [Calls -> [days : BOOLEAN, max : Nat, excess : Nat, horizon : 0..(MaxId + 1)]]
    /\ raced \in [Calls -> BOOLEAN]
    /\ \A c \in Calls : step[c] = "deleteExcess" => op[c].excess > 0 /\ op[c].max > 0

(* Of the entries there were when it counted, a prune leaves no more than  *)
(* the rows its policy allows, whatever other prunes delete meanwhile and  *)
(* however many entries are written.                                       *)
PruneSuffices ==
    [][\A c \in Calls : step[c] = "deleteExcess" /\ step'[c] = "idle" /\ rows' # rows =>
         Cardinality({id \in rows' : id < op[c].horizon}) <= op[c].max]_vars

(* Entries the policy in force does not keep *)
Expendable(id) ==
    \/ policy.days /\ id <= aged
    \/ policy.max > 0 /\ Cardinality({other \in rows : other > id}) >= policy.max

(* A prune takes an entry that the policy in force keeps only if another   *)
(* prune or a change of the policy has overtaken it: entries written, time *)
(* passing and calls cut short between its statements never make it do so. *)
KeptUnlessRaced ==
    [][\A c \in Calls :
         step'[c] # step[c] /\ (\E id \in rows \ rows' : ~Expendable(id)) => raced[c]]_vars

(* "delete rows older than `retention_days`, then the oldest rows beyond   *)
(* `retention_rows`": no entry is deleted that the policy in force keeps.   *)
(* The code breaks it, if only in a race: KeptUnlessRaced.                  *)
PolicyRespected == [][\A id \in rows \ rows' : Expendable(id)]_vars

=============================================================================
