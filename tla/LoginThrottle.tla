---------------------------- MODULE LoginThrottle ----------------------------
(***************************************************************************)
(* The failed-login throttle of the embedded REST server                   *)
(* (crates/banto-server/src/auth.rs): one map of failure records, shared   *)
(* by two kinds of key (per address and account, per address alone), and   *)
(* any number of login requests running AuthState::login_rate_limited at   *)
(* once.                                                                   *)
(*                                                                         *)
(* The map is behind an RwLock that is taken anew for every helper call,   *)
(* and the credential check (argon2, the slow part) runs with no lock at   *)
(* all, so a login is five steps: read the account key, read the address   *)
(* key, verify and write the account key, write the address key.  One      *)
(* action below is one of them.  Each helper reads the clock just BEFORE   *)
(* it takes the lock, so the time it works with may be up to MaxLag ticks  *)
(* old by then.                                                            *)
(*                                                                         *)
(* The peer address is always known: server::start serves every router     *)
(* with connect info.  Response building is left out.                      *)
(***************************************************************************)
EXTENDS Integers, FiniteSets

CONSTANTS
    Users,          \* usernames tried
    IPs,            \* peer addresses
    IpOnly,         \* first segment of a per-address key, no address itself
    Attempts,       \* login requests that can be in flight at the same time
    MaxFailures,    \* RateLimitPolicy::max_failures
    MaxIpFailures,  \* RateLimitPolicy::max_ip_failures
    Lockout,        \* RateLimitPolicy::lockout, in ticks
    MaxLag,         \* age a clock reading can have once the lock is held
    MaxTime         \* bound: the clock stops here

ASSUME PolicyAssumption ==
    /\ MaxFailures \in Nat \ {0}
    /\ MaxIpFailures \in Nat \ {0}
    /\ Lockout \in Nat \ {0}

ASSUME TimeAssumption == MaxLag \in Nat /\ MaxTime \in Nat

ASSUME KeyAssumption == IpOnly \notin IPs

ASSUME AttemptsAssumption == IsFiniteSet(Attempts)

VARIABLES
    clock,      \* Clock::now
    failures,   \* Inner::failures, NoRecord where the map has no entry
    pc,         \* where each login request is
    target,     \* <<address, username>> of the request, NoTarget when idle
    barred      \* the account key was locked out when the request read it

vars == <<clock, failures, pc, target, barred>>

-----------------------------------------------------------------------------
(* Keys: "{ip}|{username}" and "ip-only|{ip}" in the code. *)

AccountKey(t) == t
IpKey(t) == <<IpOnly, t[1]>>
Keys == (IPs \X Users) \cup ({IpOnly} \X IPs)
IsIpKey(k) == k[1] = IpOnly
Threshold(k) == IF IsIpKey(k) THEN MaxIpFailures ELSE MaxFailures

NoTarget == <<>>

-----------------------------------------------------------------------------
(* Failure records.  No entry is written with a count of 0 and no lock     *)
(* ends at time 0, so those values stand for "absent" and "None".          *)

NotLocked == 0
FailureRecord == [count : Nat, lockedUntil : Nat, lastFailure : Nat]
NoRecord == [count |-> 0, lockedUntil |-> NotLocked, lastFailure |-> 0]

SatSub(x, y) == IF x >= y THEN x - y ELSE 0

(* A slip: a record exactly one lockout old still counts as recent. *)
IsLiveTooLong(r, now) ==
    \/ r.lockedUntil > now
    \/ SatSub(now, r.lastFailure) <= Lockout

IsLive(r, now) ==
    \/ r.lockedUntil > now
    \/ SatSub(now, r.lastFailure) < Lockout

(* A slip: any lockout, also one still in force, ends the streak. *)
StreakEndsWithLock(r, now) ==
    \/ r.lockedUntil # NotLocked
    \/ SatSub(now, r.lastFailure) >= Lockout

StreakEnded(r, now) ==
    \/ r.lockedUntil # NotLocked /\ r.lockedUntil <= now
    \/ SatSub(now, r.lastFailure) >= Lockout

LockedOut(k, now) == failures[k].lockedUntil > now

Swept(now) == [k \in Keys |-> IF IsLive(failures[k], now)
                                THEN failures[k] ELSE NoRecord]

(* A slip: the lockout starts at the threshold but is not prolonged past it. *)
StruckOnce(r, threshold, now) ==
    LET entry == IF r.count = 0 \/ StreakEnded(r, now) THEN NoRecord ELSE r
    IN  [count       |-> entry.count + 1,
         lockedUntil |-> IF entry.count + 1 = threshold
                           THEN now + Lockout ELSE entry.lockedUntil,
         lastFailure |-> now]

(* One more failure on record r, which the sweep at time `now` kept. *)
Struck(r, threshold, now) ==
    LET entry == IF r.count = 0 THEN [NoRecord EXCEPT !.lastFailure = now]
                                ELSE r
        kept  == IF StreakEnded(entry, now) THEN NoRecord ELSE entry
        count == kept.count + 1
    IN  [count       |-> count,
         lockedUntil |-> IF count >= threshold THEN now + Lockout
                                               ELSE kept.lockedUntil,
         lastFailure |-> now]

(* AuthState::record_failure, with the sweep it starts with *)
RecordFailure(k, now) ==
    failures' = [Swept(now) EXCEPT ![k] = Struck(@, Threshold(k), now)]

(* AuthState::reset_failures *)
ResetFailures(k) == failures' = [failures EXCEPT ![k] = NoRecord]

-----------------------------------------------------------------------------
(* The steps of login_rate_limited. *)

(* Values a clock reading may have when it is used. *)
Readings == {t \in 0..clock : clock - t <= MaxLag}

Goto(a, label) == pc' = [pc EXCEPT ![a] = label]

Finish(a) ==
    /\ Goto(a, "idle")
    /\ target' = [target EXCEPT ![a] = NoTarget]
    /\ barred' = [barred EXCEPT ![a] = FALSE]

Init ==
    /\ clock = 0
    /\ failures = [k \in Keys |-> NoRecord]
    /\ pc = [a \in Attempts |-> "idle"]
    /\ target = [a \in Attempts |-> NoTarget]
    /\ barred = [a \in Attempts |-> FALSE]

Tick ==
    /\ clock < MaxTime
    /\ clock' = clock + 1
    /\ UNCHANGED <<failures, pc, target, barred>>

(* A request arrives and reads its account key; the answer is kept. *)
CheckAccount(a, t) ==
    /\ pc[a] = "idle"
    /\ Goto(a, "checkIp")
    /\ target' = [target EXCEPT ![a] = t]
    /\ \E now \in Readings :
         barred' = [barred EXCEPT ![a] = LockedOut(AccountKey(t), now)]
    /\ UNCHANGED <<clock, failures>>

(* Either key locked: the request is answered without the verifier. *)
RateLimited(a) ==
    /\ pc[a] = "checkIp"
    /\ \/ barred[a]
       \/ \E now \in Readings : LockedOut(IpKey(target[a]), now)
    /\ Finish(a)
    /\ UNCHANGED <<clock, failures>>

(* A slip: only the account key is consulted. *)
AdmitByAccount(a) ==
    /\ pc[a] = "checkIp"
    /\ ~barred[a]
    /\ Goto(a, "verifying")
    /\ UNCHANGED <<clock, failures, target, barred>>

Admit(a) ==
    /\ pc[a] = "checkIp"
    /\ ~barred[a]
    /\ \E now \in Readings : ~LockedOut(IpKey(target[a]), now)
    /\ Goto(a, "verifying")
    /\ UNCHANGED <<clock, failures, target, barred>>

(* The verifier says no: first the account key is written ... *)
VerifyFailed(a) ==
    /\ pc[a] = "verifying"
    /\ \E now \in Readings : RecordFailure(AccountKey(target[a]), now)
    /\ Goto(a, "failIp")
    /\ UNCHANGED <<clock, target, barred>>

(* ... then the address key. *)
RecordIpFailure(a) ==
    /\ pc[a] = "failIp"
    /\ \E now \in Readings : RecordFailure(IpKey(target[a]), now)
    /\ Finish(a)
    /\ UNCHANGED clock

(* The verifier says yes: both keys are cleared, one after the other. *)
VerifySucceeded(a) ==
    /\ pc[a] = "verifying"
    /\ ResetFailures(AccountKey(target[a]))
    /\ Goto(a, "clearIp")
    /\ UNCHANGED <<clock, target, barred>>

ClearIp(a) ==
    /\ pc[a] = "clearIp"
    /\ ResetFailures(IpKey(target[a]))
    /\ Finish(a)
    /\ UNCHANGED clock

Next ==
    \/ Tick
    \/ \E a \in Attempts :
         \/ \E t \in IPs \X Users : CheckAccount(a, t)
         \/ RateLimited(a)
         \/ Admit(a)
         \/ VerifyFailed(a)
         \/ RecordIpFailure(a)
         \/ VerifySucceeded(a)
         \/ ClearIp(a)

Spec == Init /\ [][Next]_vars

-----------------------------------------------------------------------------
(* Properties *)

Labels == {"idle", "checkIp", "verifying", "failIp", "clearIp"}

(* Type invariant: a request has a target exactly while it is running. *)
TypeOK ==
    /\ clock \in Nat
    /\ failures \in [Keys -> FailureRecord]
    /\ pc \in [Attempts -> Labels]
    /\ target \in [Attempts -> (IPs \X Users) \cup {NoTarget}]
    /\ barred \in [Attempts -> BOOLEAN]
    /\ \A a \in Attempts : pc[a] # "idle" => target[a] \in IPs \X Users

(* A key is locked exactly while its streak is at the threshold, and then  *)
(* until one lockout after the last failure: the concurrent failures that  *)
(* arrive during a lockout prolong it instead of leaving a record whose    *)
(* lock and streak disagree (record_failure).                              *)
LockFollowsStreak ==
    \A k \in Keys :
      /\ failures[k].lastFailure <= clock
      /\ failures[k].lockedUntil =
           IF failures[k].count >= Threshold(k)
             THEN failures[k].lastFailure + Lockout ELSE NotLocked

(* Once the sweep has run, the branch of record_failure that ends a streak *)
(* never has anything to do: a record that survives the sweep has neither  *)
(* an expired lock nor a stale streak, at whatever time it is looked at.   *)
SweepDecides ==
    \A k \in Keys, now \in 0..clock :
      IsLive(failures[k], now) /\ failures[k].count > 0
        => ~StreakEnded(failures[k], now)

(* Requests that may still add a failure to key k. *)
Pending(k) ==
    {a \in Attempts :
       IF IsIpKey(k)
         THEN pc[a] \in {"verifying", "failIp"} /\ IpKey(target[a]) = k
         ELSE /\ \/ pc[a] = "verifying"
                 \/ pc[a] = "checkIp" /\ ~barred[a]
              /\ AccountKey(target[a]) = k}

(* What the throttle promises under concurrency: while a key is locked no  *)
(* request joins those that were already past its check, so a streak can   *)
(* overshoot its threshold by at most the other requests in flight.        *)
(* (With clock readings taken under the lock, MaxLag = 0.)                 *)
LockBoundsStreak ==
    \A k \in Keys :
      LockedOut(k, clock) =>
        failures[k].count + Cardinality(Pending(k))
          < Threshold(k) + Cardinality(Attempts)

(* The step by which a successful login on k clears it. *)
SuccessOn(k) ==
    \E a \in Attempts :
      \/ pc[a] = "verifying" /\ pc'[a] = "clearIp" /\ AccountKey(target[a]) = k
      \/ pc[a] = "clearIp" /\ IpKey(target[a]) = k

(* A lockout in force is never cut short by another request's failure or   *)
(* by the sweep of another key (by more than the lag of a clock reading):  *)
(* only a successful login on that very key ends it early.                 *)
LockNeverShortened ==
    [][\A k \in Keys :
         /\ LockedOut(k, clock)
         /\ failures'[k].lockedUntil < failures[k].lockedUntil - MaxLag
         => SuccessOn(k)]_vars

=============================================================================
