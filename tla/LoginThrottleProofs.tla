------------------------ MODULE LoginThrottleProofs ------------------------
(***************************************************************************)
(* Proofs about LoginThrottle for every set of users, addresses and        *)
(* concurrent requests, and every policy.                                  *)
(***************************************************************************)
EXTENDS LoginThrottle, FiniteSetTheorems, TLAPS

-----------------------------------------------------------------------------
(* Lemmas about one failure record *)

(* What LockFollowsStreak says of the record of one key. *)
Consistent(r, threshold, t) ==
    /\ r.lastFailure <= t
    /\ r.lockedUntil = IF r.count >= threshold
                         THEN r.lastFailure + Lockout ELSE NotLocked

(* A record that the sweep keeps has neither an expired lock nor a stale   *)
(* streak.                                                                 *)
LEMMA LiveIsNotEnded ==
    ASSUME NEW r \in FailureRecord, NEW threshold \in Nat \ {0},
           NEW t \in Nat, NEW now \in Nat,
           Consistent(r, threshold, t), IsLive(r, now)
    PROVE  ~StreakEnded(r, now)
  BY PolicyAssumption
  DEF FailureRecord, Consistent, IsLive, StreakEnded, SatSub, NotLocked

(* Adding a failure to a consistent record the sweep kept gives a          *)
(* consistent record.                                                      *)
LEMMA StruckConsistent ==
    ASSUME NEW r \in FailureRecord, NEW threshold \in Nat \ {0},
           NEW t \in Nat, NEW now \in 0..t, Consistent(r, threshold, t)
    PROVE  /\ Struck(r, threshold, now) \in FailureRecord
           /\ Consistent(Struck(r, threshold, now), threshold, t)
  BY PolicyAssumption
  DEF FailureRecord, Consistent, Struck, StreakEnded, SatSub, NotLocked, NoRecord

(* The absent record is consistent. *)
LEMMA NoRecordConsistent ==
    ASSUME NEW threshold \in Nat \ {0}, NEW t \in Nat
    PROVE  NoRecord \in FailureRecord /\ Consistent(NoRecord, threshold, t)
  BY DEF NoRecord, FailureRecord, Consistent, NotLocked

(* Every key has a positive threshold. *)
LEMMA ThresholdType == \A k \in Keys : Threshold(k) \in Nat \ {0}
  BY PolicyAssumption DEF Threshold

(* Both keys of a target are keys. *)
LEMMA KeysOfTarget ==
    ASSUME NEW t \in IPs \X Users
    PROVE  AccountKey(t) \in Keys /\ IpKey(t) \in Keys
  BY DEF AccountKey, IpKey, Keys

(* Readings of the clock are between 0 and the clock. *)
LEMMA ReadingsType ==
    ASSUME clock \in Nat, NEW now \in Readings
    PROVE  now \in 0..clock
  BY DEF Readings

-----------------------------------------------------------------------------
(* The invariant: types, and every record consistent with its streak.      *)

IInv == TypeOK /\ LockFollowsStreak

(* record_failure keeps the map a map of consistent records. *)
LEMMA RecordFailureKeeps ==
    ASSUME IInv, NEW k \in Keys, NEW now \in Readings, RecordFailure(k, now)
    PROVE  /\ failures' \in [Keys -> FailureRecord]
           /\ \A j \in Keys : Consistent(failures'[j], Threshold(j), clock)
<1>1. now \in 0..clock /\ clock \in Nat /\ now \in Nat
  BY ReadingsType DEF IInv, TypeOK
<1>2. \A j \in Keys : /\ failures[j] \in FailureRecord
                      /\ Consistent(failures[j], Threshold(j), clock)
  BY DEF IInv, TypeOK, LockFollowsStreak, Consistent
<1>3. \A j \in Keys : /\ Swept(now)[j] \in FailureRecord
                      /\ Consistent(Swept(now)[j], Threshold(j), clock)
  BY <1>1, <1>2, NoRecordConsistent, ThresholdType DEF Swept
<1>4. /\ Struck(Swept(now)[k], Threshold(k), now) \in FailureRecord
      /\ Consistent(Struck(Swept(now)[k], Threshold(k), now), Threshold(k), clock)
  BY <1>1, <1>3, ThresholdType, StruckConsistent
<1>5. failures' = [j \in Keys |-> IF j = k
                     THEN Struck(Swept(now)[k], Threshold(k), now)
                     ELSE Swept(now)[j]]
  BY DEF RecordFailure, Swept
<1> QED
  BY <1>3, <1>4, <1>5

(* So does reset_failures. *)
LEMMA ResetFailuresKeeps ==
    ASSUME IInv, NEW k \in Keys, ResetFailures(k)
    PROVE  /\ failures' \in [Keys -> FailureRecord]
           /\ \A j \in Keys : Consistent(failures'[j], Threshold(j), clock)
<1>1. \A j \in Keys : /\ failures[j] \in FailureRecord
                      /\ Consistent(failures[j], Threshold(j), clock)
  BY DEF IInv, TypeOK, LockFollowsStreak, Consistent
<1>2. failures' = [j \in Keys |-> IF j = k THEN NoRecord ELSE failures[j]]
  BY DEF ResetFailures, IInv, TypeOK
<1> QED
  BY <1>1, <1>2, NoRecordConsistent, ThresholdType DEF IInv, TypeOK

LEMMA InitInv == Init => IInv
<1> SUFFICES ASSUME Init PROVE IInv
  OBVIOUS
<1>1. TypeOK
  BY NoRecordConsistent DEF Init, TypeOK, Labels, FailureRecord, NoRecord, NotLocked
<1>2. LockFollowsStreak
  BY ThresholdType DEF Init, LockFollowsStreak, NoRecord, NotLocked
<1> QED
  BY <1>1, <1>2 DEF IInv

LEMMA NextInv == IInv /\ [Next]_vars => IInv'
<1> SUFFICES ASSUME IInv, [Next]_vars PROVE IInv'
  OBVIOUS
<1> USE DEF IInv
<1>1. CASE Tick
  <2>1. TypeOK'
    BY <1>1, TimeAssumption DEF Tick, TypeOK
  <2>2. LockFollowsStreak'
    BY <1>1, ThresholdType DEF Tick, TypeOK, LockFollowsStreak, FailureRecord
  <2> QED
    BY <2>1, <2>2
<1>2. ASSUME NEW a \in Attempts, NEW t \in IPs \X Users, CheckAccount(a, t)
      PROVE  IInv'
  <2>1. TypeOK'
    BY <1>2 DEF CheckAccount, TypeOK, Goto, Labels, LockedOut
  <2>2. LockFollowsStreak'
    BY <1>2 DEF CheckAccount, LockFollowsStreak
  <2> QED
    BY <2>1, <2>2
<1>3. ASSUME NEW a \in Attempts, RateLimited(a)
      PROVE  IInv'
  <2>1. TypeOK'
    BY <1>3 DEF RateLimited, TypeOK, Finish, Goto, Labels
  <2>2. LockFollowsStreak'
    BY <1>3 DEF RateLimited, LockFollowsStreak
  <2> QED
    BY <2>1, <2>2
<1>4. ASSUME NEW a \in Attempts, Admit(a)
      PROVE  IInv'
  <2>1. TypeOK'
    BY <1>4 DEF Admit, TypeOK, Goto, Labels
  <2>2. LockFollowsStreak'
    BY <1>4 DEF Admit, LockFollowsStreak
  <2> QED
    BY <2>1, <2>2
<1>5. ASSUME NEW a \in Attempts, VerifyFailed(a)
      PROVE  IInv'
  <2>1. AccountKey(target[a]) \in Keys
    BY <1>5, KeysOfTarget DEF VerifyFailed, TypeOK
  <2>2. /\ failures' \in [Keys -> FailureRecord]
        /\ \A j \in Keys : Consistent(failures'[j], Threshold(j), clock)
    BY <1>5, <2>1, RecordFailureKeeps DEF VerifyFailed
  <2>3. TypeOK'
    BY <1>5, <2>2 DEF VerifyFailed, TypeOK, Goto, Labels
  <2>4. LockFollowsStreak'
    BY <1>5, <2>2 DEF VerifyFailed, LockFollowsStreak, Consistent
  <2> QED
    BY <2>3, <2>4
<1>6. ASSUME NEW a \in Attempts, RecordIpFailure(a)
      PROVE  IInv'
  <2>1. IpKey(target[a]) \in Keys
    BY <1>6, KeysOfTarget DEF RecordIpFailure, TypeOK
  <2>2. /\ failures' \in [Keys -> FailureRecord]
        /\ \A j \in Keys : Consistent(failures'[j], Threshold(j), clock)
    BY <1>6, <2>1, RecordFailureKeeps DEF RecordIpFailure
  <2>3. TypeOK'
    BY <1>6, <2>2 DEF RecordIpFailure, TypeOK, Finish, Goto, Labels
  <2>4. LockFollowsStreak'
    BY <1>6, <2>2 DEF RecordIpFailure, LockFollowsStreak, Consistent
  <2> QED
    BY <2>3, <2>4
<1>7. ASSUME NEW a \in Attempts, VerifySucceeded(a)
      PROVE  IInv'
  <2>1. AccountKey(target[a]) \in Keys
    BY <1>7, KeysOfTarget DEF VerifySucceeded, TypeOK
  <2>2. /\ failures' \in [Keys -> FailureRecord]
        /\ \A j \in Keys : Consistent(failures'[j], Threshold(j), clock)
    BY <1>7, <2>1, ResetFailuresKeeps DEF VerifySucceeded
  <2>3. TypeOK'
    BY <1>7, <2>2 DEF VerifySucceeded, TypeOK, Goto, Labels
  <2>4. LockFollowsStreak'
    BY <1>7, <2>2 DEF VerifySucceeded, LockFollowsStreak, Consistent
  <2> QED
    BY <2>3, <2>4
<1>8. ASSUME NEW a \in Attempts, ClearIp(a)
      PROVE  IInv'
  <2>1. IpKey(target[a]) \in Keys
    BY <1>8, KeysOfTarget DEF ClearIp, TypeOK
  <2>2. /\ failures' \in [Keys -> FailureRecord]
        /\ \A j \in Keys : Consistent(failures'[j], Threshold(j), clock)
    BY <1>8, <2>1, ResetFailuresKeeps DEF ClearIp
  <2>3. TypeOK'
    BY <1>8, <2>2 DEF ClearIp, TypeOK, Finish, Goto, Labels
  <2>4. LockFollowsStreak'
    BY <1>8, <2>2 DEF ClearIp, LockFollowsStreak, Consistent
  <2> QED
    BY <2>3, <2>4
<1>9. CASE UNCHANGED vars
  BY <1>9 DEF vars, TypeOK, LockFollowsStreak
<1> QED
  BY <1>1, <1>2, <1>3, <1>4, <1>5, <1>6, <1>7, <1>8, <1>9 DEF Next

-----------------------------------------------------------------------------
(* The theorems *)

(* Every reachable state has the types TypeOK gives, whatever the policy   *)
(* and however many logins run at once.                                    *)
THEOREM TypeCorrect == Spec => []TypeOK
<1>1. IInv => TypeOK
  BY DEF IInv
<1> QED
  BY InitInv, NextInv, <1>1, PTL DEF Spec

(* A key is locked exactly while its streak is at its threshold, until one *)
(* lockout after the last failure (record_failure).                        *)
THEOREM LockAndStreakAgree == Spec => []LockFollowsStreak
<1>1. IInv => LockFollowsStreak
  BY DEF IInv
<1> QED
  BY InitInv, NextInv, <1>1, PTL DEF Spec

(* The streak-ending branch of record_failure is dead: whatever survives   *)
(* the sweep it starts with is a streak that goes on.                      *)
THEOREM SweepDecidesAlways == Spec => []SweepDecides
<1>1. IInv => SweepDecides
  <2> SUFFICES ASSUME IInv, NEW k \in Keys, NEW now \in 0..clock,
                      IsLive(failures[k], now)
               PROVE  ~StreakEnded(failures[k], now)
    BY DEF SweepDecides
  <2>1. /\ failures[k] \in FailureRecord
        /\ Consistent(failures[k], Threshold(k), clock)
        /\ clock \in Nat /\ now \in Nat
    BY DEF IInv, TypeOK, LockFollowsStreak, Consistent
  <2> QED
    BY <2>1, LiveIsNotEnded, ThresholdType
<1> QED
  BY InitInv, NextInv, <1>1, PTL DEF Spec

-----------------------------------------------------------------------------
(* A lockout in force *)

(* A failure recorded anywhere leaves a locked key locked, at most one lag *)
(* of the clock earlier, and with a longer streak if it is its own.        *)
LEMMA LockSurvivesFailure ==
    ASSUME IInv, NEW k \in Keys, NEW now \in Readings, RecordFailure(k, now),
           NEW j \in Keys, LockedOut(j, clock)
    PROVE  /\ failures'[j].lockedUntil >= failures[j].lockedUntil - MaxLag
           /\ failures'[j].count =
                IF j = k THEN failures[j].count + 1 ELSE failures[j].count
<1>1. now \in Nat /\ now <= clock /\ clock - now <= MaxLag /\ clock \in Nat
  BY DEF Readings, IInv, TypeOK
<1>2. /\ failures[j] \in FailureRecord
      /\ Consistent(failures[j], Threshold(j), clock)
      /\ failures[j].lockedUntil > clock
  BY DEF IInv, TypeOK, LockFollowsStreak, Consistent, LockedOut
<1>3. IsLive(failures[j], now) /\ Threshold(j) \in Nat \ {0}
  BY <1>1, <1>2, ThresholdType DEF IsLive, FailureRecord
<1>4. Swept(now)[j] = failures[j]
  BY <1>3 DEF Swept
<1>5. failures[j].count >= Threshold(j) /\ failures[j].count > 0
      /\ failures[j].lockedUntil = failures[j].lastFailure + Lockout
  BY <1>1, <1>2, <1>3 DEF Consistent, NotLocked, FailureRecord
<1>6. CASE j = k
  <2>1. failures'[j] = Struck(failures[j], Threshold(j), now)
    BY <1>4, <1>6 DEF RecordFailure, Swept
  <2>2. ~StreakEnded(failures[j], now)
    BY <1>1, <1>2, <1>3, LiveIsNotEnded
  <2>3. failures'[j] = [count |-> failures[j].count + 1,
                        lockedUntil |-> now + Lockout,
                        lastFailure |-> now]
    BY <1>2, <1>3, <1>5, <2>1, <2>2 DEF Struck, FailureRecord
  <2> QED
    BY <1>1, <1>2, <1>5, <1>6, <2>3, PolicyAssumption, TimeAssumption
    DEF Consistent, FailureRecord
<1>7. CASE j # k
  <2>1. failures'[j] = failures[j]
    BY <1>4, <1>7 DEF RecordFailure, Swept
  <2> QED
    BY <1>2, <1>7, <2>1, TimeAssumption DEF FailureRecord
<1> QED
  BY <1>6, <1>7

(* Only a successful login on a key ends its lockout early, whatever the   *)
(* other requests do (record_failure, reset_failures).                     *)
THEOREM LockoutIsKept == Spec => LockNeverShortened
<1> DEFINE Kept == \A k \in Keys :
                     /\ LockedOut(k, clock)
                     /\ failures'[k].lockedUntil < failures[k].lockedUntil - MaxLag
                     => SuccessOn(k)
<1>1. IInv /\ [Next]_vars => [Kept]_vars
  <2> SUFFICES ASSUME IInv, Next, NEW k \in Keys, LockedOut(k, clock),
                      failures'[k].lockedUntil < failures[k].lockedUntil - MaxLag
               PROVE  SuccessOn(k)
    OBVIOUS
  <2>1. failures[k].lockedUntil \in Nat /\ failures' # failures
    BY TimeAssumption DEF IInv, TypeOK, FailureRecord
  <2>2. PICK a \in Attempts : \/ VerifyFailed(a) \/ RecordIpFailure(a)
                              \/ VerifySucceeded(a) \/ ClearIp(a)
    BY <2>1 DEF Next, Tick, CheckAccount, RateLimited, Admit
  <2>3. ~VerifyFailed(a)
    <3>1. ASSUME VerifyFailed(a) PROVE AccountKey(target[a]) \in Keys
      BY <3>1, KeysOfTarget DEF VerifyFailed, IInv, TypeOK
    <3>2. ASSUME VerifyFailed(a)
          PROVE  \E now \in Readings : RecordFailure(AccountKey(target[a]), now)
      BY <3>2 DEF VerifyFailed
    <3>3. ASSUME VerifyFailed(a)
          PROVE  failures'[k].lockedUntil >= failures[k].lockedUntil - MaxLag
      BY <3>1, <3>2, <3>3, LockSurvivesFailure
    <3>4. ASSUME VerifyFailed(a) PROVE failures'[k].lockedUntil \in Nat
      BY <3>1, <3>2, <3>4, RecordFailureKeeps DEF FailureRecord
    <3> QED
      BY <2>1, <3>3, <3>4, TimeAssumption
  <2>4. ~RecordIpFailure(a)
    <3>1. ASSUME RecordIpFailure(a) PROVE IpKey(target[a]) \in Keys
      BY <3>1, KeysOfTarget DEF RecordIpFailure, IInv, TypeOK
    <3>2. ASSUME RecordIpFailure(a)
          PROVE  \E now \in Readings : RecordFailure(IpKey(target[a]), now)
      BY <3>2 DEF RecordIpFailure
    <3>3. ASSUME RecordIpFailure(a)
          PROVE  failures'[k].lockedUntil >= failures[k].lockedUntil - MaxLag
      BY <3>1, <3>2, <3>3, LockSurvivesFailure
    <3>4. ASSUME RecordIpFailure(a) PROVE failures'[k].lockedUntil \in Nat
      BY <3>1, <3>2, <3>4, RecordFailureKeeps DEF FailureRecord
    <3> QED
      BY <2>1, <3>3, <3>4, TimeAssumption
  <2>5. CASE VerifySucceeded(a)
    <3>1. AccountKey(target[a]) = k
      BY <2>5, TimeAssumption, <2>1 DEF VerifySucceeded, ResetFailures, IInv, TypeOK
    <3>2. pc'[a] = "clearIp"
      BY <2>5 DEF VerifySucceeded, Goto, IInv, TypeOK
    <3> QED
      BY <2>5, <3>1, <3>2 DEF SuccessOn, VerifySucceeded
  <2>6. CASE ClearIp(a)
    <3>1. IpKey(target[a]) = k
      BY <2>6, TimeAssumption, <2>1 DEF ClearIp, ResetFailures, IInv, TypeOK
    <3> QED
      BY <2>6, <3>1 DEF SuccessOn, ClearIp
  <2> QED
    BY <2>2, <2>3, <2>4, <2>5, <2>6
<1> QED
  BY InitInv, NextInv, <1>1, PTL DEF Spec, LockNeverShortened

-----------------------------------------------------------------------------
(* How far a streak can overshoot, when the clock is read under the lock.  *)

(* The two ways a set of pending requests is compared with another. *)
LEMMA FewerPending ==
    ASSUME NEW T \in SUBSET Attempts, NEW S \in SUBSET T
    PROVE  /\ Cardinality(S) \in Nat /\ Cardinality(T) \in Nat
           /\ Cardinality(S) <= Cardinality(T)
           /\ \A a \in T : a \notin S => Cardinality(S) < Cardinality(T)
<1>1. IsFiniteSet(T) /\ IsFiniteSet(S)
  BY AttemptsAssumption, FS_Subset
<1>2. Cardinality(S) \in Nat /\ Cardinality(T) \in Nat
  BY <1>1, FS_CardinalityType
<1>3. Cardinality(S) <= Cardinality(T) /\ (Cardinality(S) = Cardinality(T) => S = T)
  BY <1>1, FS_Subset
<1> QED
  BY <1>2, <1>3

(* A step under which a locked key was locked before, with the same count  *)
(* and no new pending request, keeps the bound of that key.                *)
StreakBound(k) ==
    LockedOut(k, clock) =>
      failures[k].count + Cardinality(Pending(k))
        < Threshold(k) + Cardinality(Attempts)

LEMMA BoundKept ==
    ASSUME IInv, NEW k \in Keys, StreakBound(k),
           LockedOut(k, clock)' =>
             /\ LockedOut(k, clock)
             /\ failures'[k].count = failures[k].count
             /\ Pending(k)' \subseteq Pending(k)
    PROVE  StreakBound(k)'
<1> SUFFICES ASSUME LockedOut(k, clock)'
             PROVE  failures'[k].count + Cardinality(Pending(k)')
                      < Threshold(k) + Cardinality(Attempts)
  BY DEF StreakBound
<1>1. failures[k].count \in Nat /\ Threshold(k) \in Nat
  BY ThresholdType DEF IInv, TypeOK, FailureRecord
<1>2. /\ Cardinality(Pending(k)') <= Cardinality(Pending(k))
      /\ Cardinality(Pending(k)') \in Nat /\ Cardinality(Pending(k)) \in Nat
  BY FewerPending DEF Pending
<1>3. Cardinality(Attempts) \in Nat
  BY AttemptsAssumption, FS_CardinalityType
<1> QED
  BY <1>1, <1>2, <1>3 DEF StreakBound

(* The step that records a failure of request a on key k: one request      *)
(* fewer is pending on k, and no other key gains one.                      *)
LEMMA FailureKeepsBound ==
    ASSUME MaxLag = 0, IInv, \A k \in Keys : StreakBound(k),
           NEW a \in Attempts, NEW k \in Keys,
           NEW now \in Readings, RecordFailure(k, now), clock' = clock,
           \A j \in Keys : Pending(j)' \subseteq Pending(j),
           a \in Pending(k), a \notin Pending(k)'
    PROVE  \A j \in Keys : StreakBound(j)'
<1> SUFFICES ASSUME NEW j \in Keys PROVE StreakBound(j)'
  OBVIOUS
<1>1. now = clock /\ clock \in Nat
  BY DEF Readings, IInv, TypeOK
<1>2. /\ failures[j] \in FailureRecord
      /\ Consistent(failures[j], Threshold(j), clock)
      /\ Threshold(j) \in Nat \ {0}
  BY ThresholdType DEF IInv, TypeOK, LockFollowsStreak, Consistent
<1>3. CASE j # k
  <2>1. failures'[j] = Swept(now)[j]
    BY <1>3 DEF RecordFailure, Swept
  <2>2. failures'[j] = failures[j] \/ failures'[j] = NoRecord
    BY <2>1 DEF Swept
  <2>3. LockedOut(j, clock)' => LockedOut(j, clock) /\ failures'[j] = failures[j]
    BY <1>1, <2>2 DEF LockedOut, NoRecord, NotLocked
  <2> QED
    BY <2>3, BoundKept
<1>4. CASE j = k
  <2>1. failures'[k] = Struck(Swept(now)[k], Threshold(k), now)
    BY DEF RecordFailure, Swept
  <2>2. failures'[k].count \in Nat
    BY RecordFailureKeeps DEF FailureRecord
  <2>3. /\ Cardinality(Pending(k)') < Cardinality(Pending(k))
        /\ Cardinality(Pending(k)') \in Nat /\ Cardinality(Pending(k)) \in Nat
    BY FewerPending DEF Pending
  <2>4. /\ Cardinality(Pending(k)') < Cardinality(Attempts)
        /\ Cardinality(Attempts) \in Nat
    <3>1. Pending(k)' \subseteq Attempts
      BY DEF Pending
    <3> QED
      BY <3>1, FewerPending
  <2>5. CASE LockedOut(k, clock)
    <3>1. failures'[k].count = failures[k].count + 1
      BY <2>5, LockSurvivesFailure
    <3>2. failures[k].count + Cardinality(Pending(k)) < Threshold(k) + Cardinality(Attempts)
      BY <2>5 DEF StreakBound
    <3> QED
      BY <1>2, <1>4, <2>3, <2>4, <3>1, <3>2 DEF StreakBound, FailureRecord
  <2>6. CASE ~LockedOut(k, clock)
    <3>1. Swept(now)[k].count < Threshold(k) /\ Swept(now)[k] \in FailureRecord
      BY <1>1, <1>2, <1>4, <2>6, PolicyAssumption
      DEF Swept, LockedOut, IsLive, SatSub, Consistent, FailureRecord, NoRecord, NotLocked
    <3>2. failures'[k].count <= Threshold(k)
      BY <1>1, <1>2, <1>4, <2>1, <3>1
      DEF Struck, FailureRecord, NoRecord, NotLocked
    <3> QED
      BY <1>2, <1>4, <2>2, <2>3, <2>4, <3>2 DEF StreakBound
  <2> QED
    BY <2>5, <2>6
<1> QED
  BY <1>3, <1>4

LEMMA NextBound ==
    ASSUME MaxLag = 0, IInv, LockBoundsStreak, [Next]_vars
    PROVE  LockBoundsStreak'
<1>0. \A k \in Keys : StreakBound(k)
  BY DEF LockBoundsStreak, StreakBound
<1> SUFFICES \A k \in Keys : StreakBound(k)'
  BY DEF LockBoundsStreak, StreakBound
<1>1. Readings = {clock} /\ clock \in Nat
  BY DEF Readings, IInv, TypeOK
<1>2. CASE Tick
  <2>1. \A k \in Keys : Pending(k)' = Pending(k)
    BY <1>2 DEF Tick, Pending
  <2>2. \A k \in Keys : LockedOut(k, clock)' => LockedOut(k, clock)
    BY <1>1, <1>2 DEF Tick, LockedOut, IInv, TypeOK, FailureRecord
  <2> QED
    BY <1>0, <1>2, <2>1, <2>2, BoundKept DEF Tick
<1>3. ASSUME NEW a \in Attempts, NEW t \in IPs \X Users, CheckAccount(a, t)
      PROVE  \A k \in Keys : StreakBound(k)'
  <2> SUFFICES ASSUME NEW k \in Keys, LockedOut(k, clock)' PROVE StreakBound(k)'
    BY DEF StreakBound
  <2>1. LockedOut(k, clock) /\ failures' = failures
    BY <1>3 DEF CheckAccount, LockedOut
  <2>2. k = AccountKey(t) => barred'[a]
    BY <1>1, <1>3, <2>1 DEF CheckAccount, IInv, TypeOK
  <2>3. Pending(k)' \subseteq Pending(k)
    <3> SUFFICES ASSUME NEW b \in Pending(k)' PROVE b \in Pending(k)
      OBVIOUS
    <3>1. b # a
      BY <1>3, <2>2 DEF CheckAccount, Goto, Pending, IInv, TypeOK
    <3> QED
      BY <1>3, <3>1 DEF CheckAccount, Goto, Pending, IInv, TypeOK
  <2> QED
    BY <1>0, <2>1, <2>3, BoundKept
<1>4. ASSUME NEW a \in Attempts, RateLimited(a)
      PROVE  \A k \in Keys : StreakBound(k)'
  <2> SUFFICES ASSUME NEW k \in Keys PROVE StreakBound(k)'
    OBVIOUS
  <2>1. Pending(k)' \subseteq Pending(k)
    BY <1>4 DEF RateLimited, Finish, Goto, Pending, IInv, TypeOK
  <2> QED
    BY <1>0, <1>4, <2>1, BoundKept DEF RateLimited, LockedOut
<1>5. ASSUME NEW a \in Attempts, Admit(a)
      PROVE  \A k \in Keys : StreakBound(k)'
  <2> SUFFICES ASSUME NEW k \in Keys, LockedOut(k, clock)' PROVE StreakBound(k)'
    BY DEF StreakBound
  <2>1. LockedOut(k, clock) /\ failures' = failures
    BY <1>5 DEF Admit, LockedOut
  <2>2. k # IpKey(target[a])
    BY <1>1, <1>5, <2>1 DEF Admit
  <2>3. Pending(k)' \subseteq Pending(k)
    BY <1>5, <2>2 DEF Admit, Goto, Pending, IInv, TypeOK
  <2> QED
    BY <1>0, <2>1, <2>3, BoundKept
<1>6. ASSUME NEW a \in Attempts, VerifyFailed(a)
      PROVE  \A j \in Keys : StreakBound(j)'
  <2>1. target[a] \in IPs \X Users
    BY <1>6 DEF VerifyFailed, IInv, TypeOK
  <2>2. PICK k \in Keys : k = AccountKey(target[a]) /\ ~IsIpKey(k)
    BY <2>1, KeysOfTarget, KeyAssumption DEF AccountKey, IsIpKey
  <2>3. \A j \in Keys : Pending(j)' \subseteq Pending(j)
    BY <1>6 DEF VerifyFailed, Goto, Pending, IInv, TypeOK
  <2>4. a \in Pending(k) /\ a \notin Pending(k)'
    BY <1>6, <2>2 DEF VerifyFailed, Goto, Pending, IInv, TypeOK
  <2>5. PICK now \in Readings : RecordFailure(k, now)
    BY <1>6, <2>2 DEF VerifyFailed
  <2> QED
    BY <1>0, <1>6, <2>3, <2>4, <2>5, FailureKeepsBound DEF VerifyFailed
<1>7. ASSUME NEW a \in Attempts, RecordIpFailure(a)
      PROVE  \A j \in Keys : StreakBound(j)'
  <2>1. target[a] \in IPs \X Users
    BY <1>7 DEF RecordIpFailure, IInv, TypeOK
  <2>2. PICK k \in Keys : k = IpKey(target[a]) /\ IsIpKey(k)
    BY <2>1, KeysOfTarget DEF IpKey, IsIpKey
  <2>3. \A j \in Keys : Pending(j)' \subseteq Pending(j)
    BY <1>7 DEF RecordIpFailure, Finish, Goto, Pending, IInv, TypeOK
  <2>4. a \in Pending(k) /\ a \notin Pending(k)'
    BY <1>7, <2>2 DEF RecordIpFailure, Finish, Goto, Pending, IInv, TypeOK
  <2>5. PICK now \in Readings : RecordFailure(k, now)
    BY <1>7, <2>2 DEF RecordIpFailure
  <2> QED
    BY <1>0, <1>7, <2>3, <2>4, <2>5, FailureKeepsBound DEF RecordIpFailure
<1>8. ASSUME NEW a \in Attempts, VerifySucceeded(a) \/ ClearIp(a)
      PROVE  \A j \in Keys : StreakBound(j)'
  <2> SUFFICES ASSUME NEW j \in Keys PROVE StreakBound(j)'
    OBVIOUS
  <2>1. Pending(j)' \subseteq Pending(j)
    BY <1>8 DEF VerifySucceeded, ClearIp, Finish, Goto, Pending, IInv, TypeOK
  <2>2. failures'[j] = failures[j] \/ failures'[j] = NoRecord
    BY <1>8 DEF VerifySucceeded, ClearIp, ResetFailures, IInv, TypeOK
  <2>3. LockedOut(j, clock)' => LockedOut(j, clock) /\ failures'[j] = failures[j]
    BY <1>1, <1>8, <2>2
    DEF VerifySucceeded, ClearIp, LockedOut, NoRecord, NotLocked
  <2> QED
    BY <1>0, <2>1, <2>3, BoundKept
<1>9. CASE UNCHANGED vars
  BY <1>0, <1>9 DEF vars, StreakBound, LockedOut, Pending
<1> QED
  BY <1>2, <1>3, <1>4, <1>5, <1>6, <1>7, <1>8, <1>9 DEF Next

(* While a key is locked its streak stays within the requests that were    *)
(* already past the check when the lock was set: at most one failure per   *)
(* other request in flight beyond the threshold (login_rate_limited).      *)
THEOREM LockoutBoundsStreak == ASSUME MaxLag = 0 PROVE Spec => []LockBoundsStreak
<1>1. Init => LockBoundsStreak
  BY DEF Init, LockBoundsStreak, LockedOut, NoRecord, NotLocked
<1>2. IInv /\ LockBoundsStreak /\ [Next]_vars => LockBoundsStreak'
  BY NextBound
<1> QED
  BY InitInv, NextInv, <1>1, <1>2, PTL DEF Spec

=============================================================================
