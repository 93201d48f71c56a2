------------------------------ MODULE Sessions ------------------------------
(***************************************************************************)
(* Bearer tokens of the embedded REST server                               *)
(* (crates/banto-server/src/auth.rs) and the way a guarded /api request    *)
(* uses them (apps/admin-template/core/src/rest): every layer of a request *)
(* (require_auth, the role guard, the audit record of a write) looks the   *)
(* token up again, and each lookup may find what other requests left       *)
(* behind: logins sweep the map, lookups evict what has expired, and a     *)
(* logout removes the token under a request that is already running.       *)
(*                                                                         *)
(* Every operation on the map holds its write lock from start to end, so   *)
(* it is one action; the clock is read just BEFORE the lock is taken.      *)
(*                                                                         *)
(* `past` is a history variable: what a token's owner knows about it.      *)
(***************************************************************************)
EXTENDS Integers

CONSTANTS
    Tokens,         \* the tokens Uuid::new_v4 will hand out, each once
    Identities,     \* who logs in (account and role, as at that login)
    Allowed,        \* the identities whose role satisfies the guard's `min`
    Nobody,         \* no identity
    Requests,       \* requests that can be in flight at the same time
    AbsoluteTtl, IdleTtl,                       \* TokenPolicy
    RememberedAbsoluteTtl, RememberedIdleTtl,   \* remembered_policy
    MaxLag,         \* age a clock reading can have once the lock is held
    MaxTime         \* bound: the clock stops here

ASSUME IdentityAssumption == Allowed \subseteq Identities /\ Nobody \notin Identities

ASSUME PolicyAssumption ==
    /\ MaxLag \in Nat /\ MaxTime \in Nat
    /\ \A ttl \in {AbsoluteTtl, IdleTtl, RememberedAbsoluteTtl, RememberedIdleTtl} :
         ttl \in Nat /\ ttl > MaxLag

NoBearer == <<>>

ASSUME BearerAssumption == NoBearer \notin Tokens

VARIABLES
    clock,      \* Clock::now
    tokens,     \* Inner::tokens, NoToken where the map has no entry
    pc,         \* where each request is
    bearer,     \* the token in the request's Authorization header
    past        \* history of each token

sessionsVars == <<clock, tokens, pc, bearer, past>>

-----------------------------------------------------------------------------
TokenRecord == [identity : Identities \cup {Nobody}, issuedAt : Nat,
                lastUsed : Nat, remembered : BOOLEAN]
NoToken == [identity |-> Nobody, issuedAt |-> 0, lastUsed |-> 0,
            remembered |-> FALSE]

InMap(t) == tokens[t].identity # Nobody

AbsoluteOf(remembered) == IF remembered THEN RememberedAbsoluteTtl ELSE AbsoluteTtl
IdleOf(remembered) == IF remembered THEN RememberedIdleTtl ELSE IdleTtl

SatSub(x, y) == IF x >= y THEN x - y ELSE 0

(* A slip: activity keeps a session alive for ever. *)
ExpiredWhenIdle(record, now) ==
    SatSub(now, record.lastUsed) >= IdleOf(record.remembered)

Expired(record, now) ==
    \/ SatSub(now, record.issuedAt) >= AbsoluteOf(record.remembered)
    \/ SatSub(now, record.lastUsed) >= IdleOf(record.remembered)

Live(t, now) == InMap(t) /\ ~Expired(tokens[t], now)

(* Values a clock reading may have when it is used. *)
Readings == {now \in 0..clock : clock - now <= MaxLag}

-----------------------------------------------------------------------------
(* Operations on the map. *)

(* AuthState::touch, behind verify and identity_for *)
Touch(t, now) ==
    /\ tokens' = [tokens EXCEPT ![t] =
         IF Live(t, now) THEN [@ EXCEPT !.lastUsed = now] ELSE NoToken]
    /\ past' = [past EXCEPT ![t].used = IF Live(t, now) /\ now > @ THEN now ELSE @]

Issued(t, identity, remembered, now) ==
    [past EXCEPT ![t] = [issued |-> TRUE, identity |-> identity, at |-> now,
                         remembered |-> remembered, used |-> now, out |-> FALSE]]

(* A slip: the sweep judges every token by the policy of the new one. *)
IssueSweepsByNew(t, identity, remembered, now) ==
    LET expired(r) ==
          \/ SatSub(now, r.issuedAt) >= AbsoluteOf(remembered)
          \/ SatSub(now, r.lastUsed) >= IdleOf(remembered)
    IN  /\ tokens' = [u \in Tokens |->
             IF u = t THEN [identity |-> identity, issuedAt |-> now,
                            lastUsed |-> now, remembered |-> remembered]
             ELSE IF expired(tokens[u]) THEN NoToken ELSE tokens[u]]
        /\ past' = Issued(t, identity, remembered, now)

(* A slip: the map is not swept. *)
IssueUnswept(t, identity, remembered, now) ==
    /\ tokens' = [tokens EXCEPT ![t] =
         [identity |-> identity, issuedAt |-> now,
          lastUsed |-> now, remembered |-> remembered]]
    /\ past' = Issued(t, identity, remembered, now)

(* AuthState::issue_token_with: sweep, then insert *)
IssueToken(t, identity, remembered, now) ==
    /\ tokens' = [u \in Tokens |->
         IF u = t THEN [identity |-> identity, issuedAt |-> now,
                        lastUsed |-> now, remembered |-> remembered]
         ELSE IF Expired(tokens[u], now) THEN NoToken ELSE tokens[u]]
    /\ past' = Issued(t, identity, remembered, now)

-----------------------------------------------------------------------------
Goto(r, label) == pc' = [pc EXCEPT ![r] = label]

EndRequest(r) == Goto(r, "idle") /\ bearer' = [bearer EXCEPT ![r] = NoBearer]

SessionsInit ==
    /\ clock = 0
    /\ tokens = [t \in Tokens |-> NoToken]
    /\ pc = [r \in Requests |-> "idle"]
    /\ bearer = [r \in Requests |-> NoBearer]
    /\ past = [t \in Tokens |->
                [issued |-> FALSE, identity |-> Nobody, at |-> 0,
                 remembered |-> FALSE, used |-> 0, out |-> FALSE]]

Tick ==
    /\ clock < MaxTime
    /\ clock' = clock + 1
    /\ UNCHANGED <<tokens, pc, bearer, past>>

(* login_rate_limited (or a first setup) succeeds. *)
Login(t, identity, remembered) ==
    /\ ~past[t].issued
    /\ \E now \in Readings : IssueToken(t, identity, remembered, now)
    /\ UNCHANGED <<clock, pc, bearer>>

(* A single lookup: auth check, auth identity, change-password, or a       *)
(* request that require_auth turns away.                                   *)
LookUp(t) ==
    /\ past[t].issued
    /\ \E now \in Readings : Touch(t, now)
    /\ UNCHANGED <<clock, pc, bearer>>

(* require_auth lets a request for a role-guarded route through. *)
Authenticate(r, t) ==
    /\ pc[r] = "idle"
    /\ \E now \in Readings : Live(t, now) /\ Touch(t, now)
    /\ Goto(r, "checkRole")
    /\ bearer' = [bearer EXCEPT ![r] = t]
    /\ UNCHANGED clock

(* A slip: the guard relies on what require_auth has just seen. *)
PassRoleOnTrust(r) ==
    /\ pc[r] = "checkRole"
    /\ past[bearer[r]].identity \in Allowed
    /\ Goto(r, "writing")
    /\ UNCHANGED <<clock, tokens, bearer, past>>

(* require_role_at_least: the role suffices, the handler runs ... *)
PassRole(r) ==
    /\ pc[r] = "checkRole"
    /\ tokens[bearer[r]].identity \in Allowed
    /\ \E now \in Readings : Live(bearer[r], now) /\ Touch(bearer[r], now)
    /\ Goto(r, "writing")
    /\ UNCHANGED <<clock, bearer>>

(* ... or it does not, which the audit log keeps ... *)
Denied(r) ==
    /\ pc[r] = "checkRole"
    /\ tokens[bearer[r]].identity \notin Allowed
    /\ \E now \in Readings : Live(bearer[r], now) /\ Touch(bearer[r], now)
    /\ EndRequest(r)
    /\ UNCHANGED clock

(* ... or the token has gone since require_auth saw it: also a 403. *)
Vanished(r) ==
    /\ pc[r] = "checkRole"
    /\ \E now \in Readings : ~Live(bearer[r], now) /\ Touch(bearer[r], now)
    /\ EndRequest(r)
    /\ UNCHANGED clock

(* record_write looks up who did it, after the write. *)
RecordWrite(r) ==
    /\ pc[r] = "writing"
    /\ \E now \in Readings : Touch(bearer[r], now)
    /\ EndRequest(r)
    /\ UNCHANGED clock

(* audit_logout_middleware first looks up who is leaving ... *)
LogoutStart(r, t) ==
    /\ pc[r] = "idle"
    /\ past[t].issued
    /\ \E now \in Readings : Touch(t, now)
    /\ Goto(r, "loggingOut")
    /\ bearer' = [bearer EXCEPT ![r] = t]
    /\ UNCHANGED clock

(* ... then logout_handler removes the token. *)
LogoutFinish(r) ==
    /\ pc[r] = "loggingOut"
    /\ tokens' = [tokens EXCEPT ![bearer[r]] = NoToken]
    /\ past' = [past EXCEPT ![bearer[r]].out = TRUE]
    /\ EndRequest(r)
    /\ UNCHANGED clock

SessionsNext ==
    \/ Tick
    \/ \E t \in Tokens, identity \in Identities, remembered \in BOOLEAN :
         Login(t, identity, remembered)
    \/ \E t \in Tokens : LookUp(t)
    \/ \E r \in Requests :
         \/ \E t \in Tokens : Authenticate(r, t) \/ LogoutStart(r, t)
         \/ PassRole(r)
         \/ Denied(r)
         \/ Vanished(r)
         \/ RecordWrite(r)
         \/ LogoutFinish(r)

SessionsSpec == SessionsInit /\ [][SessionsNext]_sessionsVars

-----------------------------------------------------------------------------
(* Properties *)

History == [issued : BOOLEAN, identity : Identities \cup {Nobody}, at : Nat,
            remembered : BOOLEAN, used : Nat, out : BOOLEAN]

(* Type invariant: a request has a bearer token exactly while it runs. *)
SessionsTypeOK ==
    /\ clock \in Nat
    /\ tokens \in [Tokens -> TokenRecord]
    /\ pc \in [Requests -> {"idle", "checkRole", "writing", "loggingOut"}]
    /\ bearer \in [Requests -> Tokens \cup {NoBearer}]
    /\ past \in [Tokens -> History]
    /\ \A r \in Requests : (pc[r] = "idle") <=> (bearer[r] = NoBearer)

(* "The map stays bounded without a background reaper": whenever two       *)
(* tokens are in the map, neither had expired, under its own policy, when  *)
(* the other was issued, whatever lookups with late clock readings have    *)
(* done to their idle timers since.                                        *)
MapIsSwept ==
    \A t, u \in Tokens :
      InMap(t) /\ InMap(u) => ~Expired(tokens[t], tokens[u].issuedAt)

(* An actively used session stays alive: no login of somebody else, no     *)
(* overtaken lookup and no sweep costs a session that is inside both of    *)
(* its own bounds its token; only its own logout does.                     *)
LiveSessionSurvives ==
    \A t \in Tokens :
      /\ past[t].issued /\ ~past[t].out
      /\ clock - past[t].at < AbsoluteOf(past[t].remembered)
      /\ clock - past[t].used + MaxLag < IdleOf(past[t].remembered)
      => InMap(t)

(* A step by which a request gets past one of its two guards. *)
Served(r) ==
    \/ pc[r] = "idle" /\ pc'[r] = "checkRole"
    \/ pc[r] = "checkRole" /\ pc'[r] = "writing"

(* A logout takes effect for every guard that is still to come: not only   *)
(* for new requests, also for one between require_auth and the role check. *)
LoggedOutNotServed ==
    [][\A r \in Requests : Served(r) => ~past[bearer'[r]].out]_sessionsVars

(* No guard lets a token pass that has outlived the absolute or the idle   *)
(* bound it was issued with (by more than the age of a clock reading),     *)
(* however often it was used.                                              *)
ExpiryEnforced ==
    [][\A r \in Requests : Served(r) =>
         LET owner == past[bearer'[r]]
         IN  /\ clock - owner.at < AbsoluteOf(owner.remembered) + MaxLag
             /\ clock - owner.used < IdleOf(owner.remembered) + MaxLag]_sessionsVars

=============================================================================
