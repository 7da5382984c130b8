------------------------------ MODULE Accounts ------------------------------
(***************************************************************************)
(* Users and sessions: auth/users.py, auth/sessions.py, api/users.py and   *)
(* api/auth.py over the users and sessions tables.                         *)
(*                                                                         *)
(* A handler runs on its request's thread and connection.  A SELECT before *)
(* the first write is a transaction of its own, so each is one action and  *)
(* what it read may be stale afterwards; the writes of a handler are one   *)
(* transaction and one action, and SQLite runs one at a time.  `setup`     *)
(* alone takes the write lock before it reads.  A refused request writes   *)
(* an audit row and nothing else, so a refusal just ends the request.      *)
(* Passwords are right or wrong; a session expires at any time.            *)
(***************************************************************************)
EXTENDS Naturals, FiniteSets

CONSTANTS Requests,   \* request threads
          Users,      \* user ids, never used twice
          Sessions,   \* bound: session ids, never used twice
          Nobody, NoSession,  \* nothing read yet; no session cookie
          Offered,    \* bound: the PATCH bodies that are sent
          MaxCalls    \* bound: requests served

ROLES == {"viewer", "admin", "owner"}
OPS   == {"create", "patch", "delete", "revoke_all", "logout", "password"}

\* The PATCH body: each field is left out or set.
Bodies == [role : ROLES \cup {"keep"}, disabled : {"keep", "yes", "no"}, must : {"keep", "yes", "no"}]
NoBody == [role |-> "keep", disabled |-> "keep", must |-> "keep"]

ASSUME AccountsAssumption ==
  /\ Offered \subseteq Bodies /\ NoBody \in Offered
  /\ IsFiniteSet(Users)
  /\ Nobody \notin Users /\ NoSession \notin Sessions
  /\ MaxCalls \in Nat

VARIABLES
  role,       \* users.role; "new" before INSERT, "gone" after DELETE
  disabled,   \* users.disabled
  must,       \* users.must_change
  state,      \* sessions: "new", "live", "revoked", "expired", or "gone" by the cascade
  holder,     \* sessions.user_id
  writeBy,    \* the requests inside BEGIN IMMEDIATE: at most one
  pc,         \* where each request is
  req,        \* the local variables of its handler
  calls,      \* requests served so far
  crossed     \* for the properties: the users whose role or disabled flag others have
              \* changed since a PATCH or DELETE read its target

users    == <<role, disabled, must>>
sessions == <<state, holder>>
accountsVars     == <<users, sessions, writeBy, pc, req, calls, crossed>>

Exists(u)  == role[u] \in ROLES
Owner(u)   == role[u] = "owner" /\ ~disabled[u]
Free       == writeBy = {}

\* The operation, the principal's user and session, and the target's row as read.
Blank == [op |-> "logout", actor |-> Nobody, session |-> NoSession, target |-> Nobody,
          role |-> "viewer", disabled |-> FALSE,
          patch |-> NoBody]

\* resolve_session: not revoked, not expired, and its user is enabled.
resolve_session(s) == state[s] = "live" /\ Exists(holder[s]) /\ ~disabled[holder[s]]

\* The server starts on a database that is empty, was given its first owner by
\* LAYWATCH_BOOTSTRAP_OWNER, or was served before.
AccountsInit ==
  /\ role \in [Users -> ROLES \cup {"new"}]
  /\ disabled \in [Users -> BOOLEAN] /\ must \in [Users -> BOOLEAN]
  /\ \A u \in Users : role[u] = "new" => ~disabled[u] /\ ~must[u]
  /\ (\E u \in Users : Exists(u)) => \E u \in Users : Owner(u)
  /\ state \in [Sessions -> {"new", "live"}]
  /\ holder \in [Sessions -> Users \cup {Nobody}]
  /\ \A s \in Sessions : IF state[s] = "new" THEN holder[s] = Nobody
                         ELSE holder[s] \in Users /\ Exists(holder[s]) /\ ~disabled[holder[s]]
  /\ writeBy = {}
  /\ pc = [r \in Requests |-> "idle"] /\ req = [r \in Requests |-> Blank]
  /\ calls = 0 /\ crossed = [r \in Requests |-> {}]

Go(r, p)      == pc' = [pc EXCEPT ![r] = p]
Locally(r, q) == req' = [req EXCEPT ![r] = q]

Serve(r) == pc[r] = "idle" /\ calls < MaxCalls /\ calls' = calls + 1

\* The response is sent, whatever it is; the handler's variables are gone.
Done(r) == Go(r, "idle") /\ Locally(r, Blank)

\* 4xx from a check, or a write that could not get the lock in time.
Refused(r) ==
  /\ pc[r] \notin {"idle", "setup", "setupinsert"}
  /\ Done(r)
  /\ crossed' = [crossed EXCEPT ![r] = {}]
  /\ UNCHANGED <<users, sessions, writeBy, calls>>

-----------------------------------------------------------------------------
(* First-run setup. *)

SetupUnlocked(r) == UNCHANGED writeBy                   \* seeded fault: a deferred BEGIN
SetupLock(r)     == Free /\ writeBy' = {r}

SetupBegin(r) ==
  /\ Serve(r)
  /\ SetupLock(r)
  /\ Go(r, "setup")
  /\ UNCHANGED <<users, sessions, req, crossed>>

SetupClosed(r) ==
  /\ pc[r] = "setup" /\ \E u \in Users : Exists(u)
  /\ writeBy' = {}
  /\ Done(r)
  /\ UNCHANGED <<users, sessions, calls, crossed>>

SetupOpen(r) ==
  /\ pc[r] = "setup" /\ \A u \in Users : ~Exists(u)
  /\ Go(r, "setupinsert")
  /\ UNCHANGED <<users, sessions, writeBy, req, calls, crossed>>

insert_user(u, ro, mu) ==
  /\ role[u] = "new"
  /\ role' = [role EXCEPT ![u] = ro]
  /\ disabled' = [disabled EXCEPT ![u] = FALSE]
  /\ must' = [must EXCEPT ![u] = mu]

SetupInsert(r, u) ==
  /\ pc[r] = "setupinsert"
  /\ insert_user(u, "owner", FALSE)
  /\ writeBy' = {}
  /\ Done(r)
  /\ UNCHANGED <<sessions, calls, crossed>>

-----------------------------------------------------------------------------
(* Login. *)

\* The row is read and the password verified against it.
LoginRead(r, u, s) ==
  /\ Serve(r)
  /\ Exists(u) /\ ~disabled[u]
  /\ Locally(r, [req[r] EXCEPT !.target = u, !.session = s])
  /\ Go(r, "previous")
  /\ UNCHANGED <<users, sessions, writeBy, crossed>>

\* The browser's previous session, if its cookie still resolves.
LoginPrevious(r) ==
  /\ pc[r] = "previous"
  /\ LET s == req[r].session
     IN  Locally(r, [req[r] EXCEPT !.session = IF s # NoSession /\ resolve_session(s)
                                                 THEN s ELSE NoSession])
  /\ Go(r, "issue")
  /\ UNCHANGED <<users, sessions, writeBy, calls, crossed>>

\* UPDATE sessions SET revoked = 1 WHERE ... AND revoked = 0.
Revoke(S) == state' = [s \in Sessions |-> IF s \in S /\ state[s] = "live" THEN "revoked" ELSE state[s]]
Of(u)     == {s \in Sessions : holder[s] = u}

ForeignKeyOff(u) == TRUE                                \* seeded fault: foreign_keys=OFF
ForeignKey(u)    == Exists(u)

\* One transaction; the foreign key refuses a user deleted meanwhile.
LoginIssue(r, s) ==
  /\ pc[r] = "issue" /\ Free
  /\ ForeignKey(req[r].target)
  /\ state[s] = "new"
  /\ state' = [x \in Sessions |-> IF x = s THEN "live"
                                  ELSE IF x = req[r].session /\ state[x] = "live" THEN "revoked"
                                  ELSE state[x]]
  /\ holder' = [holder EXCEPT ![s] = req[r].target]
  /\ Done(r)
  /\ UNCHANGED <<users, writeBy, calls, crossed>>

-----------------------------------------------------------------------------
(* The gate: enforce_browser_session caches the principal on the request, and  *)
(* gate() checks must_change and the permission against what it read.          *)

require_permission(u, o) == o \in {"logout", "password"} \/ role[u] = "owner"

Gate(r, s, o) ==
  /\ Serve(r)
  /\ resolve_session(s)
  /\ must[holder[s]] => o = "password"
  /\ require_permission(holder[s], o)
  /\ Locally(r, [req[r] EXCEPT !.op = o, !.session = s, !.actor = holder[s]])
  /\ Go(r, IF o \in {"patch", "delete"} THEN "fetch" ELSE "write")
  /\ UNCHANGED <<users, sessions, writeBy, crossed>>

\* fetch_user, and the PATCH body.
Fetch(r, u, body) ==
  /\ pc[r] = "fetch" /\ Exists(u)
  /\ req[r].op = "delete" => body = NoBody
  /\ Locally(r, [req[r] EXCEPT !.target = u, !.role = role[u], !.disabled = disabled[u],
                               !.patch = body])
  /\ Go(r, "guardrole")
  /\ UNCHANGED <<users, sessions, writeBy, calls, crossed>>

RoleChanges(r) == req[r].patch.role \notin {"keep", req[r].role}
Disables(r)    == req[r].patch.disabled = "yes" /\ ~req[r].disabled
Self(r)        == req[r].actor = req[r].target

\* enabled_owner_count(excluding=target).
OtherOwners(r) == {u \in Users \ {req[r].target} : Owner(u)}

LastOwnerUnchecked(r) == TRUE                           \* seeded fault: guard dropped
_guard_last_owner(r)  == req[r].role = "owner" /\ ~req[r].disabled => OtherOwners(r) # {}

\* _guard_role_change, or the guards of delete_user.
GuardRole(r) ==
  /\ pc[r] = "guardrole"
  /\ req[r].op = "delete" \/ RoleChanges(r) => ~Self(r) /\ _guard_last_owner(r)
  /\ Go(r, "guarddisable")
  /\ UNCHANGED <<users, sessions, writeBy, req, calls, crossed>>

GuardDisable(r) ==
  /\ pc[r] = "guarddisable"
  /\ Disables(r) => _guard_last_owner(r)
  /\ Go(r, "write")
  /\ UNCHANGED <<users, sessions, writeBy, req, calls, crossed>>

-----------------------------------------------------------------------------
(* The writes. *)

Writes(r, o) ==
  /\ pc[r] = "write" /\ req[r].op = o
  /\ Free
  /\ Done(r)
  /\ UNCHANGED <<writeBy, calls>>

\* Others that have read their target and not yet written are crossed by this change.
Reading(r) == pc[r] \in {"guardrole", "guarddisable", "write"} /\ req[r].op \in {"patch", "delete"}
Crosses(r) ==
  LET changed == {u \in Users : role'[u] # role[u] \/ disabled'[u] # disabled[u]}
  IN  crossed' = [q \in Requests |-> IF q # r /\ Reading(q) THEN crossed[q] \cup changed ELSE {}]

CreateUser(r, u, ro) ==
  /\ Writes(r, "create")
  /\ insert_user(u, ro, TRUE)
  /\ UNCHANGED <<sessions, crossed>>

RevokesOnRole(r) == RoleChanges(r)                      \* seeded fault: a disable keeps sessions
Revokes(r)       == RoleChanges(r) \/ Disables(r)

Flag(f, u, value) == IF value = "keep" THEN f ELSE [f EXCEPT ![u] = (value = "yes")]

apply_user_update(r) ==
  /\ Writes(r, "patch")
  /\ Exists(req[r].target)
  /\ LET u == req[r].target
         p == req[r].patch
     IN  /\ role' = IF p.role = "keep" THEN role ELSE [role EXCEPT ![u] = p.role]
         /\ disabled' = Flag(disabled, u, p.disabled)
         /\ must' = Flag(must, u, p.must)
         /\ Revoke(IF Revokes(r) THEN Of(u) ELSE {})
  /\ Crosses(r)
  /\ UNCHANGED holder

Cascade(u) == state' = [s \in Sessions |-> IF s \in Of(u) THEN "gone" ELSE state[s]]

delete_user(r) ==
  /\ Writes(r, "delete")
  /\ IF Exists(req[r].target)
       THEN /\ role' = [role EXCEPT ![req[r].target] = "gone"]
            /\ Cascade(req[r].target)
       ELSE UNCHANGED <<role, state>>
  /\ UNCHANGED <<disabled, must, holder>>
  /\ Crosses(r)

revoke_all_sessions(r) ==
  /\ Writes(r, "revoke_all")
  /\ Revoke(Sessions \ {req[r].session})
  /\ UNCHANGED <<users, holder, crossed>>

revoke_session(r) ==
  /\ Writes(r, "logout")
  /\ Revoke({req[r].session})
  /\ UNCHANGED <<users, holder, crossed>>

ChangePassword(r) ==
  /\ Writes(r, "password")
  /\ must' = IF Exists(req[r].actor) THEN [must EXCEPT ![req[r].actor] = FALSE] ELSE must
  /\ Revoke(Of(req[r].actor) \ {req[r].session})
  /\ UNCHANGED <<role, disabled, holder, crossed>>

\* expires_at passes.
Expire(s) ==
  /\ state[s] = "live"
  /\ state' = [state EXCEPT ![s] = "expired"]
  /\ UNCHANGED <<users, holder, writeBy, pc, req, calls, crossed>>

AccountsNext ==
  \/ \E r \in Requests :
       \/ Refused(r)
       \/ SetupBegin(r) \/ SetupClosed(r) \/ SetupOpen(r)
       \/ \E u \in Users : SetupInsert(r, u)
       \/ \E u \in Users, s \in Sessions \cup {NoSession} : LoginRead(r, u, s)
       \/ LoginPrevious(r)
       \/ \E s \in Sessions : LoginIssue(r, s)
       \/ \E s \in Sessions, o \in OPS : Gate(r, s, o)
       \/ \E u \in Users, b \in Offered : Fetch(r, u, b)
       \/ GuardRole(r) \/ GuardDisable(r)
       \/ \E u \in Users, ro \in ROLES : CreateUser(r, u, ro)
       \/ apply_user_update(r) \/ delete_user(r) \/ revoke_all_sessions(r)
       \/ revoke_session(r) \/ ChangePassword(r)
  \/ \E s \in Sessions : Expire(s)

AccountsSpec == AccountsInit /\ [][AccountsNext]_accountsVars

-----------------------------------------------------------------------------
(* Properties. *)

Places == {"idle", "setup", "setupinsert", "previous", "issue", "fetch", "guardrole",
           "guarddisable", "write"}

Locals == [op : OPS, actor : Users \cup {Nobody}, session : Sessions \cup {NoSession},
           target : Users \cup {Nobody}, role : ROLES, disabled : BOOLEAN, patch : Bodies]

\* Every column and every local variable keeps its type.
AccountsTypeOK ==
  /\ role \in [Users -> ROLES \cup {"new", "gone"}]
  /\ disabled \in [Users -> BOOLEAN] /\ must \in [Users -> BOOLEAN]
  /\ state \in [Sessions -> {"new", "live", "revoked", "expired", "gone"}]
  /\ holder \in [Sessions -> Users \cup {Nobody}]
  /\ writeBy \subseteq Requests
  /\ pc \in [Requests -> Places] /\ req \in [Requests -> Locals]
  /\ calls \in Nat /\ crossed \in [Requests -> SUBSET Users]

\* The PATCH or DELETE that commits in this step.
Commits(r) == Reading(r) /\ pc[r] = "write" /\ pc'[r] = "idle"

\* docs/security.md section 2, invariant 1, as far as the code keeps it: however many
\* owners edit each other at once, the last enabled owner is deleted, demoted or disabled
\* only by a request that another edit crossed between its reads and its write.
OwnerGuarded ==
  [][(\E u \in Users : Owner(u)) /\ ~(\E u \in Users : Owner(u))'
       => \E r \in Requests : Commits(r) /\ crossed[r] # {}]_accountsVars

\* docs/security.md 3.2: a privilege change rotates the session id.  When a user's role
\* changes or it is disabled, no session it had is live any more, unless another edit of
\* the same user came between the read that the change is compared with and the write.
PrivilegeRotates ==
  [][\A u \in Users : Exists(u) /\ (role'[u] # role[u] \/ (disabled'[u] /\ ~disabled[u]))
       => \/ \A s \in Sessions : holder[s] = u => state'[s] # "live"
          \/ \E r \in Requests : Commits(r) /\ req[r].target = u /\ u \in crossed[r]]_accountsVars

\* A login that was under way while its user was deleted leaves no session behind, and
\* no session outlives its user.
SessionsBelong == \A s \in Sessions : state[s] = "live" => Exists(holder[s])

\* The two tables agree: typed columns, and every live session has its user's row.
TablesSound == AccountsTypeOK /\ SessionsBelong

\* Two setups at once: one creates the owner, the other finds the users table filled.
SetupOnce ==
  [][\A r \in Requests : pc[r] = "setupinsert" /\ pc'[r] = "idle"
       => \A u \in Users : ~Exists(u)]_accountsVars

-----------------------------------------------------------------------------
(* What the documentation says, where the code does otherwise (README, last section). *)

\* docs/security.md:37: "The last enabled `owner` can never be deleted, demoted or
\* disabled".  The count of other owners is read before the transaction that writes.
OwnerRemains == (\E u \in Users : Exists(u)) => \E u \in Users : Owner(u)

\* auth/users.py:198: "Role changes and disables revoke the target's sessions so privilege
\* changes rotate every session id the target holds".  Whether they are revoked is decided
\* by comparing the body with a row read before the transaction that writes.
EveryChangeRotates ==
  [][\A u \in Users, s \in Sessions :
       Exists(u) /\ role'[u] # role[u] /\ holder[s] = u => state'[s] # "live"]_accountsVars
=============================================================================
