----------------------------- MODULE Permissions ----------------------------
(***************************************************************************)
(* The permission table every gate reads (auth/users.py) beside the map    *)
(* with which the console disables its controls (web/src/lib/              *)
(* permissions.ts).  Both are constants, written twice in two languages.   *)
(***************************************************************************)
EXTENDS Integers, Sequences, FiniteSets, TLC

RoleOrder   == <<"viewer", "admin", "owner">>
ROLE_RANK   == [r \in {"viewer", "admin", "owner"} |-> CHOOSE i \in 1..3 : RoleOrder[i] = r]

\* Permissions by the least role that holds them.
Needs == [viewer |-> {"traces.read", "metrics.read", "logs.read", "models.read", "keys.list",
                      "keys.read_auth", "settings.read", "auth.me"},
          admin  |-> {"traces.write", "traces.delete", "logs.export", "models.write", "keys.write",
                      "settings.write", "audit.read", "playground.run", "users.read"},
          owner  |-> {"users.write", "sessions.read", "sessions.revoke_all", "settings.capture"}]

PERMISSIONS == UNION {Needs[r] : r \in DOMAIN Needs}

\* A permission that is in no row needs the owner.
required_role(p) ==
    IF p \in PERMISSIONS THEN CHOOSE r \in DOMAIN Needs : p \in Needs[r] ELSE "owner"

role_allows(role, p) == ROLE_RANK[role] >= ROLE_RANK[required_role(p)]

\* The list GET /auth/me sends to the console.
permissions_for(role) == {p \in PERMISSIONS : role_allows(role, p)}

\* require_permission for a principal of each role: a refusal leaves one denied row.
require_permission(role, p) == IF role_allows(role, p) THEN <<>> ELSE <<"denied">>

-----------------------------------------------------------------------------
\* The console.

ACTION_PERMISSION ==
    [a \in {"playground.run", "users.read", "audit.read", "settings.write"} |-> a] @@
    [a \in {"key.create", "key.rotate", "key.revoke", "key.auth", "key.limit"} |-> "keys.write"] @@
    ("model.load" :> "models.write" @@ "user.write" :> "users.write" @@
     "session.read" :> "sessions.read" @@ "session.revoke" :> "sessions.revoke_all" @@
     "capture.toggle" :> "settings.capture" @@ "trace.delete_range" :> "traces.delete")

Actions == DOMAIN ACTION_PERMISSION

\* Before /auth/me has answered there is no role.
Unknown == "none"

can(me, action) ==
    me # Unknown /\ ACTION_PERMISSION[action] \in permissions_for(me)

OWNER_REASON == {"user.write", "session.read", "session.revoke", "capture.toggle"}

\* The reason in the tooltip of a disabled control.
denyReason(me, action) ==
    IF can(me, action) THEN "allowed"
    ELSE IF me = Unknown THEN "not loaded"
    ELSE IF me # "viewer" /\ action \in OWNER_REASON THEN "owner only" ELSE "read-only"

\* The user table: role and whether the user is disabled.
isLastEnabledOwner(row, users) ==
    /\ users[row].role = "owner" /\ ~users[row].disabled
    /\ ~\E other \in DOMAIN users \ {row} : users[other].role = "owner" /\ ~users[other].disabled

-----------------------------------------------------------------------------
\* The server's side of the same rule.

enabled_owner_count(users, excluding) ==
    Cardinality({u \in DOMAIN users \ excluding : users[u].role = "owner" /\ ~users[u].disabled})

\* _guard_last_owner, asked for a demotion, a disable and a delete.
Guarded(users, target) ==
    /\ users[target].role = "owner" /\ ~users[target].disabled
    /\ enabled_owner_count(users, {target}) = 0

-----------------------------------------------------------------------------
\* A control is enabled exactly when the server would not answer 403: the two tables name
\* the same permissions and no action falls to the fail-closed default
\* ("Every deny reason mirrors a real server outcome", permissions.ts).
ConsoleAgreesWithGate ==
    \A role \in DOMAIN ROLE_RANK, action \in Actions :
        can(role, action) <=> require_permission(role, ACTION_PERMISSION[action]) = <<>>

\* The reason names what is missing: "owner only" for what no lesser role may do, and
\* "read-only" to viewers alone (denyReason).
ReasonsAreTrue ==
    \A role \in DOMAIN ROLE_RANK, action \in Actions :
        /\ denyReason(role, action) = "owner only" =>
              required_role(ACTION_PERMISSION[action]) = "owner"
        /\ denyReason(role, action) = "read-only" => role = "viewer"

\* The console disables an edit of the last owner exactly when the guard would refuse it
\* (isLastEnabledOwner, _guard_last_owner).
LastOwnerAgrees ==
    \A users \in [1..3 -> [role : DOMAIN ROLE_RANK, disabled : BOOLEAN]] : \A u \in 1..3 :
        isLastEnabledOwner(u, users) <=> Guarded(users, u)
=============================================================================
