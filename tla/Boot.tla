-------------------------------- MODULE Boot --------------------------------
(***************************************************************************)
(* Start-up around the key table: migrations (store/db.py), the one-time   *)
(* import of api_keys.json (engine/legacy_state.py) and the order in which *)
(* __main__ runs them.  A server and `--migrate-only` are processes on one *)
(* database; either may die between any two steps.                         *)
(***************************************************************************)
EXTENDS Keys

CONSTANTS
    Server,     \* the serving process
    Tool,       \* python -m layawatch --migrate-only
    Newest,     \* the newest migration any release ships
    Legacy,     \* the keys of api_keys.json: ids to secrets
    Enabled,    \* its "enabled" flag
    MaxStarts   \* bound on process starts

Procs == {Server, Tool}

ASSUME BootAssumption ==
    /\ Server # Tool
    /\ Newest \in Nat \ {0}
    /\ DOMAIN Legacy \subseteq Ids /\ \A id \in DOMAIN Legacy : Legacy[id] \in Secrets
    /\ Enabled \in BOOLEAN /\ MaxStarts \in Nat

VARIABLES
    pc,         \* where main() is
    release,    \* the newest migration the process knows
    pending,    \* migrations it still has to apply
    recorded,   \* schema_migrations
    scripts,    \* how often each script took effect (history)
    file,       \* api_keys.json: "absent", "broken", "present" or "imported" (renamed)
    found,      \* the file was well-formed at the start (history)
    starts

bootVars == <<pc, release, pending, recorded, scripts, file, found, starts>>
vars     == <<keyVars, bootVars>>

PCs == {"down", "migrate", "insert", "rename", "ready", "up"}

Init ==
    /\ KeysInit
    /\ pc = [p \in Procs |-> "down"]
    /\ release = [p \in Procs |-> Newest]
    /\ pending = [p \in Procs |-> {}]
    /\ recorded = {}
    /\ scripts = [v \in 1..Newest |-> 0]
    /\ file \in {"absent", "broken", "present"}
    /\ found = (file = "present")
    /\ starts = 0

Goto(p, to) == pc' = [pc EXCEPT ![p] = to]

\* The process ends; what it had computed is gone.
Down(p) ==
    /\ Goto(p, "down")
    /\ release' = [release EXCEPT ![p] = Newest]
    /\ pending' = [pending EXCEPT ![p] = {}]

\* migrate(): the version check, then the files not yet recorded.
migrate(p, n) ==
    /\ pc[p] = "down" /\ starts < MaxStarts
    /\ starts' = starts + 1
    /\ IF \E v \in recorded : v > n          \* SchemaTooNewError: exit 3
       THEN UNCHANGED <<pc, release, pending>>
       ELSE /\ release' = [release EXCEPT ![p] = n]
            /\ pending' = [pending EXCEPT ![p] = (1..n) \ recorded]
            /\ Goto(p, "migrate")
    /\ UNCHANGED <<recorded, scripts, file, found, keyVars>>

\* Mutant: a script that tolerates its own effects, with INSERT OR IGNORE.
ApplyAgain(p) ==
    LET v == Min(pending[p])
    IN  /\ pc[p] = "migrate" /\ pending[p] # {}
        /\ recorded' = recorded \cup {v}
        /\ scripts' = [scripts EXCEPT ![v] = @ + 1]
        /\ pending' = [pending EXCEPT ![p] = @ \ {v}]
        /\ UNCHANGED <<pc, release, file, found, starts, keyVars>>

\* One file, one transaction: a version another process recorded meanwhile makes the
\* script fail, which rolls back and ends the process.
ApplyNext(p) ==
    LET v == Min(pending[p])
    IN  /\ pc[p] = "migrate" /\ pending[p] # {}
        /\ IF v \in recorded
           THEN Down(p) /\ UNCHANGED <<recorded, scripts>>
           ELSE /\ recorded' = recorded \cup {v}
                /\ scripts' = [scripts EXCEPT ![v] = @ + 1]
                /\ pending' = [pending EXCEPT ![p] = @ \ {v}]
                /\ UNCHANGED <<pc, release>>
        /\ UNCHANGED <<file, found, starts, keyVars>>

\* Mutant: the rename comes before the transaction.
ReadLegacyMoved(p) ==
    /\ pc[p] = "migrate" /\ pending[p] = {}
    /\ Goto(p, IF file = "present" THEN "insert" ELSE "ready")
    /\ file' = IF file = "present" THEN "imported" ELSE file
    /\ UNCHANGED <<release, pending, recorded, scripts, found, starts, keyVars>>

\* Nothing is pending.  import_once passes over a missing or malformed file.
ReadLegacy(p) ==
    /\ pc[p] = "migrate" /\ pending[p] = {}
    /\ Goto(p, IF file = "present" THEN "insert" ELSE "ready")
    /\ UNCHANGED <<release, pending, recorded, scripts, file, found, starts, keyVars>>

\* Mutant: INSERT OR REPLACE.
ImportedAnew(id) ==
    IF id \in DOMAIN Legacy
    THEN [Absent EXCEPT !.hash = <<Legacy[id], "plain">>] ELSE keys[id]

\* INSERT OR IGNORE of one legacy key.
Imported(id) ==
    IF id \in DOMAIN Legacy /\ ~Exists(id)
    THEN [Absent EXCEPT !.hash = <<Legacy[id], "plain">>] ELSE keys[id]

\* The transaction of import_once: the keys and the keys.auth row.
InsertLegacy(p) ==
    /\ pc[p] = "insert"
    /\ keys' = [id \in Ids |-> Imported(id)]
    /\ issued' = [id \in Ids |-> IF id \in DOMAIN Legacy /\ ~Exists(id)
                                 THEN <<[secret |-> Legacy[id], at |-> now]>> ELSE issued[id]]
    /\ armed' = Enabled
    /\ Goto(p, "rename")
    /\ UNCHANGED <<pepper, now, call, accepted,
                   release, pending, recorded, scripts, file, found, starts>>

\* The rename after the commit; a failure is logged and the start goes on.
Rename(p) ==
    /\ pc[p] = "rename"
    /\ file' \in {file, "imported"}
    /\ Goto(p, "ready")
    /\ UNCHANGED <<release, pending, recorded, scripts, found, starts, keyVars>>

\* --migrate-only returns, the server serves.
Ready(p) ==
    /\ pc[p] = "ready"
    /\ IF p = Server THEN Goto(p, "up") /\ UNCHANGED <<release, pending>> ELSE Down(p)
    /\ UNCHANGED <<recorded, scripts, file, found, starts, keyVars>>

\* The process dies: handlers and open transactions with it.
Die(p) ==
    /\ pc[p] # "down"
    /\ Down(p)
    /\ call' = IF p = Server THEN [t \in Threads |-> Idle(call[t].id)] ELSE call
    /\ UNCHANGED <<recorded, scripts, file, found, starts,
                   keys, armed, pepper, now, issued, accepted>>

\* A request thread of the running server.
Serve(t) ==
    /\ pc[Server] = "up"
    /\ Handler(t)
    /\ UNCHANGED <<pc, release, pending, recorded, scripts, file, found, starts>>

Next ==
    \/ \E p \in Procs :
          \/ \E n \in 1..Newest : migrate(p, n)
          \/ ApplyNext(p) \/ ReadLegacy(p) \/ InsertLegacy(p) \/ Rename(p)
          \/ Ready(p) \/ Die(p)
    \/ \E t \in Threads : Serve(t)
    \/ Tick /\ UNCHANGED bootVars

Spec == Init /\ [][Next]_vars

-----------------------------------------------------------------------------
\* Types of the table, of the handlers and of the processes.
TypeOK ==
    /\ keys \in [Ids -> Rows]
    /\ armed \in BOOLEAN
    /\ pepper \in {"none", "empty", "full"}
    /\ now \in 0..MaxTime
    /\ call \in [Threads -> Calls]
    /\ issued \in [Ids -> Seq([secret : Secrets, at : Nat])]
    /\ accepted \in [Ids -> Nat]
    /\ pc \in [Procs -> PCs]
    /\ release \in [Procs -> 1..Newest]
    /\ pending \in [Procs -> SUBSET (1..Newest)]
    /\ recorded \subseteq 1..Newest
    /\ scripts \in [1..Newest -> Nat]
    /\ file \in {"absent", "broken", "present", "imported"}
    /\ found \in BOOLEAN
    /\ starts \in 0..MaxStarts

\* Each migration takes effect once and is recorded with its effect, without gaps,
\* though two processes computed the same pending files (migrate).
MigratedOnce ==
    /\ \A v \in 1..Newest : scripts[v] = IF v \in recorded THEN 1 ELSE 0
    /\ \A v \in recorded : 1..v \subseteq recorded

\* The server serves only on a schema that has every migration it knows, and after
\* every key of a well-formed api_keys.json is in the table (main's order).
ServesReady ==
    pc[Server] = "up" =>
        /\ 1..release[Server] \subseteq recorded
        /\ found => \A id \in DOMAIN Legacy : Exists(id)

\* What a start leaves behind, whoever else starts or dies meanwhile (main, migrate).
StartSound == TypeOK /\ MigratedOnce /\ ServesReady

\* A renamed file has been imported: no crash loses its keys (import_once).
RenamedIsImported ==
    file = "imported" => \A id \in DOMAIN Legacy : Exists(id)

\* The digest can be recomputed with the pepper that is on disk.
Recomputable(d) == d[2] \in {"plain", pepper}

\* An active key accepts its latest secret, the one before it until Grace after the
\* rotation, and no other, however rotations, revocations, re-imports and restarts
\* interleave (verify_key, _rotate).
LatestTwoVerify ==
    \A id \in Ids : (Active(id) /\ Recomputable(keys[id].hash)) =>
        LET n == Len(issued[id])
            second == IF n > 1 /\ issued[id][n].at + Grace > now
                         /\ Recomputable(keys[id].prev)
                      THEN {issued[id][n - 1].secret} ELSE {}
        IN  {s \in Secrets : Matches(id, s, pepper)} = {issued[id][n].secret} \cup second

\* Verifications of a key whose UPDATE a step commits (it does not die with the process).
CountedNow(id) ==
    {t \in Threads : /\ call[t].op = "verify" /\ call[t].step = "write" /\ call[t].id = id
                     /\ call'[t].step = "idle" /\ pc'[Server] = "up"}

\* No step undoes what a row says: a revoked key stays in the table and stays revoked,
\* re-import included, and request_count grows by the accepted verifications and by
\* nothing else, though each was accepted on a row read earlier (verify_key, import_once).
RowsKept ==
    [][\A id \in Ids :
          /\ keys[id].revoked => keys'[id].revoked
          /\ keys[id].count <= accepted[id]
          /\ keys'[id].count - keys[id].count = Cardinality(CountedNow(id))]_vars

-----------------------------------------------------------------------------
(* What the documents say and the code does not keep (README, last section). *)

\* A start that imports no key leaves the arming an administrator chose: a repeated
\* import "re-reads, inserts nothing" (legacy_state docstring).
ArmingKept ==
    [][(pc' # pc /\ keys' = keys) => armed' = armed]_vars

\* Every stored digest was made with the pepper on disk: "a half-written secret must
\* not survive to become the pepper" (load_pepper).
PepperWhole ==
    \A id \in Ids : Exists(id) => Recomputable(keys[id].hash)

=============================================================================
