-------------------------------- MODULE Keys --------------------------------
(***************************************************************************)
(* API keys: the api_keys table, the keys.auth row that arms them and the  *)
(* pepper file (engine/keys.py, api/keys.py).  Handlers run on request     *)
(* threads; a handler's reads come before its one transaction, so handlers *)
(* interleave between the two.  A digest is the pair of a secret and what  *)
(* it was hashed with: the pepper's content, or "plain" for the SHA-256 of *)
(* the legacy file.                                                        *)
(***************************************************************************)
EXTENDS Integers, Sequences, FiniteSets, FiniteSetsExt

CONSTANTS
    Ids,        \* key ids
    Secrets,    \* plaintexts; never drawn twice
    NoSecret,   \* no plaintext, no digest
    Threads,    \* request threads
    Grace,      \* GRACE_SECONDS
    MaxTime,    \* bound on the clock
    MaxHits     \* bound on accepted verifications

ASSUME KeysAssumption ==
    /\ NoSecret \notin Secrets \cup (Secrets \X {"plain", "none", "empty", "full"})
    /\ Grace \in Nat \ {0} /\ MaxTime \in Nat /\ MaxHits \in Nat
    /\ IsFiniteSet(Ids) /\ Ids # {} /\ IsFiniteSet(Secrets) /\ IsFiniteSet(Threads)

VARIABLES
    keys,       \* the table: one row per id, Absent when there is none
    armed,      \* keys.auth is true
    pepper,     \* secret.key: "none", "empty" (created, not written) or "full"
    now,        \* time.time()
    call,       \* the handler each thread runs
    issued,     \* secrets each key had, oldest first, with the time of issue (history)
    accepted    \* verifications each key passed (history)

keyVars == <<keys, armed, pepper, now, call, issued, accepted>>

Salts   == {"plain", "empty", "full"}
Digests == (Secrets \X Salts) \cup {NoSecret}
Rows    == [hash : Digests, prev : Digests, until : Nat, revoked : BOOLEAN, count : Nat]
Absent  == [hash |-> NoSecret, prev |-> NoSecret, until |-> 0, revoked |-> FALSE, count |-> 0]

Calls == [op : {"none", "create", "rotate", "revoke", "arm", "verify"},
          id : Ids, secret : Secrets \cup {NoSecret},
          step : {"idle", "pepper", "writing", "read", "write"},
          pep : {"none", "empty", "full"}, at : Nat]

Exists(id) == keys[id] # Absent
Active(id) == Exists(id) /\ ~keys[id].revoked

\* Secrets some key already had, and the ones handlers in flight have drawn.
Taken ==
    UNION {{issued[id][i].secret : i \in 1..Len(issued[id])} : id \in Ids}
        \cup {call[t].secret : t \in Threads}

Idle(id) == [op |-> "none", id |-> id, secret |-> NoSecret, step |-> "idle", pep |-> "none",
             at |-> 0]

KeysInit ==
    /\ keys = [id \in Ids |-> Absent]
    /\ armed = FALSE
    /\ pepper = "none"
    /\ now = 0
    /\ call = [t \in Threads |-> Idle(CHOOSE id \in Ids : TRUE)]
    /\ issued = [id \in Ids |-> <<>>]
    /\ accepted = [id \in Ids |-> 0]

-----------------------------------------------------------------------------
\* The reads of each handler.

Enter(t, op, id, secret, step) ==
    /\ call[t].step = "idle"
    /\ call' = [call EXCEPT ![t] = [op |-> op, id |-> id, secret |-> secret, step |-> step,
                                    pep |-> "none", at |-> IF op = "rotate" THEN now ELSE 0]]
    /\ UNCHANGED <<keys, armed, pepper, now, issued, accepted>>

\* create_key and _rotate draw a fresh secret; _rotate refuses a missing or revoked row
\* and takes the time of the grace here.
create_key(t, id) ==
    /\ ~Exists(id)
    /\ \A u \in Threads : ~(call[u].op = "create" /\ call[u].id = id)
    /\ \E s \in Secrets \ Taken : Enter(t, "create", id, s, "pepper")

_rotate(t, id) ==
    /\ Active(id)
    /\ \E s \in Secrets \ Taken : Enter(t, "rotate", id, s, "pepper")

\* _revoke of a revoked row changes nothing.
_revoke(t, id) == Active(id) /\ Enter(t, "revoke", id, NoSecret, "write")

\* set_auth_state: arming asks _has_active_key before it writes; disarming asks nothing.
arm(t) ==
    /\ \E id \in Ids : Active(id)
    /\ Enter(t, "arm", call[t].id, NoSecret, "write")

disarm(t) ==
    /\ call[t].step = "idle"
    /\ armed' = FALSE
    /\ UNCHANGED <<keys, pepper, now, call, issued, accepted>>

\* _verify_auth with a credential, while armed.
present(t, s) ==
    /\ armed /\ \A id \in Ids : accepted[id] < MaxHits
    /\ Enter(t, "verify", call[t].id, s, "pepper")

-----------------------------------------------------------------------------
\* load_pepper, evaluated inside the handlers that hash.

AfterPepper(t) == IF call[t].op = "verify" THEN "read" ELSE "write"

\* O_CREAT | O_EXCL succeeds for one thread; the others read what is there.
load_pepper(t) ==
    /\ call[t].step = "pepper"
    /\ IF pepper = "none"
       THEN /\ pepper' = "empty"
            /\ call' = [call EXCEPT ![t].step = "writing"]
       ELSE /\ call' = [call EXCEPT ![t].pep = pepper, ![t].step = AfterPepper(t)]
            /\ UNCHANGED pepper
    /\ UNCHANGED <<keys, armed, now, issued, accepted>>

\* The creator writes the pepper, or fails and unlinks the file: a 500.
write_pepper(t) ==
    /\ call[t].step = "writing"
    /\ \/ /\ pepper' = "full"
          /\ call' = [call EXCEPT ![t].pep = "full", ![t].step = AfterPepper(t)]
       \/ /\ pepper' = "none"
          /\ call' = [call EXCEPT ![t] = Idle(@.id)]
    /\ UNCHANGED <<keys, armed, now, issued, accepted>>

-----------------------------------------------------------------------------
\* verify_key.

\* The digests a presented secret is compared as.
hash_secret(s, pep) == {<<s, "plain">>, <<s, pep>>}

Matches(id, s, pep) ==
    /\ Active(id)
    /\ \/ keys[id].hash \in hash_secret(s, pep)
       \/ keys[id].prev \in hash_secret(s, pep) /\ keys[id].until > now

\* The SELECT and the comparison: a 401, or a row to count.
verify_key(t) ==
    /\ call[t].op = "verify" /\ call[t].step = "read"
    /\ \/ \E id \in Ids :
             /\ Matches(id, call[t].secret, call[t].pep)
             /\ call' = [call EXCEPT ![t].id = id, ![t].step = "write"]
             /\ accepted' = [accepted EXCEPT ![id] = @ + 1]
       \/ /\ \A id \in Ids : ~Matches(id, call[t].secret, call[t].pep)
          /\ call' = [call EXCEPT ![t] = Idle(@.id)]
          /\ UNCHANGED accepted
    /\ UNCHANGED <<keys, armed, pepper, now, issued>>

-----------------------------------------------------------------------------
\* The transaction of each handler.

Counted(row) == [row EXCEPT !.count = @ + 1]

Revoked(row) == [row EXCEPT !.revoked = TRUE, !.prev = NoSecret, !.until = 0]

\* Mutant: prev_hash is assigned after hash.
RotatedAway(row, digest, at) ==
    [row EXCEPT !.prev = digest, !.until = at + Grace, !.hash = digest]

Rotated(row, digest, at) ==
    [row EXCEPT !.prev = row.hash, !.until = at + Grace, !.hash = digest]

\* The row a handler commits.
Committed(c) ==
    LET row == keys[c.id]
    IN  CASE c.op = "create" -> [Absent EXCEPT !.hash = <<c.secret, c.pep>>]
          [] c.op = "rotate" -> Rotated(row, <<c.secret, c.pep>>, c.at)
          [] c.op = "revoke" -> Revoked(row)
          [] c.op = "verify" -> Counted(row)
          [] OTHER           -> row

Commit(t) ==
    /\ call[t].step = "write"
    /\ keys' = [keys EXCEPT ![call[t].id] = Committed(call[t])]
    /\ armed' = (armed \/ call[t].op = "arm")
    /\ issued' = IF call[t].op \in {"create", "rotate"}
                 THEN [issued EXCEPT ![call[t].id] =
                         Append(@, [secret |-> call[t].secret, at |-> call[t].at])]
                 ELSE issued
    /\ call' = [call EXCEPT ![t] = Idle(@.id)]
    /\ UNCHANGED <<pepper, now, accepted>>

Tick ==
    /\ now < MaxTime
    /\ now' = now + 1
    /\ UNCHANGED <<keys, armed, pepper, call, issued, accepted>>

\* What request threads do while the server is up.
Handler(t) ==
    \/ \E id \in Ids : create_key(t, id) \/ _rotate(t, id) \/ _revoke(t, id)
    \/ arm(t) \/ disarm(t)
    \/ \E s \in Secrets : present(t, s)
    \/ load_pepper(t) \/ write_pepper(t) \/ verify_key(t) \/ Commit(t)
=============================================================================
