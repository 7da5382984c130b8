----------------------------- MODULE BootProofs -----------------------------
(* Theorems about the key table and the two processes of start-up around it,   *)
(* started any number of times, for any number of keys, secrets, request       *)
(* threads and migrations.                                                     *)
EXTENDS Boot, FiniteSetTheorems, SequenceTheorems, TLAPS

(***************************************************************************)
(* The inductive invariant.                                                *)
(***************************************************************************)

AllImported == \A id \in DOMAIN Legacy : Exists(id)

\* What a handler found in the table when it read is still so when it commits.
CallFits(c) ==
    /\ c.step = "idle" <=> c.op = "none"
    /\ c.step \in {"pepper", "writing"} => c.op \in {"create", "rotate", "verify"}
    /\ c.op \in {"create", "rotate"} => c.secret \in Secrets
    /\ (c.op \in {"create", "rotate"} /\ c.step = "write") => c.pep \in {"empty", "full"}
    /\ c.op \in {"rotate", "revoke"} => Exists(c.id)
    /\ (c.op = "verify" /\ c.step = "write") => Exists(c.id)
    /\ c.op = "create" => ~Exists(c.id)

\* Handlers run only in a server that is up, and one handler creates an id.
CallsSound ==
    /\ \A t \in Threads : CallFits(call[t])
    /\ \A t \in Threads : call[t].step # "idle" => pc[Server] = "up"
    /\ \A t, u \in Threads :
          (call[t].op = "create" /\ call[u].op = "create" /\ call[u].id = call[t].id) => u = t

\* A row holds the latest secret of its key and, while it is not revoked, the one
\* before it with the end of its grace.
RowSound(id) ==
    LET n == Len(issued[id])
    IN  /\ ~Exists(id) => issued[id] = <<>>
        /\ Exists(id) =>
              /\ n > 0
              /\ keys[id].hash \in Secrets \X Salts
              /\ keys[id].hash[1] = issued[id][n].secret
        /\ (Active(id) /\ n = 1) => keys[id].prev = NoSecret
        /\ (Active(id) /\ n > 1) =>
              /\ keys[id].prev \in Secrets \X Salts
              /\ keys[id].prev[1] = issued[id][n - 1].secret
              /\ keys[id].until = issued[id][n].at + Grace

RowsSound == \A id \in Ids : RowSound(id)

\* The verifications of a key that are accepted and not yet counted.
Waits(t, id) == call[t].op = "verify" /\ call[t].step = "write" /\ call[t].id = id

Uncounted(id) == {t \in Threads : Waits(t, id)}

CountsSound ==
    \A id \in Ids : keys[id].count + Cardinality(Uncounted(id)) <= accepted[id]

\* The migrations a process still has to apply end at its release and begin where the
\* recorded ones may end.
SchemaSound ==
    /\ \E k \in 0..Newest : recorded = 1..k
    /\ \A v \in 1..Newest : scripts[v] = IF v \in recorded THEN 1 ELSE 0
    /\ \A p \in Procs :
          /\ pc[p] = "migrate" =>
                \E j \in 1..(release[p] + 1) :
                    pending[p] = j..release[p] /\ 1..(j - 1) \subseteq recorded
          /\ pc[p] \in {"insert", "rename", "ready", "up"} => 1..release[p] \subseteq recorded

ImportSound ==
    /\ found <=> file \in {"present", "imported"}
    /\ file = "imported" => AllImported
    /\ \A p \in Procs :
          /\ pc[p] \in {"insert", "rename"} => found
          /\ pc[p] = "rename" => AllImported
          /\ (pc[p] \in {"ready", "up"} /\ found) => AllImported

BootInv ==
    TypeOK /\ CallsSound /\ RowsSound /\ CountsSound /\ SchemaSound /\ ImportSound

-----------------------------------------------------------------------------
(* Rows and calls. *)

LEMMA AbsentTyped == Absent \in Rows
  BY DEF Absent, Rows, Digests

LEMMA IdleTyped ==
  ASSUME NEW id \in Ids
  PROVE  Idle(id) \in Calls
  BY DEF Idle, Calls

LEMMA NewRow ==
  ASSUME NEW d \in Secrets \X Salts
  PROVE  /\ [Absent EXCEPT !.hash = d] \in Rows
         /\ [Absent EXCEPT !.hash = d] # Absent
         /\ [Absent EXCEPT !.hash = d].hash = d
         /\ [Absent EXCEPT !.hash = d].prev = NoSecret
         /\ [Absent EXCEPT !.hash = d].count = 0
         /\ ~[Absent EXCEPT !.hash = d].revoked
  <1>1. d # NoSecret
    BY KeysAssumption DEF Salts
  <1>2. QED BY <1>1 DEF Absent, Rows, Digests

LEMMA AbsentHash ==
  ASSUME NEW row \in Rows, row.hash \in Secrets \X Salts
  PROVE  row # Absent
  BY KeysAssumption DEF Absent, Rows, Salts

\* The rows of the three updates.
LEMMA UpdatedRow ==
  ASSUME NEW row \in Rows, NEW d \in Secrets \X Salts, NEW at \in Nat
  PROVE  /\ Counted(row) \in Rows /\ Revoked(row) \in Rows /\ Rotated(row, d, at) \in Rows
         /\ Counted(row).hash = row.hash /\ Counted(row).prev = row.prev
         /\ Counted(row).until = row.until /\ Counted(row).revoked = row.revoked
         /\ Counted(row).count = row.count + 1
         /\ Revoked(row).hash = row.hash /\ Revoked(row).revoked
         /\ Revoked(row).count = row.count
         /\ Rotated(row, d, at).hash = d /\ Rotated(row, d, at).prev = row.hash
         /\ Rotated(row, d, at).until = at + Grace
         /\ Rotated(row, d, at).revoked = row.revoked
         /\ Rotated(row, d, at).count = row.count
  <1>1. d \in Digests /\ NoSecret \in Digests
    BY DEF Digests
  <1>2. Counted(row) \in Rows /\ Revoked(row) \in Rows /\ Rotated(row, d, at) \in Rows
    <2>1. Counted(row) \in Rows
      BY DEF Counted, Rows
    <2>2. Revoked(row) \in Rows
      BY <1>1 DEF Revoked, Rows
    <2>3. Rotated(row, d, at) \in Rows
      <3>1. at + Grace \in Nat /\ row.hash \in Digests
        BY KeysAssumption DEF Rows
      <3>2. QED BY <1>1, <3>1 DEF Rotated, Rows
    <2>4. QED BY <2>1, <2>2, <2>3
  <1>3. /\ Counted(row).hash = row.hash /\ Counted(row).prev = row.prev
        /\ Counted(row).until = row.until /\ Counted(row).revoked = row.revoked
        /\ Counted(row).count = row.count + 1
    BY DEF Counted, Rows
  <1>4. Revoked(row).hash = row.hash /\ Revoked(row).revoked /\ Revoked(row).count = row.count
    BY DEF Revoked, Rows
  <1>5. /\ Rotated(row, d, at).hash = d /\ Rotated(row, d, at).prev = row.hash
        /\ Rotated(row, d, at).until = at + Grace
        /\ Rotated(row, d, at).revoked = row.revoked
        /\ Rotated(row, d, at).count = row.count
    BY DEF Rotated, Rows
  <1>6. QED BY <1>2, <1>3, <1>4, <1>5

-----------------------------------------------------------------------------
(* Type correctness. *)

LEMMA InitTypes == Init => TypeOK
  <1> SUFFICES ASSUME Init PROVE TypeOK
    OBVIOUS
  <1>1. (CHOOSE id \in Ids : TRUE) \in Ids
    BY KeysAssumption
  <1>2. call \in [Threads -> Calls]
    BY <1>1, IdleTyped DEF Init, KeysInit
  <1>3. /\ keys \in [Ids -> Rows] /\ accepted \in [Ids -> Nat]
        /\ issued \in [Ids -> Seq([secret : Secrets, at : Nat])]
    <2>1. keys \in [Ids -> Rows]
      BY AbsentTyped DEF Init, KeysInit
    <2>2. accepted \in [Ids -> Nat] /\ issued \in [Ids -> Seq([secret : Secrets, at : Nat])]
      BY DEF Init, KeysInit
    <2>3. QED BY <2>1, <2>2
  <1>4. /\ armed \in BOOLEAN /\ pepper \in {"none", "empty", "full"} /\ now \in 0..MaxTime
    <2>1. armed \in BOOLEAN /\ pepper \in {"none", "empty", "full"}
      BY DEF Init, KeysInit
    <2>2. now \in 0..MaxTime
      BY KeysAssumption DEF Init, KeysInit
    <2>3. QED BY <2>1, <2>2
  <1>5. /\ pc \in [Procs -> PCs] /\ release \in [Procs -> 1..Newest]
        /\ pending \in [Procs -> SUBSET (1..Newest)] /\ recorded \subseteq 1..Newest
        /\ scripts \in [1..Newest -> Nat]
        /\ file \in {"absent", "broken", "present", "imported"}
        /\ found \in BOOLEAN /\ starts \in 0..MaxStarts
    BY BootAssumption DEF Init, PCs
  <1>6. QED BY <1>2, <1>3, <1>4, <1>5 DEF TypeOK

\* The variables of the processes.
BootTypes ==
    /\ pc \in [Procs -> PCs]
    /\ release \in [Procs -> 1..Newest]
    /\ pending \in [Procs -> SUBSET (1..Newest)]
    /\ recorded \subseteq 1..Newest
    /\ scripts \in [1..Newest -> Nat]
    /\ file \in {"absent", "broken", "present", "imported"}
    /\ found \in BOOLEAN
    /\ starts \in 0..MaxStarts

KeyTypes ==
    /\ keys \in [Ids -> Rows]
    /\ armed \in BOOLEAN
    /\ pepper \in {"none", "empty", "full"}
    /\ now \in 0..MaxTime
    /\ call \in [Threads -> Calls]
    /\ issued \in [Ids -> Seq([secret : Secrets, at : Nat])]
    /\ accepted \in [Ids -> Nat]

LEMMA TypesSplit == TypeOK <=> KeyTypes /\ BootTypes
  BY DEF TypeOK, KeyTypes, BootTypes

LEMMA DownTypes ==
  ASSUME BootTypes, NEW p \in Procs, Down(p)
  PROVE  /\ pc' \in [Procs -> PCs] /\ release' \in [Procs -> 1..Newest]
         /\ pending' \in [Procs -> SUBSET (1..Newest)]
  BY BootAssumption DEF BootTypes, Down, Goto, PCs

-----------------------------------------------------------------------------
(* Handlers.  All but Commit leave the table alone and move one thread. *)

Moves(t) == call' \in [Threads -> Calls] /\ \A u \in Threads \ {t} : call'[u] = call[u]

\* The thread is neither about to count a verification nor becomes so.
CountsNothing(t) ==
    accepted' = accepted /\ \A id \in Ids : ~Waits(t, id) /\ ~Waits(t, id)'

\* The thread has accepted a verification of key id.
Accepts(t, id) ==
    /\ accepted' = [accepted EXCEPT ![id] = @ + 1]
    /\ \A j \in Ids : ~Waits(t, j) /\ (Waits(t, j)' <=> j = id)

Reads(t) ==
    \/ \E id \in Ids : create_key(t, id) \/ _rotate(t, id) \/ _revoke(t, id)
    \/ arm(t) \/ disarm(t)
    \/ \E s \in Secrets : present(t, s)
    \/ load_pepper(t) \/ write_pepper(t) \/ verify_key(t)

\* What a handler that does not commit does to the calls and the counts.
ReadsOnly(t) ==
    /\ Moves(t)
    /\ CallFits(call'[t])
    /\ call'[t].op = "create" =>
          \A u \in Threads \ {t} : ~(call[u].op = "create" /\ call[u].id = call'[t].id)
    /\ CountsNothing(t) \/ \E id \in Ids : Accepts(t, id)
    /\ UNCHANGED <<keys, now, issued>>
    /\ armed' \in BOOLEAN /\ pepper' \in {"none", "empty", "full"}

LEMMA OneMoves ==
  ASSUME KeyTypes, NEW t \in Threads, NEW c \in Calls, call' = [call EXCEPT ![t] = c]
  PROVE  Moves(t) /\ call'[t] = c
  BY DEF Moves, KeyTypes

LEMMA CallUpdates ==
  ASSUME NEW c \in Calls, NEW q \in {"none", "empty", "full"},
         NEW st \in {"writing", "read", "write"}
  PROVE  /\ [c EXCEPT !.step = st] \in Calls
         /\ [c EXCEPT !.pep = q, !.step = st] \in Calls
  <1>1. [c EXCEPT !.step = st] \in Calls
    BY DEF Calls
  <1>2. [c EXCEPT !.pep = q, !.step = st] \in Calls
    BY DEF Calls
  <1>3. QED BY <1>1, <1>2

\* load_pepper and write_pepper move the thread on with the pepper they leave behind.
LEMMA PepperMoves ==
  ASSUME KeyTypes, NEW t \in Threads, NEW q \in {"none", "empty", "full"},
         NEW st \in {"writing", "read", "write"},
         \/ call' = [call EXCEPT ![t].pep = q, ![t].step = st]
         \/ call' = [call EXCEPT ![t].step = st] /\ q = call[t].pep
  PROVE  /\ Moves(t) /\ call'[t].op = call[t].op /\ call'[t].id = call[t].id
         /\ call'[t].secret = call[t].secret /\ call'[t].pep = q /\ call'[t].step = st
  <1> DEFINE c == [call[t] EXCEPT !.pep = q, !.step = st]
  <1>1. c \in Calls
    BY CallUpdates DEF KeyTypes
  <1>2. /\ c.op = call[t].op /\ c.id = call[t].id /\ c.secret = call[t].secret
        /\ c.pep = q /\ c.step = st
    BY DEF KeyTypes, Calls
  <1>3. CASE call' = [call EXCEPT ![t].pep = q, ![t].step = st]
    <2>1. call' = [call EXCEPT ![t] = c]
      BY <1>3 DEF KeyTypes
    <2>2. QED BY <1>1, <1>2, <2>1, OneMoves
  <1>4. CASE call' = [call EXCEPT ![t].step = st] /\ q = call[t].pep
    <2>1. [call[t] EXCEPT !.step = st] \in Calls
      BY CallUpdates DEF KeyTypes
    <2>2. call' = [call EXCEPT ![t] = [call[t] EXCEPT !.step = st]]
      BY <1>4 DEF KeyTypes
    <2>3. call'[t] = [call[t] EXCEPT !.step = st] /\ Moves(t)
      BY <2>1, <2>2, OneMoves
    <2>4. QED BY <1>4, <2>3 DEF KeyTypes, Calls
  <1>5. QED BY <1>3, <1>4

LEMMA EnterMoves ==
  ASSUME KeyTypes, NEW t \in Threads,
         NEW op \in {"create", "rotate", "revoke", "arm", "verify"}, NEW id \in Ids,
         NEW s \in Secrets \cup {NoSecret}, NEW step \in {"pepper", "write"},
         Enter(t, op, id, s, step)
  PROVE  /\ Moves(t) /\ call[t].step = "idle"
         /\ call'[t].op = op /\ call'[t].id = id /\ call'[t].secret = s
         /\ call'[t].step = step
         /\ UNCHANGED <<keys, armed, pepper, now, issued, accepted>>
  <1>1. now \in Nat
    BY KeysAssumption DEF KeyTypes
  <1>2. [op |-> op, id |-> id, secret |-> s, step |-> step, pep |-> "none",
         at |-> IF op = "rotate" THEN now ELSE 0] \in Calls
    BY <1>1 DEF Calls
  <1>3. QED BY <1>2 DEF Enter, Moves, KeyTypes

LEMMA EntersRead ==
  ASSUME KeyTypes, CallsSound, NEW t \in Threads,
         \/ \E id \in Ids : create_key(t, id) \/ _rotate(t, id) \/ _revoke(t, id)
         \/ arm(t)
         \/ \E s \in Secrets : present(t, s)
  PROVE  ReadsOnly(t)
  <1>1. CASE \E id \in Ids : create_key(t, id)
    <2>1. PICK id \in Ids : create_key(t, id)
      BY <1>1
    <2>2. PICK s \in Secrets \ Taken : Enter(t, "create", id, s, "pepper")
      BY <2>1 DEF create_key
    <2>3. /\ Moves(t) /\ call[t].step = "idle"
          /\ call'[t].op = "create" /\ call'[t].id = id /\ call'[t].secret = s
          /\ call'[t].step = "pepper" /\ s \in Secrets
          /\ UNCHANGED <<keys, armed, pepper, now, issued, accepted>>
      BY <2>2, EnterMoves
    <2>4. CallFits(call'[t])
      BY <2>1, <2>3 DEF create_key, CallFits
    <2>5. CountsNothing(t)
      BY <2>3 DEF CountsNothing, Waits
    <2>6. QED BY <2>1, <2>3, <2>4, <2>5 DEF create_key, ReadsOnly, KeyTypes
  <1>2. CASE \E id \in Ids : _rotate(t, id)
    <2>1. PICK id \in Ids : _rotate(t, id)
      BY <1>2
    <2>2. PICK s \in Secrets \ Taken : Enter(t, "rotate", id, s, "pepper")
      BY <2>1 DEF _rotate
    <2>3. QED BY <2>1, <2>2, EnterMoves, ZenonT(60)
              DEF _rotate, ReadsOnly, CallFits, CountsNothing, Waits, KeyTypes, Active, Exists
  <1>3. CASE \E id \in Ids : _revoke(t, id)
    <2>1. PICK id \in Ids : _revoke(t, id)
      BY <1>3
    <2>2. QED BY <2>1, EnterMoves
              DEF _revoke, ReadsOnly, CallFits, CountsNothing, Waits, KeyTypes, Active, Exists
  <1>4. CASE arm(t)
    <2>1. call[t].id \in Ids
      BY DEF KeyTypes, Calls
    <2>2. QED BY <1>4, <2>1, EnterMoves
              DEF arm, ReadsOnly, CallFits, CountsNothing, Waits, KeyTypes
  <1>5. CASE \E s \in Secrets : present(t, s)
    <2>1. call[t].id \in Ids
      BY DEF KeyTypes, Calls
    <2>2. QED BY <1>5, <2>1, EnterMoves
              DEF present, ReadsOnly, CallFits, CountsNothing, Waits, KeyTypes
  <1>6. QED BY <1>1, <1>2, <1>3, <1>4, <1>5

LEMMA IdleAgain ==
  ASSUME KeyTypes, NEW t \in Threads, call' = [call EXCEPT ![t] = Idle(@.id)]
  PROVE  /\ Moves(t) /\ call'[t].op = "none" /\ call'[t].step = "idle"
  <1>1. Idle(call[t].id) \in Calls
    BY IdleTyped DEF KeyTypes, Calls
  <1>2. QED BY <1>1 DEF Moves, KeyTypes, Idle

LEMMA ReadsAre ==
  ASSUME KeyTypes, CallsSound, NEW t \in Threads, Reads(t)
  PROVE  ReadsOnly(t)
  <1>1. CASE disarm(t)
    BY <1>1 DEF disarm, ReadsOnly, Moves, CallsSound, CountsNothing, Waits, CallFits, KeyTypes,
                Exists
  <1>2. CASE load_pepper(t)
    <2>1. CASE pepper = "none"
      <3>1. /\ Moves(t) /\ call'[t].op = call[t].op /\ call'[t].id = call[t].id
            /\ call'[t].secret = call[t].secret /\ call'[t].step = "writing"
            /\ call[t].step = "pepper"
            /\ UNCHANGED <<keys, armed, now, issued, accepted>> /\ pepper' = "empty"
        <4>1. call[t].pep \in {"none", "empty", "full"}
          BY DEF KeyTypes, Calls
        <4>2. QED BY <1>2, <2>1, <4>1, PepperMoves DEF load_pepper
      <3>2. CallFits(call[t])
        BY DEF CallsSound
      <3>3. CallFits(call'[t]) /\ CountsNothing(t)
        BY <3>1, <3>2 DEF CallFits, CountsNothing, Waits
      <3>4. QED BY <3>1, <3>3 DEF ReadsOnly, CallsSound, KeyTypes
    <2>2. CASE pepper # "none"
      <3>1. /\ Moves(t) /\ call'[t].op = call[t].op /\ call'[t].id = call[t].id
            /\ call'[t].secret = call[t].secret /\ call'[t].pep = pepper
            /\ call'[t].step = AfterPepper(t) /\ call[t].step = "pepper"
            /\ UNCHANGED <<keys, armed, now, issued, accepted, pepper>>
        <4>1. AfterPepper(t) \in {"read", "write"} /\ pepper \in {"none", "empty", "full"}
          BY DEF AfterPepper, KeyTypes
        <4>2. /\ call' = [call EXCEPT ![t].pep = pepper, ![t].step = AfterPepper(t)]
              /\ call[t].step = "pepper"
              /\ UNCHANGED <<keys, armed, now, issued, accepted, pepper>>
          BY <1>2, <2>2 DEF load_pepper
        <4>3. QED BY <4>1, <4>2, PepperMoves
      <3>2. CallFits(call[t])
        BY DEF CallsSound
      <3>3. CallFits(call'[t]) /\ CountsNothing(t)
        BY <2>2, <3>1, <3>2 DEF CallFits, CountsNothing, Waits, KeyTypes, AfterPepper
      <3>4. QED BY <2>2, <3>1, <3>3 DEF ReadsOnly, CallsSound, KeyTypes
    <2>3. QED BY <2>1, <2>2
  <1>3. CASE write_pepper(t)
    <2>1. CASE call' = [call EXCEPT ![t] = Idle(@.id)] /\ pepper' = "none"
      BY <1>3, <2>1, IdleAgain
         DEF write_pepper, ReadsOnly, CountsNothing, Waits, CallFits, KeyTypes
    <2>2. CASE /\ pepper' = "full"
               /\ call' = [call EXCEPT ![t].pep = "full", ![t].step = AfterPepper(t)]
      <3>1. /\ Moves(t) /\ call'[t].op = call[t].op /\ call'[t].id = call[t].id
            /\ call'[t].secret = call[t].secret /\ call'[t].pep = "full"
            /\ call'[t].step = AfterPepper(t) /\ call[t].step = "writing"
            /\ UNCHANGED <<keys, armed, now, issued, accepted>>
        <4>1. AfterPepper(t) \in {"read", "write"}
          BY DEF AfterPepper
        <4>2. QED BY <1>3, <2>2, <4>1, PepperMoves DEF write_pepper
      <3>2. CallFits(call[t])
        BY DEF CallsSound
      <3>3. CallFits(call'[t]) /\ CountsNothing(t)
        BY <2>2, <3>1, <3>2 DEF CallFits, CountsNothing, Waits, KeyTypes, AfterPepper
      <3>4. QED BY <2>2, <3>1, <3>3 DEF ReadsOnly, CallsSound, KeyTypes
    <2>3. QED BY <1>3, <2>1, <2>2 DEF write_pepper
  <1>4. CASE verify_key(t)
    <2>1. CASE call' = [call EXCEPT ![t] = Idle(@.id)] /\ UNCHANGED accepted
      BY <1>4, <2>1, IdleAgain
         DEF verify_key, ReadsOnly, CountsNothing, Waits, CallFits, KeyTypes
    <2>2. ASSUME NEW id \in Ids, Matches(id, call[t].secret, call[t].pep),
                 call' = [call EXCEPT ![t].id = id, ![t].step = "write"],
                 accepted' = [accepted EXCEPT ![id] = @ + 1]
          PROVE  ReadsOnly(t)
      <3>1. /\ Moves(t) /\ call'[t].op = call[t].op /\ call'[t].id = id
            /\ call'[t].step = "write" /\ call[t].step = "read" /\ call[t].op = "verify"
            /\ UNCHANGED <<keys, armed, pepper, now, issued>>
        <4>1. [call[t] EXCEPT !.id = id, !.step = "write"] \in Calls
          BY DEF KeyTypes, Calls
        <4>2. call' = [call EXCEPT ![t] = [call[t] EXCEPT !.id = id, !.step = "write"]]
          BY <2>2 DEF KeyTypes
        <4>3. Moves(t) /\ call'[t] = [call[t] EXCEPT !.id = id, !.step = "write"]
          BY <4>1, <4>2, OneMoves
        <4>4. QED BY <1>4, <4>3 DEF verify_key, KeyTypes, Calls
      <3>2. Exists(id)
        BY <2>2 DEF Matches, Active
      <3>3. Accepts(t, id)
        BY <2>2, <3>1 DEF Accepts, Waits
      <3>4. CallFits(call'[t])
        BY <3>1, <3>2 DEF CallFits
      <3>5. QED BY <3>1, <3>3, <3>4 DEF ReadsOnly, KeyTypes
    <2>3. QED BY <1>4, <2>1, <2>2 DEF verify_key
  <1>5. QED BY <1>1, <1>2, <1>3, <1>4, EntersRead DEF Reads

LEMMA UncountedFinite ==
  ASSUME NEW id
  PROVE  /\ IsFiniteSet(Uncounted(id)) /\ Cardinality(Uncounted(id)) \in Nat
         /\ IsFiniteSet(Uncounted(id)') /\ Cardinality(Uncounted(id)') \in Nat
  <1>1. Uncounted(id) \subseteq Threads /\ Uncounted(id)' \subseteq Threads
    BY DEF Uncounted
  <1>2. QED BY <1>1, FS_Subset, FS_CardinalityType, KeysAssumption

LEMMA ReadsCount ==
  ASSUME KeyTypes, CountsSound, NEW t \in Threads, ReadsOnly(t)
  PROVE  CountsSound'
  <1>1. CASE CountsNothing(t)
    <2>1. ASSUME NEW id \in Ids PROVE Uncounted(id)' = Uncounted(id)
      BY <1>1 DEF ReadsOnly, Moves, CountsNothing, Uncounted, Waits
    <2>2. QED BY <1>1, <2>1 DEF CountsSound, CountsNothing, ReadsOnly
  <1>2. ASSUME NEW id \in Ids, Accepts(t, id) PROVE CountsSound'
    <2>1. ASSUME NEW j \in Ids, j # id
          PROVE  Uncounted(j)' = Uncounted(j) /\ accepted'[j] = accepted[j]
      <3>1. ASSUME NEW u \in Threads PROVE Waits(u, j)' <=> Waits(u, j)
        <4>1. CASE u = t
          BY <1>2, <2>1, <4>1 DEF Accepts
        <4>2. CASE u # t
          BY <4>2 DEF ReadsOnly, Moves, Waits
        <4>3. QED BY <4>1, <4>2
      <3>2. accepted'[j] = accepted[j]
        BY <1>2, <2>1 DEF Accepts, KeyTypes
      <3>3. QED BY <3>1, <3>2 DEF Uncounted
    <2>2. /\ Uncounted(id)' = Uncounted(id) \cup {t} /\ t \notin Uncounted(id)
          /\ accepted'[id] = accepted[id] + 1
      BY <1>2 DEF ReadsOnly, Moves, Accepts, Uncounted, Waits, KeyTypes
    <2>3. Cardinality(Uncounted(id)') = Cardinality(Uncounted(id)) + 1
      <3>1. IsFiniteSet(Uncounted(id))
        BY UncountedFinite
      <3>2. Cardinality(Uncounted(id) \cup {t}) = Cardinality(Uncounted(id)) + 1
        BY <2>2, <3>1, FS_AddElement
      <3>3. QED BY <2>2, <3>2
    <2>4. keys'[id].count + Cardinality(Uncounted(id)') <= accepted'[id]
      <3>1. keys'[id].count = keys[id].count /\ keys[id].count \in Nat /\ accepted[id] \in Nat
        BY DEF ReadsOnly, KeyTypes, Rows
      <3>2. keys[id].count + Cardinality(Uncounted(id)) <= accepted[id]
        BY DEF CountsSound
      <3>3. QED BY <2>2, <2>3, <3>1, <3>2, UncountedFinite
    <2>5. ASSUME NEW j \in Ids, j # id
          PROVE  keys'[j].count + Cardinality(Uncounted(j)') <= accepted'[j]
      BY <2>1, <2>5 DEF CountsSound, ReadsOnly
    <2>6. QED BY <2>4, <2>5 DEF CountsSound
  <1>3. QED BY <1>1, <1>2 DEF ReadsOnly

LEMMA ReadsCalls ==
  ASSUME KeyTypes, CallsSound, NEW t \in Threads, ReadsOnly(t),
         pc[Server] = "up", pc' = pc
  PROVE  CallsSound'
  <1>1. ASSUME NEW u \in Threads PROVE CallFits(call[u])'
    <2>1. CASE u = t
      BY <2>1 DEF ReadsOnly, CallFits, Exists
    <2>2. CASE u # t
      <3>1. call'[u] = call[u] /\ keys' = keys /\ CallFits(call[u])
        BY <2>2 DEF ReadsOnly, Moves, CallsSound
      <3>2. QED BY <3>1 DEF CallFits, Exists
    <2>3. QED BY <2>1, <2>2
  <1>2. \A u, w \in Threads :
          (call'[u].op = "create" /\ call'[w].op = "create" /\ call'[w].id = call'[u].id) => w = u
    BY DEF ReadsOnly, Moves, CallsSound
  <1>3. QED BY <1>1, <1>2 DEF CallsSound

LEMMA ImportedSame ==
  ASSUME keys' = keys
  PROVE  AllImported' <=> AllImported
  BY DEF AllImported, Exists

LEMMA ReadsKeep ==
  ASSUME BootInv, NEW t \in Threads, Reads(t), pc[Server] = "up", UNCHANGED bootVars
  PROVE  BootInv'
  <1>1. KeyTypes /\ BootTypes
    BY TypesSplit DEF BootInv
  <1>2. ReadsOnly(t)
    BY <1>1, ReadsAre DEF BootInv
  <1>3. KeyTypes'
    <2>1. accepted' = accepted \/ \E id \in Ids : accepted' = [accepted EXCEPT ![id] = @ + 1]
      BY <1>2 DEF ReadsOnly, CountsNothing, Accepts
    <2>2. accepted' \in [Ids -> Nat]
      <3>1. accepted \in [Ids -> Nat]
        BY <1>1 DEF KeyTypes
      <3>2. ASSUME NEW id \in Ids PROVE [accepted EXCEPT ![id] = @ + 1] \in [Ids -> Nat]
        BY <3>1
      <3>3. QED BY <2>1, <3>1, <3>2
    <2>3. QED BY <1>1, <1>2, <2>2 DEF ReadsOnly, Moves, KeyTypes
  <1>4. TypeOK'
    <2>1. BootTypes'
      BY <1>1 DEF BootTypes, bootVars
    <2>2. QED BY <1>3, <2>1 DEF TypeOK, KeyTypes, BootTypes
  <1>5. RowsSound'
    BY <1>2 DEF BootInv, RowsSound, RowSound, Exists, Active, ReadsOnly
  <1>6. CallsSound' /\ CountsSound'
    BY <1>1, <1>2, ReadsCalls, ReadsCount DEF BootInv, bootVars
  <1>7. SchemaSound'
    BY DEF BootInv, SchemaSound, bootVars
  <1>8. ImportSound'
    BY <1>2, ImportedSame DEF BootInv, ImportSound, bootVars, ReadsOnly
  <1>9. QED BY <1>4, <1>5, <1>6, <1>7, <1>8 DEF BootInv

-----------------------------------------------------------------------------
(* The transaction of a handler. *)

Stamp(t) == [secret |-> call[t].secret, at |-> call[t].at]
Digest(t) == <<call[t].secret, call[t].pep>>

LEMMA WritesWhat ==
  ASSUME KeyTypes, CallsSound, NEW t \in Threads, call[t].step = "write"
  PROVE  /\ call[t].id \in Ids /\ keys[call[t].id] \in Rows /\ call[t].at \in Nat
         /\ \/ /\ call[t].op = "create" /\ ~Exists(call[t].id)
               /\ Committed(call[t]) = [Absent EXCEPT !.hash = Digest(t)]
            \/ /\ call[t].op = "rotate" /\ Exists(call[t].id)
               /\ Committed(call[t]) = Rotated(keys[call[t].id], Digest(t), call[t].at)
            \/ /\ call[t].op = "revoke" /\ Exists(call[t].id)
               /\ Committed(call[t]) = Revoked(keys[call[t].id])
            \/ /\ call[t].op = "verify" /\ Exists(call[t].id)
               /\ Committed(call[t]) = Counted(keys[call[t].id])
            \/ call[t].op = "arm" /\ Committed(call[t]) = keys[call[t].id]
         /\ call[t].op \in {"create", "rotate"} =>
               Digest(t) \in Secrets \X Salts /\ Stamp(t) \in [secret : Secrets, at : Nat]
  <1>1. call[t] \in Calls /\ CallFits(call[t])
    BY DEF KeyTypes, CallsSound
  <1>2. call[t].id \in Ids /\ call[t].at \in Nat
    BY <1>1 DEF Calls
  <1>3. call[t].op \in {"create", "rotate", "revoke", "arm", "verify"}
    BY <1>1 DEF Calls, CallFits
  <1>4. keys[call[t].id] \in Rows
    BY <1>2 DEF KeyTypes
  <1>5. call[t].op \in {"create", "rotate"} =>
          Digest(t) \in Secrets \X Salts /\ Stamp(t) \in [secret : Secrets, at : Nat]
    BY <1>1, <1>2 DEF CallFits, Digest, Stamp, Salts
  <1>6. CASE call[t].op = "create"
    BY <1>1, <1>2, <1>4, <1>5, <1>6 DEF CallFits, Committed, Digest
  <1>7. CASE call[t].op = "rotate"
    BY <1>1, <1>2, <1>4, <1>5, <1>7 DEF CallFits, Committed, Digest
  <1>8. CASE call[t].op \in {"revoke", "verify", "arm"}
    BY <1>1, <1>2, <1>4, <1>5, <1>8 DEF CallFits, Committed
  <1>9. QED BY <1>3, <1>6, <1>7, <1>8

\* The committed row, field by field.
LEMMA CommittedRow ==
  ASSUME KeyTypes, CallsSound, RowsSound, NEW t \in Threads, call[t].step = "write"
  PROVE  LET id == call[t].id
             row == Committed(call[t])
         IN  /\ row \in Rows
             /\ (call[t].op # "arm" \/ Exists(id)) => row # Absent
             /\ keys[id].revoked => row.revoked
             /\ row.count = keys[id].count + IF call[t].op = "verify" THEN 1 ELSE 0
  <1> DEFINE id == call[t].id
             row == Committed(call[t])
  <1>1. /\ id \in Ids /\ keys[id] \in Rows /\ call[t].at \in Nat /\ keys[id].count \in Nat
        /\ Exists(id) => keys[id].hash \in Secrets \X Salts
    BY WritesWhat DEF RowsSound, RowSound, Rows
  <1>2. CASE call[t].op = "create"
    <2>1. row = [Absent EXCEPT !.hash = Digest(t)] /\ keys[id] = Absent
      BY <1>2, WritesWhat DEF Exists
    <2>2. Digest(t) \in Secrets \X Salts
      BY <1>2, WritesWhat
    <2>3. row \in Rows /\ row # Absent /\ row.count = 0
      BY <2>1, <2>2, NewRow
    <2>4. ~keys[id].revoked /\ keys[id].count = 0
      BY <2>1 DEF Absent
    <2>5. QED BY <1>2, <2>3, <2>4
  <1>3. CASE call[t].op = "rotate"
    <2>1. row = Rotated(keys[id], Digest(t), call[t].at) /\ Digest(t) \in Secrets \X Salts
      BY <1>3, WritesWhat
    <2>2. /\ row \in Rows /\ row.hash \in Secrets \X Salts /\ row.revoked = keys[id].revoked
          /\ row.count = keys[id].count
      BY <1>1, <2>1, UpdatedRow
    <2>3. QED BY <1>1, <1>3, <2>2, AbsentHash
  <1>4. ASSUME NEW d \in Secrets \X Salts, call[t].op = "revoke"
        PROVE  /\ row \in Rows /\ row.hash = keys[id].hash /\ row.revoked
               /\ row.count = keys[id].count
    <2>1. row = Revoked(keys[id])
      BY <1>4, WritesWhat
    <2>2. QED BY <1>1, <1>4, <2>1, UpdatedRow
  <1>5. ASSUME NEW d \in Secrets \X Salts, call[t].op = "verify"
        PROVE  /\ row \in Rows /\ row.hash = keys[id].hash /\ row.revoked = keys[id].revoked
               /\ row.count = keys[id].count + 1
    <2>1. row = Counted(keys[id])
      BY <1>5, WritesWhat
    <2>2. QED BY <1>1, <1>5, <2>1, UpdatedRow
  <1>6. CASE call[t].op \in {"revoke", "verify"}
    <2>1. Exists(id) /\ keys[id].hash \in Secrets \X Salts
      BY <1>1, <1>6, WritesWhat
    <2>2. row.hash = keys[id].hash /\ row \in Rows
      BY <1>4, <1>5, <1>6, <2>1
    <2>3. row # Absent
      BY <2>1, <2>2, AbsentHash
    <2>4. QED BY <1>1, <1>4, <1>5, <1>6, <2>1, <2>2, <2>3
  <1>7. CASE call[t].op = "arm"
    <2>1. row = keys[id]
      BY <1>7, WritesWhat
    <2>2. QED BY <1>1, <1>7, <2>1 DEF Exists
  <1>8. QED BY <1>2, <1>3, <1>6, <1>7, WritesWhat

\* No row leaves the table.
RowsStay == \A id \in Ids : Exists(id) => Exists(id)'

LEMMA CommitTypes ==
  ASSUME KeyTypes, CallsSound, RowsSound, NEW t \in Threads, Commit(t)
  PROVE  /\ KeyTypes' /\ Moves(t) /\ call'[t].op = "none" /\ call'[t].step = "idle"
         /\ \A id \in Ids \ {call[t].id} : keys'[id] = keys[id] /\ issued'[id] = issued[id]
         /\ keys'[call[t].id] = Committed(call[t])
         /\ RowsStay
  <1>1. Committed(call[t]) \in Rows /\ (Exists(call[t].id) => Committed(call[t]) # Absent)
    BY CommittedRow DEF Commit
  <1>2. call[t].id \in Ids
    BY WritesWhat DEF Commit
  <1>3. keys' = [keys EXCEPT ![call[t].id] = Committed(call[t])] /\ keys \in [Ids -> Rows]
    BY DEF Commit, KeyTypes
  <1>4. /\ keys' \in [Ids -> Rows] /\ keys'[call[t].id] = Committed(call[t])
        /\ \A id \in Ids \ {call[t].id} : keys'[id] = keys[id]
    BY <1>1, <1>2, <1>3
  <1>5. Moves(t) /\ call'[t].op = "none" /\ call'[t].step = "idle"
    BY IdleAgain DEF Commit
  <1>6. /\ issued' \in [Ids -> Seq([secret : Secrets, at : Nat])]
        /\ \A id \in Ids \ {call[t].id} : issued'[id] = issued[id]
    <2>1. CASE call[t].op \in {"create", "rotate"}
      <3>1. issued' = [issued EXCEPT ![call[t].id] = Append(@, Stamp(t))]
        BY <2>1 DEF Commit, Stamp
      <3>2. Stamp(t) \in [secret : Secrets, at : Nat]
        BY <2>1, WritesWhat DEF Commit
      <3>3. issued[call[t].id] \in Seq([secret : Secrets, at : Nat])
        BY <1>2 DEF KeyTypes
      <3>4. Append(issued[call[t].id], Stamp(t)) \in Seq([secret : Secrets, at : Nat])
        BY <3>2, <3>3, AppendProperties
      <3>5. QED BY <1>2, <3>1, <3>4 DEF KeyTypes
    <2>2. CASE call[t].op \notin {"create", "rotate"}
      BY <2>2 DEF Commit, KeyTypes
    <2>3. QED BY <2>1, <2>2
  <1>7. armed' \in BOOLEAN /\ UNCHANGED <<pepper, now, accepted>>
    BY DEF Commit
  <1>8. KeyTypes'
    BY <1>4, <1>5, <1>6, <1>7 DEF KeyTypes, Moves
  <1>9. RowsStay
    BY <1>1, <1>4 DEF RowsStay, Exists
  <1>10. QED BY <1>4, <1>5, <1>6, <1>8, <1>9

LEMMA CommitRows ==
  ASSUME KeyTypes, CallsSound, RowsSound, NEW t \in Threads, Commit(t)
  PROVE  RowsSound'
  <1> DEFINE row == Committed(call[t])
  <1>0. PICK c : c = call[t].id
    OBVIOUS
  <1>1. /\ call[t].step = "write" /\ c \in Ids /\ keys[c] \in Rows /\ call[t].at \in Nat
        /\ keys'[c] = row /\ row \in Rows
        /\ issued[c] \in Seq([secret : Secrets, at : Nat]) /\ Len(issued[c]) \in Nat
    <2>1. call[t].step = "write"
      BY DEF Commit
    <2>2. c \in Ids /\ keys[c] \in Rows /\ call[t].at \in Nat
      BY <1>0, <2>1, WritesWhat
    <2>3. keys'[c] = row /\ row \in Rows
      BY <1>0, <2>1, CommitTypes, CommittedRow
    <2>4. issued[c] \in Seq([secret : Secrets, at : Nat])
      BY <2>2 DEF KeyTypes
    <2>5. QED BY <2>1, <2>2, <2>3, <2>4, LenProperties
  <1>2. RowSound(c)
    BY <1>1 DEF RowsSound
  <1>3. ASSUME NEW id \in Ids, id # c PROVE RowSound(id)'
    <2>1. keys'[id] = keys[id] /\ issued'[id] = issued[id] /\ RowSound(id)
      BY <1>0, <1>3, CommitTypes DEF RowsSound
    <2>2. QED BY <2>1 DEF RowSound, Exists, Active
  <1>4. ASSUME call[t].op \in {"create", "rotate"} PROVE RowSound(c)'
    <2>1. Digest(t) \in Secrets \X Salts /\ Stamp(t) \in [secret : Secrets, at : Nat]
      BY <1>1, <1>4, WritesWhat
    <2>2. issued'[c] = Append(issued[c], Stamp(t))
      BY <1>0, <1>1, <1>4 DEF Commit, Stamp, KeyTypes
    <2>3. /\ Len(issued'[c]) = Len(issued[c]) + 1
          /\ issued'[c][Len(issued[c]) + 1] = Stamp(t)
          /\ \A i \in 1..Len(issued[c]) : issued'[c][i] = issued[c][i]
      BY <1>1, <2>1, <2>2, AppendProperties
    <2>4. Digest(t)[1] = Stamp(t).secret /\ Stamp(t).at = call[t].at
      BY DEF Digest, Stamp
    <2>5. CASE call[t].op = "create"
      <3>1. row = [Absent EXCEPT !.hash = Digest(t)] /\ ~Exists(c)
        BY <1>0, <1>1, <2>5, WritesWhat
      <3>2. row.hash = Digest(t) /\ row.prev = NoSecret /\ row # Absent
        BY <2>1, <3>1, NewRow
      <3>3. Len(issued[c]) = 0
        BY <1>2, <3>1 DEF RowSound
      <3>4. QED BY <1>1, <2>1, <2>3, <2>4, <3>2, <3>3 DEF RowSound, Exists, Active
    <2>6. CASE call[t].op = "rotate"
      <3>1. row = Rotated(keys[c], Digest(t), call[t].at) /\ Exists(c)
        BY <1>0, <1>1, <2>6, WritesWhat
      <3>2. /\ row.hash = Digest(t) /\ row.prev = keys[c].hash
            /\ row.until = call[t].at + Grace /\ row.revoked = keys[c].revoked
        <4>1. LET r == Rotated(keys[c], Digest(t), call[t].at)
              IN  /\ r.hash = Digest(t) /\ r.prev = keys[c].hash
                  /\ r.until = call[t].at + Grace /\ r.revoked = keys[c].revoked
          <5>1. keys[c] \in Rows /\ call[t].at \in Nat
            BY <1>1
          <5>2. QED BY <2>1, <5>1, UpdatedRow
        <4>2. QED BY <3>1, <4>1
      <3>3. row # Absent
        BY <1>1, <2>1, <3>2, AbsentHash
      <3>4. /\ Len(issued[c]) > 0 /\ keys[c].hash \in Secrets \X Salts
            /\ keys[c].hash[1] = issued[c][Len(issued[c])].secret
        BY <1>2, <3>1 DEF RowSound
      <3>5. Len(issued'[c]) > 1 /\ issued'[c][Len(issued'[c]) - 1] = issued[c][Len(issued[c])]
        BY <1>1, <2>3, <3>4, SMTT(30)
      <3>6. issued'[c][Len(issued'[c])] = Stamp(t)
        BY <1>1, <2>3
      <3>7. QED BY <1>1, <2>1, <2>4, <3>2, <3>3, <3>4, <3>5, <3>6 DEF RowSound, Exists, Active
    <2>7. QED BY <1>4, <2>5, <2>6
  <1>5. ASSUME call[t].op \in {"revoke", "verify", "arm"} PROVE RowSound(c)'
    <2>1. issued'[c] = issued[c]
      BY <1>5 DEF Commit
    <2>2. CASE call[t].op = "arm"
      <3>1. row = keys[c]
        BY <1>0, <1>1, <2>2, WritesWhat
      <3>2. QED BY <1>1, <1>2, <2>1, <3>1 DEF RowSound, Exists, Active
    <2>3. CASE call[t].op \in {"revoke", "verify"}
      <3>1. Exists(c) /\ row # Absent /\ keys[c].hash \in Secrets \X Salts
        BY <1>0, <1>1, <1>2, <2>3, WritesWhat, CommittedRow DEF RowSound
      <3>2. row = Revoked(keys[c]) \/ row = Counted(keys[c])
        BY <1>0, <1>1, <2>3, WritesWhat
      <3>3. /\ row.hash = keys[c].hash
            /\ \/ row.revoked
               \/ /\ row.revoked = keys[c].revoked /\ row.prev = keys[c].prev
                  /\ row.until = keys[c].until
        <4> HIDE DEF row
        <4>1. QED BY <1>1, <3>1, <3>2, UpdatedRow
      <3>4. QED BY <1>1, <1>2, <2>1, <3>1, <3>3 DEF RowSound, Exists, Active
    <2>4. QED BY <1>5, <2>2, <2>3
  <1>6. RowSound(c)'
    BY <1>0, <1>1, <1>4, <1>5, WritesWhat
  <1>7. QED BY <1>3, <1>6 DEF RowsSound

LEMMA CommitCalls ==
  ASSUME KeyTypes, CallsSound, RowsSound, NEW t \in Threads, Commit(t), pc' = pc
  PROVE  CallsSound'
  <1>1. ASSUME NEW u \in Threads, u # t PROVE CallFits(call[u])'
    <2>1. call'[u] = call[u] /\ CallFits(call[u]) /\ call[u].id \in Ids
      BY <1>1, CommitTypes, ZenonT(60) DEF Moves, CallsSound, KeyTypes, Calls
    <2>2. Exists(call[u].id) => keys'[call[u].id] # Absent
      BY <2>1, CommitTypes DEF RowsStay, Exists
    <2>3. ASSUME call[u].op = "create" PROVE keys'[call[u].id] = Absent
      <3>1. keys[call[u].id] = Absent
        BY <2>1, <2>3 DEF CallFits, Exists
      <3>2. CASE call[u].id # call[t].id
        BY <2>1, <3>1, <3>2, CommitTypes
      <3>3. CASE call[u].id = call[t].id
        <4>1. call[t].op = "arm" /\ Committed(call[t]) = keys[call[t].id]
          BY <1>1, <2>3, <3>1, <3>3, WritesWhat DEF CallsSound, Commit, Exists
        <4>2. QED BY <3>1, <3>3, <4>1, CommitTypes
      <3>4. QED BY <3>2, <3>3
    <2>4. QED BY <2>1, <2>2, <2>3 DEF CallFits, Exists
  <1>2. CallFits(call[t])'
    BY CommitTypes DEF CallFits
  <1>3. \A u \in Threads : call'[u].step # "idle" => pc'[Server] = "up"
    BY CommitTypes DEF Moves, CallsSound
  <1>4. \A u, w \in Threads :
          (call'[u].op = "create" /\ call'[w].op = "create" /\ call'[w].id = call'[u].id) => w = u
    BY CommitTypes DEF Moves, CallsSound
  <1>5. QED BY <1>1, <1>2, <1>3, <1>4 DEF CallsSound

LEMMA CommitCounts ==
  ASSUME KeyTypes, CallsSound, RowsSound, CountsSound, NEW t \in Threads, Commit(t),
         NEW id \in Ids
  PROVE  /\ keys'[id].count + Cardinality(Uncounted(id)') <= accepted'[id]
         /\ Waits(t, id) => keys'[id].count = keys[id].count + 1
         /\ ~Waits(t, id) => keys'[id].count = keys[id].count
         /\ keys[id].revoked => keys'[id].revoked
  <1>1. /\ keys[id].count \in Nat /\ accepted[id] \in Nat /\ accepted' = accepted
        /\ keys[id].count + Cardinality(Uncounted(id)) <= accepted[id]
    BY DEF KeyTypes, Rows, Commit, CountsSound
  <1>2. call[t].step = "write"
    BY DEF Commit
  <1>3. CASE Waits(t, id)
    <2>1. keys'[id].count = keys[id].count + 1 /\ (keys[id].revoked => keys'[id].revoked)
      BY <1>2, <1>3, CommitTypes, CommittedRow DEF Waits
    <2>2. Uncounted(id)' = Uncounted(id) \ {t} /\ t \in Uncounted(id)
      BY <1>3, CommitTypes DEF Uncounted, Waits, Moves
    <2>3. Cardinality(Uncounted(id) \ {t}) = Cardinality(Uncounted(id)) - 1
      BY <2>2, UncountedFinite, FS_RemoveElement
    <2>4. Cardinality(Uncounted(id)') = Cardinality(Uncounted(id)) - 1
      BY <2>2, <2>3
    <2>5. QED BY <1>1, <1>3, <2>1, <2>4, UncountedFinite
  <1>4. CASE ~Waits(t, id)
    <2>1. Uncounted(id)' = Uncounted(id)
      BY <1>4, CommitTypes DEF Uncounted, Waits, Moves
    <2>2. keys'[id].count = keys[id].count /\ (keys[id].revoked => keys'[id].revoked)
      <3>1. CASE id = call[t].id
        BY <1>1, <1>2, <1>4, <3>1, CommitTypes, CommittedRow DEF Waits
      <3>2. CASE id # call[t].id
        BY <3>2, CommitTypes
      <3>3. QED BY <3>1, <3>2
    <2>3. QED BY <1>1, <1>4, <2>1, <2>2
  <1>5. QED BY <1>3, <1>4

\* Imports, like rows, are not undone.
LEMMA ImportedStays ==
  ASSUME RowsStay
  PROVE  AllImported => AllImported'
  BY BootAssumption DEF RowsStay, AllImported, Exists

LEMMA CommitKeeps ==
  ASSUME BootInv, NEW t \in Threads, Commit(t), UNCHANGED bootVars
  PROVE  BootInv'
  <1>1. KeyTypes /\ BootTypes
    BY TypesSplit DEF BootInv
  <1>2. TypeOK'
    <2>1. BootTypes'
      BY <1>1 DEF BootTypes, bootVars
    <2>2. QED BY <1>1, <2>1, CommitTypes DEF TypeOK, KeyTypes, BootTypes, BootInv
  <1>3. RowsSound' /\ CallsSound' /\ CountsSound'
    BY <1>1, CommitRows, CommitCalls, CommitCounts DEF BootInv, CountsSound, bootVars
  <1>4. SchemaSound'
    BY DEF BootInv, SchemaSound, bootVars
  <1>5. ImportSound'
    BY <1>1, CommitTypes, ImportedStays DEF BootInv, ImportSound, bootVars
  <1>6. QED BY <1>2, <1>3, <1>4, <1>5 DEF BootInv

-----------------------------------------------------------------------------
(* The starts. *)

LEMMA TickKeeps ==
  ASSUME BootInv, Tick, UNCHANGED bootVars
  PROVE  BootInv'
  <1>1. now' \in 0..MaxTime
    BY KeysAssumption DEF BootInv, TypeOK, Tick
  <1>2. TypeOK'
    BY <1>1 DEF BootInv, TypeOK, Tick, bootVars
  <1>3. RowsSound' /\ CallsSound' /\ CountsSound'
    BY DEF BootInv, RowsSound, RowSound, CallsSound, CallFits, CountsSound, Uncounted, Waits,
           Exists, Active, Tick, bootVars
  <1>4. SchemaSound' /\ ImportSound'
    BY ImportedSame DEF BootInv, SchemaSound, ImportSound, Tick, bootVars
  <1>5. QED BY <1>2, <1>3, <1>4 DEF BootInv

\* A step of a process that leaves the keys and a serving server alone.
LEMMA AsideKeeps ==
  ASSUME BootInv, UNCHANGED keyVars, pc[Server] = "up" => pc'[Server] = "up", BootTypes'
  PROVE  TypeOK' /\ CallsSound' /\ RowsSound' /\ CountsSound' /\ (AllImported' <=> AllImported)
  <1>1. TypeOK'
    BY DEF BootInv, TypeOK, BootTypes, keyVars
  <1>2. RowsSound' /\ CountsSound'
    BY DEF BootInv, RowsSound, RowSound, CountsSound, Uncounted, Waits, Exists, Active, keyVars
  <1>3. CallsSound'
    BY DEF BootInv, CallsSound, CallFits, Exists, keyVars
  <1>4. QED BY <1>1, <1>2, <1>3, ImportedSame DEF keyVars

LEMMA DownIs ==
  ASSUME BootTypes, NEW p \in Procs, Down(p)
  PROVE  /\ pc'[p] = "down"
         /\ \A q \in Procs \ {p} :
               pc'[q] = pc[q] /\ release'[q] = release[q] /\ pending'[q] = pending[q]
  BY DEF BootTypes, Down, Goto

\* A process that ends disturbs nobody.
LEMMA DownKeeps ==
  ASSUME BootTypes, SchemaSound, ImportSound, NEW p \in Procs, Down(p),
         UNCHANGED <<recorded, scripts, file, found>>, AllImported' <=> AllImported
  PROVE  SchemaSound' /\ ImportSound'
  <1>1. ASSUME NEW q \in Procs, q # p
        PROVE  pc'[q] = pc[q] /\ release'[q] = release[q] /\ pending'[q] = pending[q]
    BY <1>1, DownIs
  <1>2. pc'[p] = "down"
    BY DownIs
  <1>3. SchemaSound'
    BY <1>1, <1>2 DEF SchemaSound
  <1>4. ImportSound'
    BY <1>1, <1>2 DEF ImportSound
  <1>5. QED BY <1>3, <1>4

LEMMA MigrateKeeps ==
  ASSUME BootInv, NEW p \in Procs, NEW n \in 1..Newest, migrate(p, n)
  PROVE  BootInv'
  <1>1. BootTypes /\ UNCHANGED <<recorded, scripts, file, found, keyVars>>
    BY TypesSplit DEF BootInv, migrate
  <1>2. starts' \in 0..MaxStarts
    BY <1>1, BootAssumption DEF BootTypes, migrate
  <1>3. CASE UNCHANGED <<pc, release, pending>>
    <2>1. BootTypes'
      BY <1>1, <1>2, <1>3 DEF BootTypes
    <2>2. AllImported' <=> AllImported
      BY <1>1, ImportedSame DEF keyVars
    <2>3. SchemaSound' /\ ImportSound'
      BY <1>1, <1>3, <2>2 DEF BootInv, SchemaSound, ImportSound
    <2>4. QED BY <1>1, <1>3, <2>1, <2>3, AsideKeeps DEF BootInv
  <1>4. CASE /\ ~\E v \in recorded : v > n
             /\ release' = [release EXCEPT ![p] = n]
             /\ pending' = [pending EXCEPT ![p] = (1..n) \ recorded]
             /\ Goto(p, "migrate")
    <2>1. BootTypes'
      <3>1. (1..n) \ recorded \in SUBSET (1..Newest)
        BY BootAssumption
      <3>2. QED BY <1>1, <1>2, <1>4, <3>1 DEF BootTypes, Goto, PCs
    <2>2. /\ pc'[p] = "migrate" /\ release'[p] = n /\ pending'[p] = (1..n) \ recorded
          /\ \A q \in Procs \ {p} :
                pc'[q] = pc[q] /\ release'[q] = release[q] /\ pending'[q] = pending[q]
          /\ pc[p] = "down"
      BY <1>1, <1>4 DEF BootTypes, Goto, migrate
    <2>3. AllImported' <=> AllImported
      BY <1>1, ImportedSame DEF keyVars
    <2>4. PICK k \in 0..Newest : recorded = 1..k
      BY DEF BootInv, SchemaSound
    <2>5. k <= n
      BY <1>4, <2>4
    <2>6. k + 1 \in 1..(n + 1) /\ (1..n) \ recorded = (k + 1)..n /\ 1..k \subseteq recorded
      BY <2>4, <2>5
    <2>7. \E j \in 1..(release'[p] + 1) :
             pending'[p] = j..release'[p] /\ 1..(j - 1) \subseteq recorded'
      <3>1. 1..((k + 1) - 1) \subseteq recorded'
        BY <1>1, <2>4
      <3>2. QED BY <2>2, <2>6, <3>1
    <2>8. SchemaSound'
      BY <1>1, <2>2, <2>7, ZenonT(60) DEF BootInv, SchemaSound
    <2>9. ImportSound'
      BY <1>1, <2>2, <2>3 DEF BootInv, ImportSound
    <2>10. pc[Server] = "up" => pc'[Server] = "up"
      BY <2>2 DEF Procs
    <2>11. QED BY <1>1, <2>1, <2>8, <2>9, <2>10, AsideKeeps DEF BootInv
  <1>5. QED BY <1>3, <1>4 DEF migrate

\* The first of the pending migrations is the least.
LEMMA FirstPending ==
  ASSUME NEW j \in Nat, NEW m \in Nat, j..m # {}
  PROVE  Min(j..m) = j
  BY DEF Min

LEMMA ApplyKeeps ==
  ASSUME BootInv, NEW p \in Procs, ApplyNext(p)
  PROVE  BootInv'
  <1>1. BootTypes /\ UNCHANGED <<file, found, starts, keyVars>> /\ pc[p] = "migrate"
    BY TypesSplit DEF BootInv, ApplyNext
  <1>2. AllImported' <=> AllImported
    BY <1>1, ImportedSame DEF keyVars
  <1>3. CASE Down(p) /\ UNCHANGED <<recorded, scripts>>
    <2>1. BootTypes'
      BY <1>1, <1>3, DownTypes DEF BootTypes
    <2>2. SchemaSound' /\ ImportSound'
      BY <1>1, <1>2, <1>3, DownKeeps DEF BootInv
    <2>3. pc[Server] = "up" => pc'[Server] = "up"
      BY <1>1, <1>3, DownIs DEF Procs
    <2>4. QED BY <1>1, <2>1, <2>2, <2>3, AsideKeeps DEF BootInv
  <1>4. ASSUME NEW v, v = Min(pending[p]), v \notin recorded, pending[p] # {},
               recorded' = recorded \cup {v},
               scripts' = [scripts EXCEPT ![v] = @ + 1],
               pending' = [pending EXCEPT ![p] = @ \ {v}],
               UNCHANGED <<pc, release>>
        PROVE  BootInv'
    <2>1. PICK j \in 1..(release[p] + 1) :
             pending[p] = j..release[p] /\ 1..(j - 1) \subseteq recorded
      BY <1>1 DEF BootInv, SchemaSound
    <2>2. release[p] \in 1..Newest /\ pending[p] \subseteq 1..Newest
      BY <1>1 DEF BootTypes
    <2>3. j \in Nat /\ release[p] \in Nat
      BY <2>2, BootAssumption
    <2>4. v = j
      BY <1>4, <2>1, <2>3, FirstPending
    <2>5. j \in 1..release[p] /\ j \in 1..Newest
      BY <1>4, <2>1, <2>2, BootAssumption
    <2>6. PICK k \in 0..Newest : recorded = 1..k
      BY DEF BootInv, SchemaSound
    <2>7. k = j - 1
      BY <1>4, <2>1, <2>4, <2>5, <2>6, BootAssumption
    <2>8. recorded' = 1..j
      BY <1>4, <2>4, <2>5, <2>6, <2>7
    <2>9. BootTypes'
      <3>1. scripts' \in [1..Newest -> Nat] /\ recorded' \subseteq 1..Newest
        <4>1. scripts \in [1..Newest -> Nat] /\ recorded \subseteq 1..Newest
          BY <1>1 DEF BootTypes
        <4>2. [scripts EXCEPT ![j] = @ + 1] \in [1..Newest -> Nat]
          BY <2>5, <4>1
        <4>3. QED BY <1>4, <2>4, <2>5, <4>1, <4>2
      <3>2. pending' \in [Procs -> SUBSET (1..Newest)]
        BY <1>1, <1>4 DEF BootTypes
      <3>3. QED BY <1>1, <1>4, <3>1, <3>2 DEF BootTypes
    <2>10. SchemaSound'
      <3>1. \E i \in 0..Newest : recorded' = 1..i
        BY <2>5, <2>8
      <3>2. \A w \in 1..Newest : scripts'[w] = IF w \in recorded' THEN 1 ELSE 0
        BY <1>1, <1>4, <2>4, <2>5 DEF BootInv, SchemaSound, BootTypes
      <3>3. /\ pending'[p] = (j + 1)..release[p] /\ 1..((j + 1) - 1) \subseteq recorded'
            /\ j + 1 \in 1..(release[p] + 1)
        <4>1. pending'[p] = (j..release[p]) \ {j}
          BY <1>1, <1>4, <2>1, <2>4 DEF BootTypes
        <4>2. (j..release[p]) \ {j} = (j + 1)..release[p]
          BY <2>3
        <4>3. 1..((j + 1) - 1) \subseteq recorded' /\ j + 1 \in 1..(release[p] + 1)
          BY <2>3, <2>5, <2>8
        <4>4. QED BY <4>1, <4>2, <4>3
      <3>4. ASSUME NEW q \in Procs
            PROVE  /\ pc'[q] = "migrate" =>
                         \E i \in 1..(release'[q] + 1) :
                            pending'[q] = i..release'[q] /\ 1..(i - 1) \subseteq recorded'
                   /\ pc'[q] \in {"insert", "rename", "ready", "up"} =>
                         1..release'[q] \subseteq recorded'
        <4>1. CASE q = p
          BY <1>1, <1>4, <3>3, <4>1
        <4>2. CASE q # p
          <5>1. pending'[q] = pending[q] /\ recorded \subseteq recorded'
            BY <1>1, <1>4, <4>2 DEF BootTypes
          <5>2. QED BY <1>4, <5>1 DEF BootInv, SchemaSound
        <4>3. QED BY <4>1, <4>2
      <3>5. QED BY <3>1, <3>2, <3>4 DEF SchemaSound
    <2>11. ImportSound'
      BY <1>1, <1>2, <1>4 DEF BootInv, ImportSound
    <2>12. QED BY <1>1, <1>4, <2>9, <2>10, <2>11, AsideKeeps DEF BootInv
  <1>5. QED BY <1>3, <1>4 DEF ApplyNext

LEMMA GotoIs ==
  ASSUME BootTypes, NEW p \in Procs, NEW to \in PCs, Goto(p, to)
  PROVE  /\ pc' \in [Procs -> PCs] /\ pc'[p] = to
         /\ \A q \in Procs \ {p} : pc'[q] = pc[q]
  BY DEF BootTypes, Goto

LEMMA ReadLegacyKeeps ==
  ASSUME BootInv, NEW p \in Procs, ReadLegacy(p)
  PROVE  BootInv'
  <1>1. /\ BootTypes /\ pc[p] = "migrate" /\ pending[p] = {}
        /\ UNCHANGED <<release, pending, recorded, scripts, file, found, starts, keyVars>>
    BY TypesSplit DEF BootInv, ReadLegacy
  <1>2. PICK to \in {"insert", "ready"} :
          /\ Goto(p, to) /\ to = IF file = "present" THEN "insert" ELSE "ready"
    BY DEF ReadLegacy
  <1>3. /\ pc' \in [Procs -> PCs] /\ pc'[p] = to
        /\ \A q \in Procs \ {p} : pc'[q] = pc[q]
    BY <1>1, <1>2, GotoIs DEF PCs
  <1>4. BootTypes'
    BY <1>1, <1>3 DEF BootTypes
  <1>5. AllImported' <=> AllImported
    BY <1>1, ImportedSame DEF keyVars
  <1>6. 1..release[p] \subseteq recorded
    <2>1. PICK j \in 1..(release[p] + 1) :
             pending[p] = j..release[p] /\ 1..(j - 1) \subseteq recorded
      BY <1>1 DEF BootInv, SchemaSound
    <2>2. release[p] \in Nat
      BY <1>1, BootAssumption DEF BootTypes
    <2>3. j..release[p] = {} /\ j \in Int /\ j <= release[p] + 1
      <3>1. j..release[p] = {}
        BY <1>1, <2>1
      <3>2. j \in Int /\ j <= release[p] + 1
        BY <2>2
      <3>3. QED BY <3>1, <3>2
    <2>4. j = release[p] + 1
      <3>1. ASSUME j <= release[p] PROVE FALSE
        <4>1. j \in j..release[p]
          BY <2>2, <2>3, <3>1
        <4>2. QED BY <2>3, <4>1
      <3>2. QED BY <2>2, <2>3, <3>1
    <2>5. QED BY <2>1, <2>2, <2>4
  <1>7. SchemaSound'
    BY <1>1, <1>2, <1>3, <1>6 DEF BootInv, SchemaSound
  <1>8. ImportSound'
    BY <1>1, <1>2, <1>3, <1>5 DEF BootInv, ImportSound, BootTypes
  <1>9. pc[Server] = "up" => pc'[Server] = "up"
    BY <1>1, <1>3 DEF Procs
  <1>10. QED BY <1>1, <1>4, <1>7, <1>8, <1>9, AsideKeeps DEF BootInv

LEMMA RenameKeeps ==
  ASSUME BootInv, NEW p \in Procs, Rename(p)
  PROVE  BootInv'
  <1>1. /\ BootTypes /\ pc[p] = "rename" /\ file' \in {file, "imported"} /\ Goto(p, "ready")
        /\ UNCHANGED <<release, pending, recorded, scripts, found, starts, keyVars>>
    BY TypesSplit DEF BootInv, Rename
  <1>2. /\ pc' \in [Procs -> PCs] /\ pc'[p] = "ready"
        /\ \A q \in Procs \ {p} : pc'[q] = pc[q]
    BY <1>1, GotoIs DEF PCs
  <1>3. BootTypes'
    BY <1>1, <1>2 DEF BootTypes
  <1>4. AllImported' /\ AllImported
    BY <1>1, ImportedSame DEF keyVars, BootInv, ImportSound
  <1>5. SchemaSound'
    BY <1>1, <1>2 DEF BootInv, SchemaSound
  <1>6. ImportSound'
    BY <1>1, <1>2, <1>4 DEF BootInv, ImportSound
  <1>7. pc[Server] = "up" => pc'[Server] = "up"
    BY <1>1, <1>2 DEF Procs
  <1>8. QED BY <1>1, <1>3, <1>5, <1>6, <1>7, AsideKeeps DEF BootInv

LEMMA ReadyKeeps ==
  ASSUME BootInv, NEW p \in Procs, Ready(p)
  PROVE  BootInv'
  <1>1. /\ BootTypes /\ pc[p] = "ready"
        /\ UNCHANGED <<recorded, scripts, file, found, starts, keyVars>>
    BY TypesSplit DEF BootInv, Ready
  <1>2. AllImported' <=> AllImported
    BY <1>1, ImportedSame DEF keyVars
  <1>3. CASE p = Server
    <2>1. Goto(p, "up") /\ UNCHANGED <<release, pending>>
      BY <1>3 DEF Ready
    <2>2. /\ pc' \in [Procs -> PCs] /\ pc'[p] = "up"
          /\ \A q \in Procs \ {p} : pc'[q] = pc[q]
      BY <1>1, <2>1, GotoIs DEF PCs
    <2>3. BootTypes'
      BY <1>1, <2>1, <2>2 DEF BootTypes
    <2>4. SchemaSound'
      BY <1>1, <2>1, <2>2 DEF BootInv, SchemaSound
    <2>5. ImportSound'
      BY <1>1, <1>2, <2>1, <2>2 DEF BootInv, ImportSound
    <2>6. QED BY <1>1, <1>3, <2>2, <2>3, <2>4, <2>5, AsideKeeps DEF BootInv
  <1>4. CASE p # Server
    <2>1. Down(p)
      BY <1>4 DEF Ready
    <2>2. BootTypes'
      BY <1>1, <2>1, DownTypes DEF BootTypes
    <2>3. SchemaSound' /\ ImportSound'
      BY <1>1, <1>2, <2>1, DownKeeps DEF BootInv
    <2>4. pc[Server] = "up" => pc'[Server] = "up"
      BY <1>1, <1>4, <2>1, DownIs DEF Procs
    <2>5. QED BY <1>1, <2>2, <2>3, <2>4, AsideKeeps DEF BootInv
  <1>5. QED BY <1>3, <1>4

\* Death takes the handlers of the server with it: calls that were accepted and not yet
\* counted are lost, which the bound on the counts allows.
LEMMA DieKeeps ==
  ASSUME BootInv, NEW p \in Procs, Die(p)
  PROVE  BootInv'
  <1>1. /\ BootTypes /\ KeyTypes /\ Down(p)
        /\ UNCHANGED <<recorded, scripts, file, found, starts>>
        /\ UNCHANGED <<keys, armed, pepper, now, issued, accepted>>
    BY TypesSplit DEF BootInv, Die
  <1>2. BootTypes'
    BY <1>1, DownTypes DEF BootTypes
  <1>3. SchemaSound' /\ ImportSound'
    BY <1>1, DownKeeps, ImportedSame DEF BootInv
  <1>4. CASE p = Server
    <2>1. call' = [t \in Threads |-> Idle(call[t].id)]
      BY <1>4 DEF Die
    <2>2. /\ call' \in [Threads -> Calls]
          /\ \A t \in Threads : call'[t].op = "none" /\ call'[t].step = "idle"
      BY <1>1, <2>1, IdleTyped DEF KeyTypes, Calls, Idle
    <2>3. TypeOK'
      BY <1>1, <1>2, <2>2 DEF TypeOK, KeyTypes, BootTypes
    <2>4. CallsSound'
      BY <2>2 DEF CallsSound, CallFits
    <2>5. RowsSound'
      BY <1>1 DEF BootInv, RowsSound, RowSound, Exists, Active
    <2>6. CountsSound'
      <3>1. ASSUME NEW id \in Ids PROVE Uncounted(id)' = {}
        BY <2>2 DEF Uncounted, Waits
      <3>2. ASSUME NEW id \in Ids
            PROVE  keys'[id].count + Cardinality(Uncounted(id)') <= accepted'[id]
        <4>1. /\ keys[id].count \in Nat /\ accepted[id] \in Nat
              /\ keys[id].count + Cardinality(Uncounted(id)) <= accepted[id]
          BY <1>1 DEF KeyTypes, Rows, BootInv, CountsSound
        <4>2. Cardinality(Uncounted(id)') = 0
          BY <3>1, FS_EmptySet
        <4>3. QED BY <1>1, <4>1, <4>2, UncountedFinite
      <3>3. QED BY <3>2 DEF CountsSound
    <2>7. QED BY <1>3, <2>3, <2>4, <2>5, <2>6 DEF BootInv
  <1>5. CASE p # Server
    <2>1. UNCHANGED keyVars
      BY <1>1, <1>5 DEF Die, keyVars
    <2>2. pc[Server] = "up" => pc'[Server] = "up"
      BY <1>1, <1>5, DownIs DEF Procs
    <2>3. QED BY <1>2, <1>3, <2>1, <2>2, AsideKeeps DEF BootInv
  <1>6. QED BY <1>4, <1>5

-----------------------------------------------------------------------------
(* The transaction of the import. *)

Fresh(id) == id \in DOMAIN Legacy /\ ~Exists(id)

LEMMA InsertRow ==
  ASSUME KeyTypes, NEW p \in Procs, InsertLegacy(p), NEW id \in Ids
  PROVE  /\ keys'[id] \in Rows
         /\ ~Fresh(id) => keys'[id] = keys[id] /\ issued'[id] = issued[id]
         /\ Fresh(id) =>
               /\ keys[id] = Absent /\ keys'[id] # Absent
               /\ keys'[id].hash = <<Legacy[id], "plain">>
               /\ keys'[id].hash \in Secrets \X Salts
               /\ keys'[id].prev = NoSecret
               /\ keys'[id].count = 0 /\ keys[id].count = 0
               /\ ~keys[id].revoked
               /\ issued'[id] = <<[secret |-> Legacy[id], at |-> now]>>
               /\ issued'[id] \in Seq([secret : Secrets, at : Nat])
  <1>1. /\ keys'[id] = Imported(id) /\ keys[id] \in Rows
        /\ issued'[id] = IF Fresh(id) THEN <<[secret |-> Legacy[id], at |-> now]>>
                         ELSE issued[id]
    BY DEF InsertLegacy, Fresh, KeyTypes
  <1>2. CASE ~Fresh(id)
    BY <1>1, <1>2 DEF Imported, Fresh
  <1>3. CASE Fresh(id)
    <2>1. keys'[id] = [Absent EXCEPT !.hash = <<Legacy[id], "plain">>] /\ keys[id] = Absent
      BY <1>1, <1>3 DEF Imported, Fresh, Exists
    <2>2. <<Legacy[id], "plain">> \in Secrets \X Salts /\ Legacy[id] \in Secrets
      BY <1>3, BootAssumption DEF Fresh, Salts
    <2>3. /\ keys'[id] \in Rows /\ keys'[id] # Absent /\ keys'[id].prev = NoSecret
          /\ keys'[id].hash = <<Legacy[id], "plain">> /\ keys'[id].count = 0
      BY <2>1, <2>2, NewRow
    <2>4. keys[id].count = 0 /\ ~keys[id].revoked
      BY <2>1 DEF Absent
    <2>5. [secret |-> Legacy[id], at |-> now] \in [secret : Secrets, at : Nat]
      BY <2>2, KeysAssumption DEF KeyTypes
    <2>6. <<[secret |-> Legacy[id], at |-> now]>> \in Seq([secret : Secrets, at : Nat])
      BY <2>5
    <2>7. QED BY <1>1, <1>3, <2>1, <2>2, <2>3, <2>4, <2>6
  <1>4. QED BY <1>2, <1>3

\* What the import leaves as it was: a file is read only while it was well-formed, so no
\* handler is creating one of its keys.
LEMMA InsertKeeps ==
  ASSUME BootInv, NEW p \in Procs, InsertLegacy(p)
  PROVE  BootInv'
  <1>1. /\ BootTypes /\ KeyTypes /\ pc[p] = "insert" /\ Goto(p, "rename")
        /\ UNCHANGED <<pepper, now, call, accepted, release, pending, recorded, scripts,
                       file, found, starts>>
    BY TypesSplit DEF BootInv, InsertLegacy
  <1>2. /\ pc' \in [Procs -> PCs] /\ pc'[p] = "rename"
        /\ \A q \in Procs \ {p} : pc'[q] = pc[q]
    BY <1>1, GotoIs DEF PCs
  <1>3. RowsStay
    BY <1>1, InsertRow DEF RowsStay, Exists
  <1>4. AllImported'
    <2>1. ASSUME NEW id \in DOMAIN Legacy PROVE keys'[id] # Absent
      <3>1. id \in Ids
        BY BootAssumption
      <3>2. QED BY <1>1, <3>1, InsertRow DEF Fresh, Exists
    <2>2. QED BY <2>1 DEF AllImported, Exists
  <1>5. TypeOK'
    <2>1. keys' \in [Ids -> Rows]
      <3>1. keys' = [id \in Ids |-> Imported(id)]
        BY DEF InsertLegacy
      <3>2. QED BY <1>1, <3>1, InsertRow
    <2>2. issued' \in [Ids -> Seq([secret : Secrets, at : Nat])]
      <3>1. issued' = [id \in Ids |-> issued'[id]]
        BY DEF InsertLegacy
      <3>2. ASSUME NEW id \in Ids PROVE issued'[id] \in Seq([secret : Secrets, at : Nat])
        BY <1>1, InsertRow DEF KeyTypes
      <3>3. QED BY <3>1, <3>2
    <2>3. armed' \in BOOLEAN
      BY BootAssumption DEF InsertLegacy
    <2>4. QED BY <1>1, <1>2, <2>1, <2>2, <2>3 DEF TypeOK, KeyTypes, BootTypes
  <1>6. RowsSound'
    <2>1. ASSUME NEW id \in Ids, ~Fresh(id) PROVE RowSound(id)'
      <3>1. keys'[id] = keys[id] /\ issued'[id] = issued[id] /\ RowSound(id)
        BY <1>1, <2>1, InsertRow DEF BootInv, RowsSound
      <3>2. QED BY <3>1 DEF RowSound, Exists, Active
    <2>2. ASSUME NEW id \in Ids, Fresh(id) PROVE RowSound(id)'
      <3>1. /\ keys'[id] # Absent /\ keys'[id].hash = <<Legacy[id], "plain">>
            /\ keys'[id].hash \in Secrets \X Salts /\ keys'[id].prev = NoSecret
            /\ issued'[id] = <<[secret |-> Legacy[id], at |-> now]>>
        BY <1>1, <2>2, InsertRow
      <3>2. Len(issued'[id]) = 1 /\ issued'[id][1].secret = Legacy[id]
        BY <3>1
      <3>3. QED BY <3>1, <3>2 DEF RowSound, Exists, Active
    <2>3. QED BY <2>1, <2>2 DEF RowsSound
  <1>7. CountsSound'
    <2>1. ASSUME NEW id \in Ids
          PROVE  keys'[id].count = keys[id].count /\ Uncounted(id)' = Uncounted(id)
      BY <1>1, InsertRow DEF Uncounted, Waits
    <2>2. QED BY <1>1, <2>1 DEF BootInv, CountsSound
  <1>8. CallsSound'
    <2>1. ASSUME NEW t \in Threads PROVE CallFits(call[t])'
      <3>1. call'[t] = call[t] /\ CallFits(call[t]) /\ call[t].id \in Ids
        BY <1>1 DEF BootInv, CallsSound, KeyTypes, Calls
      <3>2. Exists(call[t].id) => keys'[call[t].id] # Absent
        BY <1>3, <3>1 DEF RowsStay, Exists
      <3>3. ASSUME call[t].op = "create" PROVE keys'[call[t].id] = Absent
        <4>1. pc[Server] = "up" /\ found
          BY <1>1, <3>1, <3>3 DEF BootInv, CallsSound, CallFits, ImportSound
        <4>2. AllImported
          BY <4>1 DEF BootInv, ImportSound, Procs
        <4>3. ~Exists(call[t].id)
          BY <3>1, <3>3 DEF CallFits
        <4>4. ~Fresh(call[t].id)
          BY <4>2, <4>3 DEF AllImported, Fresh
        <4>5. QED BY <1>1, <3>1, <4>3, <4>4, InsertRow DEF Exists
      <3>4. QED BY <3>1, <3>2, <3>3 DEF CallFits, Exists
    <2>2. pc[Server] = "up" => pc'[Server] = "up"
      BY <1>1, <1>2 DEF Procs
    <2>3. QED BY <1>1, <2>1, <2>2 DEF BootInv, CallsSound
  <1>9. SchemaSound'
    BY <1>1, <1>2 DEF BootInv, SchemaSound
  <1>10. ImportSound'
    BY <1>1, <1>2, <1>4 DEF BootInv, ImportSound
  <1>11. QED BY <1>5, <1>6, <1>7, <1>8, <1>9, <1>10 DEF BootInv

-----------------------------------------------------------------------------
(* The theorems. *)

LEMMA InitBoot == Init => BootInv
  <1> SUFFICES ASSUME Init PROVE BootInv
    OBVIOUS
  <1>1. TypeOK
    BY InitTypes
  <1>2. /\ \A id \in Ids : keys[id] = Absent /\ issued[id] = <<>> /\ accepted[id] = 0
        /\ \A t \in Threads : call[t].op = "none" /\ call[t].step = "idle"
    BY DEF Init, KeysInit, Idle
  <1>3. CallsSound
    BY <1>2 DEF CallsSound, CallFits
  <1>4. RowsSound
    BY <1>2 DEF RowsSound, RowSound, Exists, Active
  <1>5. CountsSound
    <2>1. ASSUME NEW id \in Ids PROVE Uncounted(id) = {} /\ keys[id].count = 0
      BY <1>2 DEF Uncounted, Waits, Absent
    <2>2. ASSUME NEW id \in Ids
          PROVE  keys[id].count + Cardinality(Uncounted(id)) <= accepted[id]
      <3>1. Cardinality(Uncounted(id)) = 0
        BY <2>1, FS_EmptySet
      <3>2. QED BY <1>2, <2>1, <3>1
    <2>3. QED BY <2>2 DEF CountsSound
  <1>6. SchemaSound
    <2>1. recorded = 1..0 /\ 0 \in 0..Newest
      BY BootAssumption DEF Init
    <2>2. QED BY <2>1, BootAssumption DEF Init, SchemaSound
  <1>7. ImportSound
    BY DEF Init, ImportSound
  <1>8. QED BY <1>1, <1>3, <1>4, <1>5, <1>6, <1>7 DEF BootInv

LEMMA ServeKinds ==
  ASSUME NEW t \in Threads, Serve(t)
  PROVE  (Reads(t) \/ Commit(t)) /\ pc[Server] = "up" /\ UNCHANGED bootVars
  BY DEF Serve, Handler, Reads, bootVars

LEMMA StepBoot == BootInv /\ [Next]_vars => BootInv'
  <1> SUFFICES ASSUME BootInv, [Next]_vars PROVE BootInv'
    OBVIOUS
  <1>1. ASSUME NEW p \in Procs,
               \/ \E n \in 1..Newest : migrate(p, n)
               \/ ApplyNext(p) \/ ReadLegacy(p) \/ InsertLegacy(p) \/ Rename(p)
               \/ Ready(p) \/ Die(p)
        PROVE  BootInv'
    BY <1>1, MigrateKeeps, ApplyKeeps, ReadLegacyKeeps, InsertKeeps, RenameKeeps, ReadyKeeps,
       DieKeeps
  <1>2. ASSUME NEW t \in Threads, Serve(t) PROVE BootInv'
    BY <1>2, ServeKinds, ReadsKeep, CommitKeeps
  <1>3. CASE Tick /\ UNCHANGED bootVars
    BY <1>3, TickKeeps
  <1>4. CASE UNCHANGED vars
    <2>1. UNCHANGED keyVars /\ UNCHANGED bootVars
      BY <1>4 DEF vars
    <2>2. BootTypes'
      BY <2>1 DEF BootInv, TypeOK, BootTypes, bootVars
    <2>3. SchemaSound' /\ ImportSound'
      BY <2>1, ImportedSame DEF BootInv, SchemaSound, ImportSound, keyVars, bootVars
    <2>4. QED BY <2>1, <2>2, <2>3, AsideKeeps DEF BootInv, bootVars
  <1>5. QED BY <1>1, <1>2, <1>3, <1>4 DEF Next

\* The inductive invariant holds of every behaviour of the processes and the handlers.
THEOREM BootInvariant == Spec => []BootInv
  BY InitBoot, StepBoot, PTL DEF Spec

\* main and migrate: whatever starts and dies, migrations take effect once and in order,
\* and the server serves only a migrated schema with every legacy key in the table.
THEOREM StartIsSound == Spec => []StartSound
  <1>1. BootInv => StartSound
    <2> SUFFICES ASSUME BootInv PROVE StartSound
      OBVIOUS
    <2>1. PICK k \in 0..Newest : recorded = 1..k
      BY DEF BootInv, SchemaSound
    <2>2. ASSUME NEW v \in recorded PROVE 1..v \subseteq recorded
      <3>1. v \in 1..k
        BY <2>1
      <3>2. 1..v \subseteq 1..k
        BY <3>1
      <3>3. QED BY <2>1, <3>2
    <2>3. MigratedOnce
      BY <2>2 DEF MigratedOnce, BootInv, SchemaSound
    <2>4. ServesReady
      BY DEF ServesReady, BootInv, SchemaSound, ImportSound, AllImported, Procs
    <2>5. QED BY <2>3, <2>4 DEF StartSound, BootInv
  <1>2. QED BY <1>1, BootInvariant, PTL

\* import_once: no crash between the transaction and the rename loses a key.
THEOREM RenamedWasImported == Spec => []RenamedIsImported
  <1>1. BootInv => RenamedIsImported
    BY DEF BootInv, ImportSound, RenamedIsImported, AllImported
  <1>2. QED BY <1>1, BootInvariant, PTL

\* A presented secret is compared with the first half of a digest, given its salt.
LEMMA PresentedDigest ==
  ASSUME NEW d \in Secrets \X Salts, NEW s \in Secrets
  PROVE  d \in hash_secret(s, pepper) <=> (s = d[1] /\ Recomputable(d))
  BY DEF hash_secret, Recomputable

LEMMA NothingPresented ==
  ASSUME TypeOK, NEW s \in Secrets
  PROVE  NoSecret \notin hash_secret(s, pepper)
  <1>1. \A x \in {"plain", "none", "empty", "full"} : <<s, x>> # NoSecret
    BY KeysAssumption
  <1>2. pepper \in {"plain", "none", "empty", "full"}
    BY DEF TypeOK
  <1>3. QED BY <1>1, <1>2 DEF hash_secret

\* verify_key and _rotate: an active key accepts its latest secret, the one before it in
\* its grace, and no other, however handlers, imports and restarts interleave.
THEOREM LatestTwoAlways == Spec => []LatestTwoVerify
  <1>1. BootInv => LatestTwoVerify
    <2> SUFFICES ASSUME BootInv, NEW id \in Ids, Active(id), Recomputable(keys[id].hash)
                 PROVE  LET n == Len(issued[id])
                            second == IF n > 1 /\ issued[id][n].at + Grace > now
                                         /\ Recomputable(keys[id].prev)
                                      THEN {issued[id][n - 1].secret} ELSE {}
                        IN  {s \in Secrets : Matches(id, s, pepper)} =
                                {issued[id][n].secret} \cup second
      BY DEF LatestTwoVerify
    <2> DEFINE n == Len(issued[id])
               old == n > 1 /\ issued[id][n].at + Grace > now /\ Recomputable(keys[id].prev)
    <2>1. /\ RowSound(id) /\ Exists(id) /\ TypeOK
          /\ issued[id] \in Seq([secret : Secrets, at : Nat]) /\ n \in Nat
      <3>1. RowSound(id) /\ Exists(id) /\ TypeOK
        BY DEF BootInv, RowsSound, Active
      <3>2. issued[id] \in Seq([secret : Secrets, at : Nat])
        BY <3>1 DEF TypeOK
      <3>3. QED BY <3>1, <3>2, LenProperties
    <2>2. /\ n > 0 /\ keys[id].hash \in Secrets \X Salts
          /\ keys[id].hash[1] = issued[id][n].secret
          /\ n = 1 => keys[id].prev = NoSecret
          /\ n > 1 => /\ keys[id].prev \in Secrets \X Salts
                      /\ keys[id].prev[1] = issued[id][n - 1].secret
                      /\ keys[id].until = issued[id][n].at + Grace
      BY <2>1 DEF RowSound
    <2>3. issued[id][n].secret \in Secrets /\ (n > 1 => issued[id][n - 1].secret \in Secrets)
      <3>1. n \in 1..n /\ (n > 1 => n - 1 \in 1..n)
        BY <2>1, <2>2
      <3>2. \A i \in 1..n : issued[id][i] \in [secret : Secrets, at : Nat]
        BY <2>1, ElementOfSeq
      <3>3. QED BY <3>1, <3>2
    <2>4. ASSUME NEW s \in Secrets
          PROVE  Matches(id, s, pepper) <=>
                    (s = issued[id][n].secret \/ (old /\ s = issued[id][n - 1].secret))
      <3>1. keys[id].hash \in hash_secret(s, pepper) <=> s = issued[id][n].secret
        BY <2>2, PresentedDigest
      <3>2. CASE n = 1
        <4>1. keys[id].prev \notin hash_secret(s, pepper)
          BY <2>1, <2>2, <3>2, NothingPresented
        <4>2. QED BY <3>1, <3>2, <4>1 DEF Matches
      <3>3. CASE n > 1
        <4>1. keys[id].prev \in hash_secret(s, pepper) <=>
                 (s = issued[id][n - 1].secret /\ Recomputable(keys[id].prev))
          BY <2>2, <3>3, PresentedDigest
        <4>2. QED BY <2>2, <3>1, <3>3, <4>1 DEF Matches
      <3>4. n = 1 \/ n > 1
        <4>1. n \in Nat /\ n > 0
          BY <2>1, <2>2
        <4> HIDE DEF n
        <4>2. QED BY <4>1
      <3>5. QED BY <3>2, <3>3, <3>4
    <2>5. QED BY <2>3, <2>4
  <1>2. QED BY <1>1, BootInvariant, PTL

\* The rows as a step leaves them.
RowKept(id) ==
    /\ keys[id].revoked => keys'[id].revoked
    /\ keys[id].count <= accepted[id]
    /\ keys'[id].count - keys[id].count = Cardinality(CountedNow(id))

LEMMA CountBounded ==
  ASSUME BootInv, NEW id \in Ids
  PROVE  keys[id].count \in Nat /\ keys[id].count <= accepted[id]
  <1>1. /\ keys[id].count \in Nat /\ accepted[id] \in Nat
        /\ keys[id].count + Cardinality(Uncounted(id)) <= accepted[id]
    BY DEF BootInv, TypeOK, Rows, CountsSound
  <1>2. QED BY <1>1, UncountedFinite

\* A step that counts nothing.
LEMMA NothingCounted ==
  ASSUME BootInv, NEW id \in Ids, keys[id].revoked => keys'[id].revoked,
         keys'[id].count = keys[id].count,
         pc'[Server] # "up" \/ \A t \in Threads : Waits(t, id) => call'[t].step # "idle"
  PROVE  RowKept(id)
  <1>1. CountedNow(id) = {}
    BY DEF CountedNow, Waits
  <1>2. QED BY <1>1, CountBounded, FS_EmptySet DEF RowKept

LEMMA StepRows ==
  ASSUME BootInv, Next, NEW id \in Ids
  PROVE  RowKept(id)
  <1>1. KeyTypes /\ BootTypes
    BY TypesSplit DEF BootInv
  <1>2. ASSUME UNCHANGED <<keys, call>> PROVE RowKept(id)
    BY <1>2, NothingCounted DEF Waits
  <1>3. ASSUME NEW p \in Procs,
               \/ \E n \in 1..Newest : migrate(p, n)
               \/ ApplyNext(p) \/ ReadLegacy(p) \/ Rename(p) \/ Ready(p)
        PROVE  RowKept(id)
    BY <1>2, <1>3 DEF migrate, ApplyNext, ReadLegacy, Rename, Ready, keyVars
  <1>4. ASSUME NEW p \in Procs, InsertLegacy(p) PROVE RowKept(id)
    <2>1. keys'[id].count = keys[id].count /\ (keys[id].revoked => keys'[id].revoked)
      BY <1>1, <1>4, InsertRow
    <2>2. call' = call
      BY <1>4 DEF InsertLegacy
    <2>3. QED BY <2>1, <2>2, NothingCounted DEF Waits
  <1>5. ASSUME NEW p \in Procs, Die(p) PROVE RowKept(id)
    <2>1. CASE p = Server
      <3>1. pc'[Server] = "down" /\ keys' = keys
        BY <1>1, <1>5, <2>1, DownIs DEF Die
      <3>2. QED BY <3>1, NothingCounted
    <2>2. CASE p # Server
      BY <1>2, <1>5, <2>2 DEF Die
    <2>3. QED BY <2>1, <2>2
  <1>6. ASSUME NEW t \in Threads, Reads(t) PROVE RowKept(id)
    <2>1. ReadsOnly(t)
      BY <1>1, <1>6, ReadsAre DEF BootInv
    <2>2. keys' = keys /\ ~Waits(t, id)
      BY <2>1 DEF ReadsOnly, CountsNothing, Accepts
    <2>3. ASSUME NEW u \in Threads, Waits(u, id) PROVE call'[u].step # "idle"
      BY <2>1, <2>2, <2>3 DEF ReadsOnly, Moves, Waits
    <2>4. QED BY <2>2, <2>3, NothingCounted
  <1>7. ASSUME NEW t \in Threads, Commit(t), pc' = pc, pc[Server] = "up" PROVE RowKept(id)
    <2>1. /\ Moves(t) /\ call'[t].step = "idle"
          /\ Waits(t, id) => keys'[id].count = keys[id].count + 1
          /\ ~Waits(t, id) => keys'[id].count = keys[id].count
          /\ keys[id].revoked => keys'[id].revoked
      BY <1>1, <1>7, CommitTypes, CommitCounts DEF BootInv
    <2>2. CASE Waits(t, id)
      <3>1. CountedNow(id) = {t}
        BY <1>7, <2>1, <2>2 DEF CountedNow, Waits, Moves
      <3>2. Cardinality(CountedNow(id)) = 1
        BY <3>1, FS_Singleton
      <3>3. QED BY <2>1, <2>2, <3>2, CountBounded DEF RowKept
    <2>3. CASE ~Waits(t, id)
      <3>1. ASSUME NEW u \in Threads, Waits(u, id) PROVE call'[u].step # "idle"
        BY <2>1, <2>3, <3>1 DEF Moves, Waits
      <3>2. QED BY <2>1, <2>3, <3>1, NothingCounted
    <2>4. QED BY <2>2, <2>3
  <1>8. ASSUME NEW t \in Threads, Serve(t) PROVE RowKept(id)
    BY <1>6, <1>7, <1>8, ServeKinds DEF bootVars
  <1>9. CASE Tick
    BY <1>2, <1>9 DEF Tick
  <1>10. QED BY <1>3, <1>4, <1>5, <1>8, <1>9 DEF Next

\* A revoked key stays revoked, and request_count grows by the verifications a step
\* commits and by nothing else (verify_key, import_once).
THEOREM RowsAreKept == Spec => RowsKept
  <1>1. BootInv /\ [Next]_vars =>
          [\A id \in Ids :
             /\ keys[id].revoked => keys'[id].revoked
             /\ keys[id].count <= accepted[id]
             /\ keys'[id].count - keys[id].count = Cardinality(CountedNow(id))]_vars
    BY StepRows DEF RowKept
  <1>2. QED BY <1>1, BootInvariant, PTL DEF Spec, RowsKept

=============================================================================
