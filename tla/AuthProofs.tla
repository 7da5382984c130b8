----------------------------- MODULE AuthProofs -----------------------------
(* Theorems about auth/: the login backoff and the policy updates of Limits, for any       *)
(* number of subjects, threads and administrators and any valid policies; and the users    *)
(* and sessions of Accounts, for any number of requests, users and sessions.               *)
EXTENDS Limits, Accounts, ListFacts

-----------------------------------------------------------------------------
(* PART ONE: Limits. *)

(***************************************************************************)
(* The inductive invariants.                                               *)
(***************************************************************************)

Widest  == Max(LoginLimits)
Nearest == Min(LoginWindows)

\* An update that met no other has merged over the rows as they still are.
EditSound(a) ==
    (edit[a].step # "idle" /\ edit[a].alone) =>
        /\ \A b \in Admins \ {a} : edit[b].step = "idle"
        /\ edit[a].step = "configure" => edit[a].merged = stored
        /\ edit[a].step = "commit" =>
              /\ "limit" \notin edit[a].set => edit[a].merged.limit = stored.limit
              /\ "window" \notin edit[a].set => edit[a].merged.window = stored.window

\* A handler's stamp is no later than now, and a handler has a subject.
LoginSound(t) ==
    login[t].stamp <= now /\ (login[t].step # "idle" => login[t].subject \in Subjects)

PolicyInv ==
    /\ TypeOK /\ \A t \in Threads : LoginSound(t)
    /\ PolicyBinds /\ \A a \in Admins : EditSound(a)

\* The last stamp of a subject is its newest.
LastNewest(list) == \A i \in 1..Len(list) : list[i] <= list[Len(list)]

\* Wrong passwords of s, and stamps of s in the map, after a moment.
Tried(s, k) == Len(Only(wrong[s], Newer(k)))
Held(s, k)  == Len(Only(Stamps(s), Newer(k)))

\* Every wrong password of the last Nearest ticks has its stamp in the map.
WrongStamped(s) == \A k \in (now - Nearest)..MaxTime : Tried(s, k) <= Held(s, k)

\* Handlers that were let through and may still record a wrong password.
Guessing(s) == {t \in Threads : login[t].step \in {"verify", "record"} /\ login[t].subject = s}

GuessesLeft(s) ==
    Tried(s, now - Nearest) + Cardinality(Guessing(s)) <= Widest + Cardinality(Threads) - 1

GuessInv ==
    ~late => /\ \A s \in DOMAIN failures : LastNewest(failures[s])
             /\ \A s \in Subjects : WrongStamped(s) /\ GuessesLeft(s)

-----------------------------------------------------------------------------
(* The operators on stamps. *)

Clock == 0..MaxTime

LEMMA Constants ==
  /\ MaxTime \in Nat /\ MaxLogins \in Nat /\ MaxUpdates \in Nat /\ SweepAt \in Nat
  /\ Boot \in Policies /\ Policies = [limit : LoginLimits, window : LoginWindows]
  /\ LoginLimits \subseteq Nat \ {0} /\ LoginWindows \subseteq Nat \ {0}
  BY LimitsAssumption DEF Policies

LEMMA PolicyFields ==
  ASSUME NEW p \in Policies
  PROVE  /\ p.limit \in LoginLimits /\ p.limit \in Nat \ {0}
         /\ p.window \in LoginWindows /\ p.window \in Nat \ {0}
  BY LimitsAssumption DEF Policies

LEMMA PruneType ==
  ASSUME NEW list \in Seq(Clock), NEW cutoff \in Int
  PROVE  Prune(list, cutoff) \in Seq(Clock) /\ Len(Prune(list, cutoff)) \in Nat
  <1>1. Only(list, Newer(cutoff)) \in Seq(Clock)
    BY OnlyType
  <1>2. Prune(list, cutoff) \in Seq(Clock)
    BY <1>1 DEF Prune
  <1>3. QED BY <1>2, LenProperties

LEMMA StampsType ==
  ASSUME TypeOK, NEW s
  PROVE  Stamps(s) \in Seq(Clock) /\ Len(Stamps(s)) \in Nat
  <1>1. Stamps(s) \in Seq(Clock)
    BY EmptySeq DEF TypeOK, Stamps, Clock
  <1>2. QED BY <1>1, LenProperties

\* A map of stamps.
IsMap(m) == DOMAIN m \subseteq Subjects /\ \A s \in DOMAIN m : m[s] \in Seq(Clock)

LEMMA MapTypes ==
  ASSUME TypeOK
  PROVE  /\ IsMap(failures)
         /\ \A s \in Subjects, list \in Seq(Clock) : IsMap(Put(s, list))
         /\ \A S : IsMap(Drop(S))
         /\ IsMap([s \in {} |-> <<>>])
  <1>1. IsMap(failures)
    BY DEF TypeOK, IsMap, Clock
  <1>2. ASSUME NEW s \in Subjects, NEW list \in Seq(Clock) PROVE IsMap(Put(s, list))
    BY <1>1 DEF IsMap, Put
  <1>3. ASSUME NEW S PROVE IsMap(Drop(S))
    BY <1>1 DEF IsMap, Drop
  <1>4. IsMap([s \in {} |-> <<>>])
    BY DEF IsMap
  <1>5. QED BY <1>1, <1>2, <1>3, <1>4

LEMMA SweepIs ==
  ASSUME NEW m, IsMap(m), NEW cutoff
  PROVE  /\ IsMap(Sweep(m, cutoff)) /\ DOMAIN Sweep(m, cutoff) \subseteq DOMAIN m
         /\ \A s \in DOMAIN Sweep(m, cutoff) : Sweep(m, cutoff)[s] = m[s]
         /\ \A s \in DOMAIN m \ DOMAIN Sweep(m, cutoff) :
               m[s] = <<>> \/ ~(m[s][Len(m[s])] > cutoff)
  BY DEF IsMap, Sweep

Logins == [step : {"idle", "ask", "verify", "record"}, subject : Subjects \cup {NoSubject},
           stamp : Clock]
Edits  == [step : {"idle", "commit", "configure"}, set : SUBSET {"limit", "window"},
           merged : Policies, alone : BOOLEAN]

LEMMA IdleTypes == NoLogin \in Logins /\ NoEdit \in Edits
  BY Constants DEF NoLogin, NoEdit, Logins, Edits, Clock

LEMMA LoginUpdates ==
  ASSUME NEW c \in Logins, NEW step \in {"idle", "ask", "verify", "record"}, NEW at \in Clock
  PROVE  /\ [c EXCEPT !.step = step, !.stamp = at] \in Logins
         /\ [c EXCEPT !.step = step, !.stamp = at].subject = c.subject
         /\ [c EXCEPT !.step = step, !.stamp = at].step = step
         /\ [c EXCEPT !.step = step, !.stamp = at].stamp = at
  BY DEF Logins

\* The parts of a step: the map and the login handlers, the rest of the login state,
\* and the policy.
LoginTypes ==
    /\ now \in Clock /\ IsMap(failures) /\ login \in [Threads -> Logins]
    /\ wrong \in [Subjects -> Seq(Clock)] /\ late \in BOOLEAN /\ logins \in 0..MaxLogins

PolicyTypes ==
    /\ conf \in Policies /\ stored \in Policies /\ edit \in [Admins -> Edits]
    /\ settled \in BOOLEAN /\ updates \in 0..MaxUpdates

LEMMA TypesSplit == TypeOK <=> LoginTypes /\ PolicyTypes
  BY DEF TypeOK, LoginTypes, PolicyTypes, IsMap, Logins, Edits, Clock

LEMMA TypesSplitNext == TypeOK' <=> LoginTypes' /\ PolicyTypes'
  BY DEF TypeOK, LoginTypes, PolicyTypes, IsMap, Logins, Edits, Clock

\* The parts of a step that the login handlers are in.
LEMMA LoginTyped ==
  ASSUME TypeOK, \A t \in Threads : LoginSound(t), Next
  PROVE  LoginTypes' /\ (\A t \in Threads : LoginSound(t))'
  <1>0. LoginTypes /\ PolicyTypes /\ MaxTime \in Nat /\ MaxLogins \in Nat
    BY TypesSplit, Constants
  <1>1. /\ now \in Nat /\ now <= MaxTime /\ now \in Clock /\ 0 \in Clock
        /\ IsMap([s \in {} |-> <<>>])
    BY <1>0, MapTypes DEF LoginTypes, Clock
  <1>2. ASSUME NEW t \in Threads, NEW s \in Subjects, Ask(t, s)
        PROVE  LoginTypes' /\ (\A u \in Threads : LoginSound(u))'
    <2> DEFINE c == [step |-> "ask", subject |-> s, stamp |-> now]
    <2>1. c \in Logins
      BY <1>1 DEF Logins
    <2>2. login' = [login EXCEPT ![t] = c] /\ login' \in [Threads -> Logins]
      BY <1>0, <1>2, <2>1 DEF Ask, LoginTypes
    <2>3. LoginTypes'
      BY <1>0, <1>2, <2>2 DEF Ask, LoginTypes, IsMap
    <2>4. (\A u \in Threads : LoginSound(u))'
      BY <1>0, <1>1, <1>2, <2>2 DEF Ask, LoginTypes, LoginSound
    <2>5. QED BY <2>3, <2>4
  <1>3. ASSUME NEW t \in Threads, NEW c \in Logins, LoginTypes,
               login' = [login EXCEPT ![t] = c], now' = now, logins' = logins,
               c.stamp <= now, c.step # "idle" => c.subject \in Subjects,
               IsMap(failures'), wrong' \in [Subjects -> Seq(Clock)], late' \in BOOLEAN
        PROVE  LoginTypes' /\ (\A u \in Threads : LoginSound(u))'
    <2>1. login' \in [Threads -> Logins]
      BY <1>3 DEF LoginTypes
    <2>2. LoginTypes'
      BY <1>3, <2>1 DEF LoginTypes, IsMap
    <2>3. (\A u \in Threads : LoginSound(u))'
      BY <1>3 DEF LoginTypes, LoginSound
    <2>4. QED BY <2>2, <2>3
  <1>4. ASSUME NEW t \in Threads, login[t].step # "idle"
        PROVE  /\ login[t] \in Logins /\ login[t].subject \in Subjects
               /\ login[t].stamp \in Clock /\ login[t].stamp \in Int /\ login[t].stamp <= now
    BY <1>0, <1>4 DEF LoginTypes, LoginSound, Logins, Clock
  <1>5. /\ NoLogin \in Logins /\ NoLogin.stamp <= now /\ NoLogin.step = "idle"
    BY <1>1, IdleTypes DEF NoLogin
  <1>6. conf.window \in Int
    BY <1>0, PolicyFields DEF PolicyTypes
  <1>7. ASSUME NEW t \in Threads, login[t].step # "idle", NEW list \in Seq(Clock),
               Append1(login[t].subject, list, login[t].stamp)
        PROVE  IsMap(failures') /\ late' \in BOOLEAN
    <2>1. Append(list, login[t].stamp) \in Seq(Clock)
      BY <1>4, <1>7, AppendProperties
    <2>2. IsMap(Put(login[t].subject, Append(list, login[t].stamp)))
      BY <1>4, <1>7, <2>1, MapTypes
    <2>3. IsMap(failures')
      BY <1>7, <2>2, SweepIs DEF Append1
    <2>4. late' \in BOOLEAN
      BY <1>7 DEF Append1
    <2>5. QED BY <2>3, <2>4
  <1>8. ASSUME NEW t \in Threads, login[t].step # "idle"
        PROVE  Prune(Stamps(login[t].subject), login[t].stamp - conf.window) \in Seq(Clock)
    BY <1>4, <1>6, <1>8, PruneType, StampsType
  <1>9. ASSUME NEW t \in Threads, refused(t)
        PROVE  LoginTypes' /\ (\A u \in Threads : LoginSound(u))'
    <2> DEFINE list == Prune(Stamps(login[t].subject), login[t].stamp - conf.window)
    <2>0. login[t].step # "idle" /\ wrong' \in [Subjects -> Seq(Clock)] /\ late \in BOOLEAN
          /\ now' = now /\ logins' = logins
      BY <1>0, <1>9 DEF refused, LoginTypes
    <2>1. CASE OverLimit(list)
      <3>1. Append1(login[t].subject, list, login[t].stamp) /\ login' = [login EXCEPT ![t] = NoLogin]
        BY <1>9, <2>1 DEF refused
      <3>2. IsMap(failures') /\ late' \in BOOLEAN
        BY <1>7, <1>8, <2>0, <3>1
      <3>3. QED BY <1>0, <1>3, <1>5, <2>0, <3>1, <3>2
    <2>2. CASE ~OverLimit(list)
      <3> DEFINE c == [login[t] EXCEPT !.step = "verify", !.stamp = 0]
      <3>1. failures' = Put(login[t].subject, list) /\ late' = late
            /\ login' = [login EXCEPT ![t] = [@ EXCEPT !.step = "verify", !.stamp = 0]]
        BY <1>9, <2>2 DEF refused
      <3>2. login' = [login EXCEPT ![t] = c]
        BY <3>1
      <3>3. c \in Logins /\ c.subject = login[t].subject /\ c.stamp = 0
        <4>1. login[t] \in Logins /\ "verify" \in {"idle", "ask", "verify", "record"} /\ 0 \in Clock
          BY <1>1, <1>4, <2>0
        <4>2. QED BY <4>1, LoginUpdates, ZenonT(60)
      <3>4. IsMap(failures')
        BY <1>4, <1>8, <2>0, <3>1, MapTypes
      <3> HIDE DEF c
      <3>5. c.stamp <= now /\ c.subject \in Subjects
        BY <1>1, <1>4, <2>0, <3>3
      <3>6. late' \in BOOLEAN
        BY <2>0, <3>1
      <3>7. QED BY <1>0, <1>3, <2>0, <3>2, <3>3, <3>4, <3>5, <3>6
    <2>3. QED BY <2>1, <2>2
  <1>10. ASSUME NEW t \in Threads, Wrong(t)
         PROVE  LoginTypes' /\ (\A u \in Threads : LoginSound(u))'
    <2> DEFINE c == [login[t] EXCEPT !.step = "record", !.stamp = now]
    <2>0. login[t].step # "idle" /\ now' = now /\ logins' = logins /\ failures' = failures
          /\ late' = late /\ wrong' = wrong
      BY <1>10 DEF Wrong
    <2>1. login' = [login EXCEPT ![t] = c]
      BY <1>0, <1>10 DEF Wrong, LoginTypes
    <2>2. c \in Logins /\ c.subject = login[t].subject /\ c.stamp = now
      <3>1. PICK d \in Logins, n \in Clock : d = login[t] /\ n = now
        BY <1>1, <1>4, <2>0
      <3>2. /\ [d EXCEPT !.step = "record", !.stamp = n] \in Logins
            /\ [d EXCEPT !.step = "record", !.stamp = n].subject = d.subject
            /\ [d EXCEPT !.step = "record", !.stamp = n].stamp = n
        BY LoginUpdates, ZenonT(60)
      <3>3. QED BY <3>1, <3>2
    <2>3. IsMap(failures') /\ late' \in BOOLEAN /\ wrong' \in [Subjects -> Seq(Clock)]
      BY <1>0, <2>0 DEF LoginTypes
    <2> HIDE DEF c
    <2>4. c.stamp <= now /\ c.subject \in Subjects
      BY <1>1, <1>4, <2>0, <2>2
    <2>5. QED BY <1>0, <1>3, <2>0, <2>1, <2>2, <2>3, <2>4
  <1>11. ASSUME NEW t \in Threads, record_failure(t)
         PROVE  LoginTypes' /\ (\A u \in Threads : LoginSound(u))'
    <2> DEFINE list == Prune(Stamps(login[t].subject), login[t].stamp - conf.window)
    <2>0. /\ login[t].step # "idle" /\ now' = now /\ logins' = logins
          /\ Append1(login[t].subject, list, login[t].stamp) /\ login' = [login EXCEPT ![t] = NoLogin]
          /\ wrong' = [wrong EXCEPT ![login[t].subject] = Append(@, login[t].stamp)]
      BY <1>11 DEF record_failure
    <2>1. IsMap(failures') /\ late' \in BOOLEAN
      BY <1>7, <1>8, <2>0
    <2>2. Append(wrong[login[t].subject], login[t].stamp) \in Seq(Clock)
      BY <1>0, <1>4, <2>0, AppendProperties DEF LoginTypes
    <2>3. wrong' \in [Subjects -> Seq(Clock)]
      BY <1>0, <1>4, <2>0, <2>2 DEF LoginTypes
    <2>4. QED BY <1>0, <1>3, <1>5, <2>0, <2>1, <2>3
  <1>12. ASSUME NEW t \in Threads, clear(t)
         PROVE  LoginTypes' /\ (\A u \in Threads : LoginSound(u))'
    <2>0. /\ login[t].step # "idle" /\ now' = now /\ logins' = logins /\ late' = late
          /\ login' = [login EXCEPT ![t] = NoLogin] /\ failures' = Drop({login[t].subject})
          /\ wrong' = [wrong EXCEPT ![login[t].subject] = <<>>]
      BY <1>12 DEF clear
    <2>1. IsMap(failures') /\ late' \in BOOLEAN
      BY <1>0, <2>0, MapTypes DEF LoginTypes
    <2>2. wrong' \in [Subjects -> Seq(Clock)]
      BY <1>0, <2>0, EmptySeq DEF LoginTypes
    <2>3. QED BY <1>0, <1>3, <1>5, <2>0, <2>1, <2>2
  <1>13. ASSUME NEW e \in Emails, clear_email(e)
         PROVE  LoginTypes' /\ (\A u \in Threads : LoginSound(u))'
    <2>1. IsMap(failures')
      BY <1>13, MapTypes DEF clear_email
    <2>2. \A s \in Subjects : wrong[s] \in Seq(Clock)
      BY <1>0 DEF LoginTypes
    <2>3. wrong' \in [Subjects -> Seq(Clock)]
      BY <1>13, <2>2, EmptySeq DEF clear_email
    <2>4. LoginTypes'
      BY <1>0, <1>13, <2>1, <2>3 DEF clear_email, LoginTypes, IsMap
    <2>5. QED BY <1>13, <2>4 DEF clear_email, LoginSound
  <1>14. ASSUME NEW a \in Admins,
                \/ \E set \in (SUBSET {"limit", "window"}) \ {{}},
                      p \in [limit : LoginLimits \cup {0}, window : LoginWindows] : ReadPolicy(a, set, p)
                \/ upsert_policy(a) \/ PushPolicy(a)
         PROVE  LoginTypes' /\ (\A u \in Threads : LoginSound(u))'
    <2>1. UNCHANGED <<now, failures, login, wrong, late, logins>>
      BY <1>14 DEF ReadPolicy, upsert_policy, PushPolicy
    <2>2. QED BY <1>0, <2>1 DEF LoginTypes, LoginSound, IsMap
  <1>15. ASSUME Restart PROVE LoginTypes' /\ (\A u \in Threads : LoginSound(u))'
    <2>1. login' \in [Threads -> Logins] /\ \A u \in Threads : login'[u] = NoLogin
      BY <1>5, <1>15 DEF Restart
    <2>2. wrong' \in [Subjects -> Seq(Clock)]
      BY <1>15, EmptySeq DEF Restart
    <2>3. IsMap(failures')
      BY <1>1, <1>15 DEF Restart
    <2>4. LoginTypes'
      BY <1>0, <1>15, <2>1, <2>2, <2>3 DEF Restart, LoginTypes, IsMap
    <2>5. QED BY <1>5, <1>15, <2>1, <2>4 DEF Restart, LoginSound
  <1>16. ASSUME Tick PROVE LoginTypes' /\ (\A u \in Threads : LoginSound(u))'
    <2>1. now' \in Clock /\ now <= now'
      BY <1>0, <1>1, <1>16 DEF Tick, Clock
    <2>2. LoginTypes'
      BY <1>0, <1>16, <2>1 DEF Tick, LoginTypes, IsMap
    <2>3. ASSUME NEW u \in Threads PROVE LoginSound(u)'
      <3>1. login' = login /\ login[u].stamp \in Int /\ login[u].stamp <= now /\ now' \in Int
        BY <1>0, <1>1, <1>16, <2>1 DEF Tick, LoginTypes, Logins, LoginSound, Clock
      <3>2. login[u].stamp <= now'
        BY <1>1, <2>1, <3>1
      <3>3. QED BY <3>1, <3>2 DEF LoginSound
    <2>4. QED BY <2>2, <2>3
  <1>17. QED
    BY <1>2, <1>9, <1>10, <1>11, <1>12, <1>13, <1>14, <1>15, <1>16 DEF Next

-----------------------------------------------------------------------------
(* Updates of the policy. *)

LEMMA MergedIs ==
  ASSUME PolicyTypes, NEW set, NEW p,
         "limit" \in set => p.limit \in LoginLimits, "window" \in set => p.window \in LoginWindows
  PROVE  /\ Merged(set, p) \in Policies
         /\ Merged(set, p).limit = IF "limit" \in set THEN p.limit ELSE stored.limit
         /\ Merged(set, p).window = IF "window" \in set THEN p.window ELSE stored.window
  BY DEF PolicyTypes, Policies, Merged

\* A policy is its two fields.
LEMMA PolicyEquality ==
  ASSUME NEW p \in Policies, NEW q \in Policies, p.limit = q.limit, p.window = q.window
  PROVE  p = q
  BY DEF Policies

LEMMA EditUpdates ==
  ASSUME NEW c \in Edits
  PROVE  /\ [c EXCEPT !.alone = FALSE] \in Edits /\ [c EXCEPT !.alone = FALSE].alone = FALSE
         /\ [c EXCEPT !.alone = FALSE].step = c.step
         /\ [c EXCEPT !.step = "configure"] \in Edits
         /\ [c EXCEPT !.step = "configure"].step = "configure"
         /\ [c EXCEPT !.step = "configure"].merged = c.merged
         /\ [c EXCEPT !.step = "configure"].alone = c.alone
  BY DEF Edits

LEMMA UpdatesSound ==
  ASSUME PolicyInv, Next
  PROVE  PolicyTypes' /\ PolicyBinds' /\ (\A a \in Admins : EditSound(a))'
  <1>0. /\ PolicyTypes /\ Boot \in Policies /\ PolicyBinds /\ \A a \in Admins : EditSound(a)
        /\ MaxUpdates \in Nat
    BY TypesSplit, Constants DEF PolicyInv
  <1>1. ASSUME UNCHANGED <<conf, stored, edit, settled, updates>>
        PROVE  PolicyTypes' /\ PolicyBinds' /\ (\A a \in Admins : EditSound(a))'
    BY <1>0, <1>1 DEF PolicyTypes, PolicyBinds, EditSound
  <1>2. ASSUME NEW a \in Admins, NEW set \in (SUBSET {"limit", "window"}) \ {{}},
               NEW p \in [limit : LoginLimits \cup {0}, window : LoginWindows], ReadPolicy(a, set, p)
        PROVE  PolicyTypes' /\ PolicyBinds' /\ (\A b \in Admins : EditSound(b))'
    <2> DEFINE others == {b \in Admins : edit[b].step # "idle"}
               mine == [step |-> "commit", set |-> set, merged |-> Merged(set, p),
                        alone |-> others = {}]
    <2>1. p.limit \in LoginLimits /\ p.window \in LoginWindows
      BY <1>2 DEF ReadPolicy, Valid
    <2>2. /\ Merged(set, p) \in Policies
          /\ "limit" \notin set => Merged(set, p).limit = stored.limit
          /\ "window" \notin set => Merged(set, p).window = stored.window
      BY <1>0, <2>1, MergedIs
    <2>3. mine \in Edits
      BY <1>2, <2>2 DEF Edits
    <2>4. /\ edit' = [b \in Admins |-> IF b = a THEN mine
                       ELSE IF b \in others THEN [edit[b] EXCEPT !.alone = FALSE] ELSE edit[b]]
          /\ UNCHANGED <<conf, stored, settled>> /\ updates' = updates + 1 /\ updates < MaxUpdates
          /\ edit[a].step = "idle"
      BY <1>2 DEF ReadPolicy
    <2>5. \A b \in Admins : edit[b] \in Edits
      BY <1>0 DEF PolicyTypes
    <2> HIDE DEF mine
    <2>6. \A b \in Admins : edit'[b] \in Edits
      BY <2>3, <2>4, <2>5, EditUpdates
    <2>7. edit' \in [Admins -> Edits]
      BY <2>4, <2>6
    <2>8. updates' \in 0..MaxUpdates
      BY <1>0, <2>4 DEF PolicyTypes
    <2>9. PolicyTypes'
      BY <1>0, <2>4, <2>7, <2>8 DEF PolicyTypes
    <2>10. edit'[a] = mine /\ mine.step = "commit" /\ mine.set = set /\ mine.merged = Merged(set, p)
           /\ mine.alone = (others = {})
      BY <2>4 DEF mine
    <2>11. PolicyBinds'
      BY <2>10 DEF PolicyBinds
    <2>12. EditSound(a)'
      <3>1. ASSUME others = {}, NEW b \in Admins \ {a} PROVE edit'[b].step = "idle"
        BY <2>4, <3>1
      <3>2. QED BY <2>2, <2>4, <2>10, <3>1 DEF EditSound
    <2>13. ASSUME NEW b \in Admins, b # a PROVE EditSound(b)'
      <3>1. CASE b \in others
        <4>1. edit'[b].alone = FALSE
          BY <2>4, <2>5, <2>13, <3>1, EditUpdates
        <4>2. QED BY <4>1 DEF EditSound
      <3>2. CASE b \notin others
        <4>1. edit'[b].step = "idle"
          BY <2>4, <2>13, <3>2
        <4>2. QED BY <4>1 DEF EditSound
      <3>3. QED BY <3>1, <3>2
    <2>14. QED BY <2>9, <2>11, <2>12, <2>13
  <1>3. ASSUME NEW a \in Admins, upsert_policy(a)
        PROVE  PolicyTypes' /\ PolicyBinds' /\ (\A b \in Admins : EditSound(b))'
    <2> DEFINE mine == [edit[a] EXCEPT !.step = "configure"]
    <2>1. /\ edit[a].step = "commit" /\ stored' = Merged(edit[a].set, edit[a].merged)
          /\ edit' = [edit EXCEPT ![a].step = "configure"]
          /\ UNCHANGED <<conf, settled, updates>>
      BY <1>3 DEF upsert_policy
    <2>2. edit[a] \in Edits /\ edit[a].merged \in Policies
      BY <1>0 DEF PolicyTypes, Edits
    <2>3. /\ edit[a].merged.limit \in LoginLimits /\ edit[a].merged.window \in LoginWindows
      BY <2>2, PolicyFields
    <2>4. /\ stored' \in Policies
          /\ stored'.limit = IF "limit" \in edit[a].set THEN edit[a].merged.limit ELSE stored.limit
          /\ stored'.window = IF "window" \in edit[a].set THEN edit[a].merged.window ELSE stored.window
      BY <1>0, <2>1, <2>3, MergedIs
    <2>5. edit' = [edit EXCEPT ![a] = mine]
      BY <1>0, <2>1 DEF PolicyTypes
    <2>6. mine \in Edits /\ mine.step = "configure" /\ mine.merged = edit[a].merged
          /\ mine.alone = edit[a].alone
      BY <2>2, EditUpdates
    <2> HIDE DEF mine
    <2>7. edit' \in [Admins -> Edits] /\ edit'[a] = mine /\ \A b \in Admins \ {a} : edit'[b] = edit[b]
      BY <1>0, <2>5, <2>6 DEF PolicyTypes
    <2>8. PolicyTypes'
      BY <1>0, <2>1, <2>4, <2>7 DEF PolicyTypes
    <2>9. PolicyBinds'
      BY <2>6, <2>7 DEF PolicyBinds
    <2>10. EditSound(a)'
      <3>1. ASSUME edit[a].alone
            PROVE  edit[a].merged = stored' /\ \A b \in Admins \ {a} : edit[b].step = "idle"
        <4>1. /\ \A b \in Admins \ {a} : edit[b].step = "idle"
              /\ "limit" \notin edit[a].set => edit[a].merged.limit = stored.limit
              /\ "window" \notin edit[a].set => edit[a].merged.window = stored.window
          BY <1>0, <2>1, <3>1 DEF EditSound
        <4>2. stored'.limit = edit[a].merged.limit /\ stored'.window = edit[a].merged.window
          BY <2>4, <4>1
        <4>3. QED BY <2>2, <2>4, <4>1, <4>2, PolicyEquality
      <3>2. QED BY <2>6, <2>7, <3>1 DEF EditSound
    <2>11. ASSUME NEW b \in Admins \ {a} PROVE EditSound(b)'
      <3>1. ~(edit[b].step # "idle" /\ edit[b].alone)
        BY <1>0, <2>1, <2>11 DEF EditSound
      <3>2. QED BY <2>7, <3>1 DEF EditSound
    <2>12. QED BY <2>8, <2>9, <2>10, <2>11
  <1>4. ASSUME NEW a \in Admins, PushPolicy(a)
        PROVE  PolicyTypes' /\ PolicyBinds' /\ (\A b \in Admins : EditSound(b))'
    <2>1. /\ edit[a].step = "configure" /\ conf' = edit[a].merged /\ settled' = edit[a].alone
          /\ edit' = [edit EXCEPT ![a] = NoEdit] /\ UNCHANGED <<stored, updates>>
      BY <1>4 DEF PushPolicy, configure
    <2>2. edit[a] \in Edits /\ edit[a].merged \in Policies /\ edit[a].alone \in BOOLEAN
      BY <1>0 DEF PolicyTypes, Edits
    <2>3. NoEdit \in Edits /\ NoEdit.step = "idle"
      BY IdleTypes DEF NoEdit
    <2>4. /\ edit' \in [Admins -> Edits] /\ edit'[a].step = "idle"
          /\ \A b \in Admins \ {a} : edit'[b] = edit[b]
      BY <1>0, <2>1, <2>3 DEF PolicyTypes
    <2>5. PolicyTypes'
      BY <1>0, <2>1, <2>2, <2>4 DEF PolicyTypes
    <2>6. edit[a].alone => edit[a].merged = stored
      BY <1>0, <2>1 DEF EditSound
    <2>7. PolicyBinds'
      BY <2>1, <2>6 DEF PolicyBinds
    <2>8. EditSound(a)'
      BY <2>4 DEF EditSound
    <2>9. ASSUME NEW b \in Admins \ {a} PROVE EditSound(b)'
      <3>1. ~(edit[b].step # "idle" /\ edit[b].alone)
        BY <1>0, <2>1, <2>9 DEF EditSound
      <3>2. QED BY <2>4, <3>1 DEF EditSound
    <2>10. QED BY <2>5, <2>7, <2>8, <2>9
  <1>5. ASSUME Restart PROVE PolicyTypes' /\ PolicyBinds' /\ (\A a \in Admins : EditSound(a))'
    <2>1. NoEdit \in Edits /\ NoEdit.step = "idle"
      BY IdleTypes DEF NoEdit
    <2>2. edit' \in [Admins -> Edits] /\ \A a \in Admins : edit'[a].step = "idle"
      BY <1>5, <2>1 DEF Restart
    <2>3. PolicyTypes'
      BY <1>0, <1>5, <2>2 DEF Restart, PolicyTypes
    <2>4. PolicyBinds'
      BY <1>5 DEF Restart, PolicyBinds
    <2>5. QED BY <2>2, <2>3, <2>4 DEF EditSound
  <1>6. QED
    BY <1>1, <1>2, <1>3, <1>4, <1>5
    DEF Next, Ask, refused, Wrong, record_failure, clear, clear_email, Tick

\* Types, valid policies, and updates that met no other hold a merge of the rows as they
\* still are (ReadPolicy, upsert_policy, PushPolicy).
THEOREM PolicyInvariant == Spec => []PolicyInv
  <1>1. Init => PolicyInv
    <2> SUFFICES ASSUME Init PROVE PolicyInv
      OBVIOUS
    <2>1. NoLogin \in Logins /\ NoEdit \in Edits /\ NoEdit.step = "idle" /\ NoLogin.step = "idle"
          /\ NoLogin.stamp = 0 /\ MaxTime \in Nat /\ MaxUpdates \in Nat /\ MaxLogins \in Nat
          /\ Boot \in Policies
      BY IdleTypes, Constants DEF NoLogin, NoEdit
    <2>2. IsMap(failures)
      BY DEF Init, IsMap
    <2>3. LoginTypes
      <3>1. now \in Clock /\ logins \in 0..MaxLogins /\ late \in BOOLEAN
        <4>1. now = 0 /\ logins = 0 /\ late = FALSE
          BY DEF Init
        <4>2. 0 \in 0..MaxTime /\ 0 \in 0..MaxLogins
          BY <2>1
        <4>3. QED BY <4>1, <4>2 DEF Clock
      <3>2. login \in [Threads -> Logins]
        BY <2>1 DEF Init
      <3>3. wrong \in [Subjects -> Seq(Clock)]
        BY EmptySeq DEF Init
      <3>4. QED BY <2>2, <3>1, <3>2, <3>3 DEF LoginTypes
    <2>4. PolicyTypes
      BY <2>1 DEF Init, PolicyTypes
    <2>5. PolicyBinds /\ \A a \in Admins : EditSound(a)
      BY <2>1 DEF Init, PolicyBinds, EditSound
    <2>6. \A t \in Threads : LoginSound(t)
      BY <2>1 DEF Init, LoginSound
    <2>7. QED BY <2>3, <2>4, <2>5, <2>6, TypesSplit DEF PolicyInv
  <1>2. PolicyInv /\ [Next]_vars => PolicyInv'
    <2>1. ASSUME PolicyInv, Next PROVE PolicyInv'
      BY <2>1, LoginTyped, UpdatesSound, TypesSplitNext DEF PolicyInv
    <2>2. ASSUME PolicyInv, UNCHANGED vars PROVE PolicyInv'
      BY <2>2 DEF PolicyInv, vars, TypeOK, LoginSound, PolicyBinds, EditSound
    <2>3. QED BY <2>1, <2>2
  <1>3. QED BY <1>1, <1>2, PTL DEF Spec

-----------------------------------------------------------------------------
(* Lockouts. *)

\* Stamps that are all a window old leave an empty list.
LEMMA AllAgedPrunes ==
  ASSUME NEW list \in Seq(Clock), NEW cutoff \in Int, \A i \in 1..Len(list) : list[i] <= cutoff
  PROVE  Prune(list, cutoff) = <<>>
  <1>1. Len(list) \in Nat /\ \A i \in 1..Len(list) : list[i] \in Int
    BY LenProperties, ElementOfSeq, Constants DEF Clock
  <1>2. \A i \in 1..Len(list) : list[i] \notin Newer(cutoff)
    BY <1>1 DEF Newer
  <1>3. Only(list, Newer(cutoff)) = <<>>
    BY <1>2, OnlyNone
  <1>4. CASE list = <<>>
    BY <1>4 DEF Prune
  <1>5. CASE list # <<>>
    <2>1. 1 \in 1..Len(list)
      BY <1>1, <1>5, EmptySeq
    <2>2. QED BY <1>3, <1>5, <2>1 DEF Prune
  <1>6. QED BY <1>4, <1>5

\* At all times: policies are valid, the policy in force is the stored one once updates
\* have settled, and a subject left alone for one window is let in (LoginBackoff,
\* update_policy).
THEOREM LockoutIsSound == Spec => []LockoutSound
  <1>1. PolicyInv => LockoutSound
    <2> SUFFICES ASSUME PolicyInv PROVE LockoutSound
      OBVIOUS
    <2>1. ASSUME NEW s \in Subjects, \A i \in 1..Len(Stamps(s)) : now - Stamps(s)[i] >= conf.window
          PROVE  ~OverLimit(Prune(Stamps(s), now - conf.window))
      <3>1. /\ Stamps(s) \in Seq(Clock) /\ conf.limit \in Nat \ {0}
            /\ conf.window \in Nat /\ now \in Int /\ MaxTime \in Nat
        BY StampsType, PolicyFields, Constants DEF PolicyInv, TypeOK
      <3>2. \A i \in 1..Len(Stamps(s)) : Stamps(s)[i] \in Int
        BY <3>1, ElementOfSeq DEF Clock
      <3>3. \A i \in 1..Len(Stamps(s)) : Stamps(s)[i] <= now - conf.window
        BY <2>1, <3>1, <3>2
      <3>4. Prune(Stamps(s), now - conf.window) = <<>>
        BY <3>1, <3>3, AllAgedPrunes
      <3>5. Len(<<>>) = 0 /\ ~(0 >= conf.limit)
        BY <3>1, EmptySeq
      <3>6. QED BY <3>4, <3>5 DEF OverLimit
    <2>2. QED BY <2>1 DEF LockoutSound, QuietUnlocks, PolicyInv
  <1>2. QED BY <1>1, PolicyInvariant, PTL

-----------------------------------------------------------------------------
(* Guesses. *)

LEMMA Numbers ==
  /\ Widest \in Nat /\ Widest >= 1 /\ \A l \in LoginLimits : l <= Widest
  /\ Nearest \in Nat /\ \A w \in LoginWindows : Nearest <= w
  /\ Cardinality(Threads) \in Nat
  <1>1. /\ LoginLimits \in SUBSET Nat /\ LoginWindows \in SUBSET Nat /\ 0 \notin LoginLimits
        /\ IsFiniteSet(LoginLimits) /\ IsFiniteSet(Threads) /\ Boot \in Policies
    BY LimitsAssumption
  <1>2. LoginLimits # {} /\ LoginWindows # {}
    BY <1>1, PolicyFields
  <1>3. \E x \in LoginLimits : \A y \in LoginLimits : x >= y
    BY <1>1, <1>2, GreatestNumber
  <1>4. Widest \in LoginLimits /\ \A y \in LoginLimits : Widest >= y
    BY <1>3, Zenon DEF Widest, Max
  <1>5. \E x \in LoginWindows : \A y \in LoginWindows : x <= y
    BY <1>1, <1>2, LeastNumber
  <1>6. Nearest \in LoginWindows /\ \A y \in LoginWindows : Nearest <= y
    BY <1>5, Zenon DEF Nearest, Min
  <1>7. Widest \in Nat /\ Widest # 0 /\ Nearest \in Nat
    BY <1>1, <1>4, <1>6
  <1>8. Widest >= 1 /\ \A l \in LoginLimits : l <= Widest
    BY <1>1, <1>4, <1>7
  <1>9. Cardinality(Threads) \in Nat
    BY <1>1, FS_CardinalityType
  <1>10. QED BY <1>6, <1>7, <1>8, <1>9

\* _prune loses no stamp after its cutoff.
LEMMA PruneKeeps ==
  ASSUME NEW list \in Seq(Clock), NEW cutoff \in Int, NEW k \in Int, cutoff <= k
  PROVE  Only(Prune(list, cutoff), Newer(k)) = Only(list, Newer(k))
  <1>1. Newer(cutoff) \cap Newer(k) = Newer(k)
    BY DEF Newer
  <1>2. Only(Only(list, Newer(cutoff)), Newer(k)) = Only(list, Newer(k))
    BY <1>1, OnlyTwice
  <1>3. QED BY <1>2 DEF Prune

\* A list whose newest stamp has aged holds no other.
LEMMA AgedOut ==
  ASSUME NEW list \in Seq(Clock), LastNewest(list), NEW k \in Int,
         list = <<>> \/ ~(list[Len(list)] > k)
  PROVE  Only(list, Newer(k)) = <<>>
  <1>1. CASE list = <<>>
    BY <1>1, OnlyEmpty
  <1>2. CASE list # <<>>
    <2>1. Len(list) \in Nat /\ Len(list) \in 1..Len(list)
      BY <1>2, EmptySeq
    <2>2. \A i \in 1..Len(list) : list[i] \in Int /\ list[i] <= list[Len(list)]
      BY ElementOfSeq, Constants DEF Clock, LastNewest
    <2>3. ~(list[Len(list)] > k)
      BY <1>2
    <2>4. \A i \in 1..Len(list) : list[i] \notin Newer(k)
      BY <2>1, <2>2, <2>3 DEF Newer
    <2>5. QED BY <2>4, OnlyNone
  <1>3. QED BY <1>1, <1>2

LEMMA EmptyNewest == LastNewest(<<>>)
  <1>1. Len(<<>>) = 0
    BY EmptySeq
  <1>2. QED BY <1>1 DEF LastNewest

\* A stamp no older than the others may be appended.
LEMMA AppendNewest ==
  ASSUME NEW list \in Seq(Clock), NEW stamp \in Clock, \A i \in 1..Len(list) : ~(list[i] > stamp)
  PROVE  LastNewest(Append(list, stamp))
  <1>1. /\ Len(Append(list, stamp)) = Len(list) + 1 /\ Len(list) \in Nat
        /\ Append(list, stamp)[Len(list) + 1] = stamp
        /\ \A i \in 1..Len(list) : Append(list, stamp)[i] = list[i]
    BY AppendProperties, LenProperties
  <1>2. stamp \in Int /\ \A i \in 1..Len(list) : list[i] \in Int
    BY ElementOfSeq, Constants DEF Clock
  <1>3. \A i \in 1..Len(list) : list[i] <= stamp
    BY <1>2
  <1>4. ASSUME NEW i \in 1..(Len(list) + 1) PROVE Append(list, stamp)[i] <= stamp
    <2>1. CASE i = Len(list) + 1
      BY <1>1, <1>2, <2>1
    <2>2. CASE i # Len(list) + 1
      <3>1. i \in 1..Len(list)
        BY <1>1, <2>2
      <3>2. QED BY <1>1, <1>3, <3>1
    <2>3. QED BY <2>1, <2>2
  <1>5. QED BY <1>1, <1>4 DEF LastNewest

LEMMA PruneNewest ==
  ASSUME NEW list \in Seq(Clock), LastNewest(list), NEW cutoff \in Int
  PROVE  LastNewest(Prune(list, cutoff))
  <1>1. CASE list = <<>> \/ ~(list[Len(list)] > cutoff)
    <2>1. Only(list, Newer(cutoff)) = <<>>
      BY <1>1, AgedOut
    <2>2. QED BY <2>1, EmptyNewest DEF Prune
  <1>2. CASE ~(list = <<>> \/ ~(list[Len(list)] > cutoff))
    <2>1. PICK front \in Seq(Clock), x \in Clock : list = Append(front, x)
      BY <1>2, SequenceEmptyOrAppend
    <2>2. /\ Len(list) = Len(front) + 1 /\ list[Len(list)] = x /\ Len(front) \in Nat
          /\ \A i \in 1..Len(front) : list[i] = front[i]
      BY <2>1, AppendProperties, LenProperties
    <2> DEFINE A == {v \in Clock : v <= x}
    <2>3. x \in A /\ x \in Newer(cutoff) /\ x \in Int
      BY <1>2, <2>2, Constants DEF Newer, Clock
    <2>4. \A i \in 1..Len(front) : front[i] \in A
      BY <2>2, ElementOfSeq DEF LastNewest
    <2>5. front \in Seq(A)
      BY <2>1, <2>4, SeqDef
    <2>6. Only(front, Newer(cutoff)) \in Seq(A)
      BY <2>5, OnlyType
    <2>7. Only(list, Newer(cutoff)) = Append(Only(front, Newer(cutoff)), x)
      BY <2>1, <2>3, OnlyAppend
    <2>8. \A i \in 1..Len(Only(front, Newer(cutoff))) :
             /\ Only(front, Newer(cutoff))[i] \in A /\ Only(front, Newer(cutoff))[i] \in Clock
      BY <2>6, ElementOfSeq
    <2>9. \A i \in 1..Len(Only(front, Newer(cutoff))) : ~(Only(front, Newer(cutoff))[i] > x)
      BY <2>3, <2>8, Constants DEF Clock
    <2>10. Only(front, Newer(cutoff)) \in Seq(Clock)
      BY OnlyType
    <2>11. LastNewest(Only(list, Newer(cutoff)))
      BY <2>7, <2>9, <2>10, AppendNewest
    <2>12. QED BY <2>11 DEF Prune
  <1>3. QED BY <1>1, <1>2

\* Appending a stamp keeps the newest last and loses none of the last Nearest ticks.
LEMMA Appended ==
  ASSUME TypeOK, NEW s \in Subjects, NEW stamp \in Clock, stamp <= now,
         \A x \in DOMAIN failures : LastNewest(failures[x]),
         Append1(s, Prune(Stamps(s), stamp - conf.window), stamp), ~late'
  PROVE  /\ (\A x \in DOMAIN failures : LastNewest(failures[x]))'
         /\ \A x \in Subjects, k \in (now - Nearest)..MaxTime :
               /\ x # s => Held(x, k)' = Held(x, k)
               /\ x = s => Held(x, k)' = Held(x, k) + (IF stamp > k THEN 1 ELSE 0)
  <1> DEFINE list == Prune(Stamps(s), stamp - conf.window)
             put == Put(s, Append(list, stamp))
  <1>0. /\ stamp \in Int /\ now \in Int /\ MaxTime \in Nat
        /\ conf.window \in Nat \ {0} /\ Nearest \in Nat /\ Nearest <= conf.window
    BY Constants, Numbers, PolicyFields DEF TypeOK, Clock
  <1>1. /\ Stamps(s) \in Seq(Clock) /\ list \in Seq(Clock) /\ stamp - conf.window \in Int
    BY <1>0, StampsType, PruneType
  <1>2. /\ failures' = Sweep(put, stamp - conf.window)
        /\ \A i \in 1..Len(list) : ~(list[i] > stamp)
    BY DEF Append1
  <1>3. Append(list, stamp) \in Seq(Clock) /\ LastNewest(Append(list, stamp))
    BY <1>1, <1>2, AppendProperties, AppendNewest
  <1>4. /\ IsMap(put) /\ DOMAIN put = DOMAIN failures \cup {s} /\ put[s] = Append(list, stamp)
        /\ \A x \in DOMAIN failures : x # s => put[x] = failures[x]
    BY <1>3, MapTypes DEF Put
  <1>5. \A x \in DOMAIN put : LastNewest(put[x]) /\ put[x] \in Seq(Clock)
    BY <1>3, <1>4 DEF IsMap
  <1>6. put[s][Len(put[s])] = stamp /\ put[s] # <<>>
    BY <1>1, <1>4, AppendProperties
  <1> HIDE DEF put
  <1>7. /\ DOMAIN failures' \subseteq DOMAIN put
        /\ \A x \in DOMAIN failures' : failures'[x] = put[x]
        /\ \A x \in DOMAIN put \ DOMAIN failures' :
              put[x] = <<>> \/ ~(put[x][Len(put[x])] > stamp - conf.window)
    BY <1>2, <1>4, SweepIs
  <1>8. (\A x \in DOMAIN failures : LastNewest(failures[x]))'
    BY <1>5, <1>7
  <1>9. s \in DOMAIN failures'
    <2>1. stamp > stamp - conf.window
      BY <1>0
    <2>2. QED BY <1>4, <1>6, <1>7, <2>1
  <1>10. ASSUME NEW x \in Subjects, NEW k \in (now - Nearest)..MaxTime
         PROVE  /\ x # s => Held(x, k)' = Held(x, k)
                /\ x = s => Held(x, k)' = Held(x, k) + (IF stamp > k THEN 1 ELSE 0)
    <2>1. k \in Int /\ stamp - conf.window <= k
      BY <1>0, <1>10
    <2>2. CASE x = s
      <3>1. Stamps(s)' = Append(list, stamp)
        BY <1>4, <1>7, <1>9 DEF Stamps
      <3>2. Only(list, Newer(k)) = Only(Stamps(s), Newer(k))
        BY <1>1, <2>1, PruneKeeps
      <3>3. Only(Append(list, stamp), Newer(k)) =
               IF stamp \in Newer(k) THEN Append(Only(list, Newer(k)), stamp) ELSE Only(list, Newer(k))
        BY <1>1, OnlyAppend, ZenonT(60)
      <3>4. stamp \in Newer(k) <=> stamp > k
        BY <1>0 DEF Newer
      <3>5. Only(list, Newer(k)) \in Seq(Clock) /\ Len(Only(list, Newer(k))) \in Nat
        BY <1>1, OnlyType
      <3>6. Len(Append(Only(list, Newer(k)), stamp)) = Len(Only(list, Newer(k))) + 1
        BY <3>5, AppendProperties
      <3>7. Held(s, k)' = Len(Only(Append(list, stamp), Newer(k)))
        BY <3>1 DEF Held, Newer
      <3>8. Held(s, k) = Len(Only(list, Newer(k)))
        BY <3>2 DEF Held
      <3> HIDE DEF list
      <3>9. QED BY <2>2, <3>3, <3>4, <3>5, <3>6, <3>7, <3>8
    <2>3. CASE x # s /\ x \in DOMAIN failures'
      <3>1. Stamps(x)' = Stamps(x)
        BY <1>4, <1>7, <2>3 DEF Stamps
      <3>2. QED BY <2>3, <3>1 DEF Held, Newer
    <2>4. CASE x # s /\ x \notin DOMAIN failures' /\ x \in DOMAIN failures
      <3>1. Stamps(x)' = <<>> /\ Stamps(x) = put[x] /\ x \in DOMAIN put
        BY <1>4, <2>4 DEF Stamps
      <3>2. put[x] = <<>> \/ ~(put[x][Len(put[x])] > stamp - conf.window)
        BY <1>7, <2>4, <3>1
      <3>3. put[x] = <<>> \/ ~(put[x][Len(put[x])] > k)
        <4>1. CASE put[x] = <<>>
          BY <4>1
        <4>2. CASE put[x] # <<>>
          <5>1. Len(put[x]) \in 1..Len(put[x])
            BY <1>5, <3>1, <4>2, EmptySeq
          <5>2. put[x][Len(put[x])] \in Int
            BY <1>0, <1>5, <3>1, <5>1, ElementOfSeq DEF Clock
          <5>3. QED BY <1>0, <2>1, <3>2, <4>2, <5>2
        <4>3. QED BY <4>1, <4>2
      <3>4. Only(put[x], Newer(k)) = <<>> /\ Only(<<>>, Newer(k)) = <<>>
        BY <1>5, <2>1, <3>1, <3>3, AgedOut, OnlyEmpty
      <3>5. QED BY <2>4, <3>1, <3>4 DEF Held, Newer
    <2>5. CASE x # s /\ x \notin DOMAIN failures' /\ x \notin DOMAIN failures
      <3>1. Stamps(x)' = Stamps(x)
        BY <2>5 DEF Stamps
      <3>2. QED BY <2>5, <3>1 DEF Held, Newer
    <2>6. QED BY <2>2, <2>3, <2>4, <2>5
  <1>11. QED BY <1>8, <1>10

LEMMA CountTypes ==
  ASSUME TypeOK, NEW s \in Subjects, NEW k
  PROVE  Tried(s, k) \in Nat /\ Held(s, k) \in Nat
  <1>1. wrong[s] \in Seq(Clock) /\ Stamps(s) \in Seq(Clock)
    BY StampsType DEF TypeOK, Clock
  <1>2. QED BY <1>1, OnlyType DEF Tried, Held

LEMMA GuessingIs ==
  ASSUME NEW s
  PROVE  /\ IsFiniteSet(Guessing(s)) /\ Cardinality(Guessing(s)) \in Nat
         /\ Cardinality(Guessing(s)) <= Cardinality(Threads)
  <1>1. IsFiniteSet(Threads) /\ Guessing(s) \in SUBSET Threads
    BY LimitsAssumption DEF Guessing
  <1>2. QED BY <1>1, FS_Subset, FS_CardinalityType

LEMMA GuessingMoves ==
  ASSUME TypeOK, NEW t \in Threads, NEW c, login' = [login EXCEPT ![t] = c], NEW s
  PROVE  Guessing(s)' = IF c.step \in {"verify", "record"} /\ c.subject = s
                        THEN Guessing(s) \cup {t} ELSE Guessing(s) \ {t}
  BY DEF TypeOK, Guessing

\* A step that adds no wrong password of the subject.
LEMMA SubjectKept ==
  ASSUME TypeOK, TypeOK', now' = now, NEW s \in Subjects, WrongStamped(s), GuessesLeft(s),
         wrong'[s] = wrong[s], Guessing(s)' = Guessing(s),
         \A k \in (now - Nearest)..MaxTime : Held(s, k)' >= Held(s, k)
  PROVE  WrongStamped(s)' /\ GuessesLeft(s)'
  <1>1. \A k : Tried(s, k)' = Tried(s, k)
    BY DEF Tried, Newer
  <1>2. WrongStamped(s)'
    <2>1. ASSUME NEW k \in (now - Nearest)..MaxTime PROVE Tried(s, k) <= Held(s, k)'
      <3>1. Tried(s, k) \in Nat /\ Held(s, k) \in Nat /\ Tried(s, k) <= Held(s, k)
        BY CountTypes DEF WrongStamped
      <3>2. Held(s, k)' >= Held(s, k) /\ Held(s, k)' \in Nat
        <4>1. Stamps(s)' \in Seq(Clock)
          BY EmptySeq DEF TypeOK, Stamps, Clock
        <4>2. QED BY <4>1, OnlyType DEF Held, Newer
      <3>3. QED BY <3>1, <3>2
    <2>2. QED BY <1>1, <2>1 DEF WrongStamped, Nearest
  <1>3. GuessesLeft(s)'
    BY <1>1 DEF GuessesLeft, Nearest, Widest
  <1>4. QED BY <1>2, <1>3

\* A step that clears the subject.
LEMMA SubjectCleared ==
  ASSUME TypeOK', NEW s \in Subjects, wrong'[s] = <<>>
  PROVE  WrongStamped(s)' /\ GuessesLeft(s)'
  <1>1. \A k : Tried(s, k)' = 0
    <2>1. Len(<<>>) = 0 /\ \A k : Only(<<>>, Newer(k)) = <<>>
      BY EmptySeq, OnlyEmpty
    <2>2. QED BY <2>1 DEF Tried, Newer
  <1>2. \A k : Held(s, k)' \in Nat
    <2>1. Stamps(s)' \in Seq(Clock)
      BY EmptySeq DEF TypeOK, Stamps, Clock
    <2>2. QED BY <2>1, OnlyType DEF Held, Newer
  <1>3. WrongStamped(s)'
    <2>1. \A k : Tried(s, k)' <= Held(s, k)'
      BY <1>1, <1>2
    <2>2. QED BY <2>1 DEF WrongStamped
  <1>4. /\ Cardinality(Guessing(s)') \in Nat /\ Cardinality(Guessing(s)') <= Cardinality(Threads)
    <2>1. IsFiniteSet(Threads) /\ Guessing(s)' \in SUBSET Threads
      BY LimitsAssumption DEF Guessing
    <2>2. QED BY <2>1, FS_Subset, FS_CardinalityType
  <1>5. 0 + Cardinality(Guessing(s)') <= Widest + Cardinality(Threads) - 1
    BY <1>4, Numbers
  <1>6. GuessesLeft(s)'
    <2>1. Tried(s, now - Nearest)' = 0
      BY <1>1
    <2>2. QED BY <1>5, <2>1 DEF GuessesLeft, Widest
  <1>7. QED BY <1>3, <1>6

LEMMA GuessStep ==
  ASSUME PolicyInv, PolicyInv', GuessInv, Next, ~late'
  PROVE  /\ (\A s \in DOMAIN failures : LastNewest(failures[s]))'
         /\ \A s \in Subjects : WrongStamped(s)' /\ GuessesLeft(s)'
  <1> DEFINE Newest == \A s \in DOMAIN failures : LastNewest(failures[s])
             Counted == \A s \in Subjects : WrongStamped(s)' /\ GuessesLeft(s)'
  <1>0. /\ TypeOK /\ TypeOK' /\ \A t \in Threads : LoginSound(t)
        /\ MaxTime \in Nat /\ now \in Nat /\ now <= MaxTime
        /\ conf.window \in LoginWindows /\ conf.window \in Nat
        /\ conf.limit \in LoginLimits /\ conf.limit \in Nat
    BY Constants, PolicyFields, SMTT(30) DEF PolicyInv, TypeOK
  <1>1. ~late => Newest /\ \A s \in Subjects : WrongStamped(s) /\ GuessesLeft(s)
    BY DEF GuessInv
  <1>2. ASSUME NEW t \in Threads, login[t].step # "idle"
        PROVE  /\ login[t].subject \in Subjects /\ login[t].stamp \in Clock
               /\ login[t].stamp \in Int /\ login[t].stamp <= now
               /\ login[t].stamp - conf.window <= now - Nearest
    <2>1. /\ login[t].subject \in Subjects /\ login[t].stamp \in Clock
          /\ login[t].stamp \in Int /\ login[t].stamp <= now
      BY <1>0, <1>2 DEF LoginSound, TypeOK, Clock
    <2>2. Nearest \in Nat /\ Nearest <= conf.window
      BY <1>0, Numbers
    <2>3. login[t].stamp - conf.window <= now - Nearest
      BY <1>0, <2>1, <2>2
    <2>4. QED BY <2>1, <2>3
  \* Steps of handlers that neither guess nor record.
  <1>3. ASSUME ~late, UNCHANGED <<now, failures, wrong>>, \A s \in Subjects : Guessing(s)' = Guessing(s)
        PROVE  Newest' /\ Counted
    <2>1. ASSUME NEW s \in Subjects, NEW k \in (now - Nearest)..MaxTime PROVE Held(s, k)' >= Held(s, k)
      <3>1. Held(s, k)' = Held(s, k)
        BY <1>3 DEF Held, Stamps, Newer
      <3>2. Held(s, k) \in Nat
        BY <1>0, CountTypes
      <3>3. QED BY <3>1, <3>2
    <2>2. Counted
      BY <1>0, <1>1, <1>3, <2>1, SubjectKept
    <2>3. QED BY <1>1, <1>3, <2>2
  <1>4. ASSUME NEW t \in Threads, NEW s \in Subjects, Ask(t, s) PROVE Newest' /\ Counted
    <2> DEFINE c == [step |-> "ask", subject |-> s, stamp |-> now]
    <2>1. /\ login' = [login EXCEPT ![t] = c] /\ login[t].step = "idle"
          /\ UNCHANGED <<now, failures, wrong, late>>
      BY <1>4 DEF Ask
    <2>2. c.step = "ask"
      OBVIOUS
    <2> HIDE DEF c
    <2>3. \A x \in Subjects : Guessing(x)' = Guessing(x) \ {t} /\ t \notin Guessing(x)
      BY <1>0, <2>1, <2>2, GuessingMoves DEF Guessing
    <2>4. \A x \in Subjects : Guessing(x)' = Guessing(x)
      BY <2>3
    <2>5. QED BY <1>3, <2>1, <2>4
  <1>5. ASSUME NEW t \in Threads, Wrong(t) PROVE Newest' /\ Counted
    <2> DEFINE c == [login[t] EXCEPT !.step = "record", !.stamp = now]
    <2>1. /\ login' = [login EXCEPT ![t] = c] /\ login[t].step = "verify"
          /\ UNCHANGED <<now, failures, wrong, late>>
      BY <1>0, <1>5 DEF Wrong, TypeOK
    <2>2. c.step = "record" /\ c.subject = login[t].subject
      BY <1>0 DEF TypeOK
    <2> HIDE DEF c
    <2>3. \A x \in Subjects : Guessing(x)' = Guessing(x)
      <3>1. ASSUME NEW x \in Subjects PROVE Guessing(x)' = Guessing(x)
        <4>1. t \in Guessing(x) <=> login[t].subject = x
          BY <2>1 DEF Guessing
        <4>2. Guessing(x)' = IF login[t].subject = x THEN Guessing(x) \cup {t} ELSE Guessing(x) \ {t}
          BY <1>0, <2>1, <2>2, GuessingMoves, ZenonT(60)
        <4>3. QED BY <4>1, <4>2
      <3>2. QED BY <3>1
    <2>4. QED BY <1>3, <2>1, <2>3
  <1>6. ASSUME NEW t \in Threads, refused(t) PROVE Newest' /\ Counted
    <2>0. /\ login[t].step = "ask" /\ login[t].step # "idle" /\ now' = now /\ wrong' = wrong
          /\ \A x \in Subjects : t \notin Guessing(x)
      BY <1>6 DEF refused, Guessing
    <2>1. PICK s \in Subjects, stamp \in Clock :
             /\ s = login[t].subject /\ stamp = login[t].stamp /\ stamp <= now
             /\ stamp - conf.window \in Int /\ stamp - conf.window <= now - Nearest
      BY <1>0, <1>2, <2>0
    <2>2. PICK list : list = Prune(Stamps(s), stamp - conf.window)
      OBVIOUS
    <2>3. CASE OverLimit(list)
      <3>1. Append1(s, list, stamp) /\ login' = [login EXCEPT ![t] = NoLogin]
        BY <1>6, <2>1, <2>2, <2>3 DEF refused
      <3>2. ~late
        BY <3>1 DEF Append1
      <3>3. /\ Newest'
            /\ \A x \in Subjects, k \in (now - Nearest)..MaxTime :
                  /\ x # s => Held(x, k)' = Held(x, k)
                  /\ x = s => Held(x, k)' = Held(x, k) + (IF stamp > k THEN 1 ELSE 0)
        BY <1>0, <1>1, <2>1, <2>2, <3>1, <3>2, Appended
      <3>4. ASSUME NEW x \in Subjects PROVE Guessing(x)' = Guessing(x)
        <4>1. NoLogin.step = "idle"
          BY DEF NoLogin
        <4>2. Guessing(x)' = Guessing(x) \ {t}
          BY <1>0, <3>1, <4>1, GuessingMoves
        <4>3. QED BY <2>0, <4>2
      <3>5. ASSUME NEW x \in Subjects, NEW k \in (now - Nearest)..MaxTime
            PROVE  Held(x, k)' >= Held(x, k)
        <4>1. Held(x, k) \in Nat
          BY <1>0, CountTypes
        <4>2. QED BY <3>3, <4>1
      <3>6. QED BY <1>0, <1>1, <2>0, <3>2, <3>3, <3>4, <3>5, SubjectKept
    <2>4. CASE ~OverLimit(list)
      <3> DEFINE c == [login[t] EXCEPT !.step = "verify", !.stamp = 0]
      <3>1. failures' = Put(s, list) /\ late' = late /\ login' = [login EXCEPT ![t] = c]
        BY <1>6, <2>1, <2>2, <2>4 DEF refused
      <3>2. ~late /\ c.step = "verify" /\ c.subject = s
        BY <1>0, <2>1, <3>1 DEF TypeOK
      <3> HIDE DEF c
      <3>3. Stamps(s) \in Seq(Clock) /\ list \in Seq(Clock) /\ Len(list) \in Nat
        BY <1>0, <2>1, <2>2, StampsType, PruneType
      <3>4. LastNewest(Stamps(s))
        BY <1>1, <3>2, EmptyNewest DEF Stamps
      <3>5. LastNewest(list)
        BY <2>1, <2>2, <3>3, <3>4, PruneNewest
      <3>6. Newest'
        BY <1>1, <3>1, <3>2, <3>5 DEF Put
      <3>7. \A x : Stamps(x)' = IF x = s THEN list ELSE Stamps(x)
        BY <3>1 DEF Put, Stamps
      <3>8. ASSUME NEW k \in (now - Nearest)..MaxTime
            PROVE  /\ Only(list, Newer(k)) = Only(Stamps(s), Newer(k))
                   /\ \A x \in Subjects : Held(x, k)' = Held(x, k)
        <4>1. k \in Int /\ stamp - conf.window <= k
          BY <1>0, <2>1, <3>8, Numbers DEF Clock
        <4>2. Only(list, Newer(k)) = Only(Stamps(s), Newer(k))
          BY <2>1, <2>2, <3>3, <4>1, PruneKeeps
        <4>3. ASSUME NEW x \in Subjects PROVE Held(x, k)' = Held(x, k)
          <5>1. CASE x = s
            <6>1. Stamps(s)' = list
              BY <3>7
            <6>2. QED BY <4>2, <5>1, <6>1 DEF Held, Newer
          <5>2. CASE x # s
            <6>1. Stamps(x)' = Stamps(x)
              BY <3>7, <5>2
            <6>2. QED BY <6>1 DEF Held, Newer
          <5>3. QED BY <5>1, <5>2
        <4>4. QED BY <4>2, <4>3
      <3>9. ASSUME NEW x \in Subjects, NEW k \in (now - Nearest)..MaxTime
            PROVE  Held(x, k)' >= Held(x, k)
        <4>1. Held(x, k) \in Nat
          BY <1>0, CountTypes
        <4>2. QED BY <3>8, <4>1
      <3>10. ASSUME NEW x \in Subjects, x # s PROVE WrongStamped(x)' /\ GuessesLeft(x)'
        <4>1. Guessing(x)' = Guessing(x) \ {t}
          BY <1>0, <3>1, <3>2, <3>10, GuessingMoves
        <4>2. Guessing(x)' = Guessing(x)
          BY <2>0, <4>1
        <4>3. QED BY <1>0, <1>1, <2>0, <3>2, <3>9, <4>2, SubjectKept
      <3>11. WrongStamped(s)'
        <4>1. ASSUME NEW k \in (now - Nearest)..MaxTime PROVE Tried(s, k)' <= Held(s, k)'
          <5>1. Tried(s, k)' = Tried(s, k)
            BY <2>0 DEF Tried, Newer
          <5>2. Tried(s, k) <= Held(s, k) /\ Held(s, k)' = Held(s, k)
            BY <1>1, <3>2, <3>8 DEF WrongStamped
          <5>3. QED BY <5>1, <5>2
        <4>2. QED BY <2>0, <4>1 DEF WrongStamped, Nearest
      <3>12. GuessesLeft(s)'
        <4>1. PICK k : k = now - Nearest
          OBVIOUS
        <4>2. k \in (now - Nearest)..MaxTime /\ k \in Int
          BY <1>0, <4>1, Numbers
        <4>3. Tried(s, k) <= Held(s, k) /\ Tried(s, k) \in Nat /\ Held(s, k) \in Nat
          BY <1>0, <1>1, <3>2, <4>2, CountTypes DEF WrongStamped
        <4>4. Held(s, k) = Len(Only(list, Newer(k)))
          BY <3>8, <4>2 DEF Held
        <4>5. Len(Only(list, Newer(k))) <= Len(list)
          BY <3>3, OnlyLength
        <4>6. Len(list) < conf.limit /\ conf.limit <= Widest
          BY <1>0, <2>4, <3>3, Numbers DEF OverLimit
        <4>7. /\ Cardinality(Guessing(s)') \in Nat
              /\ Cardinality(Guessing(s)') <= Cardinality(Threads)
          <5>1. IsFiniteSet(Threads) /\ Guessing(s)' \in SUBSET Threads
            BY LimitsAssumption DEF Guessing
          <5>2. QED BY <5>1, FS_Subset, FS_CardinalityType
        <4>8. Tried(s, k) + Cardinality(Guessing(s)') <= Widest + Cardinality(Threads) - 1
          BY <1>0, <3>3, <4>3, <4>4, <4>5, <4>6, <4>7, Numbers
        <4>9. Tried(s, now - Nearest)' = Tried(s, k)
          BY <2>0, <4>1 DEF Tried, Newer, Nearest
        <4>10. QED BY <4>8, <4>9 DEF GuessesLeft, Widest
      <3>13. QED BY <3>6, <3>10, <3>11, <3>12
    <2>5. QED BY <2>3, <2>4
  <1>7. ASSUME NEW t \in Threads, record_failure(t) PROVE Newest' /\ Counted
    <2>0. /\ login[t].step = "record" /\ login[t].step # "idle" /\ now' = now
      BY <1>7 DEF record_failure
    <2>1. PICK s \in Subjects, stamp \in Clock :
             s = login[t].subject /\ stamp = login[t].stamp /\ stamp <= now
      BY <1>2, <2>0
    <2>2. /\ Append1(s, Prune(Stamps(s), stamp - conf.window), stamp)
          /\ login' = [login EXCEPT ![t] = NoLogin]
          /\ wrong' = [wrong EXCEPT ![s] = Append(wrong[s], stamp)]
      BY <1>7, <2>1 DEF record_failure
    <2>3. ~late
      BY <2>2 DEF Append1
    <2>4. /\ Newest'
          /\ \A x \in Subjects, k \in (now - Nearest)..MaxTime :
                /\ x # s => Held(x, k)' = Held(x, k)
                /\ x = s => Held(x, k)' = Held(x, k) + (IF stamp > k THEN 1 ELSE 0)
      BY <1>0, <1>1, <2>1, <2>2, <2>3, Appended
    <2>5. ASSUME NEW x PROVE Guessing(x)' = Guessing(x) \ {t}
      <3>1. NoLogin.step = "idle"
        BY DEF NoLogin
      <3>2. QED BY <1>0, <2>2, <3>1, GuessingMoves
    <2>6. ASSUME NEW x \in Subjects, x # s PROVE WrongStamped(x)' /\ GuessesLeft(x)'
      <3>1. t \notin Guessing(x)
        BY <2>1, <2>6 DEF Guessing
      <3>2. Guessing(x)' = Guessing(x)
        BY <2>5, <3>1
      <3>3. wrong'[x] = wrong[x]
        BY <1>0, <2>2, <2>6 DEF TypeOK
      <3>4. ASSUME NEW k \in (now - Nearest)..MaxTime PROVE Held(x, k)' >= Held(x, k)
        <4>1. Held(x, k) \in Nat
          BY <1>0, CountTypes
        <4>2. QED BY <2>4, <2>6, <4>1
      <3>5. QED BY <1>0, <1>1, <2>0, <2>3, <3>2, <3>3, <3>4, SubjectKept
    <2>7. ASSUME NEW k \in Int PROVE Tried(s, k)' = Tried(s, k) + (IF stamp > k THEN 1 ELSE 0)
      <3>1. wrong'[s] = Append(wrong[s], stamp) /\ wrong[s] \in Seq(Clock)
        BY <1>0, <2>2 DEF TypeOK, Clock
      <3>2. Only(Append(wrong[s], stamp), Newer(k)) =
               IF stamp \in Newer(k) THEN Append(Only(wrong[s], Newer(k)), stamp)
               ELSE Only(wrong[s], Newer(k))
        BY <3>1, OnlyAppend
      <3>3. stamp \in Newer(k) <=> stamp > k
        BY <1>0 DEF Newer, Clock
      <3>4. /\ Only(wrong[s], Newer(k)) \in Seq(Clock) /\ Len(Only(wrong[s], Newer(k))) \in Nat
        BY <3>1, OnlyType
      <3>5. Len(Append(Only(wrong[s], Newer(k)), stamp)) = Len(Only(wrong[s], Newer(k))) + 1
        BY <3>4, AppendProperties
      <3>6. Tried(s, k)' = Len(Only(Append(wrong[s], stamp), Newer(k)))
        BY <3>1 DEF Tried, Newer
      <3>7. Tried(s, k) = Len(Only(wrong[s], Newer(k)))
        BY DEF Tried
      <3>8. QED BY <3>2, <3>3, <3>4, <3>5, <3>6, <3>7
    <2>8. WrongStamped(s)'
      <3>1. ASSUME NEW k \in (now - Nearest)..MaxTime PROVE Tried(s, k)' <= Held(s, k)'
        <4>1. k \in Int
          BY <1>0, <3>1, Numbers
        <4>2. Tried(s, k) <= Held(s, k) /\ Tried(s, k) \in Nat /\ Held(s, k) \in Nat
          BY <1>0, <1>1, <2>3, CountTypes DEF WrongStamped
        <4>3. /\ Tried(s, k)' = Tried(s, k) + (IF stamp > k THEN 1 ELSE 0)
              /\ Held(s, k)' = Held(s, k) + (IF stamp > k THEN 1 ELSE 0)
          BY <2>4, <2>7, <4>1
        <4>4. QED BY <4>2, <4>3
      <3>2. QED BY <2>0, <3>1 DEF WrongStamped, Nearest
    <2>9. GuessesLeft(s)'
      <3>1. PICK k \in Int : k = now - Nearest
        BY <1>0, Numbers
      <3>2. /\ Tried(s, k) + Cardinality(Guessing(s)) <= Widest + Cardinality(Threads) - 1
            /\ Tried(s, k) \in Nat
        BY <1>0, <1>1, <2>3, <3>1, CountTypes DEF GuessesLeft
      <3>3. Tried(s, k)' = Tried(s, k) \/ Tried(s, k)' = Tried(s, k) + 1
        BY <2>7, <3>2
      <3>4. t \in Guessing(s) /\ IsFiniteSet(Guessing(s)) /\ Cardinality(Guessing(s)) \in Nat
        BY <2>0, <2>1, GuessingIs DEF Guessing
      <3>5. Cardinality(Guessing(s) \ {t}) = Cardinality(Guessing(s)) - 1
        BY <3>4, FS_RemoveElement
      <3>6. Cardinality(Guessing(s)') = Cardinality(Guessing(s)) - 1
        BY <2>5, <3>5
      <3>7. Tried(s, k)' + Cardinality(Guessing(s)') <= Widest + Cardinality(Threads) - 1
        BY <3>2, <3>3, <3>4, <3>6, Numbers
      <3>8. Tried(s, now - Nearest)' = Tried(s, k)'
        BY <2>0, <3>1 DEF Tried, Newer, Nearest
      <3>9. QED BY <3>7, <3>8 DEF GuessesLeft, Widest
    <2>10. QED BY <2>4, <2>6, <2>8, <2>9
  <1>8. ASSUME NEW S, ~late, now' = now, failures' = Drop(S),
               \A s \in Subjects \cap S : wrong'[s] = <<>>,
               \A s \in Subjects \ S : wrong'[s] = wrong[s] /\ Guessing(s)' = Guessing(s)
        PROVE  Newest' /\ Counted
    <2>1. Newest'
      BY <1>1, <1>8 DEF Drop
    <2>2. ASSUME NEW s \in Subjects \ S PROVE WrongStamped(s)' /\ GuessesLeft(s)'
      <3>1. Stamps(s)' = Stamps(s)
        BY <1>8, <2>2 DEF Drop, Stamps
      <3>2. ASSUME NEW k \in (now - Nearest)..MaxTime PROVE Held(s, k)' >= Held(s, k)
        <4>1. Held(s, k)' = Held(s, k)
          BY <3>1 DEF Held, Newer
        <4>2. Held(s, k) \in Nat
          BY <1>0, CountTypes
        <4>3. QED BY <4>1, <4>2
      <3>3. QED BY <1>0, <1>1, <1>8, <3>2, SubjectKept
    <2>3. ASSUME NEW s \in Subjects \cap S PROVE WrongStamped(s)' /\ GuessesLeft(s)'
      BY <1>0, <1>8, SubjectCleared
    <2>4. QED BY <2>1, <2>2, <2>3
  <1>9. ASSUME NEW t \in Threads, clear(t) PROVE Newest' /\ Counted
    <2>1. PICK s : s = login[t].subject
      OBVIOUS
    <2>2. /\ login[t].step = "verify" /\ failures' = Drop({s}) /\ wrong' = [wrong EXCEPT ![s] = <<>>]
          /\ login' = [login EXCEPT ![t] = NoLogin] /\ now' = now /\ late' = late
      BY <1>9, <2>1 DEF clear
    <2>3. ASSUME NEW x \in Subjects \ {s} PROVE wrong'[x] = wrong[x] /\ Guessing(x)' = Guessing(x)
      <3>1. NoLogin.step = "idle" /\ t \notin Guessing(x)
        BY <2>1, <2>3 DEF NoLogin, Guessing
      <3>2. Guessing(x)' = Guessing(x) \ {t}
        BY <1>0, <2>2, <3>1, GuessingMoves
      <3>3. wrong'[x] = wrong[x]
        BY <1>0, <2>2, <2>3 DEF TypeOK
      <3>4. QED BY <3>1, <3>2, <3>3
    <2>4. \A x \in Subjects \cap {s} : wrong'[x] = <<>>
      BY <1>0, <2>2 DEF TypeOK
    <2>5. QED BY <1>8, <2>2, <2>3, <2>4
  <1>10. ASSUME NEW e \in Emails, clear_email(e) PROVE Newest' /\ Counted
    <2>1. PICK S : S = {s \in Subjects : s[2] = e}
      OBVIOUS
    <2>2. /\ failures' = Drop(S) /\ wrong' = [s \in Subjects |-> IF s \in S THEN <<>> ELSE wrong[s]]
          /\ UNCHANGED <<login, now, late>>
      BY <1>10, <2>1 DEF clear_email
    <2>3. \A x \in Subjects \ S : wrong'[x] = wrong[x] /\ Guessing(x)' = Guessing(x)
      BY <2>2 DEF Guessing
    <2>4. \A x \in Subjects \cap S : wrong'[x] = <<>>
      BY <2>2
    <2>5. QED BY <1>8, <2>2, <2>3, <2>4
  <1>11. ASSUME NEW a \in Admins,
                \/ \E set \in (SUBSET {"limit", "window"}) \ {{}},
                      p \in [limit : LoginLimits \cup {0}, window : LoginWindows] : ReadPolicy(a, set, p)
                \/ upsert_policy(a) \/ PushPolicy(a)
         PROVE  Newest' /\ Counted
    <2>1. UNCHANGED <<now, failures, login, wrong, late>>
      BY <1>11 DEF ReadPolicy, upsert_policy, PushPolicy
    <2>2. \A s \in Subjects : Guessing(s)' = Guessing(s)
      BY <2>1 DEF Guessing
    <2>3. QED BY <1>3, <2>1, <2>2
  <1>12. ASSUME Restart PROVE Newest' /\ Counted
    <2>1. DOMAIN failures' = {} /\ \A s \in Subjects : wrong'[s] = <<>>
      BY <1>12 DEF Restart
    <2>2. QED BY <1>0, <2>1, SubjectCleared
  <1>13. ASSUME Tick PROVE Newest' /\ Counted
    <2>1. now' = now + 1 /\ UNCHANGED <<failures, login, wrong, late>>
      BY <1>13 DEF Tick
    <2>2. ASSUME NEW s \in Subjects PROVE WrongStamped(s)' /\ GuessesLeft(s)'
      <3>1. /\ \A k : Tried(s, k)' = Tried(s, k) /\ Held(s, k)' = Held(s, k)
            /\ Guessing(s)' = Guessing(s)
        BY <2>1 DEF Tried, Held, Stamps, Newer, Guessing
      <3>2. Nearest \in Nat /\ Widest \in Nat /\ Cardinality(Threads) \in Nat
        BY Numbers
      <3>3. \A k \in (now + 1 - Nearest)..MaxTime : k \in (now - Nearest)..MaxTime
        <4>1. ASSUME NEW k \in (now + 1 - Nearest)..MaxTime PROVE k \in (now - Nearest)..MaxTime
          <5>1. k \in Int /\ now + 1 - Nearest <= k /\ k <= MaxTime /\ now - Nearest \in Int
            BY <1>0, <3>2, <4>1
          <5>2. now - Nearest <= k
            BY <1>0, <3>2, <5>1
          <5>3. QED BY <5>1, <5>2
        <4>2. QED BY <4>1
      <3>4. \A k \in (now + 1 - Nearest)..MaxTime : Tried(s, k) <= Held(s, k)
        BY <1>1, <2>1, <3>3 DEF WrongStamped
      <3>5. WrongStamped(s)'
        <4>1. ASSUME NEW k \in (now' - Nearest)..MaxTime PROVE Tried(s, k)' <= Held(s, k)'
          <5>1. k \in (now + 1 - Nearest)..MaxTime
            BY <1>0, <2>1, <3>2
          <5>2. Tried(s, k) <= Held(s, k)
            BY <3>4, <5>1
          <5>3. QED BY <3>1, <5>2
        <4>2. QED BY <4>1 DEF WrongStamped, Nearest
      <3>6. PICK k \in Int, l \in Int : k = now - Nearest /\ l = now + 1 - Nearest
        BY <1>0, <3>2
      <3>7. Newer(l) \in SUBSET Newer(k)
        BY <1>0, <3>2, <3>6 DEF Newer
      <3>8. Tried(s, l) <= Tried(s, k) /\ Tried(s, k) \in Nat /\ Tried(s, l) \in Nat
        <4>1. wrong[s] \in Seq(Clock)
          BY <1>0 DEF TypeOK, Clock
        <4>2. QED BY <1>0, <3>7, <4>1, OnlyLength, CountTypes DEF Tried
      <3>9. Tried(s, k) + Cardinality(Guessing(s)) <= Widest + Cardinality(Threads) - 1
        BY <1>1, <2>1, <3>6 DEF GuessesLeft
      <3>10. Cardinality(Guessing(s)) \in Nat
        BY GuessingIs
      <3>11. Tried(s, l) + Cardinality(Guessing(s)) <= Widest + Cardinality(Threads) - 1
        BY <3>2, <3>8, <3>9, <3>10
      <3>12. Tried(s, now - Nearest)' = Tried(s, l)
        <4>1. now' - Nearest = l
          BY <1>0, <2>1, <3>2, <3>6
        <4>2. Tried(s, now - Nearest)' = Len(Only(wrong'[s], Newer(now' - Nearest)))
          BY DEF Tried, Newer, Nearest
        <4>3. QED BY <2>1, <4>1, <4>2 DEF Tried
      <3>13. GuessesLeft(s)'
        BY <3>1, <3>11, <3>12 DEF GuessesLeft, Widest
      <3>14. QED BY <3>5, <3>13
    <2>3. QED BY <1>1, <2>1, <2>2
  <1>14. QED
    BY <1>4, <1>5, <1>6, <1>7, <1>9, <1>10, <1>11, <1>12, <1>13 DEF Next

\* While stamps arrive in order, the failures in the map cover every wrong password of the
\* shortest window, and those made plus those under way stay within the bound (refused,
\* record_failure, _sweep).
THEOREM GuessInvariant == Spec => []GuessInv
  <1>1. Init => GuessInv
    <2> SUFFICES ASSUME Init PROVE GuessInv
      OBVIOUS
    <2>1. /\ DOMAIN failures = {} /\ \A s \in Subjects : wrong[s] = <<>> /\ Stamps(s) = <<>>
          /\ \A s \in Subjects : Guessing(s) = {}
      BY DEF Init, Stamps, Guessing, NoLogin
    <2>2. Len(<<>>) = 0 /\ \A k : Only(<<>>, Newer(k)) = <<>>
      BY EmptySeq, OnlyEmpty
    <2>3. \A s \in Subjects : \A k : Tried(s, k) = 0 /\ Held(s, k) = 0
      BY <2>1, <2>2 DEF Tried, Held
    <2>4. \A s \in Subjects : WrongStamped(s)
      BY <2>3 DEF WrongStamped
    <2>5. Cardinality({}) = 0 /\ 0 + 0 <= Widest + Cardinality(Threads) - 1
      BY Numbers, FS_EmptySet
    <2>6. \A s \in Subjects : GuessesLeft(s)
      BY <2>1, <2>3, <2>5 DEF GuessesLeft
    <2>7. QED BY <2>1, <2>4, <2>6 DEF GuessInv
  <1>2. PolicyInv /\ PolicyInv' /\ GuessInv /\ [Next]_vars => GuessInv'
    <2>1. ASSUME PolicyInv, PolicyInv', GuessInv, Next PROVE GuessInv'
      BY <2>1, GuessStep DEF GuessInv
    <2>2. ASSUME GuessInv, UNCHANGED vars PROVE GuessInv'
      BY <2>2 DEF GuessInv, vars, WrongStamped, GuessesLeft, Tried, Held, Stamps, Guessing,
                  Newer, Nearest, Widest, LastNewest
    <2>3. QED BY <2>1, <2>2
  <1>3. QED BY <1>1, <1>2, PolicyInvariant, PTL DEF Spec

\* Within the shortest window a subject gets at most the largest limit of wrong passwords
\* and one more per parallel login, across policy edits, sweeps and clearing (login,
\* LoginBackoff), for any number of threads, subjects and policies.
THEOREM GuessesAreBounded == Spec => []GuessesBounded
  <1>1. PolicyInv /\ GuessInv => GuessesBounded
    <2> SUFFICES ASSUME PolicyInv, GuessInv, ~late, NEW s \in Subjects
                 PROVE  Cardinality({i \in 1..Len(wrong[s]) : wrong[s][i] > now - Min(LoginWindows)})
                           <= Max(LoginLimits) + Cardinality(Threads) - 1
      BY DEF GuessesBounded
    <2>1. PICK k \in Int : k = now - Nearest
      BY Numbers DEF PolicyInv, TypeOK
    <2>2. wrong[s] \in Seq(Clock) /\ MaxTime \in Nat /\ TypeOK
      BY Constants DEF PolicyInv, TypeOK, Clock
    <2>3. \A i \in 1..Len(wrong[s]) : wrong[s][i] \in Newer(k) <=> wrong[s][i] > k
      BY <2>2, ElementOfSeq DEF Newer, Clock
    <2>4. {i \in 1..Len(wrong[s]) : wrong[s][i] > k} = {i \in 1..Len(wrong[s]) : wrong[s][i] \in Newer(k)}
      BY <2>3
    <2>5. Cardinality({i \in 1..Len(wrong[s]) : wrong[s][i] > k}) = Tried(s, k)
      BY <2>2, <2>4, OnlyCounts DEF Tried
    <2>6. Tried(s, k) + Cardinality(Guessing(s)) <= Widest + Cardinality(Threads) - 1
      BY <2>1 DEF GuessInv, GuessesLeft
    <2>7. Tried(s, k) \in Nat /\ Cardinality(Guessing(s)) \in Nat
      BY <2>2, CountTypes, GuessingIs
    <2>8. Tried(s, k) <= Widest + Cardinality(Threads) - 1
      BY <2>6, <2>7, Numbers
    <2>9. QED BY <2>1, <2>5, <2>8 DEF Widest, Nearest
  <1>2. QED BY <1>1, PolicyInvariant, GuessInvariant, PTL

-----------------------------------------------------------------------------
(* PART TWO: Accounts. *)

LEMMA BlankTyped == Blank \in Locals
  BY AccountsAssumption DEF Blank, Locals, OPS, ROLES

(* The two kinds of step: those that leave the users alone, and the edits. *)

Quiet(r) ==
  \/ Refused(r) \/ SetupBegin(r) \/ SetupClosed(r) \/ SetupOpen(r)
  \/ \E u \in Users, s \in Sessions \cup {NoSession} : LoginRead(r, u, s)
  \/ LoginPrevious(r)
  \/ \E s \in Sessions, o \in OPS : Gate(r, s, o)
  \/ \E u \in Users, b \in Offered : Fetch(r, u, b)
  \/ GuardRole(r) \/ GuardDisable(r)

Inserts(r) ==
  \/ \E u \in Users : SetupInsert(r, u)
  \/ \E u \in Users, ro \in ROLES : CreateUser(r, u, ro)

Ends(r) == revoke_all_sessions(r) \/ revoke_session(r) \/ ChangePassword(r)

LEMMA NextKinds ==
  ASSUME AccountsNext
  PROVE  \/ \E r \in Requests :
              \/ Quiet(r) \/ Inserts(r) \/ Ends(r)
              \/ \E s \in Sessions : LoginIssue(r, s)
              \/ apply_user_update(r) \/ delete_user(r)
         \/ \E s \in Sessions : Expire(s)
  BY DEF AccountsNext, Quiet, Inserts, Ends

-----------------------------------------------------------------------------
(* Type correctness. *)

LEMMA QuietTypes ==
  ASSUME AccountsTypeOK, NEW r \in Requests, Quiet(r)
  PROVE  AccountsTypeOK'
  <1>1. UNCHANGED <<users, sessions>> /\ writeBy' \subseteq Requests /\ calls' \in Nat
    <2>1. UNCHANGED <<users, sessions>>
      BY DEF Quiet, Refused, SetupBegin, SetupClosed, SetupOpen, LoginRead,
             LoginPrevious, Gate, Fetch, GuardRole, GuardDisable
    <2>2. writeBy' \in {writeBy, {}, {r}}
      BY DEF Quiet, Refused, SetupBegin, SetupClosed, SetupOpen, LoginRead,
             LoginPrevious, Gate, Fetch, GuardRole, GuardDisable,
             SetupLock
    <2>3. calls' \in {calls, calls + 1}
      BY DEF Quiet, Refused, SetupBegin, SetupClosed, SetupOpen, LoginRead,
             LoginPrevious, Gate, Fetch, GuardRole, GuardDisable, Serve
    <2>4. QED BY <2>1, <2>2, <2>3 DEF AccountsTypeOK
  <1>2. pc' \in [Requests -> Places]
    BY DEF Quiet, Refused, SetupBegin, SetupClosed, SetupOpen, LoginRead,
           LoginPrevious, Gate, Fetch, GuardRole, GuardDisable, Serve,
           Done, Go, AccountsTypeOK, Places
  <1>3. crossed' \in [Requests -> SUBSET Users]
    BY DEF Quiet, Refused, SetupBegin, SetupClosed, SetupOpen, LoginRead,
           LoginPrevious, Gate, Fetch, GuardRole, GuardDisable, AccountsTypeOK
  <1>4. req' \in [Requests -> Locals]
    <2>1. CASE Refused(r) \/ SetupClosed(r)
      BY <2>1, BlankTyped DEF Refused, SetupClosed, Done, Locally, AccountsTypeOK
    <2>2. CASE SetupBegin(r) \/ SetupOpen(r) \/ GuardRole(r) \/ GuardDisable(r)
      BY <2>2 DEF SetupBegin, SetupOpen, GuardRole, GuardDisable, AccountsTypeOK
    <2>3. CASE \E q \in Locals : Locally(r, q)
      BY <2>3 DEF Locally, AccountsTypeOK
    <2>4. ASSUME NEW u \in Users, NEW s \in Sessions \cup {NoSession}, LoginRead(r, u, s)
          PROVE  \E q \in Locals : Locally(r, q)
      BY <2>4, ZenonT(60) DEF LoginRead, AccountsTypeOK, Locals
    <2>5. ASSUME LoginPrevious(r) PROVE \E q \in Locals : Locally(r, q)
      <3>1. PICK s \in Sessions \cup {NoSession} : Locally(r, [req[r] EXCEPT !.session = s])
        BY <2>5 DEF LoginPrevious, AccountsTypeOK, Locals
      <3>2. QED BY <3>1 DEF AccountsTypeOK, Locals
    <2>6. ASSUME NEW s \in Sessions, NEW o \in OPS, Gate(r, s, o)
          PROVE  \E q \in Locals : Locally(r, q)
      BY <2>6, ZenonT(60) DEF Gate, AccountsTypeOK, Locals
    <2>7. ASSUME NEW u \in Users, NEW b \in Offered, Fetch(r, u, b)
          PROVE  \E q \in Locals : Locally(r, q)
      BY <2>7, AccountsAssumption, ZenonT(60) DEF Fetch, Exists, AccountsTypeOK, Locals
    <2>8. QED BY <2>1, <2>2, <2>3, <2>4, <2>5, <2>6, <2>7 DEF Quiet
  <1>5. QED BY <1>1, <1>2, <1>3, <1>4 DEF AccountsTypeOK, users, sessions

LEMMA DoneTypes ==
  ASSUME AccountsTypeOK, NEW r \in Requests, Done(r)
  PROVE  pc' \in [Requests -> Places] /\ req' \in [Requests -> Locals]
  BY BlankTyped DEF Done, Go, Locally, AccountsTypeOK, Places

LEMMA CrossTypes ==
  ASSUME AccountsTypeOK, NEW r \in Requests, Crosses(r)
  PROVE  crossed' \in [Requests -> SUBSET Users]
  <1>1. PICK changed : changed = {u \in Users : role'[u] # role[u] \/ disabled'[u] # disabled[u]}
    OBVIOUS
  <1>2. crossed' = [q \in Requests |-> IF q # r /\ Reading(q) THEN crossed[q] \cup changed ELSE {}]
    BY <1>1 DEF Crosses
  <1>3. QED BY <1>1, <1>2 DEF AccountsTypeOK

LEMMA RevokeTypes ==
  ASSUME AccountsTypeOK, NEW S, Revoke(S)
  PROVE  state' \in [Sessions -> {"new", "live", "revoked", "expired", "gone"}]
  BY DEF Revoke, AccountsTypeOK

LEMMA StepTypes == AccountsTypeOK /\ [AccountsNext]_accountsVars => AccountsTypeOK'
  <1> SUFFICES ASSUME AccountsTypeOK, [AccountsNext]_accountsVars PROVE AccountsTypeOK'
    OBVIOUS
  <1>1. ASSUME NEW r \in Requests, Inserts(r) PROVE AccountsTypeOK'
    <2>1. Done(r) /\ UNCHANGED <<sessions, calls, crossed>> /\ writeBy' \subseteq Requests
      BY <1>1 DEF Inserts, SetupInsert, CreateUser, Writes, AccountsTypeOK
    <2>2. PICK u \in Users, ro \in ROLES, mu \in BOOLEAN : insert_user(u, ro, mu)
      BY <1>1 DEF Inserts, SetupInsert, CreateUser, ROLES
    <2>3. /\ role' \in [Users -> ROLES \cup {"new", "gone"}]
          /\ disabled' \in [Users -> BOOLEAN] /\ must' \in [Users -> BOOLEAN]
      BY <2>2 DEF insert_user, AccountsTypeOK
    <2>4. QED BY <2>1, <2>3, DoneTypes DEF AccountsTypeOK, sessions
  <1>2. ASSUME NEW r \in Requests, Ends(r) PROVE AccountsTypeOK'
    <2>1. Done(r) /\ UNCHANGED <<role, disabled, holder, writeBy, calls, crossed>> /\ \E S : Revoke(S)
      BY <1>2 DEF Ends, revoke_all_sessions, revoke_session, ChangePassword,
                  Writes, users
    <2>2. must' \in [Users -> BOOLEAN]
      BY <1>2 DEF Ends, revoke_all_sessions, revoke_session, ChangePassword,
                  users, AccountsTypeOK
    <2>3. QED BY <2>1, <2>2, DoneTypes, RevokeTypes DEF AccountsTypeOK
  <1>3. ASSUME NEW r \in Requests, NEW s \in Sessions, LoginIssue(r, s) PROVE AccountsTypeOK'
    <2>1. /\ state' \in [Sessions -> {"new", "live", "revoked", "expired", "gone"}]
          /\ holder' \in [Sessions -> Users \cup {Nobody}]
      BY <1>3 DEF LoginIssue, AccountsTypeOK, Locals
    <2>2. QED BY <1>3, <2>1, DoneTypes DEF LoginIssue, AccountsTypeOK, users
  <1>4. ASSUME NEW r \in Requests, apply_user_update(r) PROVE AccountsTypeOK'
    <2>1. req[r].patch \in Bodies
      BY DEF AccountsTypeOK, Locals
    <2>2. role' \in [Users -> ROLES \cup {"new", "gone"}]
      BY <1>4, <2>1 DEF apply_user_update, AccountsTypeOK, Bodies
    <2>3. disabled' \in [Users -> BOOLEAN] /\ must' \in [Users -> BOOLEAN]
      BY <1>4 DEF apply_user_update, Flag, AccountsTypeOK
    <2>4. Done(r) /\ UNCHANGED <<writeBy, calls, holder>> /\ Crosses(r) /\ \E S : Revoke(S)
      BY <1>4 DEF apply_user_update, Writes
    <2>5. QED BY <2>2, <2>3, <2>4, DoneTypes, RevokeTypes, CrossTypes DEF AccountsTypeOK
  <1>5. ASSUME NEW r \in Requests, delete_user(r) PROVE AccountsTypeOK'
    <2>1. /\ role' \in [Users -> ROLES \cup {"new", "gone"}]
          /\ state' \in [Sessions -> {"new", "live", "revoked", "expired", "gone"}]
      BY <1>5 DEF delete_user, Cascade, AccountsTypeOK
    <2>2. QED BY <1>5, <2>1, DoneTypes, CrossTypes DEF delete_user, Writes, AccountsTypeOK
  <1>6. ASSUME NEW s \in Sessions, Expire(s) PROVE AccountsTypeOK'
    BY <1>6 DEF Expire, users, AccountsTypeOK
  <1>7. CASE UNCHANGED accountsVars
    BY <1>7 DEF accountsVars, users, sessions, AccountsTypeOK
  <1>8. QED BY <1>1, <1>2, <1>3, <1>4, <1>5, <1>6, <1>7, QuietTypes, NextKinds

LEMMA InitTypes == AccountsInit => AccountsTypeOK
  BY BlankTyped DEF AccountsInit, AccountsTypeOK, Places

\* Type correctness of the two tables and of every handler's variables.
THEOREM TypeCorrect == AccountsSpec => []AccountsTypeOK
  <1>1. QED BY InitTypes, StepTypes, PTL DEF AccountsSpec

-----------------------------------------------------------------------------
(* Where a request is says what its handler has read. *)

Editing(r) == pc[r] = "write" /\ req[r].op \in {"patch", "delete"}
Fetched(r) == pc[r] \in {"guardrole", "guarddisable"} \/ Editing(r)
Waiting(r) == pc[r] \in {"idle", "setup", "setupinsert"}

PlaceInv ==
  \A r \in Requests :
    /\ pc[r] \in {"previous", "issue"} \/ Fetched(r) => req[r].target \in Users
    /\ pc[r] = "fetch" \/ Fetched(r) => req[r].op \in {"patch", "delete"}

\* A handler touches only its own variables.
Alone(r) == \A q \in Requests \ {r} : pc'[q] = pc[q] /\ req'[q] = req[q]

LEMMA StepAlone ==
  ASSUME AccountsTypeOK, NEW r \in Requests,
         \/ Quiet(r) \/ Inserts(r) \/ Ends(r)
         \/ \E s \in Sessions : LoginIssue(r, s)
         \/ apply_user_update(r) \/ delete_user(r)
  PROVE  Alone(r)
  <1>1. pc \in [Requests -> Places] /\ req \in [Requests -> Locals]
    BY DEF AccountsTypeOK
  <1>2. /\ \E x : Go(r, x)
        /\ req' = req \/ \E x : Locally(r, x)
    BY DEF Quiet, Refused, SetupBegin, SetupClosed, SetupOpen, LoginRead,
           LoginPrevious, Gate, Fetch, GuardRole, GuardDisable, Inserts,
           SetupInsert, CreateUser, Ends, revoke_all_sessions, revoke_session,
           ChangePassword, LoginIssue, apply_user_update, delete_user,
           Writes, Done
  <1>3. QED BY <1>1, <1>2 DEF Alone, Go, Locally

\* A request that ends holds nothing.
LEMMA EndsIdle ==
  ASSUME AccountsTypeOK, NEW r \in Requests,
         \/ Inserts(r) \/ Ends(r) \/ \E s \in Sessions : LoginIssue(r, s)
         \/ apply_user_update(r) \/ delete_user(r)
  PROVE  pc'[r] = "idle"
  BY DEF Inserts, SetupInsert, CreateUser, Ends, revoke_all_sessions,
         revoke_session, ChangePassword, LoginIssue, apply_user_update,
         delete_user, Writes, Done, Go, AccountsTypeOK

LEMMA PlaceStep == AccountsTypeOK /\ PlaceInv /\ [AccountsNext]_accountsVars => PlaceInv'
  <1> SUFFICES ASSUME AccountsTypeOK, PlaceInv, [AccountsNext]_accountsVars PROVE PlaceInv'
    OBVIOUS
  <1> DEFINE P(r) ==
        /\ pc[r] \in {"previous", "issue"} \/ Fetched(r) => req[r].target \in Users
        /\ pc[r] = "fetch" \/ Fetched(r) => req[r].op \in {"patch", "delete"}
  <1>1. ASSUME NEW r \in Requests, Alone(r), P(r)' PROVE PlaceInv'
    <2>1. ASSUME NEW q \in Requests PROVE P(q)'
      <3>1. CASE q = r
        BY <1>1, <3>1
      <3>2. CASE q # r
        BY <1>1, <3>2 DEF Alone, PlaceInv, Fetched, Editing
      <3>3. QED BY <3>1, <3>2
    <2>2. QED BY <2>1 DEF PlaceInv
  <1>2. ASSUME NEW r \in Requests, pc'[r] = "idle" PROVE P(r)'
    BY <1>2 DEF Fetched, Editing
  <1>3. ASSUME NEW r \in Requests, Quiet(r) PROVE P(r)'
    <2>1. pc \in [Requests -> Places] /\ req \in [Requests -> Locals]
      BY DEF AccountsTypeOK
    <2>2. CASE Refused(r) \/ SetupClosed(r)
      BY <1>2, <2>1, <2>2 DEF Refused, SetupClosed, Done, Go
    <2>3. CASE SetupBegin(r) \/ SetupOpen(r)
      BY <2>1, <2>3 DEF SetupBegin, SetupOpen, Go, Fetched, Editing
    <2>4. CASE \E u \in Users, s \in Sessions \cup {NoSession} : LoginRead(r, u, s)
      BY <2>1, <2>4 DEF LoginRead, Go, Locally, Fetched, Editing, Locals
    <2>5. CASE LoginPrevious(r)
      BY <2>1, <2>5 DEF LoginPrevious, Go, Locally, Fetched, Editing, PlaceInv,
                        Locals
    <2>6. CASE \E s \in Sessions, o \in OPS : Gate(r, s, o)
      BY <2>1, <2>6 DEF Gate, Go, Locally, Fetched, Editing, Locals
    <2>7. CASE \E u \in Users, b \in Offered : Fetch(r, u, b)
      BY <2>1, <2>7 DEF Fetch, Go, Locally, Fetched, Editing, PlaceInv, Locals
    <2>8. CASE GuardRole(r) \/ GuardDisable(r)
      BY <2>1, <2>8 DEF GuardRole, GuardDisable, Go, Fetched, Editing, PlaceInv
    <2>9. QED BY <1>3, <2>2, <2>3, <2>4, <2>5, <2>6, <2>7, <2>8 DEF Quiet
  <1>4. CASE (\E s \in Sessions : Expire(s)) \/ UNCHANGED accountsVars
    BY <1>4 DEF Expire, accountsVars, PlaceInv, Fetched, Editing
  <1> HIDE DEF P
  <1>5. QED BY <1>1, <1>2, <1>3, <1>4, StepAlone, EndsIdle, NextKinds

LEMMA PlaceInit == AccountsInit => PlaceInv
  BY DEF AccountsInit, PlaceInv, Fetched, Editing

LEMMA PlaceAlways == AccountsSpec => [](AccountsTypeOK /\ PlaceInv)
  <1>1. QED BY InitTypes, StepTypes, PlaceInit, PlaceStep, PTL DEF AccountsSpec

-----------------------------------------------------------------------------
(* First-run setup. *)

SetupInv ==
  \A r \in Requests :
    /\ pc[r] \in {"setup", "setupinsert"} => writeBy = {r}
    /\ pc[r] = "setupinsert" => \A u \in Users : ~Exists(u)

LEMMA SetupStep == AccountsTypeOK /\ PlaceInv /\ SetupInv /\ [AccountsNext]_accountsVars => SetupInv'
  <1> SUFFICES ASSUME AccountsTypeOK, PlaceInv, SetupInv, [AccountsNext]_accountsVars PROVE SetupInv'
    OBVIOUS
  <1>1. pc \in [Requests -> Places]
    BY DEF AccountsTypeOK
  \* With the write lock taken nobody else writes.
  <1>2. ASSUME Free, \A q \in Requests : pc'[q] \notin {"setup", "setupinsert"} PROVE SetupInv'
    BY <1>2 DEF SetupInv
  <1>3. ASSUME Free, NEW r \in Requests, Alone(r), pc'[r] = "idle" PROVE SetupInv'
    <2>1. \A q \in Requests : pc'[q] \notin {"setup", "setupinsert"}
      BY <1>3 DEF Alone, SetupInv, Free
    <2>2. QED BY <1>2, <1>3, <2>1
  <1>4. ASSUME NEW r \in Requests,
               \/ Ends(r) \/ (\E s \in Sessions : LoginIssue(r, s))
               \/ apply_user_update(r) \/ delete_user(r)
               \/ \E u \in Users, ro \in ROLES : CreateUser(r, u, ro)
        PROVE  SetupInv'
    <2>1. Free
      BY <1>4 DEF Ends, revoke_all_sessions, revoke_session, ChangePassword,
                  LoginIssue, apply_user_update, delete_user, CreateUser,
                  Writes
    <2>2. Alone(r) /\ pc'[r] = "idle"
      BY <1>4, StepAlone, EndsIdle DEF Inserts
    <2>3. QED BY <1>3, <2>1, <2>2
  <1>5. ASSUME NEW r \in Requests, \E u \in Users : SetupInsert(r, u) PROVE SetupInv'
    <2>1. pc[r] = "setupinsert" /\ Alone(r) /\ pc'[r] = "idle"
      BY <1>5, StepAlone, EndsIdle DEF Inserts, SetupInsert
    <2>2. \A q \in Requests : pc'[q] \notin {"setup", "setupinsert"}
      BY <2>1 DEF Alone, SetupInv
    <2>3. QED BY <2>2 DEF SetupInv
  <1>6. ASSUME NEW r \in Requests, Quiet(r) PROVE SetupInv'
    <2>1. Alone(r) /\ UNCHANGED role
      BY <1>6, StepAlone DEF Quiet, Refused, SetupBegin, SetupClosed, SetupOpen,
                             LoginRead, LoginPrevious, Gate, Fetch,
                             GuardRole, GuardDisable, users
    <2>2. CASE SetupBegin(r)
      <3>1. Free /\ writeBy' = {r} /\ pc'[r] = "setup"
        BY <1>1, <2>2 DEF SetupBegin, SetupLock, Go
      <3>2. QED BY <2>1, <3>1 DEF Alone, SetupInv, Free
    <2>3. CASE SetupClosed(r)
      <3>1. pc[r] = "setup" /\ pc'[r] = "idle"
        BY <1>1, <2>3 DEF SetupClosed, Done, Go
      <3>2. \A q \in Requests : pc'[q] \notin {"setup", "setupinsert"}
        BY <2>1, <3>1 DEF Alone, SetupInv
      <3>3. QED BY <3>2 DEF SetupInv
    <2>4. CASE SetupOpen(r)
      <3>1. /\ pc[r] = "setup" /\ pc'[r] = "setupinsert" /\ writeBy' = writeBy
            /\ \A u \in Users : ~Exists(u)
        BY <1>1, <2>4 DEF SetupOpen, Go
      <3>2. QED BY <2>1, <3>1 DEF Alone, SetupInv, Exists
    <2>5. CASE ~(SetupBegin(r) \/ SetupClosed(r) \/ SetupOpen(r))
      <3>1. writeBy' = writeBy /\ pc'[r] \notin {"setup", "setupinsert"}
        BY <1>1, <1>6, <2>5 DEF Quiet, Refused, LoginRead, LoginPrevious, Gate,
                                Fetch, GuardRole, GuardDisable, Done, Go
      <3>2. QED BY <2>1, <3>1 DEF Alone, SetupInv, Exists
    <2>6. QED BY <2>2, <2>3, <2>4, <2>5
  <1>7. CASE (\E s \in Sessions : Expire(s)) \/ UNCHANGED accountsVars
    BY <1>7 DEF Expire, accountsVars, users, SetupInv, Exists
  <1>8. QED BY <1>4, <1>5, <1>6, <1>7, NextKinds DEF Inserts

LEMMA SetupInit == AccountsInit => SetupInv
  BY DEF AccountsInit, SetupInv

\* setup() takes the write lock before it looks: of any number of concurrent first-run
\* setups only one ever inserts, and never beside an existing user.
THEOREM SetupSerialised == AccountsSpec => SetupOnce
  <1> DEFINE A == \A r \in Requests : pc[r] = "setupinsert" /\ pc'[r] = "idle"
                    => \A u \in Users : ~Exists(u)
  <1>1. SetupInv => A
    BY DEF SetupInv
  <1>2. QED BY <1>1, InitTypes, StepTypes, PlaceInit, PlaceStep, SetupInit, SetupStep, PTL
            DEF AccountsSpec, SetupOnce

-----------------------------------------------------------------------------
(* Sessions. *)

BelongInv == \A s \in Sessions : state[s] = "live" => holder[s] \in Users /\ Exists(holder[s])

\* What the users' side of a step may do: no row disappears, or only one whose sessions
\* are gone with it.
LEMMA InsertsKeep ==
  ASSUME AccountsTypeOK, NEW r \in Requests, Inserts(r)
  PROVE  UNCHANGED sessions /\ \A u \in Users : Exists(u) => Exists(u)' /\ role'[u] = role[u]
  <1>1. PICK u \in Users, ro \in ROLES, mu \in BOOLEAN : insert_user(u, ro, mu)
    BY DEF Inserts, SetupInsert, CreateUser, ROLES
  <1>2. UNCHANGED sessions
    BY DEF Inserts, SetupInsert, CreateUser
  <1>3. QED BY <1>1, <1>2 DEF insert_user, Exists, AccountsTypeOK, ROLES

LEMMA QuietKeeps ==
  ASSUME NEW r \in Requests, Quiet(r)
  PROVE  UNCHANGED <<users, sessions>>
  BY DEF Quiet, Refused, SetupBegin, SetupClosed, SetupOpen, LoginRead,
         LoginPrevious, Gate, Fetch, GuardRole, GuardDisable

LEMMA RevokeKeeps ==
  ASSUME AccountsTypeOK, NEW S, Revoke(S), NEW s \in Sessions, state'[s] = "live"
  PROVE  state[s] = "live" /\ s \notin S
  BY DEF Revoke, AccountsTypeOK

LEMMA BelongStep == AccountsTypeOK /\ PlaceInv /\ BelongInv /\ [AccountsNext]_accountsVars => BelongInv'
  <1> SUFFICES ASSUME AccountsTypeOK, PlaceInv, BelongInv, [AccountsNext]_accountsVars, NEW s \in Sessions, state'[s] = "live"
               PROVE  holder'[s] \in Users /\ Exists(holder[s])'
    BY DEF BelongInv
  <1>1. ASSUME NEW r \in Requests, Quiet(r) PROVE holder'[s] \in Users /\ Exists(holder[s])'
    BY <1>1, QuietKeeps DEF BelongInv, users, sessions, Exists
  <1>2. ASSUME NEW r \in Requests, Inserts(r) PROVE holder'[s] \in Users /\ Exists(holder[s])'
    BY <1>2, InsertsKeep DEF BelongInv, sessions, Exists
  <1>3. ASSUME NEW r \in Requests, Ends(r) PROVE holder'[s] \in Users /\ Exists(holder[s])'
    <2>1. UNCHANGED <<role, holder>> /\ \E S : Revoke(S)
      BY <1>3 DEF Ends, revoke_all_sessions, revoke_session, ChangePassword,
                  users
    <2>2. QED BY <2>1, RevokeKeeps DEF BelongInv, Exists
  <1>4. ASSUME NEW r \in Requests, NEW x \in Sessions, LoginIssue(r, x)
        PROVE  holder'[s] \in Users /\ Exists(holder[s])'
    <2>1. req[r].target \in Users /\ Exists(req[r].target) /\ UNCHANGED role
      BY <1>4 DEF LoginIssue, ForeignKey, PlaceInv, users
    <2>2. holder'[s] = IF s = x THEN req[r].target ELSE holder[s]
      BY <1>4 DEF LoginIssue, AccountsTypeOK
    <2>3. s = x \/ state[s] = "live"
      BY <1>4 DEF LoginIssue, AccountsTypeOK
    <2>4. QED BY <2>1, <2>2, <2>3 DEF BelongInv, Exists
  <1>5. ASSUME NEW r \in Requests, apply_user_update(r)
        PROVE  holder'[s] \in Users /\ Exists(holder[s])'
    <2>1. holder' = holder /\ \E S : Revoke(S)
      BY <1>5 DEF apply_user_update
    <2>2. req[r].patch \in Bodies
      BY DEF AccountsTypeOK, Locals
    <2>3. \A u \in Users : Exists(u) => Exists(u)'
      BY <1>5, <2>2 DEF apply_user_update, Exists, AccountsTypeOK, Bodies
    <2>4. QED BY <2>1, <2>3, RevokeKeeps DEF BelongInv, Exists
  <1>6. ASSUME NEW r \in Requests, delete_user(r)
        PROVE  holder'[s] \in Users /\ Exists(holder[s])'
    <2>1. holder' = holder
      BY <1>6 DEF delete_user
    <2>2. state[s] = "live" /\ (role' = role \/ holder[s] # req[r].target)
      BY <1>6 DEF delete_user, Cascade, Of, AccountsTypeOK
    <2>3. holder[s] \in Users /\ Exists(holder[s])
      BY <2>2 DEF BelongInv
    <2>4. role'[holder[s]] = role[holder[s]]
      BY <1>6, <2>2, <2>3 DEF delete_user, AccountsTypeOK
    <2>5. QED BY <2>1, <2>3, <2>4 DEF Exists
  <1>7. ASSUME NEW x \in Sessions, Expire(x) PROVE holder'[s] \in Users /\ Exists(holder[s])'
    BY <1>7 DEF Expire, users, BelongInv, Exists, AccountsTypeOK
  <1>8. CASE UNCHANGED accountsVars
    BY <1>8 DEF accountsVars, users, sessions, BelongInv, Exists
  <1>9. QED BY <1>1, <1>2, <1>3, <1>4, <1>5, <1>6, <1>7, <1>8, NextKinds

LEMMA BelongInit == AccountsInit => BelongInv
  BY DEF AccountsInit, BelongInv

\* No session outlives its user, whatever login, deletion and expiry interleave.
THEOREM NoOrphanSessions == AccountsSpec => []SessionsBelong
  <1>1. BelongInv => SessionsBelong
    BY DEF BelongInv, SessionsBelong
  <1>2. QED BY <1>1, InitTypes, StepTypes, PlaceInit, PlaceStep, BelongInit, BelongStep, PTL DEF AccountsSpec

\* The users and sessions tables agree at every moment, for any number of requests
\* (issue_session, delete_user).
THEOREM TablesAreSound == AccountsSpec => []TablesSound
  <1>1. AccountsTypeOK /\ SessionsBelong => TablesSound
    BY DEF TablesSound
  <1>2. QED BY <1>1, TypeCorrect, NoOrphanSessions, PTL

-----------------------------------------------------------------------------
(* The last enabled owner, while any number of requests edit users. *)

\* A step that loses, demotes, disables or enables nobody.
Grows == \A u \in Users : Exists(u) => role'[u] = role[u] /\ disabled'[u] = disabled[u]

LEMMA QuietGrows ==
  ASSUME AccountsTypeOK,
         \/ \E r \in Requests : \/ Quiet(r) \/ Inserts(r) \/ Ends(r)
                                \/ \E s \in Sessions : LoginIssue(r, s)
         \/ \E s \in Sessions : Expire(s)
         \/ UNCHANGED accountsVars
  PROVE  Grows
  <1>1. ASSUME NEW r \in Requests, Inserts(r) PROVE Grows
    <2>1. PICK u \in Users, ro \in ROLES, mu \in BOOLEAN : insert_user(u, ro, mu)
      BY <1>1 DEF Inserts, SetupInsert, CreateUser, ROLES
    <2>2. QED BY <2>1 DEF insert_user, Grows, Exists, ROLES, AccountsTypeOK
  <1>2. ASSUME NEW r \in Requests, Ends(r) PROVE Grows
    BY <1>2 DEF Ends, revoke_all_sessions, revoke_session, ChangePassword,
                users, Grows
  <1>3. ASSUME NEW r \in Requests, Quiet(r) PROVE Grows
    BY <1>3, QuietKeeps DEF users, Grows
  <1>4. ASSUME NEW r \in Requests, NEW s \in Sessions, LoginIssue(r, s) PROVE Grows
    BY <1>4 DEF LoginIssue, users, Grows
  <1>5. CASE (\E s \in Sessions : Expire(s)) \/ UNCHANGED accountsVars
    BY <1>5 DEF Expire, accountsVars, users, Grows
  <1>6. QED BY <1>1, <1>2, <1>3, <1>4, <1>5

\* An owner beside the target of r, if the target is the one to lose.
Spared(r) == req[r].role = "owner" /\ ~req[r].disabled
               => \E u \in Users : u # req[r].target /\ Owner(u)

LEMMA GuardSpares ==
  ASSUME NEW r
  PROVE  _guard_last_owner(r) => Spared(r)
  BY DEF _guard_last_owner, OtherOwners, Spared

\* What a handler has read of its target still holds unless an edit of that user crossed
\* it, and what it has checked unless any edit did.
EditFacts(r) ==
  /\ Fetched(r) /\ req[r].target \notin crossed[r]
       => /\ Exists(req[r].target)
          /\ role[req[r].target] = req[r].role
          /\ disabled[req[r].target] = req[r].disabled
  /\ crossed[r] = {} =>
       /\ pc[r] = "guarddisable" \/ Editing(r) => (req[r].op = "delete" \/ RoleChanges(r) => Spared(r))
       /\ Editing(r) => (Disables(r) => Spared(r))

EditInv == \A r \in Requests : EditFacts(r)

\* A step of another request that tells r of every user it changes.
Told(r) ==
  /\ crossed[r] \subseteq crossed'[r]
  /\ \A u \in Users : Exists(u) /\ u \notin crossed'[r] => role'[u] = role[u] /\ disabled'[u] = disabled[u]

LEMMA GrowsOwner == ASSUME Grows, NEW u \in Users, Owner(u) PROVE Owner(u)'
  BY DEF Grows, Owner, Exists, ROLES

LEMMA GrowsTold ==
  ASSUME NEW r, Grows, crossed'[r] = crossed[r]
  PROVE  Told(r)
  BY DEF Grows, Told

\* An edit tells every request that has read its target.
LEMMA EditTells ==
  ASSUME AccountsTypeOK, NEW r \in Requests, Crosses(r), NEW q \in Requests, q # r, Reading(q)
  PROVE  Told(q)
  <1>1. PICK changed : changed = {u \in Users : role'[u] # role[u] \/ disabled'[u] # disabled[u]}
    OBVIOUS
  <1>2. crossed' = [p \in Requests |-> IF p # r /\ Reading(p) THEN crossed[p] \cup changed ELSE {}]
    BY <1>1 DEF Crosses
  <1>3. crossed'[q] = crossed[q] \cup changed
    BY <1>2
  <1>4. QED BY <1>1, <1>3 DEF Told

LEMMA FactsStay ==
  ASSUME AccountsTypeOK, PlaceInv, NEW r \in Requests, Fetched(r) => Told(r), EditFacts(r),
         pc'[r] = pc[r], req'[r] = req[r]
  PROVE  EditFacts(r)'
  <1>1. (Fetched(r)' <=> Fetched(r)) /\ (Editing(r)' <=> Editing(r))
    BY DEF Fetched, Editing
  <1>2. (RoleChanges(r)' <=> RoleChanges(r)) /\ (Disables(r)' <=> Disables(r))
    BY DEF RoleChanges, Disables
  <1>3. CASE ~Fetched(r)
    BY <1>1, <1>3 DEF EditFacts, Fetched
  <1>4. CASE Fetched(r)
    <2>1. Told(r) /\ req[r].target \in Users
      BY <1>4 DEF PlaceInv
    <2>2. ASSUME req[r].target \notin crossed'[r]
          PROVE  /\ Exists(req[r].target)'
                 /\ role'[req[r].target] = req[r].role
                 /\ disabled'[req[r].target] = req[r].disabled
      BY <1>4, <2>1, <2>2 DEF EditFacts, Told, Exists
    <2>3. ASSUME crossed'[r] = {}, Spared(r) PROVE Spared(r)'
      <3>1. ASSUME NEW u \in Users, Owner(u) PROVE Owner(u)'
        BY <2>1, <2>3, <3>1 DEF Told, Owner, Exists, ROLES
      <3>2. QED BY <2>3, <3>1 DEF Spared
    <2>4. crossed'[r] = {} => crossed[r] = {}
      BY <2>1 DEF Told
    <2>5. QED BY <1>1, <1>2, <2>2, <2>3, <2>4 DEF EditFacts
  <1>5. QED BY <1>3, <1>4

LEMMA FactsIdle ==
  ASSUME NEW r \in Requests, Waiting(r)'
  PROVE  EditFacts(r)'
  BY DEF EditFacts, Waiting, Fetched, Editing

\* A handler that reads or checks establishes its facts.
LEMMA FactsRead ==
  ASSUME AccountsTypeOK, PlaceInv, NEW r \in Requests, EditFacts(r), Quiet(r)
  PROVE  EditFacts(r)'
  <1>1. UNCHANGED <<users, sessions>>
    BY QuietKeeps
  <1>2. pc \in [Requests -> Places] /\ req \in [Requests -> Locals]
    BY DEF AccountsTypeOK
  <1>3. CASE Refused(r) \/ SetupBegin(r) \/ SetupClosed(r) \/ SetupOpen(r)
    <2>1. Waiting(r)'
      BY <1>2, <1>3 DEF Refused, SetupBegin, SetupClosed, SetupOpen, Done,
                        Go, Waiting
    <2>2. QED BY <2>1, FactsIdle
  <1>4. CASE LoginPrevious(r) \/ \E u \in Users, s \in Sessions \cup {NoSession} : LoginRead(r, u, s)
    <2>1. pc'[r] \in {"previous", "issue"}
      BY <1>2, <1>4 DEF LoginPrevious, LoginRead, Go
    <2>2. QED BY <2>1 DEF EditFacts, Fetched, Editing
  <1>5. CASE \E s \in Sessions, o \in OPS : Gate(r, s, o)
    <2>1. PICK s \in Sessions, o \in OPS : Gate(r, s, o)
      BY <1>5
    <2>2. pc'[r] = (IF o \in {"patch", "delete"} THEN "fetch" ELSE "write") /\ req'[r].op = o
      BY <1>2, <2>1 DEF Gate, Go, Locally, Locals
    <2>3. ~Fetched(r)' /\ ~Editing(r)' /\ pc'[r] # "guarddisable"
      BY <2>2 DEF Fetched, Editing
    <2>4. QED BY <2>3 DEF EditFacts
  <1>6. CASE \E u \in Users, b \in Offered : Fetch(r, u, b)
    <2>1. PICK u \in Users, b \in Offered : Fetch(r, u, b)
      BY <1>6
    <2>2. pc'[r] = "guardrole" /\ req'[r].target = u /\ req'[r].role = role[u]
          /\ req'[r].disabled = disabled[u] /\ Exists(u)
      BY <1>2, <2>1 DEF Fetch, Go, Locally, Locals
    <2>3. Exists(u)' /\ role' = role /\ disabled' = disabled
      BY <1>1, <2>2 DEF users, Exists
    <2>4. QED BY <2>2, <2>3 DEF EditFacts, Editing, Exists
  <1>7. CASE GuardRole(r) \/ GuardDisable(r)
    <2>1. req' = req /\ crossed' = crossed /\ Fetched(r)
      BY <1>7 DEF GuardRole, GuardDisable, Fetched
    <2>2. (Spared(r)' <=> Spared(r)) /\ (RoleChanges(r)' <=> RoleChanges(r)) /\ (Disables(r)' <=> Disables(r))
      BY <1>1, <2>1 DEF Spared, Owner, RoleChanges, Disables, users
    <2>3. req[r].target \notin crossed[r]
            => /\ Exists(req[r].target)'
               /\ role'[req'[r].target] = req'[r].role
               /\ disabled'[req'[r].target] = req'[r].disabled
      BY <1>1, <2>1 DEF EditFacts, Exists, users, PlaceInv
    <2>4. CASE GuardRole(r)
      <3>1. pc'[r] = "guarddisable" /\ (req[r].op = "delete" \/ RoleChanges(r) => Spared(r))
        BY <1>2, <2>4, GuardSpares DEF GuardRole, Go
      <3>2. QED BY <2>1, <2>2, <2>3, <3>1 DEF EditFacts, Editing
    <2>5. CASE GuardDisable(r)
      <3>1. /\ crossed[r] = {} => (req[r].op = "delete" \/ RoleChanges(r) => Spared(r))
            /\ Disables(r) => Spared(r)
            /\ pc'[r] # "guarddisable"
        BY <1>2, <2>5, GuardSpares DEF GuardDisable, Go, EditFacts
      <3>2. QED BY <2>1, <2>2, <2>3, <3>1 DEF EditFacts
    <2>6. QED BY <1>7, <2>4, <2>5
  <1>8. QED BY <1>3, <1>4, <1>5, <1>6, <1>7 DEF Quiet

\* An edit that nothing crossed leaves an enabled owner.
LEMMA EditSpares ==
  ASSUME AccountsTypeOK, PlaceInv, EditInv, NEW r \in Requests, apply_user_update(r) \/ delete_user(r),
         crossed[r] = {}, \E u \in Users : Owner(u)
  PROVE  (\E u \in Users : Owner(u))'
  <1> DEFINE t == req[r].target
  <1>1. /\ t \in Users /\ Exists(t) /\ role[t] = req[r].role /\ disabled[t] = req[r].disabled
        /\ req[r].op = "delete" \/ RoleChanges(r) \/ Disables(r) => Spared(r)
    <2>1. Editing(r)
      BY DEF apply_user_update, delete_user, Writes, Editing
    <2>2. QED BY <2>1 DEF PlaceInv, EditInv, EditFacts, Fetched
  <1>2. req[r].patch \in Bodies
    BY DEF AccountsTypeOK, Locals
  <1>3. PICK o \in Users : Owner(o)
    OBVIOUS
  <1>4. ASSUME NEW v \in Users, v # t, Owner(v) PROVE Owner(v)'
    <2>1. role'[v] = role[v]
      BY <1>4 DEF apply_user_update, delete_user, AccountsTypeOK
    <2>2. disabled'[v] = disabled[v]
      BY <1>4 DEF apply_user_update, delete_user, Flag, AccountsTypeOK
    <2>3. QED BY <1>4, <2>1, <2>2 DEF Owner
  <1>5. CASE o # t \/ (\E u \in Users : u # t /\ Owner(u))
    BY <1>3, <1>4, <1>5
  <1>6. CASE o = t /\ ~\E u \in Users : u # t /\ Owner(u)
    <2>1. req[r].role = "owner" /\ ~req[r].disabled /\ ~Spared(r)
      BY <1>1, <1>3, <1>6 DEF Owner, Spared
    <2>2. req[r].op # "delete" /\ ~RoleChanges(r) /\ ~Disables(r)
      BY <1>1, <2>1
    <2>3. apply_user_update(r)
      BY <2>2 DEF delete_user, Writes
    <2>4. req[r].patch.role \in {"keep", "owner"} /\ req[r].patch.disabled \in {"keep", "no"}
      BY <1>2, <2>1, <2>2 DEF RoleChanges, Disables, Bodies
    <2>5. role'[t] = "owner"
      BY <1>1, <2>1, <2>3, <2>4 DEF apply_user_update, AccountsTypeOK
    <2>6. disabled'[t] = FALSE
      <3>1. disabled' = Flag(disabled, t, req[r].patch.disabled)
        BY <2>3 DEF apply_user_update
      <3>2. disabled[t] = FALSE
        BY <1>1, <2>1 DEF AccountsTypeOK
      <3>3. QED BY <1>1, <2>4, <3>1, <3>2 DEF Flag, AccountsTypeOK
    <2>7. QED BY <1>1, <2>5, <2>6 DEF Owner
  <1>7. QED BY <1>5, <1>6

LEMMA EditStep ==
  ASSUME AccountsTypeOK, PlaceInv, EditInv, [AccountsNext]_accountsVars
  PROVE  EditInv'
  <1>1. crossed \in [Requests -> SUBSET Users]
    BY DEF AccountsTypeOK
  <1>2. ASSUME NEW r \in Requests, Alone(r), EditFacts(r)',
               \A q \in Requests \ {r} : Fetched(q) => Told(q)
        PROVE  EditInv'
    <2>1. ASSUME NEW q \in Requests PROVE EditFacts(q)'
      <3>1. CASE q = r
        BY <1>2, <3>1
      <3>2. CASE q # r
        <4>1. pc'[q] = pc[q] /\ req'[q] = req[q] /\ EditFacts(q) /\ (Fetched(q) => Told(q))
          BY <1>2, <3>2 DEF Alone, EditInv
        <4>2. QED BY <4>1, FactsStay
      <3>3. QED BY <3>1, <3>2
    <2>2. QED BY <2>1 DEF EditInv
  <1>3. ASSUME NEW r \in Requests, Quiet(r) PROVE EditInv'
    <2>1. Grows /\ Alone(r) /\ EditFacts(r)'
      BY <1>3, QuietGrows, StepAlone, FactsRead DEF EditInv
    <2>2. \A q \in Requests \ {r} : crossed'[q] = crossed[q]
      BY <1>1, <1>3 DEF Quiet, Refused, SetupBegin, SetupClosed, SetupOpen, LoginRead,
                        LoginPrevious, Gate, Fetch, GuardRole, GuardDisable
    <2>3. QED BY <1>2, <2>1, <2>2, GrowsTold
  <1>4. ASSUME NEW r \in Requests, Ends(r) \/ Inserts(r) \/ \E s \in Sessions : LoginIssue(r, s)
        PROVE  EditInv'
    <2>1. Grows /\ Alone(r) /\ pc'[r] = "idle"
      BY <1>4, QuietGrows, StepAlone, EndsIdle
    <2>2. UNCHANGED crossed
      BY <1>4 DEF Ends, revoke_all_sessions, revoke_session, ChangePassword, Inserts,
                  SetupInsert, CreateUser, LoginIssue
    <2>3. EditFacts(r)'
      BY <2>1, FactsIdle DEF Waiting
    <2>4. QED BY <1>2, <2>1, <2>2, <2>3, GrowsTold
  <1>5. ASSUME NEW r \in Requests, apply_user_update(r) \/ delete_user(r) PROVE EditInv'
    <2>1. Alone(r) /\ pc'[r] = "idle" /\ Crosses(r)
      BY <1>5, StepAlone, EndsIdle DEF apply_user_update, delete_user
    <2>2. EditFacts(r)'
      BY <2>1, FactsIdle DEF Waiting
    <2>3. \A q \in Requests : Fetched(q) => Reading(q)
      BY DEF PlaceInv, Fetched, Editing, Reading
    <2>4. QED BY <1>2, <2>1, <2>2, <2>3, EditTells
  <1>6. CASE (\E s \in Sessions : Expire(s)) \/ UNCHANGED accountsVars
    <2>1. Grows /\ UNCHANGED <<pc, req, crossed>>
      BY <1>6, QuietGrows DEF Expire, accountsVars
    <2>2. QED BY <2>1, FactsStay, GrowsTold DEF EditInv
  <1>7. QED BY <1>3, <1>4, <1>5, <1>6, NextKinds

LEMMA EditInit == AccountsInit => EditInv
  BY DEF AccountsInit, EditInv, EditFacts, Fetched, Editing

\* What every handler that edits users knows at each of its places, with any number of
\* other editors: a row nobody has edited since is as it was read, and while nobody has
\* edited any, an owner the guard counted is still there (patch_user, delete_user_route).
THEOREM EditAlways == AccountsSpec => [](AccountsTypeOK /\ PlaceInv /\ EditInv)
  <1>1. AccountsTypeOK /\ PlaceInv /\ EditInv /\ [AccountsNext]_accountsVars => EditInv'
    BY EditStep
  <1>2. QED BY <1>1, InitTypes, StepTypes, PlaceInit, PlaceStep, EditInit, PTL DEF AccountsSpec

LEMMA EditCommits ==
  ASSUME AccountsTypeOK, NEW r \in Requests, apply_user_update(r) \/ delete_user(r)
  PROVE  Commits(r)
  <1>1. pc'[r] = "idle"
    BY EndsIdle
  <1>2. QED BY <1>1 DEF apply_user_update, delete_user, Writes, Commits, Reading

\* The last enabled owner survives every step but an edit that another edit crossed, for any
\* number of owners who edit each other at once: _guard_last_owner's count is right at the
\* write as long as nobody's role or flag was changed in between.
THEOREM OwnerKept == AccountsSpec => OwnerGuarded
  <1> DEFINE A == (\E u \in Users : Owner(u)) /\ ~(\E u \in Users : Owner(u))'
                    => \E r \in Requests : Commits(r) /\ crossed[r] # {}
  <1>1. AccountsTypeOK /\ PlaceInv /\ EditInv /\ [AccountsNext]_accountsVars => [A]_accountsVars
    <2> SUFFICES ASSUME AccountsTypeOK, PlaceInv, EditInv, [AccountsNext]_accountsVars PROVE A
      OBVIOUS
    <2>1. CASE Grows
      BY <2>1, GrowsOwner
    <2>2. ASSUME NEW r \in Requests, apply_user_update(r) \/ delete_user(r) PROVE A
      <3>1. Commits(r)
        BY <2>2, EditCommits
      <3>2. CASE crossed[r] = {}
        BY <2>2, <3>2, EditSpares
      <3>3. QED BY <3>1, <3>2
    <2>3. QED BY <2>1, <2>2, NextKinds, QuietGrows
  <1>2. QED BY <1>1, EditAlways, PTL DEF AccountsSpec, OwnerGuarded

LEMMA EditRotates ==
  ASSUME AccountsTypeOK, PlaceInv, EditInv, NEW r \in Requests, apply_user_update(r) \/ delete_user(r),
         NEW u \in Users, Exists(u), role'[u] # role[u] \/ (disabled'[u] /\ ~disabled[u]),
         ~(req[r].target = u /\ u \in crossed[r]),
         NEW s \in Sessions, holder[s] = u
  PROVE  state'[s] # "live"
  <1>1. req[r].patch \in Bodies /\ req[r].target \in Users
    BY DEF AccountsTypeOK, Locals, apply_user_update, delete_user, Writes, PlaceInv, Fetched, Editing
  <1>2. CASE delete_user(r)
    BY <1>2 DEF delete_user, Cascade, Of, AccountsTypeOK
  <1>3. CASE apply_user_update(r)
    <2>1. u = req[r].target
      BY <1>3 DEF apply_user_update, Flag, AccountsTypeOK
    <2>2. role[u] = req[r].role /\ disabled[u] = req[r].disabled
      <3>1. Editing(r) /\ u \notin crossed[r]
        BY <1>3, <2>1 DEF apply_user_update, Writes, Editing
      <3>2. QED BY <2>1, <3>1 DEF EditInv, EditFacts, Fetched
    <2>3. CASE role'[u] # role[u]
      BY <1>1, <1>3, <2>1, <2>2, <2>3 DEF apply_user_update, Revokes, RoleChanges,
                                          Revoke, Of, AccountsTypeOK
    <2>4. CASE disabled'[u] /\ ~disabled[u]
      <3>1. req[r].patch.disabled = "yes"
        BY <1>1, <1>3, <2>1, <2>4 DEF apply_user_update, Flag, AccountsTypeOK, Bodies
      <3>2. Disables(r)
        BY <2>1, <2>2, <2>4, <3>1 DEF Disables
      <3>3. QED BY <1>3, <2>1, <3>2 DEF apply_user_update, Revokes, Revoke, Of,
                                        AccountsTypeOK
    <2>5. QED BY <2>3, <2>4
  <1>4. QED BY <1>2, <1>3

\* A change of role, a disable or a deletion ends every session of the user in the same
\* step, with any number of editors, unless another edit of the same user came between the
\* row read and the write: the comparison with that row is then exact.
THEOREM RotationKept == AccountsSpec => PrivilegeRotates
  <1> DEFINE A == \A u \in Users :
                    Exists(u) /\ (role'[u] # role[u] \/ (disabled'[u] /\ ~disabled[u]))
                      => \/ \A s \in Sessions : holder[s] = u => state'[s] # "live"
                         \/ \E r \in Requests : Commits(r) /\ req[r].target = u /\ u \in crossed[r]
  <1>1. AccountsTypeOK /\ PlaceInv /\ EditInv /\ [AccountsNext]_accountsVars => [A]_accountsVars
    <2> SUFFICES ASSUME AccountsTypeOK, PlaceInv, EditInv, [AccountsNext]_accountsVars PROVE A
      OBVIOUS
    <2>1. CASE Grows
      BY <2>1 DEF Grows
    <2>2. ASSUME NEW r \in Requests, apply_user_update(r) \/ delete_user(r) PROVE A
      BY <2>2, EditRotates, EditCommits
    <2>3. QED BY <2>1, <2>2, NextKinds, QuietGrows
  <1>2. QED BY <1>1, EditAlways, PTL DEF AccountsSpec, PrivilegeRotates
=============================================================================
