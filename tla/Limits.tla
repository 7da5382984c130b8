------------------------------- MODULE Limits -------------------------------
(***************************************************************************)
(* Rate limits.  First the token bucket of auth/ratelimit.py as operators: *)
(* its methods run under one lock and the buckets of a registry share      *)
(* nothing, so the calls on one bucket are a sequence.  Then the login     *)
(* backoff of auth/login_limit.py as a state machine: the login handlers   *)
(* that ask it, the owner edits that clear it, the policy updates of       *)
(* api/ratelimits.py that reconfigure it, and restarts.  A clock is read   *)
(* before the lock is taken, in both.                                      *)
(***************************************************************************)
EXTENDS Integers, Sequences, FiniteSets, FiniteSetsExt, SequencesExt, Lists

CONSTANTS
    Period,      \* window of a bucket, in ticks
    Rates,       \* limits a bucket may be asked with
    Bursts,      \* burst overrides
    Span,        \* clocks of the bucket calls examined: 0..Span
    Owners,      \* subject and scope of the buckets examined
    Top,         \* _USAGE_TOP
    Ips, Emails, \* a login is counted per ip and email
    NoSubject,   \* subject of an idle thread
    Threads,     \* request threads
    Admins,      \* threads that update the policy
    LoginLimits, \* values for ratelimit.login
    LoginWindows,\* LOGIN_WINDOWS
    Boot,        \* the configured policy
    SweepAt,     \* _SWEEP_AT
    MaxTime, MaxLogins, MaxUpdates  \* bounds on the clock, logins and updates

Policies == [limit : LoginLimits, window : LoginWindows]
Subjects == Ips \X Emails

ASSUME LimitsAssumption ==
    /\ Period \in Nat \ {0} /\ Rates \subseteq Nat \ {0} /\ Bursts \subseteq Nat
    /\ LoginLimits \subseteq Nat \ {0} /\ LoginWindows \subseteq Nat \ {0}
    /\ IsFiniteSet(Threads) /\ IsFiniteSet(Ips) /\ IsFiniteSet(Emails)
    /\ IsFiniteSet(LoginLimits) /\ IsFiniteSet(LoginWindows)
    /\ Boot \in Policies
    /\ {SweepAt, MaxTime, MaxLogins, MaxUpdates, Span, Top} \subseteq Nat

-----------------------------------------------------------------------------
(* BucketRegistry.  Tokens are counted in parts of 1 / Period, so a token  *)
(* is Period parts and a tick brings `limit` of them.                      *)

NoBucket == [tokens |-> 0, updated |-> 0, limit |-> 0, burst |-> 0]

\* A call: the clock it read, the limit and the capacity it asks with.
Asks == [at : 0..Span, limit : Rates, burst : {Max({1, b}) : b \in Bursts}]

\* The refill uses the bucket's own limit and burst, before an edit applies.
Refill(b, at) == Min({b.burst * Period, b.tokens + (at - b.updated) * b.limit})

\* The bucket the call finds or makes, with the call's policy.
Topped(b, ask) ==
    [tokens |-> IF b = NoBucket THEN ask.burst * Period ELSE Refill(b, ask.at),
     updated |-> ask.at, limit |-> ask.limit, burst |-> ask.burst]

Allowed(b, ask) == Topped(b, ask).tokens >= Period

\* consume: a refusal takes no token.
consume(b, ask) ==
    [Topped(b, ask) EXCEPT !.tokens = IF @ >= Period THEN @ - Period ELSE @]

\* The wait a refusal names: the missing part over the rate, rounded up.
Retry(b, ask) ==
    LET missing == Period - Topped(b, ask).tokens
    IN  Max({1, (missing + ask.limit - 1) \div ask.limit})

\* _sweep drops it; usage leaves it out of the panel.
Refilled(b) == b.tokens >= b.burst * Period

\* The registry: the buckets of the owners that have one.  reset drops one of them, or all.
Buckets(reg)      == DOMAIN reg
Without(reg, S)   == [o \in Buckets(reg) \ S |-> reg[o]]
reset(reg, owner) == [left    |-> Without(reg, {owner}),
                      cleared |-> Cardinality({owner} \cap Buckets(reg))]
resetAll(reg)     == [left |-> Without(reg, Buckets(reg)), cleared |-> Cardinality(Buckets(reg))]

\* _sweep, which consume runs when the map has grown.
Swept(reg) == Without(reg, {o \in Buckets(reg) : Refilled(reg[o])})

\* consume on the registry.
Take(reg, owner, ask) ==
    LET kept == IF Cardinality(Buckets(reg)) > SweepAt THEN Swept(reg) ELSE reg
        old  == IF owner \in Buckets(kept) THEN kept[owner] ELSE NoBucket
    IN  [left    |-> [o \in Buckets(kept) \cup {owner} |-> IF o = owner THEN consume(old, ask) ELSE kept[o]],
         allowed |-> Allowed(old, ask)]

\* usage: parts taken, as of the last call on the bucket; busiest first.
Used(b) == b.burst * Period - b.tokens

usage(reg) ==
    SetToSortSeq({o \in Buckets(reg) : Used(reg[o]) > 0},
                 LAMBDA o, p : Used(reg[o]) * reg[p].limit > Used(reg[p]) * reg[o].limit)

\* The panel of the usage endpoint.
Panel(reg) == SubSeq(usage(reg), 1, Min({Top, Len(usage(reg))}))

\* The buckets after each of a sequence of calls.
After(asks) ==
    LET b[i \in 0..Len(asks)] == IF i = 0 THEN NoBucket ELSE consume(b[i - 1], asks[i])
    IN  b

\* Three calls in the order they took the lock, and those under one policy whose
\* clocks are in that order too.
Histories == [1..3 -> Asks]
Steady    == {h \in Histories :
                 \A i \in 1..2 : /\ h[i].limit = h[i + 1].limit /\ h[i].burst = h[i + 1].burst
                                 /\ h[i].at <= h[i + 1].at}

\* Under one policy no stretch of calls is granted more than the burst and what the
\* rate brings meanwhile (consume).
NeverOverRate ==
    \A h \in Steady : \A i \in 1..3 : \A j \in i..3 :
        LET b == After(h)
            granted == {k \in i..j : Allowed(b[k - 1], h[k])}
        IN  Cardinality(granted) <=
               h[1].burst + ((h[j].at - h[i].at) * h[1].limit) \div Period

\* A refused caller who waits the seconds it was told is granted (consume).
RetryIsEnough ==
    \A h \in Steady :
        LET b == After(h)[2]
        IN  ~Allowed(b, h[3]) =>
               Allowed(consume(b, h[3]), [h[3] EXCEPT !.at = @ + Retry(b, h[3])])

\* Sweeping a refilled bucket changes no later answer, whatever limit the next call asks
\* with (_sweep: "can be rebuilt on demand").  A call that asks with another burst, or whose
\* clock is behind the bucket's, is excepted: a kept bucket refills by its own burst first.
SweepForgetsNothing ==
    \A h \in Histories :
        LET b == After(h)[2]
        IN  (Refilled(b) /\ h[3].at >= b.updated /\ h[3].burst = b.burst) =>
               consume(b, h[3]) = consume(NoBucket, h[3])

\* Registries of buckets that two calls each have left behind.
Registries == [Owners -> {After(h)[2] : h \in [1..2 -> Asks]}]

\* A reset owner is granted its next call, another's answer is as before, and the count
\* is of the buckets that went (reset; docs/rate-limiting.md acceptance 6).
ResetRenews ==
    \A reg \in Registries, o \in Owners : \A done \in {reset(reg, o), resetAll(reg)} :
        /\ done.cleared = Cardinality(Buckets(reg)) - Cardinality(Buckets(done.left))
        /\ \A ask \in Asks :
              /\ Take(done.left, o, ask).allowed
              /\ \A p \in Buckets(done.left) :
                    Refilled(reg[p]) \/ Take(done.left, p, ask).allowed = Take(reg, p, ask).allowed

\* Nobody in use is left out of the panel for someone less busy (usage).
PanelShowsBusiest ==
    \A reg \in Registries :
        LET shown == ToSet(Panel(reg))
            out   == {o \in Owners : Used(reg[o]) > 0} \ shown
        IN  /\ \A o \in shown : Used(reg[o]) > 0
            /\ out # {} => Cardinality(shown) = Top
            /\ \A o \in shown, p \in out :
                  Used(reg[o]) * reg[p].limit >= Used(reg[p]) * reg[o].limit

\* A sweep drops every bucket that time has refilled ("minting subjects cannot grow the
\* map without bound").  It does not: no sweep refills (README, last section).
SweepFrees ==
    \A h \in Steady : \A later \in h[3].at..(h[3].at + Span * Period) :
        LET b == After(h)[3]
        IN  Refill(b, later) = b.burst * Period => Refilled(b)

-----------------------------------------------------------------------------
(* LoginBackoff. *)

VARIABLES
    now,        \* time.monotonic()
    conf,       \* BACKOFF.limit and BACKOFF.window
    stored,     \* the ratelimit.login and ratelimit.login_window rows
    failures,   \* BACKOFF._failures: stamps of the subjects in the map
    login,      \* the login handler of each thread
    edit,       \* the update_policy handler of each administrator
    wrong,      \* stamps of wrong passwords since the subject was cleared (history)
    late,       \* some stamp was appended behind a newer one (history)
    settled,    \* the last update met no other and no restart followed (history)
    logins, updates

vars == <<now, conf, stored, failures, login, edit, wrong, late, settled, logins, updates>>

NoLogin == [step |-> "idle", subject |-> NoSubject, stamp |-> 0]
NoEdit  == [step |-> "idle", set |-> {}, merged |-> Boot, alone |-> TRUE]

Init ==
    /\ now = 0
    /\ conf = Boot
    /\ stored = Boot
    /\ failures = [s \in {} |-> <<>>]
    /\ login = [t \in Threads |-> NoLogin]
    /\ edit = [a \in Admins |-> NoEdit]
    /\ wrong = [s \in Subjects |-> <<>>]
    /\ late = FALSE
    /\ settled = TRUE
    /\ logins = 0 /\ updates = 0

Stamps(s) == IF s \in DOMAIN failures THEN failures[s] ELSE <<>>

Newer(cutoff) == {ts \in Int : ts > cutoff}

\* Mutant: a stamp exactly one window old still counts.
PruneLess(list, cutoff) ==
    IF list # <<>> /\ list[1] < cutoff THEN Only(list, Newer(cutoff)) ELSE list

\* _prune filters only when the first stamp has aged.
Prune(list, cutoff) ==
    IF list # <<>> /\ list[1] <= cutoff THEN Only(list, Newer(cutoff)) ELSE list

\* _sweep: when the map has grown, subjects that are empty or whose last stamp aged go.
Sweep(map, cutoff) ==
    IF Cardinality(DOMAIN map) <= SweepAt THEN map
    ELSE [s \in {s \in DOMAIN map : map[s] # <<>> /\ map[s][Len(map[s])] > cutoff} |-> map[s]]

Put(s, list) == [x \in DOMAIN failures \cup {s} |-> IF x = s THEN list ELSE failures[x]]
Drop(S)      == [x \in DOMAIN failures \ S |-> failures[x]]

\* Appending a stamp, as refused and record_failure do.
Append1(s, list, stamp) ==
    /\ failures' = Sweep(Put(s, Append(list, stamp)), stamp - conf.window)
    /\ late' = (late \/ \E i \in 1..Len(list) : list[i] > stamp)

\* login reads the clock for BACKOFF.refused.  (With ratelimit.enabled off it asks
\* nothing and records nothing.)
Ask(t, s) ==
    /\ login[t].step = "idle" /\ logins < MaxLogins
    /\ login' = [login EXCEPT ![t] = [step |-> "ask", subject |-> s, stamp |-> now]]
    /\ logins' = logins + 1
    /\ UNCHANGED <<now, conf, stored, failures, edit, wrong, late, settled, updates>>

\* Mutant: one failure too many.
OverLimitLate(list) == Len(list) > conf.limit

OverLimit(list) == Len(list) >= conf.limit

\* refused: a refusal counts as a failure and ends the handler (429).
refused(t) ==
    LET c    == login[t]
        list == Prune(Stamps(c.subject), c.stamp - conf.window)
    IN  /\ c.step = "ask"
        /\ IF OverLimit(list)
           THEN /\ Append1(c.subject, list, c.stamp)
                /\ login' = [login EXCEPT ![t] = NoLogin]
           ELSE /\ failures' = Put(c.subject, list)
                /\ login' = [login EXCEPT ![t] = [@ EXCEPT !.step = "verify", !.stamp = 0]]
                /\ UNCHANGED late
        /\ UNCHANGED <<now, conf, stored, edit, wrong, settled, logins, updates>>

\* verify_or_dummy took its time; a wrong password reads the clock again.
Wrong(t) ==
    /\ login[t].step = "verify"
    /\ login' = [login EXCEPT ![t].step = "record", ![t].stamp = now]
    /\ UNCHANGED <<now, conf, stored, failures, edit, wrong, late, settled, logins, updates>>

record_failure(t) ==
    LET c    == login[t]
        list == Prune(Stamps(c.subject), c.stamp - conf.window)
    IN  /\ c.step = "record"
        /\ Append1(c.subject, list, c.stamp)
        /\ wrong' = [wrong EXCEPT ![c.subject] = Append(@, c.stamp)]
        /\ login' = [login EXCEPT ![t] = NoLogin]
        /\ UNCHANGED <<now, conf, stored, edit, settled, logins, updates>>

\* A right password clears its subject.
clear(t) ==
    /\ login[t].step = "verify"
    /\ failures' = Drop({login[t].subject})
    /\ wrong' = [wrong EXCEPT ![login[t].subject] = <<>>]
    /\ login' = [login EXCEPT ![t] = NoLogin]
    /\ UNCHANGED <<now, conf, stored, edit, late, settled, logins, updates>>

\* An owner edits the account.
clear_email(e) ==
    LET S == {s \in Subjects : s[2] = e}
    IN  /\ failures' = Drop(S)
        /\ wrong' = [s \in Subjects |-> IF s \in S THEN <<>> ELSE wrong[s]]
        /\ UNCHANGED <<now, conf, stored, login, edit, late, settled, logins, updates>>

-----------------------------------------------------------------------------
(* update_policy. *)

\* validated_update of the two fields.
Valid(p) == p.limit >= 1 /\ p.window \in LoginWindows

\* The merge of the request's fields over the rows the handler read.
Merged(set, p) ==
    [limit  |-> IF "limit" \in set THEN p.limit ELSE stored.limit,
     window |-> IF "window" \in set THEN p.window ELSE stored.window]

\* The handler reads effective_policy and merges; an invalid body is a 400.
ReadPolicy(a, set, p) ==
    /\ edit[a].step = "idle" /\ updates < MaxUpdates
    /\ updates' = updates + 1
    /\ Valid(p)
    /\ LET others == {b \in Admins : edit[b].step # "idle"}
       IN  edit' = [b \in Admins |->
                      IF b = a THEN [step |-> "commit", set |-> set, merged |-> Merged(set, p),
                                     alone |-> others = {}]
                      ELSE IF b \in others THEN [edit[b] EXCEPT !.alone = FALSE] ELSE edit[b]]
    /\ UNCHANGED <<now, conf, stored, failures, login, wrong, late, settled, logins>>

\* upsert_policy writes only the fields of the request.
upsert_policy(a) ==
    /\ edit[a].step = "commit"
    /\ stored' = Merged(edit[a].set, edit[a].merged)
    /\ edit' = [edit EXCEPT ![a].step = "configure"]
    /\ UNCHANGED <<now, conf, failures, login, wrong, late, settled, logins, updates>>

\* login_limit.configure takes both fields of the merge.
configure(c, merged) == merged

\* After the commit the merge goes to BACKOFF, fields read before others' commits too.
PushPolicy(a) ==
    /\ edit[a].step = "configure"
    /\ conf' = configure(conf, edit[a].merged)
    /\ settled' = edit[a].alone
    /\ edit' = [edit EXCEPT ![a] = NoEdit]
    /\ UNCHANGED <<now, stored, failures, login, wrong, late, logins, updates>>

\* A restart clears the counters and takes the policy from the configuration.
Restart ==
    /\ failures' = [s \in {} |-> <<>>]
    /\ conf' = Boot
    /\ login' = [t \in Threads |-> NoLogin]
    /\ edit' = [a \in Admins |-> NoEdit]
    /\ wrong' = [s \in Subjects |-> <<>>]
    /\ late' = FALSE
    /\ settled' = (stored = Boot)
    /\ UNCHANGED <<now, stored, logins, updates>>

Tick ==
    /\ now < MaxTime
    /\ now' = now + 1
    /\ UNCHANGED <<conf, stored, failures, login, edit, wrong, late, settled, logins, updates>>

Next ==
    \/ \E t \in Threads :
          \/ \E s \in Subjects : Ask(t, s)
          \/ refused(t) \/ Wrong(t) \/ record_failure(t) \/ clear(t)
    \/ \E e \in Emails : clear_email(e)
    \/ \E a \in Admins :
          \/ \E set \in (SUBSET {"limit", "window"}) \ {{}},
                p \in [limit : LoginLimits \cup {0}, window : LoginWindows] : ReadPolicy(a, set, p)
          \/ upsert_policy(a) \/ PushPolicy(a)
    \/ Restart \/ Tick

Spec == Init /\ [][Next]_vars

-----------------------------------------------------------------------------
\* Types; the policy in force is always a valid one.
TypeOK ==
    /\ now \in 0..MaxTime
    /\ conf \in Policies /\ stored \in Policies
    /\ DOMAIN failures \subseteq Subjects
    /\ \A s \in DOMAIN failures : failures[s] \in Seq(0..MaxTime)
    /\ login \in [Threads -> [step : {"idle", "ask", "verify", "record"}, subject : Subjects \cup {NoSubject},
                              stamp : 0..MaxTime]]
    /\ edit \in [Admins -> [step : {"idle", "commit", "configure"},
                            set : SUBSET {"limit", "window"}, merged : Policies,
                            alone : BOOLEAN]]
    /\ wrong \in [Subjects -> Seq(0..MaxTime)]
    /\ late \in BOOLEAN /\ settled \in BOOLEAN
    /\ logins \in 0..MaxLogins /\ updates \in 0..MaxUpdates

\* Within the shortest window, parallel logins of one subject get at most one password
\* each beyond the limit, across policy edits and sweeps (login, LoginBackoff).  Stamps
\* appended out of order are excepted: _sweep judges a subject by its last one.
GuessesBounded ==
    ~late => \A s \in Subjects :
        Cardinality({i \in 1..Len(wrong[s]) : wrong[s][i] > now - Min(LoginWindows)})
            <= Max(LoginLimits) + Cardinality(Threads) - 1

\* A subject that was left alone for one window is let in again, however many refusals
\* it collected ("a lockout can never outlive" the window, login_limit docstring).
QuietUnlocks ==
    \A s \in Subjects :
        LET list == Stamps(s)
        IN  (\A i \in 1..Len(list) : now - list[i] >= conf.window) =>
               ~OverLimit(Prune(list, now - conf.window))

\* When updates ran one at a time, the policy in force is the stored one (update_policy).
PolicyBinds ==
    (settled /\ \A a \in Admins : edit[a].step = "idle") => conf = stored

\* The backoff an administrator can rely on: valid policies, the stored one in force
\* once updates have settled, and no lockout that outlives its window
\* (LoginBackoff, update_policy).
LockoutSound == TypeOK /\ PolicyBinds /\ QuietUnlocks
=============================================================================
