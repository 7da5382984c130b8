------------------------------ MODULE Settings ------------------------------
(***************************************************************************)
(* api/settings.py: the runtime controls, kept as texts in the settings    *)
(* table over the defaults of the configuration; and the per-key limits of *)
(* api/keys.py.  An update validates its whole body and writes it in one   *)
(* transaction; only what it read for its audit row can be stale when two  *)
(* overlap.  The operators are updates one at a time.  Fractions are       *)
(* counted in halves; a text is what int(), float() and the truth words    *)
(* make of it.                                                             *)
(***************************************************************************)
EXTENDS Integers, FiniteSets

CONSTANTS Floor,    \* a minimum of _INT_MINIMUMS
          Numbers   \* numbers in bodies and rows

ASSUME SettingsAssumption == Floor \in Nat /\ Numbers \subseteq Nat /\ {0, 1, 2} \subseteq Numbers

\* One control of each kind: an integer with a floor, the sampled fraction, the switch.
Controls == {"ring", "sample", "capture"}

\* A JSON value of a body, and a text in a row: "3", "0.5", or neither.
Values == [type : {"int", "half"}, n : Numbers] \cup [type : {"bool"}, n : {0, 1}]
              \cup {[type |-> "other", n |-> 0]}
Texts  == [form : {"int", "half"}, n : Numbers] \cup {[form |-> "word", n |-> 0], [form |-> "yes", n |-> 0]}
NoRow  == [form |-> "none", n |-> 0]
Bad    == [form |-> "bad", n |-> 0]

Half(n)     == [form |-> "half", n |-> n]
Integer(n)  == [form |-> "int", n |-> n]

\* _control_text: the text to store, or Bad for a 400.  A boolean is no number.
_control_text(name, v) ==
    CASE name = "capture" -> IF v.type = "bool" THEN Integer(v.n) ELSE Bad
      [] name = "sample"  ->
            LET halves == IF v.type = "int" THEN 2 * v.n ELSE v.n
            IN  IF v.type \in {"int", "half"} /\ halves \in 0..2 THEN Half(halves) ELSE Bad
      [] name = "ring"    -> IF v.type = "int" /\ v.n >= Floor THEN Integer(v.n) ELSE Bad

\* _typed: a number, halves, or 0 and 1 for the switch; -1 where the parse raises.
Raises == -1
_typed(name, t) ==
    CASE name = "capture" -> IF t = Integer(1) \/ t.form = "yes" THEN 1 ELSE 0
      [] name = "sample"  -> IF t.form = "int" THEN 2 * t.n ELSE IF t.form = "half" THEN t.n ELSE Raises
      [] name = "ring"    -> IF t.form = "int" THEN t.n ELSE Raises

\* A row that does not parse gives way to the default.
_effective_value(config, rows, name) ==
    IF rows[name] = NoRow \/ _typed(name, rows[name]) = Raises THEN config[name]
    ELSE _typed(name, rows[name])

_payload(config, rows) == [name \in Controls |-> _effective_value(config, rows, name)]

\* update: refused as a whole for an empty body, a bad field, a role below admin, or the
\* switch in the hands of anyone but an owner; else every field is written and audited.
Accepted(role, body) ==
    /\ DOMAIN body # {}
    /\ \A name \in DOMAIN body : _control_text(name, body[name]) # Bad
    /\ role \in {"admin", "owner"} /\ ("capture" \in DOMAIN body => role = "owner")

update(config, rows, role, body) ==
    IF ~Accepted(role, body) THEN [rows |-> rows, audit |-> {}]
    ELSE [rows  |-> [name \in Controls |-> IF name \in DOMAIN body
                                           THEN _control_text(name, body[name]) ELSE rows[name]],
          audit |-> {[name |-> name, before |-> _effective_value(config, rows, name),
                      after |-> _typed(name, _control_text(name, body[name]))] : name \in DOMAIN body}]

-----------------------------------------------------------------------------
\* Limits of one key; Null is the global default.

Null == -1

\* _limits of a PATCH body of valid values: a field that is absent counts as null.
_limits(body) ==
    [f \in {"rate", "burst"} |-> IF f \in DOMAIN body THEN body[f] ELSE Null]

\* _set_limits writes both columns of the row, if the body names one.
_set_limits(row, body) == IF DOMAIN body = {} THEN row ELSE _limits(body)

-----------------------------------------------------------------------------
Bodies  == UNION {[K -> Values] : K \in SUBSET Controls}
Rows    == {[name \in Controls |-> t] : t \in Texts \cup {NoRow}}
Configs == {[name \in Controls |-> n] : n \in {0, 1}}
Roles   == {"viewer", "admin", "owner"}

\* What a JSON value says, in the units of _typed.
Meant(name, v) == IF name = "sample" /\ v.type = "int" THEN 2 * v.n ELSE v.n

\* After an update the view shows what was sent for its fields and what it showed before
\* for the others, within bounds; the audit row tells the same; a refused update changes and audits
\* nothing, however many of its fields were good (update, _effective_value).
UpdateReadsBack ==
    \A rows \in Rows, config \in Configs, role \in Roles, body \in Bodies :
        LET old  == _payload(config, rows)
            done == update(config, rows, role, body)
            new  == _payload(config, done.rows)
        IN  /\ \A name \in Controls :
                  new[name] = IF done.audit # {} /\ name \in DOMAIN body
                              THEN Meant(name, body[name]) ELSE old[name]
            /\ \A row \in done.audit :
                  /\ row.before = old[row.name] /\ row.after = new[row.name]
                  /\ row.name = "ring" => row.after >= Floor
                  /\ row.name = "sample" => row.after \in 0..2

\* Only an owner's update moves the capture switch ("capture_payloads additionally
\* requiring the owner-only settings.capture permission", settings.py).
OwnerCaptures ==
    \A rows \in Rows, config \in Configs, role \in Roles, body \in Bodies :
        update(config, rows, role, body).rows["capture"] # rows["capture"] => role = "owner"

\* Two PATCHes of a key never leave a mix: the later one decides both columns, in either
\* order (_set_limits).
PatchesDoNotMix ==
    LET Sent == UNION {[K -> {Null, 0, 1}] : K \in (SUBSET {"rate", "burst"}) \ {{}}}
    IN  \A first, second \in Sent, row \in [{"rate", "burst"} -> {Null, 0, 1}] :
            _set_limits(_set_limits(row, first), second) = _limits(second)

\* A PATCH leaves a field it does not name alone ("absent fields mean 'leave unchanged' on
\* PATCH", _limits).  It does not (README, last section).
PatchKeepsAbsent ==
    \A row \in [{"rate", "burst"} -> {Null, 0, 1}], f \in {"rate", "burst"}, n \in {0, 1} :
        \A g \in {"rate", "burst"} \ {f} : _set_limits(row, [x \in {f} |-> n])[g] = row[g]
=============================================================================
