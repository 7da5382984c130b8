------------------------------- MODULE Capture ------------------------------
(***************************************************************************)
(* obs/redact.py: what is stored of a captured payload.  A JSON value is a *)
(* leaf, a list or an object.  A text is plain or shows something the PII  *)
(* patterns match; so is a key, which may also name a secret               *)
(* (is_redacted_key).  The patterns and the serialisation are left out;    *)
(* the cut at a byte limit is in.                                          *)
(***************************************************************************)
EXTENDS Integers, Sequences, FiniteSets, FiniteSetsExt

Leaves == {[kind |-> "none"], [kind |-> "number"]}
              \cup [kind : {"text"}, shows : {"plain", "pii"}]
Fields == [secret : BOOLEAN, shows : {"plain", "pii"}]

\* Objects have at most two fields, lists one item; values are nested up to two deep.
Lists(V)   == [kind : {"list"}, items : {<<>>} \cup {<<v>> : v \in V}]
Objects(V) == [kind : {"object"}, fields : UNION {[K -> V] : K \in {{j, k} : j, k \in Fields}}]
Values     == LET shallow == Leaves \cup Lists(Leaves) \cup Objects(Leaves)
              IN  shallow \cup Lists(shallow)
                          \cup [kind : {"object"}, fields : UNION {[{k} -> shallow] : k \in Fields}]

REDACTED == [kind |-> "text", shows |-> "redacted"]

\* scrub_pii, on a text or on a key.
scrub_pii(x) == IF x.shows = "pii" THEN [x EXCEPT !.shows = "scrubbed"] ELSE x

\* Under a secret's name a number or a null stays; all else is replaced whole.
KeptUnderSecret(value) == value.kind \in {"none", "number"}

RECURSIVE redact_for_capture(_)
redact_for_capture(value) ==
    CASE value.kind = "text" -> scrub_pii(value)
      [] value.kind = "list" ->
            [value EXCEPT !.items = [i \in DOMAIN @ |-> redact_for_capture(@[i])]]
      [] value.kind = "object" ->
            LET f == value.fields
                Stored(k) == IF k.secret /\ ~KeptUnderSecret(f[k]) THEN REDACTED
                             ELSE redact_for_capture(f[k])
            IN  [value EXCEPT !.fields =
                   [safe \in {scrub_pii(k) : k \in DOMAIN f} |->
                       Stored(CHOOSE k \in DOMAIN f : scrub_pii(k) = safe)]]
      [] OTHER -> value

\* capture_value: nothing is stored unless capture is on.
capture_value(value, enabled) == IF enabled THEN {redact_for_capture(value)} ELSE {}

-----------------------------------------------------------------------------
\* scrub_text, on the byte widths of the characters left once control characters went.

Bytes(text) ==
    LET total[i \in 0..Len(text)] == IF i = 0 THEN 0 ELSE total[i - 1] + text[i]
    IN  total[Len(text)]

\* The byte prefix is decoded leniently: a character the limit splits is dropped.
scrub_text(text, max_bytes) ==
    SubSeq(text, 1, Max({n \in 0..Len(text) : Bytes(SubSeq(text, 1, n)) <= max_bytes}))

-----------------------------------------------------------------------------
\* Whether a value shows PII somewhere, in a text or in a key.
RECURSIVE ShowsPii(_)
ShowsPii(value) ==
    CASE value.kind = "text"   -> value.shows = "pii"
      [] value.kind = "list"   -> \E i \in DOMAIN value.items : ShowsPii(value.items[i])
      [] value.kind = "object" -> \E k \in DOMAIN value.fields :
                                     k.shows = "pii" \/ ShowsPii(value.fields[k])
      [] OTHER -> FALSE

\* Whether some field named as a secret holds a text or a container.
RECURSIVE HoldsSecret(_)
HoldsSecret(value) ==
    CASE value.kind = "list"   -> \E i \in DOMAIN value.items : HoldsSecret(value.items[i])
      [] value.kind = "object" -> \E k \in DOMAIN value.fields :
                                     \/ HoldsSecret(value.fields[k])
                                     \/ /\ k.secret /\ value.fields[k] # REDACTED
                                        /\ value.fields[k].kind \notin {"none", "number"}
      [] OTHER -> FALSE

\* Nothing is stored with capture off.  With it on, what is stored shows no PII and no
\* secret, at any depth and under any key, and a payload that held neither is stored as
\* it is (redact_for_capture, capture_value).
NoSecretStored ==
    \A v \in Values :
        /\ capture_value(v, FALSE) = {}
        /\ \A stored \in capture_value(v, TRUE) :
              /\ ~ShowsPii(stored) /\ ~HoldsSecret(stored)
              /\ (~ShowsPii(v) /\ ~HoldsSecret(v)) => stored = v

\* The cut keeps whole characters within the limit, and as many as fit (scrub_text).
CutIsTight ==
    \A text \in UNION {[1..n -> 1..4] : n \in 0..3}, max \in 0..6 :
        LET kept == scrub_text(text, max)
        IN  /\ Bytes(kept) <= max
            /\ Len(kept) < Len(text) => Bytes(SubSeq(text, 1, Len(kept) + 1)) > max
=============================================================================
