---------------------------- MODULE EnvelopeText ----------------------------
(***************************************************************************)
(* Text as the envelope contracts look at it: a length and what kind of    *)
(* characters it holds.  "blank" is whitespace only, "spaced" has          *)
(* whitespace between other characters, "nul" holds a NUL, "wide" is not   *)
(* ASCII.  NoText stands for an absent optional field.                     *)
(***************************************************************************)
EXTENDS Naturals

NoText == [len |-> 0, kind |-> "absent"]

Text(len, kind) == [len |-> len, kind |-> kind]

Absent(t) == t.kind = "absent"

Blank(t) == t.len = 0 \/ t.kind = "blank"

HasWhitespace(t) == t.kind \in {"blank", "spaced"}

\* An optional value: absent, or neither blank nor over the limit.
OptionalBounded(t, limit) == Absent(t) \/ (~Blank(t) /\ t.len <= limit)

\* A trace context: a parent and an optional state; NoTrace when there is none.
NoTrace == [parent |-> NoText, state |-> NoText]

TracePart(t, limit) == ~Blank(t) /\ t.kind # "wide" /\ t.len <= limit
=============================================================================
