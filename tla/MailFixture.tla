----------------------------- MODULE MailFixture -----------------------------
(***************************************************************************)
(* The fixture comparison of test_jmap_mail_create in                      *)
(* src/components/store_test/src/jmap_mail_set.rs: replace_boundaries      *)
(* renames the MIME boundaries the message builder drew at random to       *)
(* boundary_0, boundary_1, ..., and assert_diff compares the result with   *)
(* the .jmap or .eml fixture, which an earlier run recorded with the       *)
(* commented-out fs::write of the same normalised text.                    *)
(*                                                                         *)
(* Text is a sequence of one-character strings. The word "boundary" is the *)
(* one character "b", so the marker "boundary=" is <<"b", "=">> and the    *)
(* replacement "boundary_i" is <<"b", "_", i>>. Boundary names are made of *)
(* the characters of Names; every other character of the message is a     *)
(* filler, "é" standing for a character UTF-8 writes in two bytes.         *)
(***************************************************************************)
EXTENDS Naturals, Sequences, FiniteSets

CONSTANTS
    Names,        \* the boundary names the builder may draw
    Fillers,      \* the other characters of a message
    MaxTokens,    \* the bound on the length of a message template
    DiffContext   \* the bytes of context assert_diff shows around a mismatch

ASSUME FixtureAssumption ==
    /\ Names \subseteq Seq({"p", "r"}) \ {<<>>}
    /\ Fillers \subseteq {"x", "é"}
    /\ MaxTokens \in Nat
    /\ DiffContext \in Nat

\* The boundaries of a message, and the two ways a declaration is written:
\* boundary=\"name\" inside the pretty-printed JSON, boundary="name" in the
\* raw message.
Bounds == {1, 2}
Forms == {"json", "raw"}

\* The parts of a message: a filler character, the declaration of a
\* boundary (a Content-Type parameter) and a delimiter line "--name".
Tokens == [fill: Fillers] \cup [decl: Bounds] \cup [use: Bounds]

\* A message as its builder lays it out, before any name is drawn: every
\* boundary it delimits with is declared in it.
Templates == {t \in [form: Forms, toks: UNION {[1..n -> Tokens] : n \in 0..MaxTokens}] :
                \A i \in DOMAIN t.toks : "use" \in DOMAIN t.toks[i] =>
                   \E j \in DOMAIN t.toks : t.toks[j] = [decl |-> t.toks[i].use]}

\* The names the builder draws: distinct for distinct boundaries.
Namings == {n \in [Bounds -> Names] : n[1] # n[2]}

Marker == <<"b", "=">>
Digit(i) == CASE i = 0 -> "0" [] i = 1 -> "1" [] i = 2 -> "2" [] OTHER -> "3"
\* Line 75: format!("boundary_{}", pos).
Replacement(i) == <<"b", "_", Digit(i)>>

\* The text of one token, and of a message under a naming.
TokenText(tok, form, n) ==
    IF "fill" \in DOMAIN tok THEN <<tok.fill>>
    ELSE IF "use" \in DOMAIN tok THEN <<"-", "-">> \o n[tok.use]
    ELSE IF form = "json" THEN Marker \o <<"\\", "\"">> \o n[tok.decl] \o <<"\\", "\"">>
    ELSE Marker \o <<"\"">> \o n[tok.decl] \o <<"\"">>

RECURSIVE RenderFrom(_, _, _, _)
RenderFrom(toks, form, n, i) ==
    IF i > Len(toks) THEN <<>>
    ELSE TokenText(toks[i], form, n) \o RenderFrom(toks, form, n, i + 1)

Render(t, n) == RenderFrom(t.toks, t.form, n, 1)

\* The UTF-8 length of a character and of a text, and the byte offset at
\* which the i-th character starts.
Width(c) == IF c = "é" THEN 2 ELSE 1

RECURSIVE ByteLen(_)
ByteLen(s) == IF s = <<>> THEN 0 ELSE Width(Head(s)) + ByteLen(Tail(s))

ByteOffset(s, i) == ByteLen(SubSeq(s, 1, i - 1))

\* The results: a text, or a panic of the test.
Panicked == [panic |-> "unwrap on None"]
Text(s) == [text |-> s]

-----------------------------------------------------------------------------
(* jmap_mail_set.rs                                                        *)

\* str::find from byte position from (1-based): the first index at or after
\* from where pat starts, or 0.
Find(s, pat, from) ==
    LET I == {i \in from..(Len(s) - Len(pat) + 1) :
                SubSeq(s, i, i + Len(pat) - 1) = pat}
    IN IF I = {} THEN 0 ELSE CHOOSE i \in I : \A j \in I : i <= j

\* Lines 65-68: string[p..].split('"').nth(1), with a trailing '\' cut
\* off; None (unwrapped at line 65) when no quote follows p.
QuotedAfter(s, p) ==
    LET Q == {i \in p..Len(s) : s[i] = "\""}
        q1 == CHOOSE i \in Q : \A j \in Q : i <= j
        Q2 == {i \in Q : i > q1}
        q2 == IF Q2 = {} THEN Len(s) + 1 ELSE CHOOSE i \in Q2 : \A j \in Q2 : i <= j
        part == SubSeq(s, q1 + 1, q2 - 1)
    IN IF Q = {} THEN [some |-> FALSE, part |-> <<>>]
       ELSE [some |-> TRUE,
             part |-> IF part # <<>> /\ part[Len(part)] = "\\"
                      THEN SubSeq(part, 1, Len(part) - 1) ELSE part]

\* Lines 64-71: the boundary after every "boundary=", in order; the scan
\* resumes after the marker (last_pos += pos + 9).
RECURSIVE ScanBoundaries(_, _)
ScanBoundaries(s, last) ==
    LET p == Find(s, Marker, last) IN
    IF p = 0 THEN <<>>
    ELSE <<QuotedAfter(s, p)>> \o ScanBoundaries(s, p + Len(Marker))

\* str::replace: every non-overlapping occurrence of pat, leftmost first,
\* replaced by rep; an empty pat puts rep before every character and at
\* the end.
RECURSIVE StrReplace(_, _, _)
StrReplace(s, pat, rep) ==
    IF pat = <<>>
    THEN IF s = <<>> THEN rep ELSE rep \o <<Head(s)>> \o StrReplace(Tail(s), pat, rep)
    ELSE IF Len(s) < Len(pat) THEN s
    ELSE IF SubSeq(s, 1, Len(pat)) = pat
         THEN rep \o StrReplace(SubSeq(s, Len(pat) + 1, Len(s)), pat, rep)
         ELSE <<Head(s)>> \o StrReplace(Tail(s), pat, rep)

\* Lines 73-77: the boundaries replaced one after the other, the one found
\* at position pos of the list by "boundary_{pos}".
RECURSIVE RenameFrom(_, _, _)
RenameFrom(s, bs, i) ==
    IF i > Len(bs) THEN s
    ELSE RenameFrom(StrReplace(s, bs[i], Replacement(i - 1)), bs, i + 1)

\* Lines 61-80: replace_boundaries.
ReplaceBoundaries(s) ==
    LET bs == ScanBoundaries(s, 1) IN
    IF \E i \in 1..Len(bs) : ~bs[i].some THEN Panicked
    ELSE Text(RenameFrom(s, [i \in 1..Len(bs) |-> bs[i].part], 1))

\* Mutant: the length check after the loop is left out.
AssertDiffNoLength(s1, s2) ==
    LET M == {i \in 1..Len(s1) : i <= Len(s2) /\ s1[i] # s2[i]} IN
    IF M # {} THEN "mismatch" ELSE "pass"

\* Lines 85-89: the slice str[pos - 10 (or pos)..pos + 10] of the panic
\* message, which itself panics when it ends past the text or inside a
\* character.
IsCharBoundary(s, b) == b = ByteLen(s) \/ \E j \in 1..Len(s) : ByteOffset(s, j) = b

SliceOk(s, pos) ==
    LET from == IF pos >= DiffContext THEN pos - DiffContext ELSE pos
        to == pos + DiffContext
    IN to <= ByteLen(s) /\ IsCharBoundary(s, from) /\ IsCharBoundary(s, to)

\* Lines 83-96: assert_diff. The characters are compared pairwise up to the
\* shorter text; the first mismatch panics with the context of both (or
\* panics in slicing it); then the byte lengths must agree.
AssertDiff(s1, s2) ==
    LET M == {i \in 1..Len(s1) : i <= Len(s2) /\ s1[i] # s2[i]}
        i == CHOOSE i \in M : \A j \in M : i <= j
    IN IF M # {}
       THEN IF SliceOk(s1, ByteOffset(s1, i)) /\ SliceOk(s2, ByteOffset(s2, i))
            THEN "mismatch" ELSE "slice_panic"
       ELSE IF ByteLen(s1) # ByteLen(s2) THEN "length" ELSE "pass"

-----------------------------------------------------------------------------
(* One fixture file: recorded by one run, checked by a later one          *)

NoFixture == [text |-> "no file"]

VARIABLES
    recorded,    \* the message the server rendered when the fixture was written
    message,     \* the message it renders now
    fixture,     \* the .jmap or .eml file
    outcome      \* the result of the check

vars == <<recorded, message, fixture, outcome>>

Outcomes == {"none", "pass", "mismatch", "slice_panic", "length", "panic"}

Init ==
    /\ recorded \in Templates
    /\ message \in {t \in Templates : t.form = recorded.form}
    /\ fixture = NoFixture
    /\ outcome = "none"

\* Lines 262-266 and 277-281 (commented out): the fixture is written as
\* replace_boundaries of the text, under the names the builder drew.
Record(n) ==
    /\ fixture = NoFixture
    /\ outcome = "none"
    /\ LET r == ReplaceBoundaries(Render(recorded, n)) IN
       IF r = Panicked THEN outcome' = "panic" /\ UNCHANGED fixture
       ELSE fixture' = r /\ UNCHANGED outcome
    /\ UNCHANGED <<recorded, message>>

\* Lines 254-260 and 268-275: a later run draws its own names, normalises
\* its text and compares it with the fixture.
Check(n) ==
    /\ fixture # NoFixture
    /\ outcome = "none"
    /\ LET r == ReplaceBoundaries(Render(message, n)) IN
       outcome' = IF r = Panicked THEN "panic" ELSE AssertDiff(r.text, fixture.text)
    /\ UNCHANGED <<recorded, message, fixture>>

Done ==
    /\ outcome # "none"
    /\ UNCHANGED vars

Next ==
    \/ \E n \in Namings : Record(n)
    \/ \E n \in Namings : Check(n)
    \/ Done

Spec == Init /\ [][Next]_vars

-----------------------------------------------------------------------------
(* Properties                                                              *)

\* The reference: the message with each boundary written boundary_i, i the
\* number of declarations before the first one of that boundary.
Rank(t, k) ==
    LET D == {j \in DOMAIN t.toks : t.toks[j] = [decl |-> k]}
        first == CHOOSE j \in D : \A l \in D : j <= l
    IN IF D = {} THEN 0
       ELSE Cardinality({j \in 1..(first - 1) : "decl" \in DOMAIN t.toks[j]})

Canonical(t) ==
    RenderFrom(t.toks, t.form, [k \in Bounds |-> Replacement(Rank(t, k))], 1)

\* The comparison test_jmap_mail_create makes does what it is for: whatever
\* names the recording run and the checking run drew, the check passes
\* exactly when the two messages are the same but for their boundary names;
\* a replace_boundaries that depends on the names, or an assert_diff that
\* lets a different text through (a prefix, a mismatch near the end),
\* breaks it.
FixtureCheckSound ==
    outcome # "none" => (outcome = "pass" <=> Canonical(recorded) = Canonical(message))

=============================================================================
