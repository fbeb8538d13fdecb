------------------------------ MODULE Redaction -----------------------------
(***************************************************************************)
(* How a secret is masked in diagnostic text (`scrub_secrets`,             *)
(* supervisor.py).  A text and a secret are sequences of letters; the mask *)
(* is one letter that no secret has.                                       *)
(***************************************************************************)
EXTENDS Naturals, Sequences, SequencesExt

CONSTANTS MinScrub,     \* MIN_SCRUB_LEN
          Mask          \* SECRET_MASK

ASSUME RedactionAssumption == MinScrub \in Nat \ {0}

\* The places of a value in a text, each [from, to) counted from 1.
SpansOf(text, value) ==
  {<<i, i + Len(value)>> :
     i \in {j \in DOMAIN text : /\ j + Len(value) <= Len(text) + 1
                                /\ SubSeq(text, j, j + Len(value) - 1) = value}}

Spans(text, secrets) ==
  UNION {SpansOf(text, value) : value \in {s \in secrets : Len(s) >= MinScrub}}

Earlier(a, b) == a[1] < b[1] \/ (a[1] = b[1] /\ a[2] < b[2])

Latest(spans) == CHOOSE a \in spans : \A b \in spans : a = b \/ Earlier(b, a)

Longer(a, b) == IF a >= b THEN a ELSE b

\* A span that starts inside the last one, or where it ends, becomes part of it.
MergeSpan(merged, span) ==
  IF merged # <<>> /\ span[1] <= merged[Len(merged)][2]
  THEN LET last == merged[Len(merged)]
       IN  [merged EXCEPT ![Len(merged)] = <<last[1], Longer(last[2], span[2])>>]
  ELSE Append(merged, span)

\* The spans in their order, each merged into those before it.
MergedSpans(spans) ==
  MapThenFoldSet(LAMBDA span, merged : MergeSpan(merged, span), <<>>,
                 LAMBDA span : span, Latest, spans)

\* The text up to each span, then the mask; and what follows the last span.
Scrub(text, secrets) ==
  LET merged == MergedSpans(Spans(text, secrets))
      Piece(i) == SubSeq(text, IF i = 1 THEN 1 ELSE merged[i - 1][2], merged[i][1] - 1)
      end == IF merged = <<>> THEN 1 ELSE merged[Len(merged)][2]
  IN  FlattenSeq([i \in DOMAIN merged |-> Append(Piece(i), Mask)])
        \o SubSeq(text, end, Len(text))

\* What the masking promises, in terms of the places alone: a letter of the text stays
\* when no long enough secret covers it, and each run of covered letters becomes one mask.
Covered(text, secrets, i) ==
  \E s \in Spans(text, secrets) : s[1] <= i /\ i < s[2]

Promised(text, secrets) ==
  LET Out(i) == IF ~Covered(text, secrets, i) THEN <<text[i]>>
                ELSE IF i > 1 /\ Covered(text, secrets, i - 1) THEN <<>>
                ELSE <<Mask>>
  IN  FlattenSeq([i \in DOMAIN text |-> Out(i)])
=============================================================================
