------------------------------- MODULE Texts -------------------------------
(***************************************************************************)
(* What the parsers make of a document's text and how a quote is found in  *)
(* it again (ingestion, parsing.py; agents, document_agents.py).           *)
(*                                                                         *)
(* A text is a sequence of characters.  A character is told apart as far   *)
(* as this code does: blank or ink, the mark of a heading, upper or lower  *)
(* case, a typographic quote, and a ligature, the kind of character that   *)
(* compatibility normalisation replaces by two.  Offsets count from 0.     *)
(***************************************************************************)
EXTENDS Integers, Sequences, FiniteSets, FiniteSetsExt, SequencesExt

Character == {" ", "NL", "#", "a", "A", "b", "f", "i", "'", "curly", "fi"}
Blank(c) == c \in {" ", "NL"}

\* A set of positions of t in order, and the characters there.
Ordered(t, positions) == SelectSeq([n \in DOMAIN t |-> n], LAMBDA n : n \in positions)
At(t, positions) == LET order == Ordered(t, positions) IN [k \in DOMAIN order |-> t[order[k]]]

InkBefore(t, n) == {k \in 1..(n - 1) : ~Blank(t[k])}
InkAfter(t, n) == {k \in (n + 1)..Len(t) : ~Blank(t[k])}

\* The line breaks at n and before it that no ink separates from n.
Breaks(t, n) == {k \in 1..n : t[k] = "NL" /\ \A j \in InkBefore(t, n) : j < k}

\* Runs of spaces become one, lines are stripped, blank lines do not repeat.
NormalizeWhitespace(t) ==
    LET Inner(n) == InkBefore(t, n) # {} /\ InkAfter(t, n) # {}
        Break(n) == t[n] = "NL" /\ Cardinality(Breaks(t, n)) <= 2
        Gap(n) == /\ t[n] = " " /\ ~Blank(t[n - 1])
                  /\ \A k \in (n + 1)..Min(InkAfter(t, n)) : t[k] # "NL"
    IN  At(t, {n \in DOMAIN t : ~Blank(t[n]) \/ (Inner(n) /\ (Break(n) \/ Gap(n)))})

-----------------------------------------------------------------------------
(* Sections.  The three patterns of a heading are one mark here. *)

LineStarts(t) == {n \in DOMAIN t : n = 1 \/ t[n - 1] = "NL"}
Headings(t) == {n \in LineStarts(t) : t[n] = "#" /\ n < Len(t) /\ t[n + 1] # "NL"}

SectionsFrom(t, starts) ==
    LET End(n) == Min({m \in starts : m > n} \cup {Len(t) + 1})
        Body(n) == {k \in n..(End(n) - 1) : ~Blank(t[k])}
        kept == Ordered(t, {n \in starts : Body(n) # {}})
    IN  [k \in DOMAIN kept |->
            [start |-> kept[k] - 1, end |-> End(kept[k]) - 1, headed |-> kept[k] \in Headings(t)]]

DetectSections(t) == SectionsFrom(t, Headings(t) \cup {n \in DOMAIN t : n = 1})

\* The section an offset lies in; 0: none.
SectionAt(sections, offset) ==
    LET holds == {k \in DOMAIN sections : sections[k].start <= offset /\ offset < sections[k].end}
    IN  IF holds = {} THEN 0 ELSE Min(holds)

-----------------------------------------------------------------------------
(* Quotes. *)

\* NFKC: a ligature becomes its letters.
Compatible(t) == FlattenSeq([n \in DOMAIN t |-> IF t[n] = "fi" THEN <<"f", "i">> ELSE <<t[n]>>])
Folded(c) == CASE Blank(c) -> " " [] c = "curly" -> "'" [] c = "A" -> "a" [] OTHER -> c

\* normalize_for_matching: the differences that do not change what a quote says.
ForMatching(t) ==
    LET u == Compatible(t)
        kept == {n \in DOMAIN u : \/ ~Blank(u[n])
                                  \/ n > 1 /\ ~Blank(u[n - 1]) /\ InkAfter(u, n) # {}}
        s == At(u, kept)
    IN  [n \in DOMAIN s |-> Folded(s[n])]

Occurs(needle, s) == {k \in 0..(Len(s) - Len(needle)) : SubSeq(s, k + 1, k + Len(needle)) = needle}

\* The offset of a quote that differs in spacing, case or the style of its marks,
\* counted in the text as NFKC leaves it; -1: not there.
FindNormalized(quote, t) ==
    LET u == Compatible(t)
        kept == Ordered(u, {n \in DOMAIN u : ~Blank(u[n]) \/ (n > 1 /\ ~Blank(u[n - 1]))})
        needle == ForMatching(quote)
        found == Occurs(needle, [k \in DOMAIN kept |-> Folded(u[kept[k]])])
    IN  IF needle = <<>> \/ found = {} THEN -1 ELSE kept[Min(found) + 1] - 1

FindSpan(quote, t) ==
    IF Occurs(quote, t) # {} THEN Min(Occurs(quote, t)) ELSE FindNormalized(quote, t)

NoSpan == [start |-> -1, end |-> -1, section |-> 0]
\* Mutant: the end is the offset of the last character.
ResolveSpanInclusive(quote, t) ==
    LET start == FindSpan(quote, t)
    IN  IF quote = <<>> \/ start = -1 THEN NoSpan
        ELSE [start |-> start, end |-> start + Len(quote) - 1,
              section |-> SectionAt(DetectSections(t), start)]

ResolveSpan(quote, t) ==
    LET start == FindSpan(quote, t)
    IN  IF quote = <<>> \/ start = -1 THEN NoSpan
        ELSE [start |-> start, end |-> start + Len(quote),
              section |-> SectionAt(DetectSections(t), start)]

\* The evaluator's two checks of a quote.
Grounded(quote, t) == quote # <<>> /\ Occurs(ForMatching(quote), ForMatching(t)) # {}
=============================================================================
