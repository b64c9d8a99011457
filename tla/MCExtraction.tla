---------------------------- MODULE MCExtraction ----------------------------
(***************************************************************************)
(* A feed and a directory that hold one article in common.  The summary of *)
(* the feed is another byte string; the third is a page without text.      *)
(* Both texts have a ligature, and the article a doubled line break.       *)
(***************************************************************************)
EXTENDS Extraction

MCTextOf(c) ==
    CASE c = "article" -> <<"#", "fi", "b", "NL", " ", "NL", "a", " ", " ", "curly", "b", " ">>
      [] c = "summary" -> <<"fi", "b", "a">>
      [] c = "blank" -> <<" ", "NL">>
MCTexts == [c \in Content |-> MCTextOf(c)]

Entry(feed, content, kind, date) ==
    [feed |-> feed, content |-> content, summary |-> "summary", kind |-> kind, date |-> date]
MCSource ==
    [i \in Ingester |->
        IF i = "feed" THEN <<Entry(TRUE, "article", "html", "past"), Entry(TRUE, "blank", "html", "unzoned")>>
        ELSE <<Entry(FALSE, "blank", "text", "past"), Entry(FALSE, "article", "image", "past"),
               Entry(FALSE, "article", "text", "past")>>]

\* Found word for word, across the doubled break, behind the ligature and inside
\* it, with blanks to fold; nothing but blanks; not there; and no quote at all.
MCProposals ==
    {{<<"A", " ", "'", "b">>, <<"b", " ", "A">>, <<"i", "b">>},
     {<<" ", "NL">>, <<"b">>, <<"A">>},
     {<<"a", " ", "curly">>, <<"b", " ", " ", "A", " ">>, <<"f">>, <<"'", "f">>, <<>>}}

MCMisdated == {<<"b">>, <<"i", "b">>}

\* Documents are extracted after the drains, which nothing extracted changes,
\* and the drains that precede an extraction are the plain ones.
Settled ==
    extractions > 0 =>
        /\ outages = 0
        /\ \A i \in Ingester :
              /\ runs[i] = 1 /\ ~Busy(i)
              /\ step[i] = "stopped" => raw[i] = NoRaw /\ Undatable(Source[i][next[i]])
=============================================================================
