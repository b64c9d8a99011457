------------------------------ MODULE Extraction ------------------------------
(***************************************************************************)
(* From an ingested document to its Claims (agents, extraction.py,         *)
(* document_agents.py, persistence.py; llm, agent.py and service.py).      *)
(*                                                                         *)
(* A stage asks two agents in turn, the classifier and the extractor.      *)
(* Each asks its model until an answer satisfies the schema, a bounded     *)
(* number of times.  The run is recorded with the versions of prompt and   *)
(* model, which are looked up and created in one transaction; then the     *)
(* Claims whose quotes are found are written in another.                   *)
(***************************************************************************)
EXTENDS Ingestion

CONSTANTS
    Extractor,
    Proposals,      \* the sets of quotes the extraction agent may answer
    Misdated,       \* the quotes it dates after the document they are from
    MaxAttempts,    \* LLMSettings.max_attempts
    MaxExtractions  \* bound: extractions begun

ASSUME ExtractionAssumption ==
    /\ \A p \in Proposals : \A q \in p : q \in Seq(Character)
    /\ MaxAttempts \in Nat \ {0} /\ MaxExtractions \in Nat

VARIABLES
    stage,       \* what each extractor is doing
    versions,    \* for each agent, the rows of its prompt and model versions
    agentRuns,   \* the AgentRun rows
    claims,      \* the Claim rows, by the run that proposed them
    extractions, \* history: extractions begun
    interrupted  \* history: extraction runs whose Claims a kill prevented

extractionVars == <<stage, versions, agentRuns, claims, extractions, interrupted>>
vars == <<ingestionVars, extractionVars>>

Agent == {"classifier", "extractor"}
Idle == [at |-> "idle", agent |-> "none", document |-> "none", attempts |-> 0,
         mode |-> "none", proposed |-> {}, known |-> FALSE, run |-> 0, classified |-> 0]

Init ==
    /\ IngestionInit
    /\ stage = [x \in Extractor |-> Idle]
    /\ versions = [a \in Agent |-> 0]
    /\ agentRuns = <<>> /\ claims = {} /\ extractions = 0 /\ interrupted = {}

\* What each agent's checks and the writer find of a quote in a document.
Quote == UNION Proposals
Ground == [c \in Content, q \in Quote |-> Grounded(q, Text[c])]
Span == [c \in Content, q \in Quote |-> ResolveSpan(q, Text[c])]

Becomes(x, s) == stage' = [stage EXCEPT ![x] = s]

\* The caller hands over a document whose ingestion was announced to it.
Starts(x) ==
    /\ stage[x].at = "idle" /\ extractions < MaxExtractions
    /\ extractions' = extractions + 1
    /\ \E n \in DOMAIN announced :
          Becomes(x, [Idle EXCEPT !.at = "ask", !.agent = "classifier", !.document = announced[n]])
    /\ UNCHANGED <<versions, agentRuns, claims, interrupted, ingestionVars>>

-----------------------------------------------------------------------------
(* LLMService.structured. *)

Valid(x) ==
    /\ stage[x].at = "ask"
    /\ \/ /\ stage[x].agent = "classifier"
          /\ \E mode \in {"qualitative", "quantitative"} :
                Becomes(x, [stage[x] EXCEPT !.at = "look", !.attempts = @ + 1, !.mode = mode])
       \/ /\ stage[x].agent = "extractor"
          /\ \E p \in Proposals :
                Becomes(x, [stage[x] EXCEPT !.at = "look", !.attempts = @ + 1, !.proposed = p])
    /\ UNCHANGED <<versions, agentRuns, claims, extractions, interrupted, ingestionVars>>

\* The last attempt's error leaves the loop; a refusal leaves it at once.
\* Either ends the extraction, from the classifier as an exception and from
\* the extractor as a skip.
Attempted(x) == stage[x].attempts + 1
Invalid(x) ==
    /\ stage[x].at = "ask"
    /\ IF Attempted(x) = MaxAttempts THEN Becomes(x, Idle)
       ELSE Becomes(x, [stage[x] EXCEPT !.attempts = Attempted(x)])
    /\ UNCHANGED <<versions, agentRuns, claims, extractions, interrupted, ingestionVars>>

\* Mutant: a refusal is asked again from the start.
RefusesAgain(x) ==
    /\ stage[x].at = "ask"
    /\ Becomes(x, [stage[x] EXCEPT !.attempts = 0])
    /\ UNCHANGED <<versions, agentRuns, claims, extractions, interrupted, ingestionVars>>

Refuses(x) ==
    /\ stage[x].at = "ask"
    /\ Becomes(x, Idle)
    /\ UNCHANGED <<versions, agentRuns, claims, extractions, interrupted, ingestionVars>>

-----------------------------------------------------------------------------
(* AgentRunRecorder.record. *)

\* scalar_one_or_none: two rows would raise.
LooksUpVersion(x) ==
    /\ stage[x].at = "look"
    /\ Becomes(x, [stage[x] EXCEPT !.at = "record", !.known = versions[stage[x].agent] > 0])
    /\ UNCHANGED <<versions, agentRuns, claims, extractions, interrupted, ingestionVars>>

\* The unique constraint of the version rows: an insert meets a row another made.
VersionConflicts(x) == ~stage[x].known /\ versions[stage[x].agent] > 0

\* EvaluationReport.passed; the classifier has no evaluators.
Passed(x) ==
    stage[x].agent = "extractor" =>
        \A q \in stage[x].proposed : Ground[stage[x].document, q]

AgentRunRow(x) ==
    [agent |-> stage[x].agent, document |-> stage[x].document, attempts |-> stage[x].attempts,
     mode |-> stage[x].mode, proposed |-> stage[x].proposed, after |-> stage[x].classified,
     status |-> IF Passed(x) THEN "succeeded" ELSE "rejected"]

\* A quantitative document is left to another service; the rest goes on.
Recorded(x, n) ==
    CASE stage[x].agent = "extractor" -> [stage[x] EXCEPT !.at = "persist", !.run = n]
      [] stage[x].mode = "quantitative" -> Idle
      [] OTHER -> [stage[x] EXCEPT !.at = "ask", !.agent = "extractor", !.attempts = 0,
                                   !.classified = n]

Records(x) ==
    /\ stage[x].at = "record"
    /\ IF VersionConflicts(x)
       THEN Becomes(x, Idle) /\ UNCHANGED <<versions, agentRuns>>
       ELSE /\ versions' = IF stage[x].known THEN versions
                           ELSE [versions EXCEPT ![stage[x].agent] = @ + 1]
            /\ agentRuns' = Append(agentRuns, AgentRunRow(x))
            /\ Becomes(x, Recorded(x, Len(agentRuns')))
    /\ UNCHANGED <<claims, extractions, interrupted, ingestionVars>>

-----------------------------------------------------------------------------
(* ClaimWriter.persist. *)

Accepted(x) ==
    {q \in stage[x].proposed : Span[stage[x].document, q] # NoSpan}

ClaimRow(x, q) ==
    [run |-> stage[x].run, document |-> stage[x].document, quote |-> q,
     span |-> Span[stage[x].document, q], late |-> q \in Misdated]

\* Mutant: each Claim in a transaction of its own, one of which may fail.
PersistsSome(x) ==
    /\ stage[x].at = "persist"
    /\ \E some \in SUBSET Accepted(x) : claims' = claims \cup {ClaimRow(x, q) : q \in some}
    /\ Becomes(x, Idle)
    /\ UNCHANGED <<versions, agentRuns, extractions, interrupted, ingestionVars>>

PersistsClaims(x) ==
    /\ stage[x].at = "persist"
    /\ claims' = claims \cup {ClaimRow(x, q) : q \in Accepted(x)}
    /\ Becomes(x, Idle)
    /\ UNCHANGED <<versions, agentRuns, extractions, interrupted, ingestionVars>>

-----------------------------------------------------------------------------
(* eval, audit.py: what the provenance and point-in-time audits find wrong.    *)
(* A run is as of its document's publication: only another document is later.  *)
(* No other check of the two looks at Claims or at runs.                       *)

Attributed(c) == c.run \in DOMAIN agentRuns
DerivedRowsWithoutARun == {c \in claims : ~Attributed(c)}
ClaimsFromFutureDocuments ==
    {c \in claims : Attributed(c) /\ c.document # agentRuns[c.run].document}
ClaimsStatedAfterPublication == {c \in claims : c.late}
RunsWithoutVersions ==
    {n \in DOMAIN agentRuns : agentRuns[n].status \in {"succeeded", "rejected"}
                                 /\ versions[agentRuns[n].agent] = 0}
RejectedRuns == {n \in DOMAIN agentRuns : agentRuns[n].status = "rejected"}
AcceptedRowsFromRejectedRuns == {c \in claims : c.run \in RejectedRuns}

-----------------------------------------------------------------------------
(* A kill. *)

ExtractorIsKilled(x) ==
    /\ stage[x].at # "idle" /\ kills < MaxKills
    /\ kills' = kills + 1
    /\ interrupted' = interrupted \cup {r \in {stage[x].run} : stage[x].at = "persist"}
    /\ Becomes(x, Idle)
    /\ UNCHANGED <<versions, agentRuns, claims, extractions, ingesterVars, storeVars,
                   outages, silenced>>

Extracts(x) ==
    Valid(x) \/ Invalid(x) \/ Refuses(x) \/ LooksUpVersion(x) \/ Records(x) \/ PersistsClaims(x)

Next ==
    \/ \E i \in Ingester : IngesterNext(i) /\ UNCHANGED extractionVars
    \/ \E x \in Extractor : Starts(x) \/ Extracts(x) \/ ExtractorIsKilled(x)

\* Every call a process makes returns, or raises: each goes on until it is done.
Spec ==
    /\ Init /\ [][Next]_vars
    /\ \A i \in Ingester : WF_vars(Ingests(i) /\ UNCHANGED extractionVars)
    /\ \A x \in Extractor : WF_vars(Extracts(x))

-----------------------------------------------------------------------------
(* Properties of ingestion. *)

TypeOK ==
    /\ step \in [Ingester -> {"fetch", "find", "store", "persist", "publish", "drained", "stopped"}]
    /\ next \in [Ingester -> Nat \ {0}] /\ runs \in [Ingester -> 1..MaxRuns]
    /\ raw \in [Ingester -> [content : Content, kind : Kind] \cup {NoRaw}]
    /\ objects \subseteq {"raw", "normalized"} \X Content \X (Kind \cup {"txt"})
    /\ silenced \subseteq Content
    /\ \A n \in DOMAIN announced : announced[n] \in Content
    /\ \A x \in Extractor :
          /\ stage[x].at \in {"idle", "ask", "look", "record", "persist"}
          /\ stage[x].run \in 0..Len(agentRuns) /\ stage[x].classified \in 0..Len(agentRuns)
    /\ \A c \in claims : c.run \in DOMAIN agentRuns /\ c.document \in Content

\* Two ingesters that both find no row do not both write one: however runs
\* overlap and are repeated, a byte string is one document (models.py,
\* content_hash "is the ingest dedup key").
OneDocumentPerContent ==
    \A m, n \in DOMAIN documents : documents[m].content = documents[n].content => m = n

\* A row's evidence can be read: its bytes are stored under its storage_uri, and
\* its text under the key load_normalized_text asks for, whatever write failed or
\* run was killed before (pipeline.py, ingest: the store before the table).
RowHasBytes ==
    \A n \in DOMAIN documents :
        /\ Key("raw", documents[n]) \in objects
        /\ documents[n].status = "parsed" => Key("normalized", documents[n]) \in objects

\* A document is announced at most once, and only a parsed one: no repeated run
\* and no lost race sends it down the pipeline again (pipeline.py:140).
AnnouncedOnce ==
    /\ \A m, n \in DOMAIN announced : announced[m] = announced[n] => m = n
    /\ \A n \in DOMAIN announced :
          \E k \in Held(announced[n]) : documents[k].status = "parsed"

\* A parsed document that was not announced is about to be, or a kill fell
\* between the commit and the event: nothing else loses an event.  Draining the
\* source again does not make up for it: it finds a duplicate (pipeline.py:93, 140).
UnannouncedCostsAKill ==
    \A n \in DOMAIN documents :
        documents[n].status = "parsed" =>
            \/ \E k \in DOMAIN announced : announced[k] = documents[n].content
            \/ documents[n].content \in silenced
            \/ \E i \in Ingester : step[i] = "publish" /\ raw[i].content = documents[n].content

\* Among all results the runs hold, one at most claims a document, the row it
\* claims is there, and its status is the row's; the others are duplicates.
ResultsMatchRows ==
    \A i \in Ingester : \A k \in DOMAIN results[i] :
        LET r == results[i][k]
        IN  /\ Held(r.content) # {}
            /\ r.status # "duplicate" =>
                 /\ \A n \in Held(r.content) :
                      documents[n].status = (IF r.status = "ingested" THEN "parsed" ELSE "failed")
                 /\ \A j \in Ingester : \A l \in DOMAIN results[j] :
                      /\ results[j][l].content = r.content /\ results[j][l].status # "duplicate"
                      => <<i, k>> = <<j, l>>

\* A run accounts for the entries of its source in order, none left out, and one
\* that says it is done went up to its limit (pipeline.py:149-168).
DrainCoversSource ==
    \A i \in Ingester :
        /\ \A k \in DOMAIN results[i] :
              \E r \in Offered(Source[i][k]) : r.content = results[i][k].content
        /\ step[i] = "drained" =>
              Len(results[i]) = IF Len(Source[i]) < Limit THEN Len(Source[i]) ELSE Limit

\* "One document's failure never stops the run" (pipeline.py:152): a run that
\* stopped at a document was killed.  A refused write and a lost race stop it too.
RunOutlivesFailure ==
    \A i \in Ingester : step[i] = "stopped" /\ raw[i] # NoRaw => kills > 0

\* A drain ends: no document holds its run up.
DrainEnds == \A i \in Ingester : Busy(i) ~> ~Busy(i)

-----------------------------------------------------------------------------
(* Properties of extraction. *)

Prefix(s, t) == Len(s) <= Len(t) /\ SubSeq(t, 1, Len(s)) = s

\* Texts as a quote is looked for in them, and the rest from each offset on.
Read == [c \in Content |-> Compatible(Text[c])]
Rest == [c \in Content |->
            [n \in 0..(Len(Read[c]) - 1) |-> ForMatching(SubSeq(Read[c], n + 1, Len(Read[c])))]]
Sections == [c \in Content |-> DetectSections(Text[c])]

\* text[char_start:char_end], which stops at the end of the text.
Piece(t, span) == SubSeq(t, span.start + 1, Min({span.end, Len(t)}))
DoubledBlanks(t) == {n \in 2..Len(t) : Blank(t[n]) /\ Blank(t[n - 1])}

\* A quote that the text has letter for letter is what lies between its offsets
\* (test_extraction_stage.py:129: "The stored offsets index into the real document").
\* For any other the offsets count in the text as NFKC leaves it, one too far for each
\* ligature before, and the end is as far from the start as the quote is long, not the
\* passage: the text says the quote from the start on, but what lies between the
\* offsets is a beginning of it, and all of it if no two blanks there were taken for
\* one.  Of a quote with blanks or ligatures of its own to fold, the end says nothing.
SpanFits(c, quote, span) ==
    \/ Piece(Text[c], span) = quote
    \/ LET piece == Piece(Read[c], span) IN
       /\ Occurs(quote, Text[c]) = {}
       /\ span.start \in DOMAIN Rest[c] /\ Prefix(ForMatching(quote), Rest[c][span.start])
       /\ Len(ForMatching(quote)) = Len(quote) =>
             /\ Prefix(ForMatching(piece), ForMatching(quote))
             /\ DoubledBlanks(piece) = {} => ForMatching(piece) = ForMatching(quote)

\* A Claim points at its quote, in the section recorded (persistence.py:179-183;
\* models.py, Claim: "an exact source location").
ClaimsAreGrounded ==
    \A c \in claims :
        LET t == Text[c.document]
            s == c.span.section
        IN  /\ SpanFits(c.document, c.quote, c.span)
            /\ s # 0 => /\ Sections[c.document][s].start <= c.span.start
                        /\ c.span.start < Sections[c.document][s].end
            /\ s = 0 => c.span.start >= Len(t) \/ Blank(t[c.span.start + 1])

Found(run) == {q \in run.proposed : Span[run.document, q] # NoSpan}
Stored(n) == {c.quote : c \in {c \in claims : c.run = n}}

\* The Claims of a run are stored all together or not at all, and not at all only
\* because the process was killed; a repeated run adds its own (persistence.py:200-221).
ClaimsOfARunAreWhole ==
    \A n \in DOMAIN agentRuns :
        \/ Stored(n) = Found(agentRuns[n])
        \/ /\ Stored(n) = {}
           /\ n \in interrupted \/ \E x \in Extractor : stage[x].at = "persist" /\ stage[x].run = n

\* The evaluator and the writer look for a quote in two ways and agree: a run
\* that succeeded loses no Claim, except one whose quote is nothing but blanks,
\* and a rejected one loses some (document_agents.py:143, 182).
ChecksAgree ==
    \A n \in DOMAIN agentRuns :
        agentRuns[n].agent = "extractor" =>
            LET lost == agentRuns[n].proposed \ Found(agentRuns[n])
                inked == {q \in lost : ForMatching(q) # <<>>}
            IN  IF agentRuns[n].status = "succeeded" THEN inked = {} ELSE lost # {}

\* Claims are drawn only from a document that the run before classified, in the
\* same extraction, as other than quantitative (extraction.py:85).
ExtractionFollowsClassification ==
    \A n \in DOMAIN agentRuns :
        agentRuns[n].agent = "extractor" =>
            LET before == agentRuns[n].after
            IN  /\ before \in 1..(n - 1)
                /\ agentRuns[before].agent = "classifier"
                /\ agentRuns[before].document = agentRuns[n].document
                /\ agentRuns[before].mode = "qualitative"

\* No agent is asked more often than allowed, and each has its own attempts
\* (service.py:120-174).
AttemptsWithinLimit ==
    /\ \A x \in Extractor : stage[x].attempts <= MaxAttempts
    /\ \A n \in DOMAIN agentRuns : agentRuns[n].attempts \in 1..MaxAttempts

\* The version rows of an agent are created once, whoever records first; two rows
\* would make every later look-up raise (persistence.py:103-137).
VersionsRecordedOnce == \A a \in Agent : versions[a] <= 1

\* An extraction ends: the model is not asked for ever.
ExtractionEnds == \A x \in Extractor : stage[x].at # "idle" ~> stage[x].at = "idle"

(* However ingestions overlap and fail, one document per content: its bytes under
   its row, announced once or at the cost of a kill, and reported as it stands. *)
DocumentsAreStoredOnce ==
    /\ TypeOK
    /\ OneDocumentPerContent
    /\ RowHasBytes
    /\ AnnouncedOnce
    /\ UnannouncedCostsAKill
    /\ ResultsMatchRows
    /\ DrainCoversSource

(* A stored claim quotes its document: the text says it from its first offset on,
   up to its last where spacing allows, and the two checks that look for a quote
   agree. *)
QuotesAreGrounded ==
    /\ ClaimsAreGrounded
    /\ ChecksAgree

\* The audits of an undisturbed database find nothing but the Claims of rejected
\* runs: a run one of whose quotes was not found keeps the others, although the
\* audit takes that for a check that was ignored (audit.py:301-306); and those that
\* the agent dates after their document, which no check rejects (persistence.py:217).
AuditsFindKnownSlips ==
    /\ DerivedRowsWithoutARun = {} /\ ClaimsFromFutureDocuments = {} /\ RunsWithoutVersions = {}
    /\ \A c \in AcceptedRowsFromRejectedRuns :
          LET run == agentRuns[c.run]
          IN  c.quote \in Found(run) /\ \E q \in run.proposed : ~Ground[run.document, q]
    /\ \A c \in ClaimsStatedAfterPublication :
          c.quote \in Misdated \cap Found(agentRuns[c.run])

(* A recorded agent run tells what was done: its claims are all there or it was
   interrupted, it follows its classification, stays within its attempts, its
   versions are recorded once, and the two audits find in it only a quote that was
   rejected beside others and a date of the agent's own. *)
ExtractionRunsAreWhole ==
    /\ ClaimsOfARunAreWhole
    /\ ExtractionFollowsClassification
    /\ AttemptsWithinLimit
    /\ VersionsRecordedOnce
    /\ AuditsFindKnownSlips

(* Every drain of a source and every extraction comes to an end. *)
IntakeEnds ==
    /\ DrainEnds
    /\ ExtractionEnds
=============================================================================
