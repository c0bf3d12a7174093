----------------------------- MODULE Extractors -----------------------------
(***************************************************************************)
(* What ExtractOnce asks for every source: the deterministic extractors    *)
(* (internal/extractors/deterministic) and, if one is configured, a        *)
(* language model (llm.go, llm_config.go).  Their facts carry an excerpt   *)
(* and its offsets in runes, while they work on bytes.                     *)
(*                                                                         *)
(* A round of a loop of the code is a step.  An extractor goes over the    *)
(* text once for each of its patterns, or for each phrase of the           *)
(* gazetteer; then the runner keeps what it found.  Regular expressions    *)
(* are abstracted to finite sets of strings, between word boundaries where *)
(* the expression has \b.                                                  *)
(***************************************************************************)
EXTENDS GoStrings

CONSTANTS
  Texts,              \* texts of sources
  Patterns,           \* per extractor with regular expressions: these, in order
  Unreal,             \* matches that are no date of the calendar
  Gazetteer,          \* phrases in order, with the number of their entry
  Answers,            \* lists of proposals the model may answer with
  Limit, Threshold,   \* sources of the run, cost guardrail
  RequestTimeout      \* of the HTTP client, in seconds

Pipeline == <<"identifier", "money", "date", "gazetteer">>

ASSUME ExtractorsAssumption ==
  /\ Texts \subseteq ValidStrings
  /\ DOMAIN Patterns = {"identifier", "money", "date"}
  /\ \A e \in DOMAIN Patterns :
       /\ Patterns[e] \in Seq(SUBSET Seq(Byte)) /\ Patterns[e] # <<>>
       /\ \A p \in DOMAIN Patterns[e] : Patterns[e][p] \subseteq ValidStrings \ {<<>>}
  /\ Gazetteer \in Seq([entry : Nat, phrase : Seq(Byte)]) /\ Gazetteer # <<>>
  /\ Answers \subseteq Seq([about : Nat, excerpt : Seq(Byte), from : Int, to : Int])
  /\ {Limit, Threshold, RequestTimeout} \subseteq Nat

\* The names of gazetteer.go are ASCII, and a mention that begins inside another
\* one of the same phrase, as "Sen. Harrisen. Harris" has it, begins inside a word.
ASSUME GazetteerAssumption ==
  \A p \in DOMAIN Gazetteer :
    LET phrase == Gazetteer[p].phrase
        Same(b, c) == LowerCase[b[1]] = LowerCase[c[1]] /\ b[2] = c[2]
    IN  /\ phrase \in ValidStrings \ {<<>>}
        /\ \A i \in DOMAIN phrase : Width[LowerCase[phrase[i][1]]] = Width[phrase[i][1]]
        /\ \A d \in 1..(Len(phrase) - 1) :
             (\A i \in 1..(Len(phrase) - d) : Same(phrase[d + i], phrase[i]))
               => phrase[d][1] \in Letters

VARIABLES
  text,        \* of the source
  config,      \* of the language model
  pc,
  stage,       \* the extractor at work: its place in the pipeline
  pass,        \* its pattern or phrase
  searchFrom,  \* where in the text it goes on, in bytes
  found,       \* its facts
  facts,       \* kept by the runner
  attempt,     \* requests sent
  delay,       \* seconds to wait before the next one
  spent,       \* seconds in the current one
  elapsed,     \* seconds since the model was first called
  answer       \* proposals still to be verified

request == <<attempt, delay, spent, elapsed, answer>>
vars == <<text, config, pc, stage, pass, searchFrom, found, facts, request>>

-----------------------------------------------------------------------------
(* The command: which model, and at what cost.                             *)

NoModel == [provider |-> "none", confirm |-> FALSE]

\* "failed", "none", or the provider; "ollama" is another name of "local".
BuildLLMExtractor(provider, hasModel, hasURL, hasKey) ==
  CASE provider = "" /\ ~hasModel /\ ~hasURL /\ ~hasKey -> "none"
    [] provider \in {"", "local"} /\ (hasModel \/ hasURL \/ hasKey \/ provider # "") ->
         IF hasModel THEN "local" ELSE "failed"
    [] provider = "openai" -> IF hasModel /\ hasKey THEN "openai" ELSE "failed"
    [] OTHER -> "failed"

\* With the number of sources of the run, before the first is read.
costGuardrail(provider, confirm) == provider = "openai" /\ Limit > Threshold => confirm

\* What is not set has a default, what is set may be empty.
Configure ==
  /\ pc = "configure"
  /\ \E provider \in {"", "local", "openai", "anthropic"}, hasModel, hasURL, hasKey, confirm \in BOOLEAN :
       LET built == BuildLLMExtractor(provider, hasModel, hasURL, hasKey) IN
         IF built = "failed" \/ ~costGuardrail(built, confirm)
           THEN pc' = "failed" /\ UNCHANGED config
           ELSE pc' = "extract" /\ config' = [provider |-> built, confirm |-> confirm]
  /\ UNCHANGED <<text, stage, pass, searchFrom, found, facts, request>>

-----------------------------------------------------------------------------
(* The deterministic extractors, Runner.Extract.                           *)

extractor == Pipeline[stage]

Fact(by, about, excerpt, from, to) ==
  [by |-> by, about |-> about, excerpt |-> excerpt, from |-> from, to |-> to]

FactAt(about, start, end) ==
  Fact(extractor, about, Slice(text, start, end),
       byteOffsetToCharOffset(text, start), byteOffsetToCharOffset(text, end))

\* overlapsExistingDateFact, gazetteerFactOverlaps.
Overlaps(s, among, start, end) ==
  \E f \in among : /\ byteOffsetToCharOffset(s, start) < f.to
                   /\ byteOffsetToCharOffset(s, end) > f.from

\* Every match of the pattern in what is left of the text: where, and what.
Matches ==
  {m \in (searchFrom..Len(text)) \X Patterns[extractor][pass] :
     /\ Occurs(text, m[2], m[1])
     /\ extractor # "money" => WordBoundary(text, m[1])
     /\ WordBoundary(text, m[1] + Len(m[2]))}

\* collectIdentifierFacts, MoneyExtractor.Extract, appendDateFacts: the leftmost
\* match; which alternative the expression prefers is left open.  Identifiers may
\* overlap each other, dates may not.
Match ==
  /\ pc = "extract" /\ extractor # "gazetteer"
  /\ LET matches == Matches IN \E m \in matches :
       LET end == m[1] + Len(m[2]) IN
         /\ First({n[1] : n \in matches}, m[1])
         /\ found' = IF extractor = "date" /\ \/ m[2] \in Unreal
                                              \/ Overlaps(text, Range(found), m[1], end)
                     THEN found
                     ELSE Append(found, FactAt(IF extractor = "identifier" THEN pass ELSE 1,
                                               m[1], end))
         /\ searchFrom' = end
  /\ UNCHANGED <<text, config, pc, stage, pass, facts, request>>

\* Of the phrase, in the lower case of what is left of the text.
Mentions ==
  LET lower == ToLower(Slice(text, searchFrom, Len(text))) IN
    Occurrences(lower, ToLower(Gazetteer[pass].phrase))

\* appendGazetteerFacts.  Positions in the lower-case text are taken for positions
\* in the text itself; to go on beyond its end is a panic, which ends the process.
Mention ==
  /\ pc = "extract" /\ extractor = "gazetteer"
  /\ LET mentions == Mentions IN \E idx \in mentions :
       LET start == searchFrom + idx
           end   == start + Len(Gazetteer[pass].phrase)
       IN  /\ First(mentions, idx)
           /\ IF end > Len(text)
                THEN pc' = "crashed" /\ UNCHANGED <<found, searchFrom>>
                ELSE /\ found' = IF /\ hasWordBoundaries(text, start, end)
                                    /\ ~Overlaps(text, Range(found), start, end)
                                 THEN Append(found, FactAt(Gazetteer[pass].entry, start, end))
                                 ELSE found
                     /\ searchFrom' = end
                     /\ UNCHANGED pc
  /\ UNCHANGED <<text, config, stage, pass, facts, request>>

\* The next pattern or phrase, after the last one the end of the extractor.
NextPass ==
  /\ pc = "extract"
  /\ IF extractor = "gazetteer" THEN Mentions = {} ELSE Matches = {}
  /\ pass' = pass + 1 /\ searchFrom' = 0
  /\ pc' = IF pass = Len(IF extractor = "gazetteer" THEN Gazetteer ELSE Patterns[extractor])
           THEN "keep" ELSE pc
  /\ UNCHANGED <<text, config, stage, found, facts, request>>

\* A fact is kept once (factKey).
Keep ==
  /\ pc = "keep" /\ found # <<>>
  /\ facts' = IF Head(found) \in Range(facts) THEN facts ELSE Append(facts, Head(found))
  /\ found' = Tail(found)
  /\ UNCHANGED <<text, config, pc, stage, pass, searchFrom, request>>

NextExtractor ==
  /\ pc = "keep" /\ found = <<>> /\ stage < Len(Pipeline)
  /\ pc' = "extract" /\ stage' = stage + 1 /\ pass' = 1
  /\ UNCHANGED <<text, config, searchFrom, found, facts, request>>

-----------------------------------------------------------------------------
(* extractFacts: the language model.                                       *)

Extracted ==
  /\ pc = "keep" /\ found = <<>> /\ stage = Len(Pipeline)
  /\ IF config.provider = "none"
       THEN pc' = "done" /\ UNCHANGED attempt
       ELSE pc' = "request" /\ attempt' = 1
  /\ UNCHANGED <<text, config, stage, pass, searchFrom, found, facts, delay, spent, elapsed, answer>>

deterministic == <<text, config, stage, pass, searchFrom, found>>

\* Mutant of Transient: pauses grow with every attempt, and there is one more.
TransientOnceMore ==
  /\ pc = "request"
  /\ IF attempt <= 3
       THEN pc' = "wait" /\ attempt' = attempt + 1 /\ delay' = attempt /\ spent' = 0
       ELSE pc' = "failed" /\ UNCHANGED <<attempt, delay, spent>>
  /\ UNCHANGED <<deterministic, facts, elapsed, answer>>

\* 429 or 5xx: again after one second, then after two, then never.
Transient ==
  /\ pc = "request"
  /\ IF attempt < 3
       THEN pc' = "wait" /\ attempt' = attempt + 1 /\ delay' = attempt /\ spent' = 0
       ELSE pc' = "failed" /\ UNCHANGED <<attempt, delay, spent>>
  /\ UNCHANGED <<deterministic, facts, elapsed, answer>>

Resend ==
  /\ pc = "wait" /\ delay = 0
  /\ pc' = "request"
  /\ UNCHANGED <<deterministic, facts, request>>

\* Any other status, no connection, a body too large or not understood, a
\* request that takes too long, or a context that is cancelled.
ModelFails ==
  /\ pc \in {"request", "wait"}
  /\ pc' = "failed"
  /\ UNCHANGED <<deterministic, facts, request>>

Complete ==
  /\ pc = "request"
  /\ answer' \in Answers
  /\ pc' = "filter"
  /\ UNCHANGED <<deterministic, facts, attempt, delay, spent, elapsed>>

\* FilterVerifiedStatementProposals, in the order of the answer, which may
\* propose a fact twice.
Filter ==
  /\ pc = "filter" /\ answer # <<>>
  /\ LET p == Head(answer) IN
       facts' = IF VerifyExcerptOffset(text, p.excerpt, p.from, p.to)
                THEN Append(facts, Fact("llm", p.about, p.excerpt, p.from, p.to))
                ELSE facts
  /\ answer' = Tail(answer)
  /\ UNCHANGED <<deterministic, pc, attempt, delay, spent, elapsed>>

Filtered ==
  /\ pc = "filter" /\ answer = <<>>
  /\ pc' = "done"
  /\ UNCHANGED <<deterministic, facts, request>>

Tick ==
  /\ \/ pc = "request" /\ spent < RequestTimeout /\ spent' = spent + 1 /\ UNCHANGED delay
     \/ pc = "wait" /\ delay > 0 /\ delay' = delay - 1 /\ UNCHANGED spent
  /\ elapsed' = elapsed + 1
  /\ UNCHANGED <<deterministic, pc, facts, attempt, answer>>

Ended == pc \in {"done", "failed", "crashed"}

Init ==
  /\ text \in Texts
  /\ config = NoModel
  /\ pc = "configure"
  /\ stage = 1 /\ pass = 1 /\ searchFrom = 0
  /\ found = <<>> /\ facts = <<>>
  /\ attempt = 0 /\ delay = 0 /\ spent = 0 /\ elapsed = 0
  /\ answer = <<>>

\* What the command does by itself.
Work == Configure \/ Match \/ Mention \/ NextPass \/ Keep \/ NextExtractor \/ Extracted \/ Filter \/ Filtered

Next == Work \/ Transient \/ Resend \/ ModelFails \/ Complete \/ Tick

Spec == Init /\ [][Next]_vars

\* The command goes on and the clock runs; a request that gets no answer is
\* given up when its time is over.
Fairness == WF_vars(Work) /\ WF_vars(Resend \/ Tick \/ ModelFails)

FairSpec == Spec /\ Fairness

-----------------------------------------------------------------------------
(* What correct extraction guarantees.                                     *)

\* Lower case takes as many bytes as the rune itself.
KeepsWidth(s) == \A i \in DOMAIN s : Width[LowerCase[s[i][1]]] = Width[s[i][1]]

\* At the byte offset stands the phrase, in capitals or not, and is no part of a word.
Mentioned(s, phrase, start) ==
  /\ Occurs(ToLower(s), ToLower(phrase), start)
  /\ hasWordBoundaries(s, start, start + Len(phrase))

\* In a text of any scripts whose lower case takes as many bytes as the text,
\* nothing panics (gazetteer.go:74), every fact has an excerpt that stands at its
\* rune offsets (byteOffsetToCharOffset, identifiers.go:88), no fact of the
\* extractors comes twice (runner.go:63), no two dates and no two names overlap
\* (dates.go:78, gazetteer.go:101), and no mention of a name of the gazetteer is
\* passed over once all extractors are done.
FactsExact ==
  KeepsWidth(text) =>
    /\ pc # "crashed"
    /\ \A f \in Range(facts) : VerifyExcerptOffset(text, f.excerpt, f.from, f.to)
    /\ \A i, j \in DOMAIN facts : facts[i] = facts[j] => i = j \/ facts[i].by = "llm"
    /\ \A f, g \in Range(facts) : f.by = g.by /\ f.by \in {"date", "gazetteer"} =>
         f = g \/ f.to <= g.from \/ g.to <= f.from
    /\ pc \in {"request", "wait", "filter", "done"} =>
         \A p \in DOMAIN Gazetteer, start \in 0..Len(text) :
           Mentioned(text, Gazetteer[p].phrase, start) =>
             Overlaps(text, {f \in Range(facts) : f.by = "gazetteer"},
                      start, start + Len(Gazetteer[p].phrase))

\* A source takes at most three requests, the time of these and of the pauses
\* between them (llm.go:96), and a paid model is never asked for more sources than
\* the guardrail lets pass without being confirmed (extract.go:402).
WithinBudget ==
  /\ attempt <= 3
  /\ elapsed <= 3 * RequestTimeout + 3
  /\ attempt > 0 /\ config.provider = "openai" => config.confirm \/ Limit <= Threshold

\* Whatever a model answers, and when, a source is done with, and within budget.
ExtractionBounded == <>(Ended /\ WithinBudget)
=============================================================================
