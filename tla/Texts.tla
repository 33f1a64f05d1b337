--------------------------------- MODULE Texts ---------------------------------
(***************************************************************************)
(* What happens to texts: a document is chunked, rankings of its chunks    *)
(* are fused, a prompt is redacted, the tool calls of an answer are put    *)
(* together, an expression is evaluated and a trace is shown: functions of *)
(* an input.  Answers are evaluated, and what a run says is streamed:      *)
(* components of their own, each alone in its behaviours.                  *)
(***************************************************************************)
EXTENDS Integers, Sequences, SequencesExt

CONSTANTS
  Inputs,  \* for each function that is computed, those it is given
  Settings, Scores, Latencies,
  Exchanges,
  MaxDepth, WalkDepth

VARIABLES
  task, input, output,
  setting, suite, pc, results, verdict, stored, events, measured,
  exchange, stream, said, queue, pings, server, upstream,
  inbox, assembled, relay, downstream, buffer, browser, shown, decisions

Knowledge == INSTANCE Retrieval
Guard == INSTANCE Redaction
Evaluation == INSTANCE EvaluationRun
Calls == INSTANCE ToolCalls
Calculator == INSTANCE Arithmetic
Streaming == INSTANCE EventRelay

evaluation == <<setting, suite, pc, results, verdict, stored, events, measured>>
streaming == <<exchange, stream, said, queue, pings, server, upstream,
               inbox, assembled, relay, downstream, buffer, browser, shown, decisions>>
texts == <<task, input, output, evaluation, streaming>>

NoInput == <<>>
Pending == <<>>
Tasks == DOMAIN Inputs

TextsInit ==
  /\ \/ task \in Tasks /\ input \in Inputs[task]
     \/ task \in {"evaluate", "stream"} /\ input = NoInput
  /\ output = Pending
  /\ IF task = "evaluate" THEN setting \in Settings ELSE setting = CHOOSE s \in Settings : TRUE
  /\ IF task = "stream" THEN exchange \in Exchanges ELSE exchange = CHOOSE e \in Exchanges : TRUE
  /\ Evaluation!Init /\ Streaming!Init
  /\ task # "stream" => relay = "relaying"

Computes(what, result) ==
  /\ task = what /\ output = Pending
  /\ output' = <<result>>
  /\ UNCHANGED <<task, input, evaluation, streaming>>

Chunk == Computes("chunk", Knowledge!Chunks(input.text, input.strategy))
Fuse == Computes("fuse", Knowledge!Fused(input.vector, input.text, input.limit))
Redact ==
  Computes("redact",
    Guard!RedactContent(input.length, Guard!Detected(input.findings, input.detector), input.signals))
Rank == Computes("rank", Evaluation!Percentile(input.values, input.percent))
AskForTools ==
  Computes("calls",
    LET calls == Calls!Returned(input.provider, input.wire)
    IN [calls |-> calls, sent |-> Calls!Sent(calls)])
Calculate == Computes("calculate", Calculator!Evaluate(input.tokens))
ShowTrace == Computes("trace", Streaming!DetailOf(input.spans))
Evaluate == task = "evaluate" /\ Evaluation!Next /\ UNCHANGED <<task, input, output, streaming>>
Stream == task = "stream" /\ Streaming!Next /\ UNCHANGED <<task, input, output, evaluation>>

TextsRest ==
  /\ CASE task = "evaluate" -> Evaluation!Over
       [] task = "stream" -> Streaming!Over
       [] OTHER -> output # Pending
  /\ UNCHANGED texts

TextsNext ==
  \/ Chunk \/ Fuse \/ Redact \/ Rank \/ AskForTools \/ Calculate \/ ShowTrace
  \/ Evaluate \/ Stream
  \/ TextsRest

TextsSpec == TextsInit /\ [][TextsNext]_texts

Done(what) == task = what /\ output # Pending
Result == output[1]

-----------------------------------------------------------------------------

TextsTypeOK ==
  /\ Done("chunk") => \A c \in Result : c.from \in 0 .. c.to /\ c.to \in 0 .. Len(input.text)
  /\ Done("fuse") => Len(Result) <= input.limit
  /\ Done("redact") => Result.decision \in {"allow", "redact", "block"}
  /\ suite \in DOMAIN setting.suites /\ Len(results) <= setting.suites[suite].cases

Letters(text) == {i \in 0 .. Len(text) - 1 : text[i + 1] \notin Knowledge!White}

\* Every letter of a document is in a chunk; no chunk is longer than its size; and a
\* phrase no longer than the overlap and one more is never cut in two, unless a
\* heading or a paragraph cuts it (chunker.ts:24-51, 87-103).
ChunksCover ==
  Done("chunk") =>
    LET text == input.text
        whole(i, j) == \E c \in Result : c.from <= i /\ j <= c.to
    IN /\ \A c \in Result : c.to - c.from <= input.strategy.size \/ c.to - c.from = 0
       /\ \A i \in Letters(text) : whole(i, i + 1)
       /\ \A s \in Knowledge!Segments(text, input.strategy.kind) :
            \A i \in s.from .. s.to - 1 - input.strategy.overlap :
              LET j == i + 1 + input.strategy.overlap IN
              i \in Letters(text) => whole(i, j)

LongBreak(text) ==
  \E i \in 1 .. Len(text) - 2 : \A j \in i .. i + 2 : text[j] = Knowledge!Break

\* A chunk is cited where it is in the document; by paragraphs only if none of its
\* breaks is longer than two (chunker.ts:6-8, 74-82).
CitedWhereFound ==
  Done("chunk") /\ ~(input.strategy.kind = "recursive" /\ LongBreak(input.text)) =>
    \A c \in Result : c.start = c.from /\ c.end = c.to

Distinct(s) == IsInjective(s)
Place(s, chunk) == IF chunk \in ToSet(s) THEN Min({i \in DOMAIN s : s[i] = chunk}) ELSE Len(s) + 1

\* A chunk that neither ranking puts lower than another one, and one puts higher, comes
\* first in the fused ranking; none is lost but to the limit (fusion.ts:50-91).
FusedFairly ==
  LET keys == Knowledge!Keys(input.vector)
      found == ToSet(keys) \cup ToSet(input.text)
      better(a, b) ==
        /\ Place(keys, a) <= Place(keys, b) /\ Place(input.text, a) <= Place(input.text, b)
        /\ Place(keys, a) < Place(keys, b) \/ Place(input.text, a) < Place(input.text, b)
  IN Done("fuse") =>
       /\ IsInjective(Result) /\ Len(Result) = Min({input.limit, Cardinality(found)})
       /\ ToSet(Result) \subseteq found
       /\ Distinct(keys) /\ Distinct(input.text) =>
            \A b \in ToSet(Result) : \A a \in found :
              better(a, b) => Place(Result, a) < Place(Result, b)

Spans(findings) == UNION {Guard!Span(f) : f \in ToSet(findings)}
Remaining == ToSet(Result.text) \ {Guard!Replacement}

\* What nothing was found in goes on as it was, in its order; of findings that do not
\* overlap, all is replaced, one for one; a refused text goes nowhere
\* (policy.py:63-92, redact_content.py:36-53).
RedactedAsFound ==
  Done("redact") =>
    LET detected == Guard!Detected(input.findings, input.detector)
        left == SelectSeq(Result.text, LAMBDA c : c # Guard!Replacement)
        apart == \A i, j \in DOMAIN detected : i # j => ~Guard!Overlap(detected[i], detected[j])
    IN IF Result.decision = "block" THEN Result.text = <<>>
       ELSE /\ (1 .. input.length) \ Spans(detected) \subseteq Remaining
            /\ \A i, j \in DOMAIN left : i < j => left[i] < left[j]
            /\ Len(Result.text) = Len(left) + Result.count
            /\ apart => Remaining \cap Spans(detected) = {} /\ Result.count = Len(detected)

\* A percentile is a value that was measured: at most that part of the sample is below
\* it, and at least that part is not above it (scoring.py:99-111).
PercentileIsMeasured ==
  Done("rank") /\ input.values # <<>> =>
    LET below == {i \in DOMAIN input.values : input.values[i] < Result}
        upTo  == {i \in DOMAIN input.values : input.values[i] <= Result}
    IN /\ Result \in ToSet(input.values)
       /\ 100 * Cardinality(upTo) >= input.percent * Len(input.values)
       /\ below # {} => 100 * Cardinality(below) < input.percent * Len(input.values)

\* What search finds is in the document where it says, and fairly ranked.
DocumentsFound == TextsTypeOK /\ ChunksCover /\ CitedWhereFound /\ FusedFairly

\* The response lets a merge go on only for suites that were measured and hold, and
\* the events of the runs and their documents agree (run_suite.py:86-130,
\* entities.py:107-128).
VerdictsMeasured ==
  PercentileIsMeasured /\ Evaluation!GreenIsMeasured /\ Evaluation!EventsTellTheStore

Pairs(s) == {p \in (DOMAIN s) \X (DOMAIN s) : p[1] < p[2]}

\* The calls that the caller is given are those that the model asked for, in its order
\* and with its arguments, whatever the order of the fragments; no two have one id; and
\* each is answered in the message that follows.  Gemini's calls, and the ids that are
\* made for Ollama's, only if they come in one chunk (openai-tools.ts:69-113,
\* anthropic.provider.ts:197-240, create-chat-completion.ts:524-532).
CallsAsAsked ==
  Done("calls") =>
    LET asked == Calls!Named(input.asked)
        calls == Result.calls
        sent == Result.sent
        inOne == input.provider \in {"gemini", "ollama"} => Len(input.wire) = 1
    IN /\ inOne \/ input.provider # "gemini" =>
            /\ Len(calls) = Len(asked)
            /\ \A i \in DOMAIN asked :
                 /\ calls[i].name = asked[i].name /\ calls[i].args = asked[i].args
                 /\ asked[i].id = Calls!Absent \/ input.provider = "ollama" \/ calls[i].id = asked[i].id
       /\ inOne => \A p \in Pairs(calls) : calls[p[1]].id # calls[p[2]].id
       /\ \A i \in DOMAIN sent :
            LET uses == SelectSeq(sent[i].content, LAMBDA b : b.type = "tool_use") IN
            uses # <<>> =>
              /\ i < Len(sent) /\ sent[i + 1].role = "user"
              /\ sent[i + 1].content = [k \in DOMAIN uses |-> Calls!Block("tool_result", uses[k].id)]

Bare(tokens) == SelectSeq(tokens, LAMBDA t : t \notin {"(", ")"})

\* An expression is read as the grammar says, with the parentheses it needs or with all,
\* if it is not too deep; and of any text nothing is passed over (arithmetic.ts:7-17).
EvaluatesAsWritten ==
  Done("calculate") =>
    IF input.value # <<>>
    THEN Result = IF input.depth > MaxDepth THEN Calculator!Refused ELSE input.value[1]
    ELSE Result = Calculator!Refused \/
         Bare(Calculator!Written(Result, 1, FALSE)) = Bare(input.tokens)

\* Each span is shown once, or counted, below its parent and beside those that started
\* before it; nothing is lost even if the ids are no tree, and the request took from the
\* first start to the last end (trace.ts:183-224, 258-316).  And a cycle does not hang
\* the console (trace.ts:202-203): the walk has at most 33 entries for each span, if no
\* two spans lack an id and no three have the same.  Otherwise it doubles at each of its
\* 33 levels; those are the traces that no input has (see README.md).
TraceShown ==
  Done("trace") =>
    LET spans == input.spans
        ordered == Result.ordered
        ids == [i \in DOMAIN spans |-> spans[i].id]
        places == [i \in DOMAIN ordered |-> ordered[i].span.id]
        distinct == Distinct(ids) /\ Streaming!NoSpan \notin ToSet(ids)
        cut == \E i \in DOMAIN ordered : ordered[i].depth = 0 /\ ordered[i].span.parent \in ToSet(ids)
        under(i) == {j \in DOMAIN ordered : ordered[j].span.id = ordered[i].span.parent}
        shownBefore(i, j) ==
          ordered[i].span.parent = ordered[j].span.parent /\ ordered[i].depth = ordered[j].depth
    IN /\ ToSet(ids) = ToSet(places)
       /\ Len(Result.shown) + Result.hidden = Len(ordered)
       /\ Len(ordered) <= (WalkDepth + 1) * Len(spans)
       /\ \A i \in DOMAIN ordered : Result.duration >= ordered[i].span.duration
       /\ distinct =>
            /\ Len(ordered) = Len(spans) /\ Distinct(places)
            /\ ~cut => \A i \in DOMAIN ordered : \A j \in under(i) :
                         j < i /\ ordered[i].depth = ordered[j].depth + 1
            /\ ~cut => \A p \in Pairs(ordered) :
                         shownBefore(p[1], p[2]) =>
                           ordered[p[1]].span.start <= ordered[p[2]].span.start

\* What the console shows of a run, of a chat and of a trace is what was recorded.
ShownAsRecorded == TraceShown /\ (task = "stream" => Streaming!EventsShown)
=============================================================================
