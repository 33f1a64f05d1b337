------------------------------ MODULE EventRelay ------------------------------
(***************************************************************************)
(* What a run, or a chat, says reaches the person: the service frames its  *)
(* events as server-sent events, with a heartbeat while there are none;    *)
(* the console's server reads them, frames them again, and the browser     *)
(* reads that and folds it into what is shown.  What one side writes the   *)
(* other reads in chunks of any size.                                      *)
(*                                                                         *)
(* A text on the wire is a sequence of tokens: a line without its break,   *)
(* or a break.  The service, not the person, decides what is said          *)
(* (exchange); a run that is held goes on in a second stream, and a chat   *)
(* has a stream for each of its turns.                                     *)
(*                                                                         *)
(* At the end, what the console shows of a trace, which it reads whole.    *)
(***************************************************************************)
EXTENDS Integers, Sequences, SequencesExt

CONSTANTS
  Exchanges,  \* records [kind, streams, raises, pings]: what is said, which streams end in
              \* an exception, and how many heartbeats there are at most (a bound)
  WalkDepth   \* how deep the walk through a trace goes: 32

VARIABLES
  exchange, stream, said,              \* the source: which stream, and how far
  queue, pings, server, upstream,      \* the service, and the wire to the console
  inbox, assembled, relay, downstream, \* the console's server, and the wire to the browser
  buffer, browser, shown, decisions    \* the browser

source == <<exchange, stream, said>>
service == <<queue, pings, server, upstream>>
bff == <<inbox, assembled, relay, downstream>>
person == <<buffer, browser, shown, decisions>>
vars == <<source, service, bff, person>>

NoCall == "none"
Done == [name |-> "done"]
Failure == [name |-> "error"]
IsRun == exchange.kind = "run"
Events == exchange.streams[stream]
Raises == stream \in exchange.raises

-----------------------------------------------------------------------------
\* The wire format.

Break == <<"break">>
Ping == <<<<"comment">>, Break, Break>>
Line(field, value) == <<<<field, value>>, Break>>

\* SseWriter.send, _frame, run-stream.ts and chat/route.ts; the ids, that nobody reads, left out.
Frame(event) == Line("event", event.name) \o Line("data", event) \o <<Break>>
Framed(events) == FlattenSeq([i \in DOMAIN events |-> Frame(events[i])])

\* parseBlock: a block without data is no event.
ParseBlock(block) ==
  LET data == SelectSeq(block, LAMBDA token : token[1] = "data")
      names == SelectSeq(block, LAMBDA token : token[1] = "event")
  IN IF data = <<>> THEN <<>>
     ELSE <<[name |-> IF names = <<>> THEN "message" ELSE Last(names)[2],
             data |-> [i \in DOMAIN data |-> data[i][2]]]>>

\* (A mistake, for the mutant runs: what a chunk leaves unfinished is an event.)
ParseChunk(held, chunk) ==
  [rest |-> <<>>, events |-> ParseBlock(SelectSeq(held \o chunk, LAMBDA token : token # Break))]
\* (Another: the heartbeat ends in one break, and is read with what follows.)
ParseLoose(held, chunk) ==
  LET step(parsed, token) ==
        IF token = Break THEN [rest |-> <<>>, events |-> parsed.events \o ParseBlock(parsed.rest)]
        ELSE [parsed EXCEPT !.rest = Append(parsed.rest, token)]
  IN FoldLeft(step, [rest |-> held, events |-> <<>>], chunk)

\* parseSse: a block ends at an empty line; the rest waits for the next chunk.
Parse(held, chunk) ==
  LET step(parsed, token) ==
        IF token = Break /\ parsed.rest # <<>> /\ Last(parsed.rest) = Break
        THEN [rest |-> <<>>, events |-> parsed.events \o ParseBlock(Front(parsed.rest))]
        ELSE [parsed EXCEPT !.rest = Append(parsed.rest, token)]
  IN FoldLeft(step, [rest |-> held, events |-> <<>>], chunk)

-----------------------------------------------------------------------------
\* The service.

\* A request of the browser, which the console's server forwards or refuses (it cannot
\* authorise it); a refusal is a status, and the service hears nothing of it.
Opened ==
  /\ said = 0 /\ queue = <<>> /\ upstream = <<>>
  /\ inbox = <<>> /\ assembled = <<>> /\ downstream = <<>>
  /\ \/ server = "serving" /\ relay = "relaying"
     \/ server = "unasked" /\ relay = "refused"
  /\ buffer = <<>> /\ browser = "reading"

\* drain: the run's events, into the queue; a chat writes as it goes.
Say ==
  /\ server = "serving" /\ said < Len(Events)
  /\ said' = said + 1
  /\ IF IsRun THEN queue' = Append(queue, Events[said + 1]) /\ UNCHANGED upstream
     ELSE upstream' = upstream \o Frame(Events[said + 1]) /\ UNCHANGED queue
  /\ UNCHANGED <<exchange, stream, pings, server, bff, person>>

\* The run's generator ends, or raises.
EndRun ==
  /\ IsRun /\ server = "serving" /\ said = Len(Events)
  /\ said' = said + 1
  /\ queue' = Append(queue, IF Raises THEN Failure ELSE Done)
  /\ UNCHANGED <<exchange, stream, pings, server, upstream, bff, person>>

\* streamChat: nothing was sent, so that the status still can be; or an event says it.
EndChat ==
  /\ ~IsRun /\ server = "serving" /\ said = Len(Events)
  /\ server' = IF Raises /\ said = 0 THEN "broken" ELSE "closed"
  /\ upstream' = IF Raises /\ said > 0 THEN upstream \o Frame(Failure) ELSE upstream
  /\ UNCHANGED <<source, queue, pings, bff, person>>

\* (A mistake, for the mutant runs: a failure ends the stream without a word.)
SendQuietly ==
  /\ server = "serving" /\ queue # <<>>
  /\ queue' = Tail(queue)
  /\ IF Head(queue) \in {Done, Failure} THEN server' = "closed" /\ UNCHANGED upstream
     ELSE upstream' = upstream \o Frame(Head(queue)) /\ UNCHANGED server
  /\ UNCHANGED <<source, pings, bff, person>>

\* sse_stream, an item of the queue.
Send ==
  /\ server = "serving" /\ queue # <<>>
  /\ queue' = Tail(queue)
  /\ LET item == Head(queue) IN
       /\ server' = IF item \in {Done, Failure} THEN "closed" ELSE server
       /\ upstream' = IF item = Done THEN upstream ELSE upstream \o Frame(item)
  /\ UNCHANGED <<source, pings, bff, person>>

\* Nothing to say for fifteen seconds.
Heartbeat ==
  /\ server = "serving" /\ queue = <<>> /\ pings < exchange.pings
  /\ pings' = pings + 1 /\ upstream' = upstream \o Ping
  /\ UNCHANGED <<source, queue, server, bff, person>>

\* The service dies, and the connection with it.
ServiceDies ==
  /\ server = "serving"
  /\ server' = "broken" /\ queue' = <<>> /\ upstream' = <<>>
  /\ UNCHANGED <<source, pings, bff, person>>

-----------------------------------------------------------------------------
\* The console's server.

\* toStreamEvent and toUpdate: an answer that came in pieces, or whole.
Update(update, text) ==
  CASE update.name = "message.delta" -> [name |-> "delta", content |-> update.data[1].content]
    [] update.name = "run.finished" ->
         [name |-> "finished",
          content |-> IF update.data[1].content # <<>> THEN update.data[1].content ELSE text]
    [] OTHER -> Failure

\* SendChatMessage: what has come so far.
Assembled(text, update) ==
  CASE update.name = "message.delta" -> text \o update.data[1].content
    [] update.name = "run.finished" /\ update.data[1].content # <<>> -> update.data[1].content
    [] OTHER -> text

Passed(events) == FoldLeftDomain(LAMBDA texts, i : Append(texts, Assembled(Last(texts), events[i])),
                                <<assembled>>, events)

\* One read of what the service wrote: any part of it.
Relay ==
  /\ relay = "relaying" /\ upstream # <<>>
  /\ \E n \in 1 .. Len(upstream) :
       LET parsed == Parse(inbox, SubSeq(upstream, 1, n))
           events == parsed.events
           texts == IF IsRun THEN <<assembled>> ELSE Passed(events)
           outgoing == [i \in DOMAIN events |->
                          IF IsRun THEN events[i].data[1] ELSE Update(events[i], texts[i])]
       IN /\ upstream' = SubSeq(upstream, n + 1, Len(upstream))
          /\ inbox' = parsed.rest /\ assembled' = Last(texts)
          /\ IF events # <<>> /\ browser = "gone"
             THEN relay' = "closed" /\ UNCHANGED downstream
             ELSE downstream' = downstream \o Framed(outgoing) /\ UNCHANGED relay
  /\ UNCHANGED <<source, queue, pings, server, person>>

\* The service's stream is over, or has failed: an event is all that can say so.
EndRelay ==
  /\ relay = "relaying" /\ server # "serving" /\ upstream = <<>>
  /\ relay' = "closed"
  /\ downstream' = IF server = "broken" THEN downstream \o Framed(<<Failure>>) ELSE downstream
  /\ UNCHANGED <<source, service, inbox, assembled, person>>

\* The console's server dies: what is on its way is lost, on both sides.
ConsoleDies ==
  /\ relay = "relaying" /\ browser = "reading"
  /\ relay' = "broken" /\ server' = "closed"
  /\ queue' = <<>> /\ upstream' = <<>> /\ downstream' = <<>>
  /\ UNCHANGED <<source, pings, inbox, assembled, person>>

-----------------------------------------------------------------------------
\* The browser.

NewRun == [phase |-> "running", entries |-> <<>>, awaiting |-> NoCall, failed |-> FALSE]

\* What the page keeps of a chat: historyRef, which the next turn carries, the turns it
\* shows, the answer so far, and what it knows of who served it and what went wrong.
Turn(n, answer) == [asked |-> n, answer |-> answer]
Asked(history, n) ==
  [history |-> history, turns |-> Append(history, Turn(n, <<>>)),
   answer |-> <<>>, servedBy |-> FALSE, failed |-> FALSE]

\* (A mistake, for the mutant runs: text goes to the answer that was begun, whatever came since.)
AppendToFirst(entries, content) ==
  LET open == {i \in DOMAIN entries : entries[i].kind = "assistant"} IN
  IF open = {} THEN Append(entries, [kind |-> "assistant", text |-> content])
  ELSE [entries EXCEPT ![Max(open)].text = @ \o content]

AppendDelta(entries, content) ==
  IF entries # <<>> /\ Last(entries).kind = "assistant"
  THEN [entries EXCEPT ![Len(entries)].text = @ \o content]
  ELSE Append(entries, [kind |-> "assistant", text |-> content])

ToolEntry(call, status) == [kind |-> "tool", call |-> call, status |-> status, result |-> NoCall]

\* (A mistake, for the mutant runs: the call that was begun last, whichever it is.)
SettleLast(entries, event) ==
  LET tools == {i \in DOMAIN entries : entries[i].kind = "tool"} IN
  [i \in DOMAIN entries |->
    IF i = Max(tools) THEN [entries[i] EXCEPT !.status = event.status, !.result = event.result]
    ELSE entries[i]]

Settle(entries, event) ==
  [i \in DOMAIN entries |->
    IF entries[i].kind = "tool" /\ entries[i].call = event.call
    THEN [entries[i] EXCEPT !.status = event.status, !.result = event.result]
    ELSE entries[i]]

ApplyRunEvent(transcript, event) ==
  LET data == event.data[1] IN
  CASE event.name = "message.delta" ->
         [transcript EXCEPT !.entries = AppendDelta(@, data.content)]
    [] event.name = "tool.call" ->
         [transcript EXCEPT !.entries = Append(@, ToolEntry(data.call, "running"))]
    [] event.name = "tool.result" -> [transcript EXCEPT !.entries = Settle(@, data)]
    [] event.name = "approval.requested" ->
         [transcript EXCEPT !.phase = "waiting_approval", !.awaiting = data.call,
                            !.entries = Append(@, ToolEntry(data.call, "awaiting_approval"))]
    [] event.name = "run.finished" ->
         [transcript EXCEPT !.phase = IF data.status = "completed" THEN "completed" ELSE "failed"]
    [] event.name = "error" -> [transcript EXCEPT !.phase = "failed", !.failed = TRUE]
    [] OTHER -> transcript

\* (A mistake, for the mutant runs: the whole answer after its pieces.)
ApplyUpdateTwice(chat, event) ==
  IF event.name \in {"delta", "finished"}
  THEN [chat EXCEPT !.answer = @ \o event.data[1].content, !.servedBy = event.name = "finished",
                    !.turns = Append(chat.history, Turn(stream, chat.answer \o event.data[1].content))]
  ELSE [chat EXCEPT !.failed = TRUE]

ApplyUpdate(chat, event) ==
  LET content == event.data[1].content IN
  CASE event.name = "delta" ->
         [chat EXCEPT !.answer = @ \o content,
                      !.turns = Append(chat.history, Turn(stream, chat.answer \o content))]
    [] event.name = "finished" ->
         [chat EXCEPT !.answer = IF content # <<>> THEN content ELSE @, !.servedBy = TRUE]
    [] OTHER -> [chat EXCEPT !.failed = TRUE]

\* The stream has ended: the turn is history, even after an error that it told.
Settled(chat) ==
  LET settled == Append(chat.history, Turn(stream, chat.answer))
  IN [chat EXCEPT !.history = settled, !.turns = settled]

\* (A mistake, for the mutant runs: the turn that failed is kept.)
DroppedKept(chat) == [Settled(chat) EXCEPT !.failed = TRUE]

\* The request, or the reading, has thrown: the turn is not.
Dropped(chat) == [chat EXCEPT !.turns = chat.history, !.failed = TRUE]

Apply(view, event) == IF IsRun THEN ApplyRunEvent(view, event) ELSE ApplyUpdate(view, event)

Read ==
  /\ browser = "reading" /\ downstream # <<>>
  /\ \E n \in 1 .. Len(downstream) :
       LET parsed == Parse(buffer, SubSeq(downstream, 1, n)) IN
       /\ downstream' = SubSeq(downstream, n + 1, Len(downstream))
       /\ buffer' = parsed.rest
       /\ shown' = FoldLeft(Apply, shown, parsed.events)
  /\ UNCHANGED <<source, service, inbox, assembled, relay, browser, decisions>>

EndRead ==
  /\ browser = "reading" /\ relay = "closed" /\ downstream = <<>>
  /\ browser' = "idle"
  /\ shown' = IF IsRun THEN shown ELSE Settled(shown)
  /\ UNCHANGED <<source, service, bff, buffer, decisions>>

\* The answer is no 200: consume says so, send throws.
ReadRefusal ==
  /\ browser = "reading" /\ relay = "refused"
  /\ browser' = "idle"
  /\ shown' = IF IsRun THEN [shown EXCEPT !.phase = "failed", !.failed = TRUE] ELSE Dropped(shown)
  /\ UNCHANGED <<source, service, bff, buffer, decisions>>

\* The body ends in an error: the agent's page has no catch for it, the chat's has.
ReadFails ==
  /\ browser = "reading" /\ relay = "broken"
  /\ browser' = "idle"
  /\ shown' = IF IsRun THEN shown ELSE Dropped(shown)
  /\ UNCHANGED <<source, service, bff, buffer, decisions>>

\* (A mistake, for the mutant runs: the prompt is left as it is.)
ResumedAwaiting(transcript) == [transcript EXCEPT !.phase = "running"]

Resumed(transcript) == [transcript EXCEPT !.phase = "running", !.awaiting = NoCall]

More == stream < Len(exchange.streams)
CanDecide == IsRun /\ browser = "idle" /\ shown.awaiting # NoCall /\ More
CanAsk == ~IsRun /\ browser = "idle" /\ More

NextStream ==
  /\ stream' = stream + 1
  /\ said' = 0 /\ queue' = <<>> /\ upstream' = <<>>
  /\ inbox' = <<>> /\ assembled' = <<>> /\ downstream' = <<>>
  /\ \/ server' = "serving" /\ relay' = "relaying"
     \/ server' = "unasked" /\ relay' = "refused"
  /\ buffer' = <<>> /\ browser' = "reading"
  /\ UNCHANGED <<exchange, pings>>

\* decide: the run goes on in a second stream.
Decide ==
  /\ CanDecide
  /\ shown' = Resumed(shown) /\ decisions' = decisions + 1
  /\ NextStream

\* send, again: the next turn carries the history.
Ask ==
  /\ CanAsk
  /\ shown' = Asked(shown.history, stream + 1)
  /\ NextStream /\ UNCHANGED decisions

\* The page is closed: the console's server stops at the next event.
Leave ==
  /\ browser = "reading"
  /\ browser' = "gone"
  /\ UNCHANGED <<source, service, bff, buffer, shown, decisions>>

-----------------------------------------------------------------------------

Init ==
  /\ exchange \in Exchanges /\ stream = 1 /\ Opened /\ pings = 0 /\ decisions = 0
  /\ shown = IF exchange.kind = "run" THEN NewRun ELSE Asked(<<>>, 1)

Next ==
  \/ Say \/ EndRun \/ EndChat \/ Send \/ Heartbeat \/ ServiceDies
  \/ Relay \/ EndRelay \/ ConsoleDies
  \/ Read \/ EndRead \/ ReadRefusal \/ ReadFails \/ Decide \/ Ask \/ Leave

Over == browser = "gone" \/ (browser = "idle" /\ ~CanDecide /\ ~CanAsk)

-----------------------------------------------------------------------------

Earlier == FlattenSeq(SubSeq(exchange.streams, 1, stream - 1))
Heard == Earlier \o SubSeq(Events, 1, Min({said, Len(Events)}))

Content(events) ==
  FlattenSeq([i \in DOMAIN events |->
    IF events[i].name = "message.delta" THEN events[i].content ELSE <<>>])
TextOf(entries) ==
  FlattenSeq([i \in DOMAIN entries |-> IF entries[i].kind = "assistant" THEN entries[i].text ELSE <<>>])
Results(call, events) == SelectSeq(events, LAMBDA e : e.name = "tool.result" /\ e.call = call)

\* What comes before the n-th of those that pass the test.
Before(s, Test(_), n) ==
  LET at == SetToSortSeq({i \in DOMAIN s : Test(s[i])}, <) IN
  SubSeq(s, 1, (IF n > Len(at) THEN Len(s) + 1 ELSE at[n]) - 1)

\* What is shown is what was said up to some moment: the text, the calls in their
\* places in it, and of each call the last of its results.
ShownUpTo(past) ==
  LET begins(e) == e.name \in {"tool.call", "approval.requested"}
      isTool(e) == e.kind = "tool"
      tools == SelectSeq(shown.entries, isTool)
      begun == SelectSeq(past, begins)
  IN /\ Len(tools) = Len(begun)
     /\ \A i \in 1 .. Len(tools) + 1 :
          TextOf(Before(shown.entries, isTool, i)) = Content(Before(past, begins, i))
     /\ \A i \in DOMAIN tools :
          LET ended == Results(tools[i].call, past) IN
          /\ tools[i].call = begun[i].call
          /\ tools[i].result = IF ended = <<>> THEN NoCall ELSE Last(ended).result

\* A person sees what the run said, in its order, whatever the chunks it came in: all of
\* it when the stream has ended and nothing failed; an approval is asked for while the
\* run waits for it, and once (sse.py:34-88, sse.ts:25-87, transcript.ts:68-190).  If the
\* console's own server dies the page stays as it is, without a word
\* (agent-playground.tsx:151-164 has no catch).
RunShown ==
  LET ended == browser = "idle" /\ ~shown.failed /\ relay # "broken" IN
  IsRun =>
    /\ \E k \in Len(Earlier) .. Len(Heard) :
         LET past == SubSeq(Heard, 1, k)
             held == k > Len(Earlier) /\ Last(past).name = "approval.requested"
         IN /\ ShownUpTo(past)
            /\ shown.awaiting = IF held THEN Last(past).call ELSE NoCall
            /\ ended => k = Len(Earlier) + Len(Events)
            /\ ended /\ ~held => shown.phase # "running"
    /\ decisions = stream - 1

Answer(n) == exchange.answers[n]
Whole(turn) == turn.answer = Answer(turn.asked)

\* An answer that came in pieces, or whole, is shown once; who served it is only said of
\* one that is whole; and what the next turn carries are turns that were asked, in their
\* order, each with what was shown of its answer: all of it if nothing failed.  A turn
\* that was refused, or whose reading broke, is not among them; one that ended in an
\* error that the stream told is (send-chat-message.ts:45-81, playground.tsx:55-116).
ChatShown ==
  ~IsRun =>
    LET turns == shown.turns
        kept == {turns[i].asked : i \in DOMAIN turns}
    IN /\ IsPrefix(shown.answer, Answer(stream))
       /\ shown.servedBy => shown.answer = Answer(stream)
       /\ \A i \in DOMAIN turns : IsPrefix(turns[i].answer, Answer(turns[i].asked))
       /\ \A i, j \in DOMAIN turns : i < j => turns[i].asked < turns[j].asked
       /\ IF browser = "idle" THEN turns = shown.history
          ELSE turns = Append(shown.history, Last(turns)) /\ Last(turns).asked = stream
       /\ browser = "idle" =>
            /\ shown.servedBy \/ shown.failed
            /\ stream \in kept <=> relay = "closed"
            /\ ~shown.failed => Whole(Last(turns))

\* A failure is never made up, and never kept quiet, but for a run whose relay broke.
FailureShown ==
  /\ shown.failed /\ (IsRun => stream = 1) =>
       \/ server = "broken" \/ relay \in {"refused", "broken"} \/ Raises
       \/ \E i \in DOMAIN Heard : Heard[i].name = "error"
  /\ browser = "idle" /\ (IsRun => relay # "broken") /\
     (server = "broken" \/ relay \in {"refused", "broken"} \/ (server = "closed" /\ Raises))
       => shown.failed

\* What a comment says of the failures of a chat: "The failed turn is dropped from
\* history: replaying a turn the model never answered would poison every following
\* prompt" (playground.tsx:109-110).  What the next prompt replays is answered turns.
FailedTurnDropped ==
  ~IsRun => \A i \in DOMAIN shown.history : Whole(shown.history[i])

EventsShown == RunShown /\ ChatShown /\ FailureShown

-----------------------------------------------------------------------------
\* The spans of a trace, in the order the console shows them.  A span is
\* [id, parent, start, duration, framework]; NoSpan is the empty id.

NoSpan == "none"
Present(spans) == {spans[i].id : i \in DOMAIN spans}

\* (A mistake, for the mutant runs: a span whose parent is missing has no place.)
ParentAsGiven(spans, span) == span.parent

\* A span whose parent is not in the trace is a root.
ParentShown(spans, span) == IF span.parent \in Present(spans) THEN span.parent ELSE NoSpan

\* By start; those that started together stay in the order they came in.
Children(spans, parent) ==
  LET places == {i \in DOMAIN spans : ParentShown(spans, spans[i]) = parent}
      earlier(i, j) == spans[i].start < spans[j].start \/ (spans[i].start = spans[j].start /\ i < j)
      order == SetToSortSeq(places, earlier)
  IN [k \in DOMAIN order |-> spans[order[k]]]

RECURSIVE Walk(_, _, _)
Walk(spans, parent, depth) ==
  LET children == Children(spans, parent) IN
  FlattenSeq([k \in DOMAIN children |->
    <<[span |-> children[k], depth |-> depth]>> \o
    IF depth < WalkDepth THEN Walk(spans, children[k].id, depth + 1) ELSE <<>>])

\* (A mistake, for the mutant runs: what the walk did not reach is not shown.)
OrderReached(spans) == Walk(spans, NoSpan, 0)

\* orderForDisplay: what the walk did not reach (a cycle) follows.
OrderForDisplay(spans) ==
  LET ordered == Walk(spans, NoSpan, 0)
      seen == {ordered[i].span.id : i \in DOMAIN ordered}
      rest == SelectSeq(spans, LAMBDA s : s.id \notin seen)
  IN ordered \o [i \in DOMAIN rest |-> [span |-> rest[i], depth |-> 0]]

IsPlumbing(span) == span.framework /\ span.duration = 0

\* totalDuration: of all spans, shown or not.
TotalDuration(spans) ==
  IF spans = <<>> THEN 0
  ELSE Max({spans[i].start + spans[i].duration : i \in DOMAIN spans})
       - Min({spans[i].start : i \in DOMAIN spans})

\* detailOf: the framework's own spans are counted, not shown.
DetailOf(spans) ==
  LET ordered == OrderForDisplay(spans)
      visible == SelectSeq(ordered, LAMBDA s : ~IsPlumbing(s.span))
  IN [ordered |-> ordered, shown |-> visible, hidden |-> Len(ordered) - Len(visible),
      duration |-> TotalDuration([i \in DOMAIN ordered |-> ordered[i].span])]
=============================================================================
