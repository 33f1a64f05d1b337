------------------------------- MODULE ToolCalls -------------------------------
(***************************************************************************)
(* The tool calls of a streamed answer, as the adapter of each provider    *)
(* puts them together and the router keeps them; and the turn in which     *)
(* their results go back to Anthropic.                                     *)
(*                                                                         *)
(* A fragment is [index, id, name, args]; the arguments are the sequence   *)
(* of their pieces.  What a fragment does not carry is Absent.             *)
(***************************************************************************)
EXTENDS Integers, Sequences, SequencesExt

Absent == "absent"
Made(index) == "call_" \o ToString(index)
NoCalls == <<>>

Named(calls) == SelectSeq(calls, LAMBDA call : call.name # Absent)
Either(value, other) == IF value # Absent THEN value ELSE other
InOrder(byIndex) ==
  LET indexes == SetToSortSeq(DOMAIN byIndex, <) IN
  [i \in DOMAIN indexes |->
    LET call == byIndex[indexes[i]] IN [call EXCEPT !.id = Either(@, Made(indexes[i]))]]

\* (A mistake, for the mutant runs: a fragment belongs to the call that was begun last.)
AddToLast(byIndex, fragment) ==
  IF fragment.name # Absent \/ DOMAIN byIndex = {}
  THEN fragment.index :> [id |-> fragment.id, name |-> fragment.name, args |-> fragment.args] @@ byIndex
  ELSE [byIndex EXCEPT ![Max(DOMAIN byIndex)].args = @ \o fragment.args]

\* ToolCallAccumulator.add
Add(byIndex, fragment) ==
  LET call == IF fragment.index \in DOMAIN byIndex THEN byIndex[fragment.index]
              ELSE [id |-> Absent, name |-> Absent, args |-> <<>>]
  IN fragment.index :> [id |-> Either(fragment.id, call.id), name |-> Either(fragment.name, call.name),
                        args |-> call.args \o fragment.args] @@ byIndex

\* drain, once the stream has ended: one chunk with all calls.
OpenAiChunks(wire) == <<Named(InOrder(FoldLeft(Add, NoCalls, wire)))>>

\* ToolUseBlocks: a block is opened by its name; arguments of no open block are dropped.
Absorb(blocks, event) ==
  IF event.name # Absent
  THEN event.index :> [id |-> event.id, name |-> event.name, args |-> <<>>] @@ blocks
  ELSE IF event.index \in DOMAIN blocks
       THEN [blocks EXCEPT ![event.index].args = @ \o event.args] ELSE blocks
AnthropicChunks(wire) == <<InOrder(FoldLeft(Absorb, NoCalls, wire))>>

\* readGeminiToolCalls: the calls of a chunk are whole, and numbered within it.
GeminiChunks(wire) ==
  [i \in DOMAIN wire |->
    LET calls == Named(wire[i]) IN
    [k \in DOMAIN calls |-> [calls[k] EXCEPT !.id = Either(@, Made(k - 1))]]]

\* readOllamaToolCalls: no ids at all; held back until the last chunk.
OllamaChunks(wire) ==
  <<FlattenSeq([i \in DOMAIN wire |->
      LET calls == Named(wire[i]) IN
      [k \in DOMAIN calls |-> [calls[k] EXCEPT !.id = Made(k - 1)]]])>>

Chunks(provider, wire) ==
  CASE provider = "openai" -> OpenAiChunks(wire)
    [] provider = "anthropic" -> AnthropicChunks(wire)
    [] provider = "gemini" -> GeminiChunks(wire)
    [] provider = "ollama" -> OllamaChunks(wire)

\* fold: of the chunks that have calls, the last.
Remember(totals, calls) == IF calls # NoCalls THEN calls ELSE totals

Returned(provider, wire) == FoldLeft(Remember, NoCalls, Chunks(provider, wire))

-----------------------------------------------------------------------------
\* The conversation, as the agent keeps it, and what Anthropic is sent.

Message(role, calls, answers) == [role |-> role, calls |-> calls, answers |-> answers]

\* The agent's turn with these calls: assistant_message, and a result for each;
\* between two turns of calls, or before the last answer, the loop may add a system message.
Turn(calls) ==
  <<Message("assistant", [i \in DOMAIN calls |-> calls[i].id], Absent)>> \o
  [i \in DOMAIN calls |-> Message("tool", <<>>, calls[i].id)] \o
  <<Message("system", <<>>, Absent)>>

Block(type, id) == [type |-> type, id |-> id]

\* (A mistake, for the mutant runs: a message for each result.)
AppendApart(out, message) ==
  CASE message.role = "system" -> out
    [] message.role = "tool" ->
         Append(out, [role |-> "user", content |-> <<Block("tool_result", message.answers)>>])
    [] OTHER ->
         Append(out, [role |-> message.role,
                      content |-> [i \in DOMAIN message.calls |-> Block("tool_use", message.calls[i])]])

\* toAnthropicMessages: results that follow one another are one message of the user.
AppendMessage(out, message) ==
  LET results == <<Block("tool_result", message.answers)>>
      joins == out # <<>> /\ Last(out).role = "user" /\ Last(Last(out).content).type = "tool_result"
      blocks == [i \in DOMAIN message.calls |-> Block("tool_use", message.calls[i])]
  IN CASE message.role = "system" -> out
       [] message.role = "tool" /\ joins -> [out EXCEPT ![Len(out)].content = @ \o results]
       [] message.role = "tool" /\ ~joins -> Append(out, [role |-> "user", content |-> results])
       [] OTHER -> Append(out, [role |-> message.role,
                                content |-> IF blocks = <<>> THEN <<Block("text", Absent)>> ELSE blocks])

Sent(calls) ==
  FoldLeft(AppendMessage, <<>>,
    <<Message("user", <<>>, Absent)>> \o IF calls = NoCalls THEN <<>> ELSE Turn(calls) \o Turn(calls))
=============================================================================
