-------------------------- MODULE MCInferenceSaga ---------------------------
(***************************************************************************)
(* Instances of InferenceSaga.  Two chats of the same prompt are the       *)
(* smallest instance where a cached answer is served; a stream next to an  *)
(* embedding the smallest where an interrupted stream can disturb the      *)
(* reservation of another call.                                            *)
(***************************************************************************)
EXTENDS InferenceSaga, TLC

CONSTANTS a, b, c, question

TwoCalls   == {a, b}
ThreeCalls == {a, b, c}

Chats      == [x \in TwoCalls |-> "chat"]
Streams    == a :> "stream" @@ b :> "embeddings"
Mixed      == a :> "chat" @@ b :> "stream"

\* The evidence of chats whose writes are refused; streams and embeddings whose
\* Redis, consumer or process goes away.
ChatsAndStreams ==
  { [kinds |-> Chats,   faults |-> {"mongo", "guardrail"}],
    [kinds |-> Streams, faults |-> {"redis", "client", "crash"}] }

Progress ==
  { [kinds |-> Mixed, faults |-> {"mongo"}],
    [kinds |-> Mixed, faults |-> {"redis", "lostReply"}] }

StreamAmongEmbeddings ==
  { [kinds |-> a :> "stream" @@ b :> "embeddings" @@ c :> "embeddings",
     faults |-> {"mongo"}] }

SamePrompt == [x \in Calls |-> question]

OneDeployment    == <<1>>
DearThenCheap    == <<2, 1>>
=============================================================================
