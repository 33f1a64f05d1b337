-------------------------------- MODULE Shapes --------------------------------
(***************************************************************************)
(* What a JSON body may be, as far as the two ends of a call can disagree  *)
(* about it: for each field, named by its path, the kinds of value it may  *)
(* hold.  A kind is one of Others, "text" for any text, or one text that   *)
(* is enumerated.  The fields of what a list holds are named as if the     *)
(* list were an object.                                                    *)
(***************************************************************************)
EXTENDS Naturals, Sequences, TLC

\* What is no text.
Others == {"absent", "null", "true", "false", "number", "list", "object"}

Of(names, kinds) == [n \in names |-> kinds]
Texts(names) == Of(names, {"text"})
Numbers(names) == Of(names, {"number"})
Booleans(names) == Of(names, {"true", "false"})
Lists(names) == Of(names, {"list"})
Objects(names) == Of(names, {"object"})

Also(shape, kind) == [n \in DOMAIN shape |-> shape[n] \cup {kind}]
Maybe(shape) == Also(shape, "absent")
OrNull(shape) == Also(shape, "null")

In(name, field) == name \o "." \o field
Under(name, shape) ==
  [n \in {In(name, f) : f \in DOMAIN shape} |-> shape[CHOOSE f \in DOMAIN shape : In(name, f) = n]]

\* An empty body, none at all, and a stream of events.
Empty == << >>
NoBody == "no body" :> {"true"}
Events == "events" :> {"text"}
Nothing == {Empty}

KindsIn(shape, field) == IF field \in DOMAIN shape THEN shape[field] ELSE {"absent"}

\* Whoever takes `taken` may be handed any `given`.
Fits(given, taken) ==
  \A f \in DOMAIN taken : \A kind \in KindsIn(given, f) :
    kind \in taken[f] \/ ("text" \in taken[f] /\ kind \notin Others)

\* What of it nobody looks at.
InVain(given, taken) == DOMAIN given \ DOMAIN taken

\* A path is a sequence of segments; an id stands for any.
Id == ":id"
At(method, path) == [method |-> method, path |-> path]
Matches(pattern, path) ==
  /\ Len(pattern) = Len(path)
  /\ \A i \in DOMAIN path : pattern[i] \in {path[i], Id}

Gives(status, shape) == [status |-> status, streamed |-> FALSE, shape |-> shape]
Streams == [status |-> 200, streamed |-> TRUE, shape |-> Events]

\* Of what may be given, what whoever sent this gets.
Answering(given, sent) ==
  {g \in given : \E s \in sent :
     LET asked == KindsIn(s, "stream") IN
     IF g.streamed THEN "true" \in asked ELSE asked # {"true"}}
=============================================================================
