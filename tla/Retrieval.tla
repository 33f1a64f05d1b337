------------------------------ MODULE Retrieval ------------------------------
(***************************************************************************)
(* The two functions of knowledge.                                         *)
(*                                                                         *)
(* splitIntoChunks: a document is cut into segments, and each segment into *)
(* windows that overlap.  A text is a sequence of characters of four       *)
(* kinds: a letter, a blank, a line break, and the mark of a heading.      *)
(* Offsets are those of the code: from 0, the end not included.            *)
(*                                                                         *)
(* fuse: the ranking of the vectors and the ranking of the words become    *)
(* one, by reciprocal ranks.  A chunk is its key, a number; scores are     *)
(* natural numbers, exact for the first four ranks.                        *)
(***************************************************************************)
EXTENDS Integers, SequencesExt

Letter == "x"
Blank == "_"
Break == "n"
Mark == "#"
White == {Blank, Break}

\* A segment, or a window of one: its place in the text, and the offset that the
\* code takes for its start.
Segment(from, to, start) == [from |-> from, to |-> to, start |-> start]

\* splitOnHeadings: at each line that begins with a mark, and at the beginning.
HeadingStarts(text) ==
  {0} \cup {i \in 1 .. Len(text) - 1 : text[i + 1] = Mark /\ text[i] = Break}

\* (A mistake, for the mutant runs: offsets are those of the segment.)
OnHeadingsFromZero(text) ==
  LET starts == HeadingStarts(text) IN
  {Segment(s, Min({Len(text)} \cup {t \in starts : t > s}), 0) : s \in starts}

OnHeadings(text) ==
  LET starts == HeadingStarts(text) IN
  {Segment(s, Min({Len(text)} \cup {t \in starts : t > s}), s) : s \in starts}

\* A line break next to another one.
Parts(text, i) ==
  LET broken(j) == j \in 0 .. Len(text) - 1 /\ text[j + 1] = Break IN
  broken(i) /\ (broken(i + 1) \/ broken(i - 1))

\* splitOnParagraphs: between runs of two line breaks or more, each counted as two.
OnParagraphs(text) ==
  LET starts == {0} \cup {i \in 1 .. Len(text) : Parts(text, i - 1) /\ ~Parts(text, i)}
      end(s) == Min({Len(text)} \cup {i \in s .. Len(text) : Parts(text, i)})
      cursor(s) == MapThenSumSet(LAMBDA t : end(t) - t + 2, {t \in starts : t < s})
  IN {Segment(s, end(s), cursor(s)) : s \in starts}

Segments(text, kind) ==
  CASE kind = "fixed"            -> {Segment(0, Len(text), 0)}
    [] kind = "markdown-heading" -> OnHeadings(text)
    [] kind = "recursive"        -> OnParagraphs(text)

\* (A mistake, for the mutant runs: the last window must be full.)
SlideFull(length, size, overlap) ==
  IF length <= size THEN {[start |-> 0, end |-> length]}
  ELSE {[start |-> w * (size - overlap), end |-> w * (size - overlap) + size] :
          w \in {v \in 0 .. length : v * (size - overlap) + size <= length}}

\* slide: windows of one size, until one reaches the end.
Slide(length, size, overlap) ==
  LET step == size - overlap
      last == Min({w \in 0 .. length : w * step + size >= length})
  IN IF length <= size
     THEN {[start |-> 0, end |-> length]}
     ELSE {[start |-> w * step, end |-> Min({w * step + size, length})] : w \in 0 .. last}

\* What is only white is dropped; what is not is trimmed, its offsets left alone.
Chunks(text, strategy) ==
  LET windows(s) ==
        {[from  |-> s.from + w.start, to  |-> s.from + w.end,
          start |-> s.start + w.start, end |-> s.start + w.end] :
           w \in Slide(s.to - s.from, strategy.size, strategy.overlap)}
  IN {c \in UNION {windows(s) : s \in Segments(text, strategy.kind)} :
        \E i \in c.from .. c.to - 1 : text[i + 1] \notin White}

-----------------------------------------------------------------------------

RRF_K == 60
Scale == 61 * 62 * 63 * 64
Increment(rank) == Scale \div (RRF_K + rank)

Ranks(ranking, chunk) == {i \in DOMAIN ranking : ranking[i] = chunk}
Keys(vector) == [i \in DOMAIN vector |-> vector[i].chunk]
Earned(ranking, chunk) == MapThenSumSet(Increment, Ranks(ranking, chunk))

\* (A mistake, for the mutant runs: the second ranking replaces the first.)
ScoreOfLast(vector, text, chunk) ==
  IF Ranks(text, chunk) # {} THEN Earned(text, chunk) ELSE Earned(Keys(vector), chunk)

\* contribute: both rankings add up.
Score(vector, text, chunk) == Earned(Keys(vector), chunk) + Earned(text, chunk)

Legs(vector, text, chunk) ==
  Cardinality({leg \in {"vector", "text"} :
    Ranks(IF leg = "vector" THEN Keys(vector) ELSE text, chunk) # {}})

\* The one that the vector ranking gave last, or less than any.
VectorScore(vector, chunk) ==
  LET ranks == Ranks(Keys(vector), chunk) IN IF ranks = {} THEN -1 ELSE vector[Max(ranks)].score

\* compare: by score, then by both, then by the vectors, then by the key.
Before(vector, text, a, b) ==
  LET better == <<Score(vector, text, a), Legs(vector, text, a), VectorScore(vector, a), b>>
      worse  == <<Score(vector, text, b), Legs(vector, text, b), VectorScore(vector, b), a>>
  IN \E i \in 1 .. 4 : better[i] > worse[i] /\ \A j \in 1 .. i - 1 : better[j] = worse[j]

\* (A mistake, for the mutant runs: the whole ranking.)
FusedWhole(vector, text, limit) ==
  SetToSortSeq(ToSet(Keys(vector)) \cup ToSet(text), LAMBDA a, b : Before(vector, text, a, b))

Fused(vector, text, limit) ==
  LET found == ToSet(Keys(vector)) \cup ToSet(text)
      all == SetToSortSeq(found, LAMBDA a, b : Before(vector, text, a, b))
  IN SubSeq(all, 1, Min({limit, Len(all)}))
=============================================================================
