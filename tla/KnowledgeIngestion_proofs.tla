---------------------- MODULE KnowledgeIngestion_proofs ----------------------
(***************************************************************************)
(* What is proved of the ingestion, for any number of documents, contents, *)
(* workers and requests.                                                   *)
(*                                                                         *)
(* Actors only meet in a document and in the point of a content.  So the   *)
(* invariant has facts about one actor, which its own steps alone can      *)
(* disturb, and, where clients are patient, facts about one document,      *)
(* which only its one owner can: a request, or else the worker of its one  *)
(* open job.                                                               *)
(***************************************************************************)
EXTENDS KnowledgeIngestion, TLAPS

Actors == Workers \cup Requests
Jobs == Docs \X Versions

JobStates == {"none", "waiting", "active", "completed", "failed"}
Underway == {"parsing", "chunking", "embedding", "indexing"}
Statuses == {"absent", "pending", "ingested", "failed"} \cup Underway

\* The steps of an attempt, in order: those after which it has the bytes, the text
\* of its version, its points.
Indexed == {"drop_points", "finish"}
Written == {"drop_text", "points"} \cup Indexed
Parsed == {"twin", "chunking", "embedding", "indexing", "text"} \cup Written
Busy == {"parse"} \cup Parsed
WorkSteps == {"find", "parsing", "catch", "return", "throw"} \cup Busy

DeleteSteps == {"delete_points", "delete_text", "delete_object", "delete_record"}
RequestSteps == {"stat", "confirm", "enqueue"} \cup DeleteSteps

Labels == {"idle"} \cup WorkSteps \cup RequestSteps

ActorStates ==
  [pc : Labels, doc : Docs \cup {None}, job : 0 .. MaxVersion, copy : Documents,
   bytes : Contents \cup {None}]

Types ==
  /\ scenario \in Scenarios
  /\ record \in [Docs -> Documents]
  /\ object \in [Docs -> Contents \cup {None}]
  /\ text \subseteq [doc : Docs, version : Versions, content : Contents]
  /\ points \in [Contents -> [doc : Docs, version : Versions] \cup {NoPoint}]
  /\ jobs \in [Jobs -> [state : JobStates, tries : 0 .. Attempts, stalled : BOOLEAN]]
  /\ actor \in [Actors -> ActorStates]
  /\ crashes \in Nat
  /\ announced \in [Jobs -> Nat]
  /\ uploads \in [Docs -> SUBSET Contents]
  /\ fate \in [Docs -> {"live", "doomed", "erased"}]

-----------------------------------------------------------------------------
\* What holds in every scenario

\* A record is absent or has a version.
Present(doc) == doc.version \in Versions

\* The hash of a document of d is of bytes it once had.
Hashed(d, doc) == doc.hash \in uploads[d] \cup {None}

RecordOK(d) ==
  /\ record[d] = Absent \/ Present(record[d])
  /\ Hashed(d, record[d])
  /\ object[d] \in uploads[d] \cup {None}

PointOK(c) == points[c] # NoPoint => c \in uploads[points[c].doc]

JobOK(k) ==
  /\ jobs[k].state = "none" => jobs[k].tries = 0
  /\ jobs[k].state \in {"waiting", "active"} => jobs[k].tries < Attempts

\* A worker that is not idle has an active job, and what it read so far.
Working(w) ==
  /\ actor[w].pc \in WorkSteps
  /\ Doc(w) \in Docs /\ actor[w].job \in Versions
  /\ jobs[Job(w)].state = "active"
  /\ Hashed(Doc(w), Copy(w))
  /\ actor[w].pc \notin {"find", "throw"} => Present(Copy(w))
  /\ actor[w].pc \in Parsed => actor[w].bytes \in uploads[Doc(w)]

Asking(r) ==
  /\ actor[r].pc \in RequestSteps
  /\ Doc(r) \in Docs
  /\ Present(Copy(r)) /\ Hashed(Doc(r), Copy(r))
  /\ actor[r].pc = "stat" /\ Terminal(Copy(r)) => Copy(r).version < MaxVersion

\* No two documents have one hash.
Unique == \A d, e \in Docs : record[d].hash = record[e].hash => d = e \/ record[d].hash = None

\* No two workers have one job.
Apart == \A w, u \in Workers : actor[w] # Idle /\ actor[u] # Idle /\ Job(w) = Job(u) => w = u

\* Until a process dies a job that announced its document is over.
Once(k) ==
  crashes = 0 =>
    /\ announced[k] <= 1
    /\ announced[k] = 1 =>
         \/ jobs[k].state = "completed"
         \/ /\ jobs[k].state = "active"
            /\ \A w \in Workers : Job(w) = k => actor[w].pc = "return"

General ==
  /\ Types
  /\ \A d \in Docs : RecordOK(d)
  /\ \A c \in Contents : PointOK(c)
  /\ \A k \in Jobs : JobOK(k) /\ Once(k)
  /\ \A w \in Workers : actor[w] = Idle \/ Working(w)
  /\ \A r \in Requests : actor[r] = Idle \/ Asking(r)
  /\ Unique
  /\ Apart

-----------------------------------------------------------------------------
\* What holds of a document whose clients are patient

OpenJob(d, v) == jobs[<<d, v>>].state \in {"waiting", "active"}

\* One request at a time, or else one job.
Owned(d) ==
  /\ \A r, q \in Requests : Doc(r) = d /\ Doc(q) = d => r = q
  /\ \A r \in Requests, v \in Versions : ~(Doc(r) = d /\ OpenJob(d, v))
  /\ \A v, u \in Versions : OpenJob(d, v) /\ OpenJob(d, u) => v = u

\* Mongo serves what the try block of an attempt does not protect.
Served == ~scenario.outages

\* What the jobs of d say of its record: versions come in order, an announced,
\* completed or, where Mongo serves, exhausted one has its verdict, and an open job is
\* about the record as it is.
Judged(d, v) ==
  /\ announced[<<d, v>>] <= 1
  /\ announced[<<d, v>>] > 0 \/ jobs[<<d, v>>].state # "none" =>
       \/ record[d] = Absent /\ fate[d] # "live"
       \/ v <= record[d].version
  /\ \/ announced[<<d, v>>] > 0
     \/ jobs[<<d, v>>].state = "completed"
     \/ Exhausted(<<d, v>>) /\ Served
     => (record[d].version = v => Terminal(record[d]))
  /\ OpenJob(d, v) =>
       /\ record[d].version = v
       /\ Served /\ jobs[<<d, v>>].tries > 0 => record[d].status # "pending"

\* What the request of d knows.
Asks(r, d) ==
  /\ record[d] # Absent
  /\ actor[r].pc = "stat" => Copy(r) = record[d]
  /\ actor[r].pc = "confirm" =>
       /\ ~Terminal(Copy(r))
       /\ \/ Copy(r) = record[d]
          \/ Terminal(record[d]) /\ Copy(r) = StartReingestion(record[d])
  /\ actor[r].pc = "enqueue" => Copy(r).version = record[d].version
  /\ actor[r].pc \in DeleteSteps => fate[d] # "live"
  /\ actor[r].pc \in DeleteSteps \ {"delete_points"} => \A c \in Contents : points[c].doc # d
  /\ actor[r].pc \in {"delete_object", "delete_record"} => \A t \in text : t.doc # d

\* What the worker of d knows.  Where Mongo serves, only a first attempt gets further
\* than `parsing`: that is why a later one can always save its verdict.
Knows(w, d) ==
  LET v     == actor[w].job
      bytes == actor[w].bytes
      first == jobs[<<d, v>>].tries = 0
  IN /\ actor[w].pc \notin {"find", "catch", "throw"} => Copy(w) = record[d]
     /\ actor[w].pc \in Busy => record[d].status \in Underway /\ (Served => first)
     /\ actor[w].pc = "return" => Terminal(record[d])
     /\ actor[w].pc = "catch" =>
          /\ Copy(w).version = v
          /\ \/ Copy(w).hash = record[d].hash
             \/ record[d].status # "pending" /\ (Served => first)
     /\ actor[w].pc = "throw" /\ Served =>
          record[d].status # "pending" /\ (first \/ Terminal(record[d]))
     /\ actor[w].pc \in Written /\ Solo(d, bytes) =>
          [doc |-> d, version |-> v, content |-> bytes] \in text
     /\ actor[w].pc \in Indexed /\ Solo(d, bytes) => points[bytes] = [doc |-> d, version |-> v]

Found(d) ==
  LET v == record[d].version
      c == record[d].hash
  IN /\ record[d].status = "ingested" => c \in Contents
     /\ record[d].status = "ingested" /\ fate[d] = "live" /\ Solo(d, c) =>
          /\ [doc |-> d, version |-> v, content |-> c] \in text
          /\ points[c] = [doc |-> d, version |-> v]

Stays(d) ==
  WasIngested(d) /\ fate[d] = "live" /\ (\A c \in uploads[d] : Solo(d, c)) =>
    /\ \E t \in text : t.doc = d
    /\ \E c \in Contents : points[c].doc = d

Gone(d) == fate[d] = "erased" => record[d] = Absent /\ Unindexed(d) /\ Quiet(d)

Tended(d) ==
  /\ Owned(d)
  /\ \A v \in Versions : Judged(d, v)
  /\ \A r \in Requests : Doc(r) = d => Asks(r, d)
  /\ \A w \in Workers : Doc(w) = d => Knows(w, d)
  /\ Found(d) /\ Stays(d) /\ Gone(d)

IngestionInv == General /\ (scenario.patient => \A d \in Docs : Tended(d))

-----------------------------------------------------------------------------
\* What a step leaves alone

\* The step of an actor a on document d.
Only(a, d) ==
  /\ scenario' = scenario /\ uploads' = uploads
  /\ \A b \in Actors \ {a} : actor'[b] = actor[b]
  /\ \A e \in Docs \ {d} : record'[e] = record[e] /\ object'[e] = object[e] /\ fate'[e] = fate[e]
  /\ \A k \in Jobs : k[1] # d => jobs'[k] = jobs[k] /\ announced'[k] = announced[k]
  /\ \A t \in [doc : Docs, version : Versions, content : Contents] :
       t.doc # d => (t \in text' <=> t \in text)
  /\ \A c \in Contents :
       \/ points'[c] = points[c]
       \/ points'[c] = NoPoint /\ points[c].doc = d
       \/ points'[c].doc = d /\ c \in uploads[d]

\* a goes on, at the step pc, with this copy and these bytes.
Moved(a, pc, copy, bytes) ==
  /\ actor'[a].pc = pc /\ Doc(a)' = Doc(a) /\ actor'[a].job = actor[a].job
  /\ Copy(a)' = copy /\ actor'[a].bytes = bytes

LEMMA ConstantFacts ==
  /\ None \notin Docs /\ None \notin Contents
  /\ Workers \cap Requests = {}
  /\ Attempts \in Nat /\ Attempts > 1
  /\ MaxVersion \in Nat /\ MaxVersion > 0
  /\ Versions = 1 .. MaxVersion
  /\ \A s \in Scenarios :
       s.patient \in BOOLEAN /\ s.docs \subseteq Docs /\ s.contents \subseteq Contents
       /\ s.workers \subseteq Workers /\ s.requests \subseteq Requests
       /\ s.versions \in Versions /\ s.crashes \in Nat /\ s.outages \in BOOLEAN
BY IngestionAssumption DEF Versions

LEMMA PipelineStatuses == {Pipeline[i] : i \in DOMAIN Pipeline} = {"pending"} \cup Underway
BY DEF Pipeline, Underway

LEMMA DocumentsAre ==
  Documents = [version : 0 .. MaxVersion, status : Statuses, hash : Contents \cup {None}]
<1>1. {"absent", "ingested", "failed"} \cup ({"pending"} \cup Underway) = Statuses
  BY DEF Statuses, Underway
<1>2. QED
  BY <1>1, PipelineStatuses DEF Documents

LEMMA IdleIsActor == Idle \in ActorStates /\ Absent \in Documents
<1>1. Absent \in Documents
  BY DocumentsAre, ConstantFacts DEF Absent, Statuses
<1>2. QED
  BY <1>1, ConstantFacts DEF ActorStates, Idle, Labels

LEMMA StagesAre ==
  ASSUME NEW from, NEW to \in Underway, CanAdvance(from, to)
  PROVE  /\ from \in {"pending"} \cup Underway
         /\ to = "parsing" => from = "pending"
<1>1. PICK i, j \in DOMAIN Pipeline : i < j /\ Pipeline[i] = from /\ Pipeline[j] = to
  BY DEF CanAdvance
<1>2. i \in 1 .. 5 /\ j \in 1 .. 5
  BY DEF Pipeline
<1>3. QED
  BY <1>1, <1>2 DEF Pipeline, Underway

LEMMA PendingAdvances == CanAdvance("pending", "parsing")
<1>1. 1 \in DOMAIN Pipeline /\ 2 \in DOMAIN Pipeline /\ Pipeline[1] = "pending" /\ Pipeline[2] = "parsing"
  BY DEF Pipeline
<1>2. QED
  BY <1>1 DEF CanAdvance

-----------------------------------------------------------------------------
\* Where an actor goes

LEMMA GotoMoves ==
  ASSUME Types, NEW a \in Actors, NEW l \in Labels, Goto(a, l)
  PROVE  /\ actor' \in [Actors -> ActorStates]
         /\ \A b \in Actors \ {a} : actor'[b] = actor[b]
         /\ Moved(a, l, Copy(a), actor[a].bytes)
<1>1. actor \in [Actors -> ActorStates]
  BY DEF Types
<1>2. actor[a] \in ActorStates
  BY <1>1
<1>3. [actor[a] EXCEPT !.pc = l] \in ActorStates
  BY <1>2 DEF ActorStates
<1>4. actor' = [actor EXCEPT ![a] = [actor[a] EXCEPT !.pc = l]]
  BY DEF Goto
<1>5. actor' \in [Actors -> ActorStates] /\ \A b \in Actors \ {a} : actor'[b] = actor[b]
  BY <1>1, <1>3, <1>4
<1>6. actor'[a] = [actor[a] EXCEPT !.pc = l]
  BY <1>1, <1>4
<1>7. QED
  BY <1>2, <1>5, <1>6 DEF Moved, ActorStates, Doc, Copy

LEMMA RestMoves ==
  ASSUME Types, NEW a \in Actors, Rest(a)
  PROVE  /\ actor' \in [Actors -> ActorStates]
         /\ \A b \in Actors \ {a} : actor'[b] = actor[b]
         /\ actor'[a] = Idle
<1>1. actor \in [Actors -> ActorStates]
  BY DEF Types
<1>2. QED
  BY <1>1, IdleIsActor DEF Rest

LEMMA CopyMoves ==
  ASSUME Types, NEW a \in Actors, NEW l \in Labels, NEW doc \in Documents,
         actor' = [actor EXCEPT ![a].copy = doc, ![a].pc = l]
  PROVE  /\ actor' \in [Actors -> ActorStates]
         /\ \A b \in Actors \ {a} : actor'[b] = actor[b]
         /\ Moved(a, l, doc, actor[a].bytes)
<1>1. actor \in [Actors -> ActorStates]
  BY DEF Types
<1>2. actor[a] \in ActorStates
  BY <1>1
<1>3. [actor[a] EXCEPT !.copy = doc, !.pc = l] \in ActorStates
  BY <1>2 DEF ActorStates
<1>4. actor' = [actor EXCEPT ![a] = [actor[a] EXCEPT !.copy = doc, !.pc = l]]
  BY <1>1, <1>2
<1>5. actor' \in [Actors -> ActorStates] /\ \A b \in Actors \ {a} : actor'[b] = actor[b]
  BY <1>1, <1>3, <1>4
<1>6. actor'[a] = [actor[a] EXCEPT !.copy = doc, !.pc = l]
  BY <1>1, <1>4
<1>7. QED
  BY <1>2, <1>5, <1>6 DEF Moved, ActorStates, Doc, Copy

LEMMA SaveMoves ==
  ASSUME Types, NEW a \in Actors, Doc(a) \in Docs, NEW l \in Labels, NEW doc \in Documents,
         Save(a, doc, l)
  PROVE  /\ actor' \in [Actors -> ActorStates]
         /\ \A b \in Actors \ {a} : actor'[b] = actor[b]
         /\ Moved(a, l, doc, actor[a].bytes)
         /\ record' \in [Docs -> Documents]
         /\ record'[Doc(a)] = doc
         /\ \A e \in Docs \ {Doc(a)} : record'[e] = record[e]
<1>1. actor' = [actor EXCEPT ![a].copy = doc, ![a].pc = l]
  BY DEF Save
<1>2. record \in [Docs -> Documents] /\ record' = [record EXCEPT ![Doc(a)] = doc]
  BY DEF Save, Types
<1>3. QED
  BY <1>1, <1>2, CopyMoves
-----------------------------------------------------------------------------
\* What a step preserves of the others

LEMMA WorkerFacts ==
  ASSUME General, NEW w \in Workers, actor[w] # Idle
  PROVE  /\ Working(w) /\ w \in Actors /\ Job(w) \in Jobs
         /\ Job(w) = <<Doc(w), actor[w].job>>
         /\ \A r \in Requests : r # w
         /\ crashes = 0 /\ actor[w].pc # "return" => announced[Job(w)] = 0
<1>1. Working(w)
  BY DEF General
<1>2. Job(w) \in Jobs /\ jobs[Job(w)].state = "active"
  BY <1>1 DEF Working, Job, Jobs
<1>3. Once(Job(w)) /\ announced[Job(w)] \in Nat
  BY <1>2 DEF General, Types
<1>4. QED
  BY <1>1, <1>2, <1>3, ConstantFacts DEF Once, Actors, Job

LEMMA RequestFacts ==
  ASSUME General, NEW r \in Requests, actor[r] # Idle
  PROVE  /\ Asking(r) /\ r \in Actors
         /\ \A w \in Workers : r # w
BY ConstantFacts DEF General, Actors

LEMMA IdleFacts ==
  ASSUME General, NEW a \in Actors
  PROVE  /\ actor[a] = Idle <=> actor[a].pc = "idle"
         /\ actor[a] = Idle <=> Doc(a) \notin Docs
         /\ actor[a] = Idle <=> Doc(a) = None
<1>1. Idle.pc = "idle" /\ Idle.doc = None /\ None \notin Docs
  BY ConstantFacts DEF Idle
<1>2. actor[a] # Idle => Doc(a) \in Docs /\ actor[a].pc \in WorkSteps \cup RequestSteps
  BY DEF General, Actors, Working, Asking
<1>3. "idle" \notin WorkSteps \cup RequestSteps
  BY DEF WorkSteps, RequestSteps, Busy, Parsed, Written, Indexed, DeleteSteps
<1>4. QED
  BY <1>1, <1>2, <1>3 DEF Doc

\* The other actors are where they were, if their jobs are.
LEMMA OthersStay ==
  ASSUME General, NEW a \in Actors, NEW d \in Docs, Only(a, d),
         \A k \in Jobs : jobs[k].state = "active" =>
            \/ jobs'[k].state = "active"
            \/ a \in Workers /\ actor[a] # Idle /\ Job(a) = k
  PROVE  /\ \A w \in Workers \ {a} : actor'[w] = Idle \/ Working(w)'
         /\ \A r \in Requests \ {a} : actor'[r] = Idle \/ Asking(r)'
<1>1. ASSUME NEW w \in Workers \ {a}, actor'[w] # Idle
      PROVE  Working(w)'
  <2>1. actor'[w] = actor[w] /\ uploads' = uploads
    BY DEF Only, Actors
  <2>2. Working(w) /\ Job(w) \in Jobs
    BY <1>1, <2>1, WorkerFacts
  <2>3. jobs'[Job(w)].state = "active"
    <3>1. CASE a \in Workers /\ actor[a] # Idle /\ Job(a) = Job(w)
      BY <1>1, <2>1, <3>1 DEF General, Apart
    <3>2. CASE ~(a \in Workers /\ actor[a] # Idle /\ Job(a) = Job(w))
      BY <2>2, <3>2 DEF Working
    <3>3. QED
      BY <3>1, <3>2
  <2>4. QED
    BY <2>1, <2>2, <2>3 DEF Working, Doc, Copy, Job, Hashed
<1>2. ASSUME NEW r \in Requests \ {a}, actor'[r] # Idle
      PROVE  Asking(r)'
  <2>1. actor'[r] = actor[r] /\ uploads' = uploads
    BY DEF Only, Actors
  <2>2. Asking(r)
    BY <1>2, <2>1 DEF General
  <2>3. QED
    BY <2>1, <2>2 DEF Asking, Doc, Copy, Hashed, Terminal
<1>3. QED
  BY <1>1, <1>2

LEMMA PointsStay ==
  ASSUME General, NEW a \in Actors, NEW d \in Docs, Only(a, d)
  PROVE  \A c \in Contents : PointOK(c)'
BY DEF Only, General, PointOK, NoPoint

LEMMA RecordsStay ==
  ASSUME General, NEW a \in Actors, NEW d \in Docs, Only(a, d),
         record'[d] = record[d], object'[d] \in uploads[d] \cup {None}
  PROVE  (\A e \in Docs : RecordOK(e)') /\ Unique'
<1>1. \A e \in Docs : record'[e] = record[e]
  BY DEF Only
<1>2. Unique'
  BY <1>1 DEF General, Unique
<1>3. \A e \in Docs : RecordOK(e)'
  BY <1>1 DEF Only, General, RecordOK, Hashed
<1>4. QED
  BY <1>2, <1>3

LEMMA RecordsSaved ==
  ASSUME General, NEW a \in Actors, NEW d \in Docs, Only(a, d),
         Present(record'[d]) \/ record'[d] = Absent, Hashed(d, record'[d]),
         HashFree(d, record'[d]), object'[d] = object[d]
  PROVE  (\A e \in Docs : RecordOK(e)') /\ Unique'
<1>1. \A e \in Docs \ {d} : record'[e] = record[e] /\ object'[e] = object[e]
  BY DEF Only
<1>2. \A e \in Docs \ {d} : record'[e].hash = record'[d].hash => record'[d].hash = None
  BY <1>1 DEF HashFree
<1>3. \A e, f \in Docs \ {d} : record'[e].hash = record'[f].hash => e = f \/ record'[e].hash = None
  BY <1>1 DEF General, Unique
<1>4. Unique'
  BY <1>2, <1>3 DEF Unique
<1>5. \A e \in Docs : RecordOK(e)'
  BY <1>1 DEF Only, General, RecordOK, Hashed
<1>6. QED
  BY <1>4, <1>5

\* Jobs are apart as long as whoever moves keeps its own.
LEMMA ApartStays ==
  ASSUME General, NEW a \in Actors,
         \A b \in Actors \ {a} : actor'[b] = actor[b],
         \/ a \in Requests
         \/ actor'[a] = Idle
         \/ actor[a] # Idle /\ Job(a)' = Job(a)
  PROVE  Apart'
<1>1. SUFFICES ASSUME NEW w \in Workers, NEW u \in Workers,
                      actor'[w] # Idle, actor'[u] # Idle, Job(w)' = Job(u)'
               PROVE  w = u
  BY DEF Apart
<1>2. w \in Actors /\ u \in Actors /\ (a \in Requests => w # a /\ u # a)
  BY ConstantFacts DEF Actors
<1>3. \A b \in {w, u} : actor[b] # Idle /\ Job(b)' = Job(b)
  BY <1>1, <1>2 DEF Job, Doc
<1>4. QED
  BY <1>1, <1>3 DEF General, Apart

\* A step that leaves the queue alone.
LEMMA CalmStep ==
  ASSUME General, NEW a \in Actors, NEW d \in Docs, Only(a, d),
         jobs' = jobs, announced' = announced, crashes' = crashes \/ crashes' # 0,
         \/ a \in Requests
         \/ a \in Workers /\ actor[a] # Idle /\ actor[a].pc # "return" /\ Job(a)' = Job(a)
  PROVE  /\ \A c \in Contents : PointOK(c)'
         /\ \A k \in Jobs : JobOK(k)' /\ Once(k)'
         /\ \A w \in Workers \ {a} : actor'[w] = Idle \/ Working(w)'
         /\ \A r \in Requests \ {a} : actor'[r] = Idle \/ Asking(r)'
         /\ Apart'
<1>1. \A b \in Actors \ {a} : actor'[b] = actor[b]
  BY DEF Only
<1>2. \A k \in Jobs : JobOK(k)'
  BY DEF General, JobOK
<1>3. ASSUME NEW k \in Jobs, crashes' = 0
      PROVE  Once(k)'
  <2>1. Once(k) /\ crashes = 0
    BY <1>3 DEF General
  <2>2. CASE a \in Workers /\ Job(a) = k
    <3>0. a \notin Requests
      BY <2>2, ConstantFacts
    <3>1. announced[k] = 0
      BY <2>1, <2>2, <3>0, WorkerFacts
    <3>2. QED
      BY <3>1 DEF Once
  <2>3. CASE ~(a \in Workers /\ Job(a) = k)
    <3>1. \A w \in Workers : Job(w)' = k => w # a /\ w \in Actors
      BY <2>3, ConstantFacts DEF Actors
    <3>2. \A w \in Workers : Job(w)' = k => actor'[w] = actor[w] /\ Job(w) = k
      BY <1>1, <3>1 DEF Job, Doc
    <3>3. QED
      BY <2>1, <3>2 DEF Once
  <2>4. QED
    BY <2>2, <2>3
<1>4. \A k \in Jobs : Once(k)'
  BY <1>3 DEF Once
<1>5. Apart'
  BY <1>1, ApartStays
<1>6. QED
  BY <1>2, <1>4, <1>5, PointsStay, OthersStay

LEMMA GeneralFrom ==
  ASSUME Types', \A d \in Docs : RecordOK(d)', \A c \in Contents : PointOK(c)',
         \A k \in Jobs : JobOK(k)' /\ Once(k)',
         NEW a \in Actors,
         \A w \in Workers \ {a} : actor'[w] = Idle \/ Working(w)',
         \A r \in Requests \ {a} : actor'[r] = Idle \/ Asking(r)',
         a \in Workers => actor'[a] = Idle \/ Working(a)',
         a \in Requests => actor'[a] = Idle \/ Asking(a)',
         Unique', Apart'
  PROVE  General'
BY DEF General
-----------------------------------------------------------------------------
\* The steps of a request

LEMMA ArriveEffect ==
  ASSUME General, NEW r \in Requests, NEW d \in Docs, NEW l \in {"stat", "delete_points"},
         Arrive(r, d, l), fate' \in [Docs -> {"live", "doomed", "erased"}],
         \A e \in Docs \ {d} : fate'[e] = fate[e]
  PROVE  /\ Types' /\ Only(r, d)
         /\ record[d] # Absent /\ actor[r] = Idle
         /\ actor'[r].pc = l /\ Doc(r)' = d /\ Copy(r)' = record[d]
         /\ UNCHANGED <<record, object, text, points, jobs, crashes, announced>>
<1>1. r \in Actors /\ actor[r].pc = "idle"
  BY DEF Arrive, At, Actors
<1>2. record[d] \in Documents /\ actor \in [Actors -> ActorStates]
  BY DEF General, Types
<1>3. [Idle EXCEPT !.pc = l, !.doc = d, !.copy = record[d]] \in ActorStates
  BY <1>2, IdleIsActor DEF ActorStates, Labels, RequestSteps, DeleteSteps
<1>4. actor' = [actor EXCEPT ![r] = [Idle EXCEPT !.pc = l, !.doc = d, !.copy = record[d]]]
  BY DEF Arrive
<1>5. actor' \in [Actors -> ActorStates] /\ \A b \in Actors \ {r} : actor'[b] = actor[b]
  BY <1>1, <1>2, <1>3, <1>4
<1>6. actor'[r] = [Idle EXCEPT !.pc = l, !.doc = d, !.copy = record[d]]
  BY <1>1, <1>2, <1>4
<1>7. actor'[r].pc = l /\ Doc(r)' = d /\ Copy(r)' = record[d]
  BY <1>6 DEF Idle, Doc, Copy
<1>8. UNCHANGED <<scenario, record, object, text, points, jobs, crashes, announced, uploads>>
  BY DEF Arrive, stores
<1>9. Types'
  BY <1>5, <1>8 DEF General, Types
<1>10. QED
  BY <1>1, <1>5, <1>7, <1>8, <1>9, IdleFacts DEF Only, Arrive

LEMMA ArriveStays ==
  ASSUME General, NEW r \in Requests, NEW d \in Docs, NEW l \in {"stat", "delete_points"},
         Arrive(r, d, l), fate' \in [Docs -> {"live", "doomed", "erased"}],
         \A e \in Docs \ {d} : fate'[e] = fate[e],
         l = "stat" /\ Terminal(record[d]) => record[d].version < scenario.versions
  PROVE  General'
<1>3. /\ Types' /\ Only(r, d)
      /\ record[d] # Absent /\ actor[r] = Idle
      /\ actor'[r].pc = l /\ Doc(r)' = d /\ Copy(r)' = record[d]
      /\ UNCHANGED <<record, object, text, points, jobs, crashes, announced>>
  BY ArriveEffect
<1>5. r \in Actors /\ r \notin Workers
  BY ConstantFacts DEF Actors
<1>6. RecordOK(d) /\ record[d] \in Documents
  BY DEF General, Types
<1>7. Asking(r)'
  <2>1. Present(record[d]) /\ Hashed(d, record[d])
    BY <1>3, <1>6 DEF RecordOK
  <2>2. l = "stat" /\ Terminal(record[d]) => record[d].version < MaxVersion
    <3>1. scenario.versions \in 1 .. MaxVersion /\ MaxVersion \in Nat
      BY ConstantFacts DEF General, Types
    <3>2. record[d].version \in Int
      BY <2>1, ConstantFacts DEF Present
    <3>3. QED
      BY <3>1, <3>2
  <2>3. actor'[r].pc \in RequestSteps
    BY <1>3 DEF RequestSteps, DeleteSteps
  <2>4. QED
    BY <1>3, <2>1, <2>2, <2>3 DEF Asking, Hashed, Only, Present, Terminal
<1>8. /\ \A c \in Contents : PointOK(c)'
      /\ \A k \in Jobs : JobOK(k)' /\ Once(k)'
      /\ \A w \in Workers \ {r} : actor'[w] = Idle \/ Working(w)'
      /\ \A q \in Requests \ {r} : actor'[q] = Idle \/ Asking(q)'
      /\ Apart'
  BY <1>3, <1>5, CalmStep
<1>9. (\A e \in Docs : RecordOK(e)') /\ Unique'
  BY <1>3, <1>5, <1>6, RecordsStay DEF RecordOK
<1>10. QED
  BY <1>3, <1>5, <1>7, <1>8, <1>9, GeneralFrom

LEMMA ConfirmStep ==
  ASSUME General, NEW r \in Requests, NEW d \in Docs, Confirm(r, d)
  PROVE  /\ General' /\ Only(r, d)
         /\ record[d] # Absent /\ actor[r] = Idle
         /\ actor'[r].pc = "stat" /\ Doc(r)' = d /\ Copy(r)' = record[d]
         /\ UNCHANGED <<record, object, text, points, jobs, crashes, announced, fate>>
         /\ scenario.patient => Quiet(d)
<1>1. /\ Arrive(r, d, "stat") /\ fate' = fate
      /\ Terminal(record[d]) => record[d].version < scenario.versions
  BY DEF Confirm
<1>2. fate' \in [Docs -> {"live", "doomed", "erased"}] /\ \A e \in Docs \ {d} : fate'[e] = fate[e]
  BY <1>1 DEF General, Types
<1>3. General'
  BY <1>1, <1>2, ArriveStays
<1>4. scenario.patient => Quiet(d)
  BY <1>1 DEF Arrive
<1>5. QED
  BY <1>1, <1>2, <1>3, <1>4, ArriveEffect

LEMMA DeleteStep ==
  ASSUME General, NEW r \in Requests, NEW d \in Docs, Delete(r, d)
  PROVE  /\ General' /\ Only(r, d)
         /\ record[d] # Absent /\ actor[r] = Idle
         /\ actor'[r].pc = "delete_points" /\ Doc(r)' = d /\ Copy(r)' = record[d]
         /\ UNCHANGED <<record, object, text, points, jobs, crashes, announced>>
         /\ fate'[d] = fate[d] \/ (fate[d] = "live" /\ fate'[d] = "doomed")
         /\ fate'[d] # "live"
         /\ scenario.patient => Quiet(d)
<1>1. /\ Arrive(r, d, "delete_points")
      /\ fate' = [fate EXCEPT ![d] = IF fate[d] = "live" THEN "doomed" ELSE fate[d]]
  BY DEF Delete
<1>2. /\ fate' \in [Docs -> {"live", "doomed", "erased"}]
      /\ \A e \in Docs \ {d} : fate'[e] = fate[e]
      /\ fate'[d] = fate[d] \/ (fate[d] = "live" /\ fate'[d] = "doomed")
      /\ fate'[d] # "live"
  BY <1>1 DEF General, Types
<1>3. General'
  BY <1>1, <1>2, ArriveStays
<1>4. scenario.patient => Quiet(d)
  BY <1>1 DEF Arrive
<1>5. QED
  BY <1>1, <1>2, <1>3, <1>4, ArriveEffect

LEMMA RestStep ==
  ASSUME General, NEW r \in Requests, actor[r] # Idle, Rest(r),
         UNCHANGED <<scenario, stores, history>>, crashes' \in Nat,
         crashes' = crashes \/ crashes' # 0
  PROVE  General' /\ Only(r, Doc(r)) /\ actor'[r] = Idle
<1>1. r \in Actors /\ r \notin Workers /\ Doc(r) \in Docs
  BY RequestFacts, ConstantFacts DEF Asking
<1>2. /\ actor' \in [Actors -> ActorStates]
      /\ \A b \in Actors \ {r} : actor'[b] = actor[b]
      /\ actor'[r] = Idle
  BY <1>1, RestMoves DEF General
<1>3. UNCHANGED <<scenario, record, object, text, points, jobs, announced, uploads, fate>>
  BY DEF stores, history
<1>4. Types'
  BY <1>2, <1>3 DEF General, Types
<1>5. Only(r, Doc(r))
  BY <1>2, <1>3 DEF Only
<1>6. /\ \A c \in Contents : PointOK(c)'
      /\ \A k \in Jobs : JobOK(k)' /\ Once(k)'
      /\ \A w \in Workers \ {r} : actor'[w] = Idle \/ Working(w)'
      /\ \A q \in Requests \ {r} : actor'[q] = Idle \/ Asking(q)'
      /\ Apart'
  BY <1>1, <1>3, <1>5, CalmStep
<1>7. (\A e \in Docs : RecordOK(e)') /\ Unique'
  BY <1>1, <1>3, <1>5, RecordsStay DEF General, RecordOK
<1>8. General'
  BY <1>1, <1>2, <1>4, <1>6, <1>7, GeneralFrom
<1>9. QED
  BY <1>2, <1>5, <1>8
LEMMA RequestStays ==
  ASSUME General, NEW r \in Requests, actor[r] # Idle, Types', Only(r, Doc(r)),
         jobs' = jobs, announced' = announced, crashes' = crashes \/ crashes' # 0,
         actor'[r] = Idle \/ Asking(r)', \A e \in Docs : RecordOK(e)', Unique'
  PROVE  General'
<1>1. r \in Actors /\ r \notin Workers /\ Doc(r) \in Docs
  BY RequestFacts, ConstantFacts DEF Asking
<1>2. /\ \A c \in Contents : PointOK(c)'
      /\ \A k \in Jobs : JobOK(k)' /\ Once(k)'
      /\ \A w \in Workers \ {r} : actor'[w] = Idle \/ Working(w)'
      /\ \A q \in Requests \ {r} : actor'[q] = Idle \/ Asking(q)'
      /\ Apart'
  BY <1>1, CalmStep
<1>3. QED
  BY <1>1, <1>2, GeneralFrom

\* A request that goes on asks as before.
LEMMA AskingOn ==
  ASSUME General, NEW r \in Requests, actor[r] # Idle, uploads' = uploads,
         NEW pc \in RequestSteps \ {"stat"}, NEW copy, Moved(r, pc, copy, actor[r].bytes),
         Present(copy), Hashed(Doc(r), copy)
  PROVE  Asking(r)'
<1>1. Asking(r)
  BY RequestFacts
<1>2. QED
  BY <1>1 DEF Asking, Moved, Hashed, Present

LEMMA AtSteps ==
  ASSUME General, NEW r \in Requests, NEW l \in RequestSteps, At(r, l)
  PROVE  /\ actor[r] # Idle /\ Asking(r) /\ r \in Actors /\ r \notin Workers
         /\ Doc(r) \in Docs /\ actor[r].pc = l
<1>1. actor[r] # Idle
  BY DEF At, Idle, RequestSteps, DeleteSteps
<1>2. QED
  BY <1>1, RequestFacts, ConstantFacts DEF Asking, At, Actors

LEMMA StatStep ==
  ASSUME General, NEW r \in Requests, Stat(r)
  PROVE  /\ General' /\ Only(r, Doc(r)) /\ actor[r] # Idle /\ actor[r].pc = "stat"
         /\ UNCHANGED <<record, object, text, points, jobs, crashes, announced, fate>>
         /\ \/ actor'[r] = Idle
            \/ /\ actor'[r].pc = "confirm" /\ Doc(r)' = Doc(r)
               /\ Copy(r)' = IF Terminal(Copy(r)) THEN StartReingestion(Copy(r)) ELSE Copy(r)
<1> DEFINE copy == IF Terminal(Copy(r)) THEN StartReingestion(Copy(r)) ELSE Copy(r)
<1>1. /\ actor[r] # Idle /\ Asking(r) /\ r \in Actors /\ r \notin Workers
      /\ Doc(r) \in Docs /\ actor[r].pc = "stat"
  BY AtSteps DEF Stat, RequestSteps
<1>2. UNCHANGED <<scenario, record, object, text, points, jobs, crashes, announced, uploads, fate>>
  BY DEF Stat, stores, history
<1>3. CASE object[Doc(r)] = None
  <2>1. Rest(r) /\ crashes' = crashes /\ crashes' \in Nat
    BY <1>2, <1>3 DEF Stat, General, Types
  <2>2. General' /\ Only(r, Doc(r)) /\ actor'[r] = Idle
    BY <1>1, <1>2, <2>1, RestStep DEF stores, history
  <2>3. QED
    BY <1>1, <1>2, <2>2
<1>4. CASE object[Doc(r)] # None
  <2>1. Copy(r) \in Documents /\ Present(Copy(r)) /\ Hashed(Doc(r), Copy(r))
    BY <1>1 DEF Asking, General, Types, Copy, ActorStates
  <2>2. copy \in Documents /\ Present(copy) /\ Hashed(Doc(r), copy)
    <3>1. CASE Terminal(Copy(r))
      <4>1. copy = [Copy(r) EXCEPT !.version = @ + 1, !.status = "pending"]
        BY <3>1 DEF StartReingestion
      <4>2. Copy(r).version + 1 \in 1 .. MaxVersion
        BY <1>1, <2>1, <3>1, ConstantFacts DEF Asking, Present
      <4>3. /\ copy.version = Copy(r).version + 1 /\ copy.status = "pending"
            /\ copy.hash = Copy(r).hash
            /\ copy \in Documents
        <5>1. /\ Copy(r) \in [version : 0 .. MaxVersion, status : Statuses, hash : Contents \cup {None}]
              /\ "pending" \in Statuses /\ Copy(r).version + 1 \in 0 .. MaxVersion
          BY <2>1, <4>2, DocumentsAre, ConstantFacts DEF Statuses
        <5>2. copy \in [version : 0 .. MaxVersion, status : Statuses, hash : Contents \cup {None}]
          BY <4>1, <5>1
        <5>3. /\ copy.version = Copy(r).version + 1 /\ copy.status = "pending"
              /\ copy.hash = Copy(r).hash
          BY <4>1, <5>1
        <5>4. QED
          BY <5>2, <5>3, DocumentsAre
      <4>4. QED
        BY <2>1, <4>2, <4>3, ConstantFacts DEF Present, Hashed
    <3>2. CASE ~Terminal(Copy(r))
      BY <2>1, <3>2
    <3>3. QED
      BY <3>1, <3>2
  <2>3. actor' = [actor EXCEPT ![r].copy = copy, ![r].pc = "confirm"]
    <3>1. actor' = [actor EXCEPT ![r].pc = "confirm", ![r].copy = copy]
      BY <1>4 DEF Stat, Copy
    <3>2. actor \in [Actors -> ActorStates]
      BY DEF General, Types
    <3>3. QED
      BY <1>1, <3>1, <3>2 DEF ActorStates
  <2> HIDE DEF copy
  <2>4. "confirm" \in Labels /\ "confirm" \in RequestSteps \ {"stat"}
    BY DEF Labels, RequestSteps
  <2>5. /\ actor' \in [Actors -> ActorStates]
        /\ \A b \in Actors \ {r} : actor'[b] = actor[b]
        /\ Moved(r, "confirm", copy, actor[r].bytes)
    BY <1>1, <2>2, <2>3, <2>4, CopyMoves DEF General
  <2>6. Types' /\ Only(r, Doc(r))
    BY <1>2, <2>5 DEF General, Types, Only
  <2>7. Asking(r)'
    BY <1>1, <1>2, <2>2, <2>4, <2>5, AskingOn
  <2>8. (\A e \in Docs : RecordOK(e)') /\ Unique'
    BY <1>1, <1>2, <2>6, RecordsStay DEF General, RecordOK
  <2>9. General'
    BY <1>1, <1>2, <2>6, <2>7, <2>8, RequestStays
  <2>10. QED
    BY <1>1, <1>2, <2>5, <2>6, <2>9 DEF Moved, copy
<1>5. QED
  BY <1>3, <1>4

LEMMA SaveConfirmedStep ==
  ASSUME General, NEW r \in Requests, SaveConfirmed(r)
  PROVE  /\ General' /\ Only(r, Doc(r)) /\ actor[r] # Idle /\ actor[r].pc = "confirm"
         /\ UNCHANGED <<object, text, points, jobs, crashes, announced, fate>>
         /\ \/ actor'[r] = Idle /\ record' = record
            \/ /\ actor'[r].pc = "enqueue" /\ Doc(r)' = Doc(r) /\ Copy(r)' = Copy(r)
               /\ record'[Doc(r)] = Copy(r)
<1>1. /\ actor[r] # Idle /\ Asking(r) /\ r \in Actors /\ r \notin Workers
      /\ Doc(r) \in Docs /\ actor[r].pc = "confirm"
  BY AtSteps DEF SaveConfirmed, RequestSteps
<1>2. UNCHANGED <<scenario, object, text, points, jobs, crashes, announced, uploads, fate>>
  BY DEF SaveConfirmed, history
<1>3. CASE ~HashFree(Doc(r), Copy(r))
  <2>1. Rest(r) /\ record' = record /\ crashes' = crashes /\ crashes' \in Nat
    BY <1>2, <1>3 DEF SaveConfirmed, General, Types
  <2>2. General' /\ Only(r, Doc(r)) /\ actor'[r] = Idle
    BY <1>1, <1>2, <2>1, RestStep DEF stores, history
  <2>3. QED
    BY <1>1, <1>2, <2>1, <2>2
<1>4. CASE HashFree(Doc(r), Copy(r))
  <2>1. Copy(r) \in Documents /\ Present(Copy(r)) /\ Hashed(Doc(r), Copy(r))
    BY <1>1 DEF Asking, General, Types, Copy, ActorStates
  <2>2. Save(r, Copy(r), "enqueue")
    BY <1>4 DEF SaveConfirmed
  <2>3. "enqueue" \in Labels /\ "enqueue" \in RequestSteps \ {"stat"}
    BY DEF Labels, RequestSteps
  <2>4. /\ actor' \in [Actors -> ActorStates]
        /\ \A b \in Actors \ {r} : actor'[b] = actor[b]
        /\ Moved(r, "enqueue", Copy(r), actor[r].bytes)
        /\ record' \in [Docs -> Documents]
        /\ record'[Doc(r)] = Copy(r)
        /\ \A e \in Docs \ {Doc(r)} : record'[e] = record[e]
    BY <1>1, <2>1, <2>2, <2>3, SaveMoves DEF General
  <2>5. Types' /\ Only(r, Doc(r))
    BY <1>2, <2>4 DEF General, Types, Only
  <2>6. Asking(r)'
    BY <1>1, <1>2, <2>1, <2>3, <2>4, AskingOn
  <2>7. (\A e \in Docs : RecordOK(e)') /\ Unique'
    BY <1>1, <1>2, <1>4, <2>1, <2>4, <2>5, RecordsSaved
  <2>8. General'
    BY <1>1, <1>2, <2>5, <2>6, <2>7, RequestStays
  <2>9. QED
    BY <1>1, <1>2, <2>4, <2>5, <2>8 DEF Moved
<1>5. QED
  BY <1>3, <1>4
LEMMA PointsDropped ==
  ASSUME Types, NEW S \in SUBSET Contents, points' = PointsWithout(S)
  PROVE  /\ points' \in [Contents -> [doc : Docs, version : Versions] \cup {NoPoint}]
         /\ \A c \in Contents : points'[c] = IF c \in S THEN NoPoint ELSE points[c]
BY DEF Types, PointsWithout

LEMMA DeletePointsStep ==
  ASSUME General, NEW r \in Requests, DeletePoints(r)
  PROVE  /\ General' /\ Only(r, Doc(r)) /\ actor[r] # Idle /\ actor[r].pc = "delete_points"
         /\ UNCHANGED <<record, object, text, jobs, crashes, announced, fate>>
         /\ actor'[r].pc = "delete_text" /\ Doc(r)' = Doc(r)
         /\ \A c \in Contents : points'[c].doc # Doc(r)
<1>1. /\ actor[r] # Idle /\ Asking(r) /\ r \in Actors /\ r \notin Workers
      /\ Doc(r) \in Docs /\ actor[r].pc = "delete_points"
  BY AtSteps DEF DeletePoints, RequestSteps, DeleteSteps
<1>2. UNCHANGED <<scenario, record, object, text, jobs, crashes, announced, uploads, fate>>
  BY DEF DeletePoints, history
<1>3. "delete_text" \in Labels /\ "delete_text" \in RequestSteps \ {"stat"}
  BY DEF Labels, RequestSteps, DeleteSteps
<1>4. /\ actor' \in [Actors -> ActorStates]
      /\ \A b \in Actors \ {r} : actor'[b] = actor[b]
      /\ Moved(r, "delete_text", Copy(r), actor[r].bytes)
  BY <1>1, <1>3, GotoMoves DEF General, DeletePoints
<1>5. /\ points' \in [Contents -> [doc : Docs, version : Versions] \cup {NoPoint}]
      /\ \A c \in Contents : points'[c] = IF points[c].doc = Doc(r) THEN NoPoint ELSE points[c]
  <2>1. points' = PointsWithout({c \in Contents : points[c].doc = Doc(r)})
    BY DEF DeletePoints
  <2>2. QED
    BY <2>1, PointsDropped DEF General
<1>6. Types' /\ Only(r, Doc(r))
  BY <1>2, <1>4, <1>5 DEF General, Types, Only
<1>7. Asking(r)'
  BY <1>1, <1>2, <1>3, <1>4, AskingOn DEF Asking
<1>8. (\A e \in Docs : RecordOK(e)') /\ Unique'
  BY <1>1, <1>2, <1>6, RecordsStay DEF General, RecordOK
<1>9. General'
  BY <1>1, <1>2, <1>6, <1>7, <1>8, RequestStays
<1>10. \A c \in Contents : points'[c].doc # Doc(r)
  BY <1>1, <1>5, ConstantFacts DEF NoPoint
<1>11. QED
  BY <1>1, <1>2, <1>4, <1>6, <1>9, <1>10 DEF Moved

LEMMA DeleteTextStep ==
  ASSUME General, NEW r \in Requests, DeleteText(r)
  PROVE  /\ General' /\ Only(r, Doc(r)) /\ actor[r] # Idle /\ actor[r].pc = "delete_text"
         /\ UNCHANGED <<record, object, points, jobs, crashes, announced, fate>>
         /\ actor'[r].pc = "delete_object" /\ Doc(r)' = Doc(r)
         /\ \A t \in text' : t.doc # Doc(r)
<1>1. /\ actor[r] # Idle /\ Asking(r) /\ r \in Actors /\ r \notin Workers
      /\ Doc(r) \in Docs /\ actor[r].pc = "delete_text"
  BY AtSteps DEF DeleteText, RequestSteps, DeleteSteps
<1>2. UNCHANGED <<scenario, record, object, points, jobs, crashes, announced, uploads, fate>>
  BY DEF DeleteText, history
<1>3. "delete_object" \in Labels /\ "delete_object" \in RequestSteps \ {"stat"}
  BY DEF Labels, RequestSteps, DeleteSteps
<1>4. /\ actor' \in [Actors -> ActorStates]
      /\ \A b \in Actors \ {r} : actor'[b] = actor[b]
      /\ Moved(r, "delete_object", Copy(r), actor[r].bytes)
  BY <1>1, <1>3, GotoMoves DEF General, DeleteText
<1>5. text' = {t \in text : t.doc # Doc(r)}
  BY DEF DeleteText
<1>6. Types' /\ Only(r, Doc(r))
  BY <1>2, <1>4, <1>5 DEF General, Types, Only
<1>7. Asking(r)'
  BY <1>1, <1>2, <1>3, <1>4, AskingOn DEF Asking
<1>8. (\A e \in Docs : RecordOK(e)') /\ Unique'
  BY <1>1, <1>2, <1>6, RecordsStay DEF General, RecordOK
<1>9. General'
  BY <1>1, <1>2, <1>6, <1>7, <1>8, RequestStays
<1>10. QED
  BY <1>1, <1>2, <1>4, <1>5, <1>6, <1>9 DEF Moved

LEMMA DeleteObjectStep ==
  ASSUME General, NEW r \in Requests, DeleteObject(r)
  PROVE  /\ General' /\ Only(r, Doc(r)) /\ actor[r] # Idle /\ actor[r].pc = "delete_object"
         /\ UNCHANGED <<record, text, points, jobs, crashes, announced, fate>>
         /\ actor'[r].pc = "delete_record" /\ Doc(r)' = Doc(r)
<1>1. /\ actor[r] # Idle /\ Asking(r) /\ r \in Actors /\ r \notin Workers
      /\ Doc(r) \in Docs /\ actor[r].pc = "delete_object"
  BY AtSteps DEF DeleteObject, RequestSteps, DeleteSteps
<1>2. UNCHANGED <<scenario, record, text, points, jobs, crashes, announced, uploads, fate>>
  BY DEF DeleteObject, history
<1>3. "delete_record" \in Labels /\ "delete_record" \in RequestSteps \ {"stat"}
  BY DEF Labels, RequestSteps, DeleteSteps
<1>4. /\ actor' \in [Actors -> ActorStates]
      /\ \A b \in Actors \ {r} : actor'[b] = actor[b]
      /\ Moved(r, "delete_record", Copy(r), actor[r].bytes)
  BY <1>1, <1>3, GotoMoves DEF General, DeleteObject
<1>5. /\ object' \in [Docs -> Contents \cup {None}]
      /\ object'[Doc(r)] \in uploads[Doc(r)] \cup {None}
      /\ \A e \in Docs \ {Doc(r)} : object'[e] = object[e]
  <2>1. object' = object \/ object' = [object EXCEPT ![Doc(r)] = None]
    BY DEF DeleteObject
  <2>2. object \in [Docs -> Contents \cup {None}] /\ object[Doc(r)] \in uploads[Doc(r)] \cup {None}
    BY <1>1 DEF General, Types, RecordOK
  <2>3. QED
    BY <1>1, <2>1, <2>2
<1>6. Types' /\ Only(r, Doc(r))
  BY <1>2, <1>4, <1>5 DEF General, Types, Only
<1>7. Asking(r)'
  BY <1>1, <1>2, <1>3, <1>4, AskingOn DEF Asking
<1>8. (\A e \in Docs : RecordOK(e)') /\ Unique'
  BY <1>1, <1>2, <1>5, <1>6, RecordsStay
<1>9. General'
  BY <1>1, <1>2, <1>6, <1>7, <1>8, RequestStays
<1>10. QED
  BY <1>1, <1>2, <1>4, <1>6, <1>9 DEF Moved

LEMMA DeleteRecordStep ==
  ASSUME General, NEW r \in Requests, DeleteRecord(r)
  PROVE  /\ General' /\ Only(r, Doc(r)) /\ actor[r] # Idle /\ actor[r].pc = "delete_record"
         /\ UNCHANGED <<object, text, points, jobs, crashes, announced>>
         /\ actor'[r] = Idle /\ record'[Doc(r)] = Absent /\ fate'[Doc(r)] = "erased"
<1>1. /\ actor[r] # Idle /\ Asking(r) /\ r \in Actors /\ r \notin Workers
      /\ Doc(r) \in Docs /\ actor[r].pc = "delete_record"
  BY AtSteps DEF DeleteRecord, RequestSteps, DeleteSteps
<1>2. UNCHANGED <<scenario, object, text, points, jobs, crashes, announced, uploads>>
  BY DEF DeleteRecord
<1>3. /\ actor' \in [Actors -> ActorStates]
      /\ \A b \in Actors \ {r} : actor'[b] = actor[b]
      /\ actor'[r] = Idle
  BY <1>1, RestMoves DEF General, DeleteRecord
<1>4. /\ record' \in [Docs -> Documents] /\ record'[Doc(r)] = Absent
      /\ \A e \in Docs \ {Doc(r)} : record'[e] = record[e]
  BY <1>1, IdleIsActor DEF DeleteRecord, General, Types
<1>5. /\ fate' \in [Docs -> {"live", "doomed", "erased"}] /\ fate'[Doc(r)] = "erased"
      /\ \A e \in Docs \ {Doc(r)} : fate'[e] = fate[e]
  BY <1>1 DEF DeleteRecord, General, Types
<1>6. Types' /\ Only(r, Doc(r))
  BY <1>2, <1>3, <1>4, <1>5 DEF General, Types, Only
<1>7. Absent.hash = None
  BY DEF Absent
<1>8. HashFree(Doc(r), record'[Doc(r)]) /\ Hashed(Doc(r), record'[Doc(r)])
  BY <1>4, <1>7 DEF HashFree, Hashed
<1>9. (\A e \in Docs : RecordOK(e)') /\ Unique'
  BY <1>1, <1>2, <1>4, <1>6, <1>8, RecordsSaved
<1>10. General'
  BY <1>1, <1>2, <1>3, <1>6, <1>9, RequestStays
<1>11. QED
  BY <1>1, <1>2, <1>3, <1>4, <1>5, <1>6, <1>10

LEMMA RequestDiesStep ==
  ASSUME General, NEW r \in Requests, RequestDies(r)
  PROVE  /\ General' /\ Only(r, Doc(r)) /\ actor[r] # Idle /\ actor'[r] = Idle
         /\ UNCHANGED <<record, object, text, points, jobs, announced, fate>>
<1>1. actor[r] # Idle
  BY DEF RequestDies, At, Idle
<1>2. Rest(r) /\ UNCHANGED <<scenario, stores, history>> /\ crashes' = crashes + 1
  BY DEF RequestDies
<1>3. crashes' \in Nat /\ crashes' # 0
  BY <1>2 DEF General, Types
<1>4. QED
  BY <1>1, <1>2, <1>3, RestStep DEF stores, history

LEMMA EnqueueStep ==
  ASSUME General, NEW r \in Requests, Enqueue(r)
  PROVE  /\ General' /\ Only(r, Doc(r)) /\ actor[r] # Idle /\ actor[r].pc = "enqueue"
         /\ UNCHANGED <<record, object, text, points, crashes, announced, fate>>
         /\ actor'[r] = Idle
         /\ <<Doc(r), Copy(r).version>> \in Jobs
         /\ \A k \in Jobs :
              \/ jobs'[k] = jobs[k]
              \/ /\ k = <<Doc(r), Copy(r).version>> /\ jobs[k].state = "none"
                 /\ jobs'[k].state = "waiting" /\ jobs'[k].tries = jobs[k].tries
<1> DEFINE k0 == <<Doc(r), Copy(r).version>>
<1>1. /\ actor[r] # Idle /\ Asking(r) /\ r \in Actors /\ r \notin Workers
      /\ Doc(r) \in Docs /\ actor[r].pc = "enqueue"
  BY AtSteps DEF Enqueue, RequestSteps
<1>2. UNCHANGED <<scenario, record, object, text, points, crashes, announced, uploads, fate>>
  BY DEF Enqueue, history
<1>3. /\ actor' \in [Actors -> ActorStates]
      /\ \A b \in Actors \ {r} : actor'[b] = actor[b]
      /\ actor'[r] = Idle
  BY <1>1, RestMoves DEF General, Enqueue
<1>4. k0 \in Jobs /\ k0[1] = Doc(r)
  BY <1>1 DEF Asking, Present, Jobs
<1>5. jobs \in [Jobs -> [state : JobStates, tries : 0 .. Attempts, stalled : BOOLEAN]]
  BY DEF General, Types
<1>6. /\ jobs' \in [Jobs -> [state : JobStates, tries : 0 .. Attempts, stalled : BOOLEAN]]
      /\ \A k \in Jobs :
              \/ jobs'[k] = jobs[k]
              \/ /\ k = k0 /\ jobs[k].state = "none"
                 /\ jobs'[k].state = "waiting" /\ jobs'[k].tries = jobs[k].tries
  <2>1. jobs' = [jobs EXCEPT ![k0].state = IF jobs[k0].state = "none" THEN "waiting" ELSE jobs[k0].state]
    BY DEF Enqueue
  <2> DEFINE new == [jobs[k0] EXCEPT !.state = IF jobs[k0].state = "none" THEN "waiting" ELSE jobs[k0].state]
  <2> HIDE DEF k0
  <2>2. jobs' = [jobs EXCEPT ![k0] = new]
    BY <2>1
  <2>3. jobs[k0] \in [state : JobStates, tries : 0 .. Attempts, stalled : BOOLEAN]
    BY <1>4, <1>5
  <2>4. /\ new \in [state : JobStates, tries : 0 .. Attempts, stalled : BOOLEAN]
        /\ new.tries = jobs[k0].tries
        /\ new = jobs[k0] \/ (jobs[k0].state = "none" /\ new.state = "waiting")
    BY <2>3 DEF JobStates
  <2> HIDE DEF new
  <2>5. QED
    BY <1>4, <1>5, <2>2, <2>4
<1> HIDE DEF k0
<1>7. Types' /\ Only(r, Doc(r))
  BY <1>2, <1>3, <1>4, <1>6 DEF General, Types, Only
<1>8. (\A e \in Docs : RecordOK(e)') /\ Unique'
  BY <1>1, <1>2, <1>7, RecordsStay DEF General, RecordOK
<1>9. \A k \in Jobs : jobs[k].state = "active" => jobs'[k].state = "active"
  BY <1>6
<1>10. /\ \A w \in Workers \ {r} : actor'[w] = Idle \/ Working(w)'
       /\ \A q \in Requests \ {r} : actor'[q] = Idle \/ Asking(q)'
  BY <1>1, <1>7, <1>9, OthersStay
<1>11. \A k \in Jobs : JobOK(k)'
  BY <1>6, ConstantFacts DEF General, JobOK
<1>12. ASSUME NEW k \in Jobs
       PROVE  Once(k)'
  <2>1. \A w \in Workers : actor'[w] = actor[w] /\ Job(w)' = Job(w)
    BY <1>1, <1>3 DEF Job, Doc, Actors
  <2>2. QED
    BY <1>2, <1>6, <2>1 DEF General, Once
<1>13. (\A c \in Contents : PointOK(c)') /\ Apart'
  BY <1>1, <1>3, <1>7, PointsStay, ApartStays
<1>14. General'
  BY <1>1, <1>3, <1>7, <1>8, <1>10, <1>11, <1>12, <1>13, GeneralFrom
<1>15. QED
  BY <1>1, <1>2, <1>3, <1>4, <1>6, <1>7, <1>14 DEF k0
-----------------------------------------------------------------------------
\* The steps of a worker

LEMMA WorkingAt ==
  ASSUME General, NEW w \in Workers, NEW l \in WorkSteps, At(w, l)
  PROVE  /\ actor[w] # Idle /\ Working(w) /\ w \in Actors /\ w \notin Requests
         /\ Doc(w) \in Docs /\ actor[w].pc = l
         /\ Copy(w) \in Documents /\ actor[w] \in ActorStates
<1>1. actor[w] # Idle
  BY DEF At, Idle, WorkSteps, Busy, Parsed, Written, Indexed
<1>2. Working(w) /\ w \in Actors /\ w \notin Requests
  BY <1>1, WorkerFacts
<1>3. actor[w] \in ActorStates
  BY <1>2 DEF General, Types
<1>4. QED
  BY <1>1, <1>2, <1>3 DEF Working, At, ActorStates, Copy

LEMMA WorkSteps_are_Labels == WorkSteps \subseteq Labels
BY DEF Labels

LEMMA WorkingOn ==
  ASSUME General, NEW w \in Workers, actor[w] # Idle, uploads' = uploads, jobs' = jobs,
         NEW pc \in WorkSteps, NEW copy, NEW bytes, Moved(w, pc, copy, bytes),
         Hashed(Doc(w), copy), pc \notin {"find", "throw"} => Present(copy),
         pc \in Parsed => bytes \in uploads[Doc(w)]
  PROVE  Working(w)' /\ Job(w)' = Job(w)
<1>1. Working(w)
  BY WorkerFacts
<1>2. QED
  BY <1>1 DEF Working, Moved, Hashed, Present, Job, Doc

LEMMA WorkerStays ==
  ASSUME General, NEW w \in Workers, actor[w] # Idle, actor[w].pc # "return",
         Types', Only(w, Doc(w)), jobs' = jobs, announced' = announced, crashes' = crashes,
         Working(w)', Job(w)' = Job(w), \A e \in Docs : RecordOK(e)', Unique'
  PROVE  General'
<1>1. w \in Actors /\ w \notin Requests /\ Doc(w) \in Docs
  BY WorkerFacts DEF Working
<1>2. /\ \A c \in Contents : PointOK(c)'
      /\ \A k \in Jobs : JobOK(k)' /\ Once(k)'
      /\ \A u \in Workers \ {w} : actor'[u] = Idle \/ Working(u)'
      /\ \A q \in Requests \ {w} : actor'[q] = Idle \/ Asking(q)'
      /\ Apart'
  BY <1>1, CalmStep
<1>3. QED
  BY <1>1, <1>2, GeneralFrom

\* A step that leaves the record alone.
LEMMA WorkerMoves ==
  ASSUME General, NEW w \in Workers, NEW pc \in WorkSteps, NEW copy, NEW bytes,
         actor[w] # Idle, actor[w].pc # "return",
         Moved(w, pc, copy, bytes), Hashed(Doc(w), copy),
         pc \notin {"find", "throw"} => Present(copy),
         pc \in Parsed => bytes \in uploads[Doc(w)],
         Types', Only(w, Doc(w)),
         UNCHANGED <<record, object, jobs, announced, crashes>>
  PROVE  General'
<1>1. w \in Actors /\ Doc(w) \in Docs /\ uploads' = uploads
  BY WorkerFacts DEF Working, Only
<1>2. (\A e \in Docs : RecordOK(e)') /\ Unique'
  BY <1>1, RecordsStay DEF General, RecordOK
<1>3. Working(w)' /\ Job(w)' = Job(w)
  BY <1>1, WorkingOn
<1>4. QED
  BY <1>2, <1>3, WorkerStays

\* A step that does nothing else than go on.
LEMMA WorkerGoes ==
  ASSUME General, NEW w \in Workers, NEW l \in WorkSteps \ {"find"},
         actor[w] # Idle, actor[w].pc \notin {"find", "throw", "return"},
         l \in Parsed => actor[w].pc \in Parsed,
         Goto(w, l), UNCHANGED <<scenario, stores, crashes, history>>
  PROVE  /\ General' /\ Only(w, Doc(w)) /\ Moved(w, l, Copy(w), actor[w].bytes)
         /\ UNCHANGED <<record, object, text, points, jobs, crashes, announced, fate>>
<1>1. w \in Actors /\ Working(w) /\ Doc(w) \in Docs
  BY WorkerFacts DEF Working
<1>2. UNCHANGED <<scenario, record, object, text, points, jobs, crashes, announced, uploads, fate>>
  BY DEF stores, history
<1>3. /\ actor' \in [Actors -> ActorStates]
      /\ \A b \in Actors \ {w} : actor'[b] = actor[b]
      /\ Moved(w, l, Copy(w), actor[w].bytes)
  BY <1>1, WorkSteps_are_Labels, GotoMoves DEF General
<1>4. Types' /\ Only(w, Doc(w))
  BY <1>2, <1>3 DEF General, Types, Only
<1>5. Hashed(Doc(w), Copy(w)) /\ Present(Copy(w)) /\ (l \in Parsed => actor[w].bytes \in uploads[Doc(w)])
  BY <1>1 DEF Working
<1>6. General'
  BY <1>2, <1>3, <1>4, <1>5, WorkerMoves
<1>7. QED
  BY <1>2, <1>3, <1>4, <1>6

\* A step that saves the copy, changed in its status and perhaps its hash.
LEMMA WorkerSaves ==
  ASSUME General, NEW w \in Workers, NEW doc \in Documents, NEW l \in WorkSteps \ {"find"},
         actor[w] # Idle, actor[w].pc \notin {"find", "throw", "return"}, l \in Parsed => actor[w].pc \in Parsed,
         doc.version = Copy(w).version, Hashed(Doc(w), doc), HashFree(Doc(w), doc),
         Save(w, doc, l),
         UNCHANGED <<scenario, object, text, points, uploads, fate>>,
         announced' \in [Jobs -> Nat],
         \A k \in Jobs : k[1] # Doc(w) => announced'[k] = announced[k],
         jobs' = jobs, crashes' = crashes
  PROVE  /\ Types' /\ Only(w, Doc(w)) /\ Moved(w, l, doc, actor[w].bytes)
         /\ Working(w)' /\ Job(w)' = Job(w)
         /\ record'[Doc(w)] = doc
         /\ (\A e \in Docs : RecordOK(e)') /\ Unique'
<1>1. w \in Actors /\ Working(w) /\ Doc(w) \in Docs
  BY WorkerFacts DEF Working
<1>2. /\ actor' \in [Actors -> ActorStates]
      /\ \A b \in Actors \ {w} : actor'[b] = actor[b]
      /\ Moved(w, l, doc, actor[w].bytes)
      /\ record' \in [Docs -> Documents]
      /\ record'[Doc(w)] = doc
      /\ \A e \in Docs \ {Doc(w)} : record'[e] = record[e]
  BY <1>1, WorkSteps_are_Labels, SaveMoves DEF General
<1>3. Types' /\ Only(w, Doc(w))
  BY <1>2 DEF General, Types, Only
<1>4. Present(doc)
  BY <1>1 DEF Working, Present
<1>5. (\A e \in Docs : RecordOK(e)') /\ Unique'
  BY <1>1, <1>2, <1>3, <1>4, RecordsSaved
<1>6. Working(w)' /\ Job(w)' = Job(w)
  BY <1>1, <1>2, <1>4, WorkingOn DEF Working
<1>7. QED
  BY <1>2, <1>3, <1>5, <1>6
LEMMA StatusChanged ==
  ASSUME NEW doc \in Documents, NEW s \in Statuses
  PROVE  /\ [doc EXCEPT !.status = s] \in Documents
         /\ [doc EXCEPT !.status = s].version = doc.version
         /\ [doc EXCEPT !.status = s].hash = doc.hash
         /\ [doc EXCEPT !.status = s].status = s
BY DocumentsAre

LEMMA AdvanceStep ==
  ASSUME General, NEW w \in Workers, NEW stage \in Underway, NEW next \in Busy,
         stage \in WorkSteps, next \in Parsed => stage \in Parsed,
         Advance(w, stage, next)
  PROVE  /\ General' /\ Only(w, Doc(w)) /\ actor[w] # Idle /\ actor[w].pc = stage
         /\ UNCHANGED <<object, text, points, jobs, crashes, announced, fate>>
         /\ Doc(w)' = Doc(w) /\ actor'[w].job = actor[w].job /\ actor'[w].bytes = actor[w].bytes
         /\ \/ /\ CanAdvance(Copy(w).status, stage) /\ actor'[w].pc = next
               /\ Copy(w)' = record'[Doc(w)]
               /\ record'[Doc(w)].status = stage
               /\ record'[Doc(w)].version = Copy(w).version
               /\ record'[Doc(w)].hash = Copy(w).hash
            \/ /\ ~(CanAdvance(Copy(w).status, stage) /\ HashFree(Doc(w), Copy(w)))
               /\ actor'[w].pc = "catch" /\ Copy(w)' = Copy(w) /\ record' = record
<1> DEFINE doc == [Copy(w) EXCEPT !.status = stage]
<1>1. /\ actor[w] # Idle /\ Working(w) /\ w \in Actors /\ w \notin Requests
      /\ Doc(w) \in Docs /\ actor[w].pc = stage
      /\ Copy(w) \in Documents /\ actor[w] \in ActorStates
  BY WorkingAt DEF Advance
<1>2. UNCHANGED <<scenario, object, text, points, jobs, crashes, announced, uploads, fate>>
  BY DEF Advance, history
<1>3. /\ doc \in Documents /\ doc.version = Copy(w).version /\ doc.hash = Copy(w).hash
      /\ doc.status = stage
  <2>1. stage \in Statuses
    BY DEF Statuses
  <2>2. QED
    BY <1>1, <2>1, StatusChanged
<1>4. HashFree(Doc(w), doc) <=> HashFree(Doc(w), Copy(w))
  BY <1>3 DEF HashFree
<1>5. actor[w].pc \notin {"find", "throw", "return"} /\ Hashed(Doc(w), Copy(w))
  BY <1>1 DEF Underway, Working
<1>6. /\ next \in WorkSteps \ {"find"} /\ (next \in Parsed => actor[w].pc \in Parsed)
      /\ "catch" \in WorkSteps \ {"find"} /\ "catch" \notin Parsed
  BY <1>1 DEF WorkSteps, Busy, Parsed, Written, Indexed
<1>7. CASE CanAdvance(Copy(w).status, stage) /\ HashFree(Doc(w), doc)
  <2>1. Save(w, doc, next)
    BY <1>7 DEF Advance
  <2>2. Hashed(Doc(w), doc) /\ announced' \in [Jobs -> Nat]
    BY <1>2, <1>3, <1>5 DEF Hashed, General, Types
  <2> HIDE DEF doc
  <2>3. /\ Types' /\ Only(w, Doc(w)) /\ Moved(w, next, doc, actor[w].bytes)
        /\ Working(w)' /\ Job(w)' = Job(w)
        /\ record'[Doc(w)] = doc
        /\ (\A e \in Docs : RecordOK(e)') /\ Unique'
    BY <1>1, <1>2, <1>3, <1>5, <1>6, <1>7, <2>1, <2>2, WorkerSaves
  <2>4. General'
    BY <1>1, <1>2, <1>5, <2>3, WorkerStays
  <2>5. QED
    BY <1>1, <1>2, <1>3, <1>7, <2>3, <2>4 DEF Moved
<1>8. CASE ~(CanAdvance(Copy(w).status, stage) /\ HashFree(Doc(w), doc))
  <2>1. Goto(w, "catch") /\ record' = record
    BY <1>8 DEF Advance
  <2>2. /\ General' /\ Only(w, Doc(w)) /\ Moved(w, "catch", Copy(w), actor[w].bytes)
    BY <1>1, <1>2, <1>5, <1>6, <2>1, WorkerGoes DEF stores, history
  <2>3. QED
    BY <1>1, <1>2, <1>4, <1>8, <2>1, <2>2 DEF Moved
<1>9. QED
  BY <1>7, <1>8

LEMMA CatchStep ==
  ASSUME General, NEW w \in Workers, Catch(w)
  PROVE  /\ General' /\ Only(w, Doc(w)) /\ actor[w] # Idle /\ actor[w].pc = "catch"
         /\ UNCHANGED <<object, text, points, jobs, crashes, announced, fate>>
         /\ Doc(w)' = Doc(w) /\ actor'[w].job = actor[w].job
         /\ actor'[w].pc = "throw"
         /\ \/ /\ record'[Doc(w)].status = "failed"
               /\ record'[Doc(w)].version = Copy(w).version
            \/ /\ ~HashFree(Doc(w), Copy(w)) \/ ~Served
               /\ record' = record /\ Copy(w)' = Copy(w)
<1> DEFINE doc == [Copy(w) EXCEPT !.status = "failed"]
<1>1. /\ actor[w] # Idle /\ Working(w) /\ w \in Actors /\ w \notin Requests
      /\ Doc(w) \in Docs /\ actor[w].pc = "catch"
      /\ Copy(w) \in Documents /\ actor[w] \in ActorStates
  BY WorkingAt DEF Catch, WorkSteps
<1>2. UNCHANGED <<scenario, object, text, points, jobs, crashes, announced, uploads, fate>>
  BY DEF Catch, history
<1>3. /\ doc \in Documents /\ doc.version = Copy(w).version /\ doc.hash = Copy(w).hash
      /\ doc.status = "failed"
  BY <1>1, StatusChanged DEF Statuses
<1>4. HashFree(Doc(w), doc) <=> HashFree(Doc(w), Copy(w))
  BY <1>3 DEF HashFree
<1>5. actor[w].pc \notin {"find", "throw", "return"} /\ Hashed(Doc(w), Copy(w))
  BY <1>1 DEF Working
<1>6. "throw" \in WorkSteps \ {"find"} /\ "throw" \notin Parsed
  BY DEF WorkSteps, Parsed, Written, Indexed
<1>7. CASE HashFree(Doc(w), doc) /\ Save(w, doc, "throw")
  <2>1. Save(w, doc, "throw")
    BY <1>7
  <2>2. Hashed(Doc(w), doc) /\ announced' \in [Jobs -> Nat]
    BY <1>2, <1>3, <1>5 DEF Hashed, General, Types
  <2> HIDE DEF doc
  <2>3. /\ Types' /\ Only(w, Doc(w)) /\ Moved(w, "throw", doc, actor[w].bytes)
        /\ Working(w)' /\ Job(w)' = Job(w)
        /\ record'[Doc(w)] = doc
        /\ (\A e \in Docs : RecordOK(e)') /\ Unique'
    BY <1>1, <1>2, <1>3, <1>5, <1>6, <1>7, <2>1, <2>2, WorkerSaves
  <2>4. General'
    BY <1>1, <1>2, <1>5, <2>3, WorkerStays
  <2>5. QED
    BY <1>1, <1>2, <1>3, <2>3, <2>4 DEF Moved
<1>8. CASE /\ ~HashFree(Doc(w), doc) \/ scenario.outages
           /\ Goto(w, "throw") /\ record' = record
  <2>1. /\ General' /\ Only(w, Doc(w)) /\ Moved(w, "throw", Copy(w), actor[w].bytes)
    BY <1>1, <1>2, <1>5, <1>6, <1>8, WorkerGoes DEF stores, history
  <2>2. ~HashFree(Doc(w), Copy(w)) \/ ~Served
    BY <1>4, <1>8 DEF Served
  <2>3. QED
    BY <1>1, <1>2, <1>8, <2>1, <2>2 DEF Moved
<1>9. QED
  BY <1>7, <1>8 DEF Catch

LEMMA FindTwinStep ==
  ASSUME General, NEW w \in Workers, FindTwin(w)
  PROVE  /\ General' /\ Only(w, Doc(w)) /\ actor[w] # Idle /\ actor[w].pc = "twin"
         /\ UNCHANGED <<record, object, text, points, jobs, crashes, announced, fate>>
         /\ Doc(w)' = Doc(w) /\ actor'[w].job = actor[w].job /\ actor'[w].bytes = actor[w].bytes
         /\ Copy(w)' = Copy(w)
         /\ \/ /\ actor'[w].pc = "finish"
               /\ \E e \in Docs \ {Doc(w)} : record[e].hash = actor[w].bytes
            \/ actor'[w].pc = "chunking"
<1>1. /\ actor[w] # Idle /\ Working(w) /\ w \in Actors /\ w \notin Requests
      /\ Doc(w) \in Docs /\ actor[w].pc = "twin"
      /\ Copy(w) \in Documents /\ actor[w] \in ActorStates
  BY WorkingAt DEF FindTwin, WorkSteps, Busy, Parsed
<1>2. {"finish", "chunking"} \subseteq WorkSteps \ {"find"} /\ "twin" \in Parsed
  BY DEF WorkSteps, Busy, Parsed, Written, Indexed
<1>3. \/ Goto(w, "finish") /\ \E e \in Docs \ {Doc(w)} : record[e].hash = actor[w].bytes
      \/ Goto(w, "chunking")
  BY DEF FindTwin
<1>4. UNCHANGED <<scenario, stores, crashes, history>>
  BY DEF FindTwin
<1>5. CASE Goto(w, "finish") /\ \E e \in Docs \ {Doc(w)} : record[e].hash = actor[w].bytes
  BY <1>1, <1>2, <1>4, <1>5, WorkerGoes DEF Moved
<1>6. CASE Goto(w, "chunking")
  BY <1>1, <1>2, <1>4, <1>6, WorkerGoes DEF Moved
<1>7. QED
  BY <1>3, <1>5, <1>6

LEMMA DependencyFailsStep ==
  ASSUME General, NEW w \in Workers, DependencyFails(w)
  PROVE  /\ General' /\ Only(w, Doc(w)) /\ actor[w] # Idle
         /\ actor[w].pc \in {"parsing"} \cup Busy
         /\ UNCHANGED <<record, object, text, points, jobs, crashes, announced, fate>>
         /\ Doc(w)' = Doc(w) /\ actor'[w].job = actor[w].job
         /\ Copy(w)' = Copy(w) /\ actor'[w].pc = "catch"
<1>1. actor[w].pc \in {"parsing"} \cup Busy /\ actor[w].pc \notin {"idle", "find", "throw", "return"}
  BY DEF DependencyFails, Busy, Parsed, Written, Indexed
<1>2. actor[w] # Idle
  BY <1>1 DEF Idle
<1>3. "catch" \in WorkSteps \ {"find"} /\ "catch" \notin Parsed
  BY DEF WorkSteps, Parsed, Written, Indexed
<1>4. Goto(w, "catch") /\ UNCHANGED <<scenario, stores, crashes, history>>
  BY DEF DependencyFails
<1>5. QED
  BY <1>1, <1>2, <1>3, <1>4, WorkerGoes DEF Moved
LEMMA FindStep ==
  ASSUME General, NEW w \in Workers, Find(w)
  PROVE  /\ General' /\ Only(w, Doc(w)) /\ actor[w] # Idle /\ actor[w].pc = "find"
         /\ UNCHANGED <<record, object, text, points, jobs, crashes, announced, fate>>
         /\ Doc(w)' = Doc(w) /\ actor'[w].job = actor[w].job /\ actor'[w].bytes = actor[w].bytes
         /\ \/ actor'[w].pc = "throw" /\ record[Doc(w)] = Absent
            \/ /\ actor'[w].pc = "parsing" /\ record[Doc(w)] # Absent
               /\ Copy(w)' = record[Doc(w)]
            \/ actor'[w].pc = "throw" /\ ~Served
<1> DEFINE next == IF record[Doc(w)] = Absent THEN "throw" ELSE "parsing"
<1>1. /\ actor[w] # Idle /\ Working(w) /\ w \in Actors /\ w \notin Requests
      /\ Doc(w) \in Docs /\ actor[w].pc = "find"
      /\ Copy(w) \in Documents /\ actor[w] \in ActorStates
  BY WorkingAt DEF Find, WorkSteps
<1>2. UNCHANGED <<scenario, record, object, text, points, jobs, crashes, announced, uploads, fate>>
  BY DEF Find, stores, history
<1>3. record[Doc(w)] \in Documents /\ RecordOK(Doc(w))
  BY <1>1 DEF General, Types
<1>4. next \in WorkSteps /\ next \in Labels /\ next \notin Parsed
  BY DEF WorkSteps, Labels, Parsed, Written, Indexed
<1>5. \/ next = "throw" /\ record[Doc(w)] = Absent
      \/ next = "parsing" /\ record[Doc(w)] # Absent
  OBVIOUS
<1>6. CASE actor' = [actor EXCEPT ![w].copy = record[Doc(w)], ![w].pc = next]
  <2> HIDE DEF next
  <2>1. /\ actor' \in [Actors -> ActorStates]
        /\ \A b \in Actors \ {w} : actor'[b] = actor[b]
        /\ Moved(w, next, record[Doc(w)], actor[w].bytes)
    BY <1>1, <1>3, <1>4, <1>6, CopyMoves DEF General
  <2>2. Types' /\ Only(w, Doc(w))
    BY <1>2, <2>1 DEF General, Types, Only
  <2>3. /\ Hashed(Doc(w), record[Doc(w)])
        /\ next \notin {"find", "throw"} => Present(record[Doc(w)])
    BY <1>3, <1>5 DEF RecordOK
  <2>4. General'
    BY <1>1, <1>2, <1>4, <2>1, <2>2, <2>3, WorkerMoves
  <2>5. QED
    BY <1>1, <1>2, <1>5, <2>1, <2>2, <2>4 DEF Moved
<1>7. CASE scenario.outages /\ Goto(w, "throw")
  <2>1. "throw" \in WorkSteps /\ "throw" \in Labels /\ "throw" \notin Parsed
    BY DEF WorkSteps, Labels, Parsed, Written, Indexed
  <2>2. /\ actor' \in [Actors -> ActorStates]
        /\ \A b \in Actors \ {w} : actor'[b] = actor[b]
        /\ Moved(w, "throw", Copy(w), actor[w].bytes)
    BY <1>1, <1>7, <2>1, GotoMoves DEF General
  <2>3. Types' /\ Only(w, Doc(w))
    BY <1>2, <2>2 DEF General, Types, Only
  <2>4. Hashed(Doc(w), Copy(w))
    BY <1>1 DEF Working
  <2>5. General'
    BY <1>1, <1>2, <2>1, <2>2, <2>3, <2>4, WorkerMoves
  <2>6. QED
    BY <1>1, <1>2, <1>7, <2>2, <2>3, <2>5 DEF Moved, Served
<1>8. QED
  BY <1>6, <1>7 DEF Find

LEMMA ParseStep ==
  ASSUME General, NEW w \in Workers, Parse(w)
  PROVE  /\ General' /\ Only(w, Doc(w)) /\ actor[w] # Idle /\ actor[w].pc = "parse"
         /\ UNCHANGED <<record, object, text, points, jobs, crashes, announced, fate>>
         /\ Doc(w)' = Doc(w) /\ actor'[w].job = actor[w].job
         /\ Copy(w)' = Copy(w) /\ actor'[w].pc = "twin"
<1> DEFINE bytes == object[Doc(w)]
<1>1. /\ actor[w] # Idle /\ Working(w) /\ w \in Actors /\ w \notin Requests
      /\ Doc(w) \in Docs /\ actor[w].pc = "parse"
      /\ Copy(w) \in Documents /\ actor[w] \in ActorStates
  BY WorkingAt DEF Parse, WorkSteps, Busy
<1>2. UNCHANGED <<scenario, record, object, text, points, jobs, crashes, announced, uploads, fate>>
  BY DEF Parse, stores, history
<1>3. bytes \in Contents /\ bytes \in uploads[Doc(w)]
  BY <1>1 DEF Parse, General, Types, RecordOK
<1>4. "twin" \in WorkSteps /\ "twin" \in Labels
  BY DEF WorkSteps, Labels, Busy, Parsed
<1>5. actor' = [actor EXCEPT ![w].bytes = bytes, ![w].pc = "twin"]
  BY DEF Parse
<1>6. actor \in [Actors -> ActorStates]
  BY DEF General, Types
<1> HIDE DEF bytes
<1> DEFINE new == [actor[w] EXCEPT !.bytes = bytes, !.pc = "twin"]
<1>7. new \in ActorStates
  BY <1>1, <1>3, <1>4 DEF ActorStates
<1>8. actor' = [actor EXCEPT ![w] = new]
  BY <1>1, <1>5, <1>6
<1>9. /\ new.pc = "twin" /\ new.doc = actor[w].doc /\ new.job = actor[w].job
      /\ new.copy = actor[w].copy /\ new.bytes = bytes
  BY <1>1 DEF ActorStates
<1> HIDE DEF new
<1>10. /\ actor' \in [Actors -> ActorStates]
       /\ \A b \in Actors \ {w} : actor'[b] = actor[b]
       /\ actor'[w] = new
  BY <1>1, <1>6, <1>7, <1>8
<1>11. Moved(w, "twin", Copy(w), bytes)
  BY <1>9, <1>10 DEF Moved, Doc, Copy
<1>12. Types' /\ Only(w, Doc(w))
  BY <1>2, <1>10 DEF General, Types, Only
<1>13. General'
  BY <1>1, <1>2, <1>3, <1>4, <1>11, <1>12, WorkerMoves DEF Working
<1>14. QED
  BY <1>1, <1>2, <1>11, <1>12, <1>13 DEF Moved

LEMMA WriteTextStep ==
  ASSUME General, NEW w \in Workers, WriteText(w)
  PROVE  /\ General' /\ Only(w, Doc(w)) /\ actor[w] # Idle /\ actor[w].pc = "text"
         /\ UNCHANGED <<record, object, points, jobs, crashes, announced, fate>>
         /\ Doc(w)' = Doc(w) /\ actor'[w].job = actor[w].job /\ actor'[w].bytes = actor[w].bytes
         /\ Copy(w)' = Copy(w) /\ actor'[w].pc = "drop_text"
         /\ [doc |-> Doc(w), version |-> Copy(w).version, content |-> actor[w].bytes] \in text'
<1> DEFINE new == [doc |-> Doc(w), version |-> Copy(w).version, content |-> actor[w].bytes]
<1>1. /\ actor[w] # Idle /\ Working(w) /\ w \in Actors /\ w \notin Requests
      /\ Doc(w) \in Docs /\ actor[w].pc = "text"
      /\ Copy(w) \in Documents /\ actor[w] \in ActorStates
  BY WorkingAt DEF WriteText, WorkSteps, Busy, Parsed
<1>2. UNCHANGED <<scenario, record, object, points, jobs, crashes, announced, uploads, fate>>
  BY DEF WriteText, history
<1>3. /\ "drop_text" \in WorkSteps /\ "drop_text" \in Labels /\ "text" \in Parsed
  BY DEF WorkSteps, Labels, Busy, Parsed, Written
<1>4. Present(Copy(w)) /\ Hashed(Doc(w), Copy(w)) /\ actor[w].bytes \in uploads[Doc(w)]
  BY <1>1, <1>3 DEF Working
<1>5. new \in [doc : Docs, version : Versions, content : Contents] /\ new.doc = Doc(w)
  BY <1>1, <1>4 DEF Present, General, Types
<1>6. text' = {t \in text : ~(t.doc = new.doc /\ t.version = new.version)} \cup {new}
  BY DEF WriteText
<1> HIDE DEF new
<1>7. /\ actor' \in [Actors -> ActorStates]
      /\ \A b \in Actors \ {w} : actor'[b] = actor[b]
      /\ Moved(w, "drop_text", Copy(w), actor[w].bytes)
  BY <1>1, <1>3, GotoMoves DEF General, WriteText
<1>8. Types' /\ Only(w, Doc(w))
  BY <1>2, <1>5, <1>6, <1>7 DEF General, Types, Only
<1>9. General'
  BY <1>1, <1>2, <1>3, <1>4, <1>7, <1>8, WorkerMoves
<1>10. new \in text'
  BY <1>6
<1>11. QED
  BY <1>1, <1>2, <1>7, <1>8, <1>9, <1>10 DEF Moved, new

LEMMA DropTextStep ==
  ASSUME General, NEW w \in Workers, DropText(w)
  PROVE  /\ General' /\ Only(w, Doc(w)) /\ actor[w] # Idle /\ actor[w].pc = "drop_text"
         /\ UNCHANGED <<record, object, points, jobs, crashes, announced, fate>>
         /\ Doc(w)' = Doc(w) /\ actor'[w].job = actor[w].job /\ actor'[w].bytes = actor[w].bytes
         /\ Copy(w)' = Copy(w) /\ actor'[w].pc = "points"
         /\ text' = {t \in text : t.doc = Doc(w) => t.version = Copy(w).version}
<1>1. /\ actor[w] # Idle /\ Working(w) /\ w \in Actors /\ w \notin Requests
      /\ Doc(w) \in Docs /\ actor[w].pc = "drop_text"
      /\ Copy(w) \in Documents /\ actor[w] \in ActorStates
  BY WorkingAt DEF DropText, WorkSteps, Busy, Parsed, Written
<1>2. UNCHANGED <<scenario, record, object, points, jobs, crashes, announced, uploads, fate>>
  BY DEF DropText, history
<1>3. /\ "points" \in WorkSteps /\ "points" \in Labels /\ "drop_text" \in Parsed
  BY DEF WorkSteps, Labels, Busy, Parsed, Written
<1>4. Present(Copy(w)) /\ Hashed(Doc(w), Copy(w)) /\ actor[w].bytes \in uploads[Doc(w)]
  BY <1>1, <1>3 DEF Working
<1>5. text' = {t \in text : t.doc = Doc(w) => t.version = Copy(w).version}
  BY DEF DropText
<1>6. /\ actor' \in [Actors -> ActorStates]
      /\ \A b \in Actors \ {w} : actor'[b] = actor[b]
      /\ Moved(w, "points", Copy(w), actor[w].bytes)
  BY <1>1, <1>3, GotoMoves DEF General, DropText
<1>7. Types' /\ Only(w, Doc(w))
  BY <1>2, <1>5, <1>6 DEF General, Types, Only
<1>8. General'
  BY <1>1, <1>2, <1>3, <1>4, <1>6, <1>7, WorkerMoves
<1>9. QED
  BY <1>1, <1>2, <1>5, <1>6, <1>7, <1>8 DEF Moved

LEMMA UpsertPointsStep ==
  ASSUME General, NEW w \in Workers, UpsertPoints(w)
  PROVE  /\ General' /\ Only(w, Doc(w)) /\ actor[w] # Idle /\ actor[w].pc = "points"
         /\ UNCHANGED <<record, object, text, jobs, crashes, announced, fate>>
         /\ Doc(w)' = Doc(w) /\ actor'[w].job = actor[w].job /\ actor'[w].bytes = actor[w].bytes
         /\ Copy(w)' = Copy(w) /\ actor'[w].pc = "drop_points"
         /\ points'[actor[w].bytes] = [doc |-> Doc(w), version |-> Copy(w).version]
         /\ \A c \in Contents \ {actor[w].bytes} : points'[c] = points[c]
<1> DEFINE new == [doc |-> Doc(w), version |-> Copy(w).version]
<1>1. /\ actor[w] # Idle /\ Working(w) /\ w \in Actors /\ w \notin Requests
      /\ Doc(w) \in Docs /\ actor[w].pc = "points"
      /\ Copy(w) \in Documents /\ actor[w] \in ActorStates
  BY WorkingAt DEF UpsertPoints, WorkSteps, Busy, Parsed, Written
<1>2. UNCHANGED <<scenario, record, object, text, jobs, crashes, announced, uploads, fate>>
  BY DEF UpsertPoints, history
<1>3. /\ "drop_points" \in WorkSteps /\ "drop_points" \in Labels /\ "points" \in Parsed
  BY DEF WorkSteps, Labels, Busy, Parsed, Written, Indexed
<1>4. Present(Copy(w)) /\ Hashed(Doc(w), Copy(w)) /\ actor[w].bytes \in uploads[Doc(w)]
  BY <1>1, <1>3 DEF Working
<1>5. /\ new \in [doc : Docs, version : Versions] /\ new.doc = Doc(w)
      /\ actor[w].bytes \in Contents
  BY <1>1, <1>4 DEF Present, General, Types
<1>6. points' = [points EXCEPT ![actor[w].bytes] = new]
  BY DEF UpsertPoints
<1> HIDE DEF new
<1>7. /\ points' \in [Contents -> [doc : Docs, version : Versions] \cup {NoPoint}]
      /\ points'[actor[w].bytes] = new
      /\ \A c \in Contents \ {actor[w].bytes} : points'[c] = points[c]
  BY <1>5, <1>6 DEF General, Types
<1>8. /\ actor' \in [Actors -> ActorStates]
      /\ \A b \in Actors \ {w} : actor'[b] = actor[b]
      /\ Moved(w, "drop_points", Copy(w), actor[w].bytes)
  BY <1>1, <1>3, GotoMoves DEF General, UpsertPoints
<1>9. Types' /\ Only(w, Doc(w))
  BY <1>2, <1>4, <1>5, <1>7, <1>8 DEF General, Types, Only
<1>10. General'
  BY <1>1, <1>2, <1>3, <1>4, <1>8, <1>9, WorkerMoves
<1>11. QED
  BY <1>1, <1>2, <1>7, <1>8, <1>9, <1>10 DEF Moved, new

LEMMA DropOtherVersionsStep ==
  ASSUME General, NEW w \in Workers, DropOtherVersions(w)
  PROVE  /\ General' /\ Only(w, Doc(w)) /\ actor[w] # Idle /\ actor[w].pc = "drop_points"
         /\ UNCHANGED <<record, object, text, jobs, crashes, announced, fate>>
         /\ Doc(w)' = Doc(w) /\ actor'[w].job = actor[w].job /\ actor'[w].bytes = actor[w].bytes
         /\ Copy(w)' = Copy(w) /\ actor'[w].pc = "finish"
         /\ \A c \in Contents :
              points'[c] = IF points[c].doc = Doc(w) /\ points[c].version # Copy(w).version
                             THEN NoPoint ELSE points[c]
<1>1. /\ actor[w] # Idle /\ Working(w) /\ w \in Actors /\ w \notin Requests
      /\ Doc(w) \in Docs /\ actor[w].pc = "drop_points"
      /\ Copy(w) \in Documents /\ actor[w] \in ActorStates
  BY WorkingAt DEF DropOtherVersions, WorkSteps, Busy, Parsed, Written, Indexed
<1>2. UNCHANGED <<scenario, record, object, text, jobs, crashes, announced, uploads, fate>>
  BY DEF DropOtherVersions, history
<1>3. /\ "finish" \in WorkSteps /\ "finish" \in Labels /\ "drop_points" \in Parsed
  BY DEF WorkSteps, Labels, Busy, Parsed, Written, Indexed
<1>4. Present(Copy(w)) /\ Hashed(Doc(w), Copy(w)) /\ actor[w].bytes \in uploads[Doc(w)]
  BY <1>1, <1>3 DEF Working
<1>5. /\ points' \in [Contents -> [doc : Docs, version : Versions] \cup {NoPoint}]
      /\ \A c \in Contents :
           points'[c] = IF points[c].doc = Doc(w) /\ points[c].version # Copy(w).version
                          THEN NoPoint ELSE points[c]
  <2>1. points' = PointsWithout({c \in Contents : points[c].doc = Doc(w) /\ points[c].version # Copy(w).version})
    BY DEF DropOtherVersions
  <2>2. QED
    BY <2>1, PointsDropped DEF General
<1>6. /\ actor' \in [Actors -> ActorStates]
      /\ \A b \in Actors \ {w} : actor'[b] = actor[b]
      /\ Moved(w, "finish", Copy(w), actor[w].bytes)
  BY <1>1, <1>3, GotoMoves DEF General, DropOtherVersions
<1>7. Types' /\ Only(w, Doc(w))
  BY <1>2, <1>5, <1>6 DEF General, Types, Only
<1>8. General'
  BY <1>1, <1>2, <1>3, <1>4, <1>6, <1>7, WorkerMoves
<1>9. QED
  BY <1>1, <1>2, <1>5, <1>6, <1>7, <1>8 DEF Moved
LEMMA FinishStep ==
  ASSUME General, NEW w \in Workers, Finish(w)
  PROVE  /\ General' /\ Only(w, Doc(w)) /\ actor[w] # Idle /\ actor[w].pc = "finish"
         /\ UNCHANGED <<object, text, points, jobs, fate>>
         /\ Doc(w)' = Doc(w) /\ actor'[w].job = actor[w].job
         /\ \/ /\ HashFree(Doc(w), [Copy(w) EXCEPT !.hash = actor[w].bytes])
               /\ actor'[w].pc = "return"
               /\ record'[Doc(w)].status = "ingested"
               /\ record'[Doc(w)].version = Copy(w).version
               /\ record'[Doc(w)].hash = actor[w].bytes
               /\ Copy(w)' = record'[Doc(w)]
               /\ announced'[Job(w)] = announced[Job(w)] + 1
               /\ \A k \in Jobs \ {Job(w)} : announced'[k] = announced[k]
            \/ /\ actor'[w].pc = "catch" /\ record' = record /\ announced' = announced
               /\ Copy(w).version = Copy(w)'.version
<1> DEFINE doc == [Copy(w) EXCEPT !.status = "ingested", !.hash = actor[w].bytes]
<1>1. /\ actor[w] # Idle /\ Working(w) /\ w \in Actors /\ w \notin Requests
      /\ Doc(w) \in Docs /\ actor[w].pc = "finish"
      /\ Copy(w) \in Documents /\ actor[w] \in ActorStates
  BY WorkingAt DEF Finish, WorkSteps, Busy, Parsed, Written, Indexed
<1>2. UNCHANGED <<scenario, object, text, points, jobs, crashes, uploads, fate>>
  BY DEF Finish
<1>3. actor[w].bytes \in uploads[Doc(w)] /\ actor[w].bytes \in Contents
  BY <1>1 DEF Working, Parsed, Written, Indexed, General, Types
<1>4. /\ doc \in Documents /\ doc.version = Copy(w).version /\ doc.hash = actor[w].bytes
      /\ doc.status = "ingested"
  <2>1. /\ Copy(w) \in [version : 0 .. MaxVersion, status : Statuses, hash : Contents \cup {None}]
        /\ "ingested" \in Statuses
    BY <1>1, DocumentsAre DEF Statuses
  <2>2. doc \in [version : 0 .. MaxVersion, status : Statuses, hash : Contents \cup {None}]
    BY <1>3, <2>1
  <2>3. doc.version = Copy(w).version /\ doc.hash = actor[w].bytes /\ doc.status = "ingested"
    BY <2>1
  <2>4. QED
    BY <2>2, <2>3, DocumentsAre
<1>5. HashFree(Doc(w), doc) <=> HashFree(Doc(w), [Copy(w) EXCEPT !.hash = actor[w].bytes])
  <2>1. [Copy(w) EXCEPT !.hash = actor[w].bytes].hash = actor[w].bytes
    BY <1>1, DocumentsAre
  <2>2. QED
    BY <1>4, <2>1 DEF HashFree
<1>6. actor[w].pc \notin {"find", "throw", "return"} /\ Hashed(Doc(w), doc) /\ Job(w) \in Jobs
  BY <1>1, <1>3, <1>4, WorkerFacts DEF Working, Hashed
<1>7. /\ {"catch", "return"} \subseteq WorkSteps \ {"find"}
      /\ "catch" \notin Parsed /\ "return" \notin Parsed
  BY DEF WorkSteps, Parsed, Written, Indexed
<1>8. CASE /\ HashFree(Doc(w), doc) /\ Save(w, doc, "return")
           /\ announced' = [announced EXCEPT ![Job(w)] = @ + 1]
  <2>1. Save(w, doc, "return") /\ announced' = [announced EXCEPT ![Job(w)] = announced[Job(w)] + 1]
    BY <1>8
  <2>2. /\ announced' \in [Jobs -> Nat]
        /\ announced'[Job(w)] = announced[Job(w)] + 1
        /\ \A k \in Jobs \ {Job(w)} : announced'[k] = announced[k]
    BY <1>6, <2>1 DEF General, Types
  <2>3. \A k \in Jobs : k[1] # Doc(w) => announced'[k] = announced[k]
    BY <2>2 DEF Job
  <2> HIDE DEF doc
  <2>4. /\ Types' /\ Only(w, Doc(w)) /\ Moved(w, "return", doc, actor[w].bytes)
        /\ Working(w)' /\ Job(w)' = Job(w)
        /\ record'[Doc(w)] = doc
        /\ (\A e \in Docs : RecordOK(e)') /\ Unique'
    BY <1>1, <1>2, <1>4, <1>6, <1>7, <1>8, <2>1, <2>2, <2>3, WorkerSaves
  <2>5. /\ \A u \in Workers \ {w} : actor'[u] = Idle \/ Working(u)'
        /\ \A q \in Requests \ {w} : actor'[q] = Idle \/ Asking(q)'
    BY <1>1, <1>2, <2>4, OthersStay
  <2>6. \A b \in Actors \ {w} : actor'[b] = actor[b]
    BY <2>4 DEF Only
  <2>7. (\A c \in Contents : PointOK(c)') /\ Apart'
    BY <1>1, <2>4, <2>6, PointsStay, ApartStays
  <2>8. \A k \in Jobs : JobOK(k)'
    BY <1>2 DEF General, JobOK
  <2>9. ASSUME NEW k \in Jobs, crashes' = 0
        PROVE  Once(k)'
    <3>1. crashes = 0 /\ Once(k)
      BY <1>2, <2>9 DEF General
    <3>2. CASE k = Job(w)
      <4>1. announced[k] = 0 /\ announced'[k] = 1
        BY <1>1, <2>2, <3>1, <3>2, WorkerFacts
      <4>2. jobs'[k].state = "active"
        BY <1>1, <1>2, <3>2 DEF Working
      <4>3. ASSUME NEW u \in Workers, Job(u)' = k
            PROVE  actor'[u].pc = "return"
        <5>1. u \in Actors /\ Job(w)' = k
          BY <2>4, <3>2 DEF Actors
        <5>2. CASE u = w
          BY <2>4, <5>2 DEF Moved
        <5>3. CASE u # w
          <6>1. actor'[u] = actor[u] /\ Job(u) = k
            BY <2>6, <4>3, <5>1, <5>3 DEF Job, Doc
          <6>2. actor[u] # Idle
            BY <1>1, <3>2, <5>1, <6>1, IdleFacts DEF Job
          <6>3. QED
            BY <1>1, <3>2, <5>3, <6>1, <6>2 DEF General, Apart
        <5>4. QED
          BY <5>2, <5>3
      <4>4. QED
        BY <4>1, <4>2, <4>3 DEF Once
    <3>3. CASE k # Job(w)
      <4>1. announced'[k] = announced[k] /\ jobs'[k] = jobs[k]
        BY <1>2, <2>2, <3>3
      <4>2. \A u \in Workers : Job(u)' = k => actor'[u] = actor[u] /\ Job(u) = k
        BY <2>4, <2>6, <3>3 DEF Job, Doc, Actors
      <4>3. QED
        BY <3>1, <4>1, <4>2 DEF Once
    <3>4. QED
      BY <3>2, <3>3
  <2>10. \A k \in Jobs : Once(k)'
    BY <2>9 DEF Once
  <2>11. General'
    BY <1>1, <2>4, <2>5, <2>7, <2>8, <2>10, GeneralFrom
  <2>12. QED
    BY <1>1, <1>2, <1>4, <1>5, <1>8, <2>2, <2>4, <2>11 DEF Moved
<1>9. CASE /\ actor' = [actor EXCEPT ![w].copy = doc, ![w].pc = "catch"]
           /\ UNCHANGED <<record, announced>>
  <2>1. /\ actor' = [actor EXCEPT ![w].copy = doc, ![w].pc = "catch"]
        /\ record' = record /\ announced' = announced
    BY <1>9
  <2>2. "catch" \in Labels
    BY DEF Labels, WorkSteps
  <2> HIDE DEF doc
  <2>3. /\ actor' \in [Actors -> ActorStates]
        /\ \A b \in Actors \ {w} : actor'[b] = actor[b]
        /\ Moved(w, "catch", doc, actor[w].bytes)
    BY <1>1, <1>4, <2>1, <2>2, CopyMoves DEF General
  <2>4. Types' /\ Only(w, Doc(w))
    BY <1>2, <2>1, <2>3 DEF General, Types, Only
  <2>5. Present(doc)
    BY <1>1, <1>4 DEF Working, Present
  <2>6. General'
    BY <1>1, <1>2, <1>6, <1>7, <2>1, <2>3, <2>4, <2>5, WorkerMoves
  <2>7. QED
    BY <1>1, <1>2, <1>4, <2>1, <2>3, <2>4, <2>6 DEF Moved
<1>10. QED
  BY <1>8, <1>9 DEF Finish

\* A worker lets go of its job.
LEMMA JobLeft ==
  ASSUME General, NEW w \in Workers, actor[w] # Idle, Rest(w),
         UNCHANGED <<scenario, record, object, text, points, history>>,
         crashes' \in Nat, crashes' = crashes \/ crashes' # 0,
         NEW new \in [state : JobStates, tries : 0 .. Attempts, stalled : BOOLEAN],
         jobs' = [jobs EXCEPT ![Job(w)] = new],
         new.state # "none", new.state \in {"waiting", "active"} => new.tries < Attempts,
         actor[w].pc = "return" => new.state = "completed" \/ crashes' # 0
  PROVE  /\ General' /\ Only(w, Doc(w)) /\ actor'[w] = Idle
         /\ UNCHANGED <<record, object, text, points, announced, fate>>
         /\ jobs'[Job(w)] = new /\ \A k \in Jobs \ {Job(w)} : jobs'[k] = jobs[k]
<1>1. /\ w \in Actors /\ w \notin Requests /\ Working(w) /\ Doc(w) \in Docs /\ Job(w) \in Jobs
      /\ Job(w)[1] = Doc(w)
  BY WorkerFacts DEF Working, Job
<1>2. /\ actor' \in [Actors -> ActorStates]
      /\ \A b \in Actors \ {w} : actor'[b] = actor[b]
      /\ actor'[w] = Idle
  BY <1>1, RestMoves DEF General
<1>3. UNCHANGED <<scenario, record, object, text, points, announced, uploads, fate>>
  BY DEF history
<1>4. /\ jobs' \in [Jobs -> [state : JobStates, tries : 0 .. Attempts, stalled : BOOLEAN]]
      /\ jobs'[Job(w)] = new /\ \A k \in Jobs \ {Job(w)} : jobs'[k] = jobs[k]
  BY <1>1 DEF General, Types
<1>5. Types' /\ Only(w, Doc(w))
  BY <1>1, <1>2, <1>3, <1>4 DEF General, Types, Only
<1>6. (\A e \in Docs : RecordOK(e)') /\ Unique'
  BY <1>1, <1>3, <1>5, RecordsStay DEF General, RecordOK
<1>7. \A k \in Jobs : jobs[k].state = "active" => jobs'[k].state = "active" \/ Job(w) = k
  BY <1>4
<1>8. /\ \A u \in Workers \ {w} : actor'[u] = Idle \/ Working(u)'
      /\ \A q \in Requests \ {w} : actor'[q] = Idle \/ Asking(q)'
  BY <1>1, <1>5, <1>7, OthersStay
<1>9. (\A c \in Contents : PointOK(c)') /\ Apart'
  BY <1>1, <1>2, <1>5, PointsStay, ApartStays
<1>10. \A k \in Jobs : JobOK(k)'
  BY <1>4 DEF General, JobOK
<1>11. ASSUME NEW k \in Jobs, crashes' = 0
       PROVE  Once(k)'
  <2>1. crashes = 0 /\ Once(k)
    BY <1>11 DEF General
  <2>2. CASE k = Job(w)
    <3>1. announced[k] <= 1 /\ (announced[k] = 1 => new.state = "completed")
      BY <1>11, <2>1, <2>2, WorkerFacts DEF Once
    <3>2. QED
      BY <1>3, <1>4, <2>2, <3>1 DEF Once
  <2>3. CASE k # Job(w)
    <3>1. k[1] \in Docs
      BY DEF Jobs
    <3>2. \A u \in Workers : Job(u)' = k => actor'[u] = actor[u] /\ Job(u) = k
      <4>1. Job(w)' # k
        BY <1>2, <3>1, ConstantFacts DEF Job, Doc, Idle
      <4>2. QED
        BY <1>2, <4>1 DEF Job, Doc, Actors
    <3>3. QED
      BY <1>3, <1>4, <2>1, <2>3, <3>2 DEF Once
  <2>4. QED
    BY <2>2, <2>3
<1>12. \A k \in Jobs : Once(k)'
  BY <1>11 DEF Once
<1>13. General'
  BY <1>1, <1>2, <1>5, <1>6, <1>8, <1>9, <1>10, <1>12, GeneralFrom
<1>14. QED
  BY <1>2, <1>3, <1>4, <1>5, <1>13
LEMMA JobAsItIs ==
  ASSUME General, NEW k \in Jobs
  PROVE  /\ jobs \in [Jobs -> [state : JobStates, tries : 0 .. Attempts, stalled : BOOLEAN]]
         /\ jobs[k] \in [state : JobStates, tries : 0 .. Attempts, stalled : BOOLEAN]
         /\ jobs[k].state \in {"waiting", "active"} => jobs[k].tries < Attempts
BY DEF General, Types, JobOK

LEMMA ReturnStep ==
  ASSUME General, NEW w \in Workers, Return(w)
  PROVE  /\ General' /\ Only(w, Doc(w)) /\ actor[w] # Idle /\ actor[w].pc = "return"
         /\ UNCHANGED <<record, object, text, points, announced, fate>>
         /\ actor'[w] = Idle /\ jobs'[Job(w)].state = "completed"
         /\ \A k \in Jobs \ {Job(w)} : jobs'[k] = jobs[k]
<1> DEFINE new == [jobs[Job(w)] EXCEPT !.state = "completed"]
<1>1. actor[w] # Idle /\ actor[w].pc = "return"
  BY WorkingAt DEF Return, WorkSteps
<1>2. Job(w) \in Jobs
  BY <1>1, WorkerFacts
<1>3. /\ new \in [state : JobStates, tries : 0 .. Attempts, stalled : BOOLEAN]
      /\ new.state = "completed"
  BY <1>2, JobAsItIs DEF JobStates
<1>4. jobs' = [jobs EXCEPT ![Job(w)] = new]
  BY <1>2, JobAsItIs DEF Return
<1>5. /\ Rest(w) /\ UNCHANGED <<scenario, record, object, text, points, history>>
      /\ crashes' = crashes /\ crashes' \in Nat
  BY DEF Return, General, Types
<1> HIDE DEF new
<1>6. /\ General' /\ Only(w, Doc(w)) /\ actor'[w] = Idle
      /\ UNCHANGED <<record, object, text, points, announced, fate>>
      /\ jobs'[Job(w)] = new /\ \A k \in Jobs \ {Job(w)} : jobs'[k] = jobs[k]
  BY <1>1, <1>3, <1>4, <1>5, JobLeft
<1>7. QED
  BY <1>1, <1>3, <1>6

LEMMA ThrowStep ==
  ASSUME General, NEW w \in Workers, Throw(w)
  PROVE  /\ General' /\ Only(w, Doc(w)) /\ actor[w] # Idle /\ actor[w].pc = "throw"
         /\ UNCHANGED <<record, object, text, points, announced, fate>>
         /\ actor'[w] = Idle
         /\ jobs'[Job(w)].state \in {"waiting", "failed"}
         /\ jobs'[Job(w)].state = "failed" => jobs[Job(w)].tries > 0
         /\ \A k \in Jobs \ {Job(w)} : jobs'[k] = jobs[k]
<1> DEFINE tries == jobs[Job(w)].tries + 1
           new == [jobs[Job(w)] EXCEPT !.tries = tries,
                                       !.state = IF tries < Attempts THEN "waiting" ELSE "failed"]
<1>1. actor[w] # Idle /\ actor[w].pc = "throw" /\ Working(w)
  BY WorkingAt DEF Throw, WorkSteps
<1>2. Job(w) \in Jobs /\ jobs[Job(w)].state = "active"
  BY <1>1, WorkerFacts DEF Working
<1>3. tries \in 0 .. Attempts /\ (tries >= Attempts => jobs[Job(w)].tries > 0)
  BY <1>2, JobAsItIs, ConstantFacts
<1>4. jobs' = [jobs EXCEPT ![Job(w)] = new]
  <2>1. jobs' = [jobs EXCEPT ![Job(w)].tries = tries,
                             ![Job(w)].state = IF tries < Attempts THEN "waiting" ELSE "failed"]
    BY DEF Throw
  <2> HIDE DEF tries
  <2>2. QED
    BY <1>2, <2>1, JobAsItIs
<1>5. /\ Rest(w) /\ UNCHANGED <<scenario, record, object, text, points, history>>
      /\ crashes' = crashes /\ crashes' \in Nat
  BY DEF Throw, General, Types
<1> HIDE DEF tries
<1>6. /\ new \in [state : JobStates, tries : 0 .. Attempts, stalled : BOOLEAN]
      /\ new.state \in {"waiting", "failed"}
      /\ new.state = "waiting" => new.tries < Attempts
      /\ new.state = "failed" => jobs[Job(w)].tries > 0
  <2>1. new.tries = tries /\ new.state = IF tries < Attempts THEN "waiting" ELSE "failed"
    BY <1>2, JobAsItIs
  <2>2. new \in [state : JobStates, tries : 0 .. Attempts, stalled : BOOLEAN]
    BY <1>2, <1>3, JobAsItIs DEF JobStates
  <2>3. QED
    BY <1>3, <2>1, <2>2, ConstantFacts
<1> HIDE DEF new
<1>7. /\ General' /\ Only(w, Doc(w)) /\ actor'[w] = Idle
      /\ UNCHANGED <<record, object, text, points, announced, fate>>
      /\ jobs'[Job(w)] = new /\ \A k \in Jobs \ {Job(w)} : jobs'[k] = jobs[k]
  BY <1>1, <1>4, <1>5, <1>6, JobLeft
<1>8. QED
  BY <1>1, <1>6, <1>7

LEMMA WorkerDiesStep ==
  ASSUME General, NEW w \in Workers, WorkerDies(w)
  PROVE  /\ General' /\ Only(w, Doc(w)) /\ actor[w] # Idle
         /\ UNCHANGED <<record, object, text, points, announced, fate>>
         /\ actor'[w] = Idle
         /\ jobs'[Job(w)].state \in {"waiting", "failed"}
         /\ jobs'[Job(w)].tries = jobs[Job(w)].tries /\ jobs[Job(w)].tries < Attempts
         /\ \A k \in Jobs \ {Job(w)} : jobs'[k] = jobs[k]
<1> DEFINE next == IF jobs[Job(w)].stalled THEN "failed" ELSE "waiting"
           new == [jobs[Job(w)] EXCEPT !.state = next, !.stalled = TRUE]
<1>1. actor[w] # Idle
  BY DEF WorkerDies, At, Idle
<1>2. Job(w) \in Jobs /\ jobs[Job(w)].state = "active"
  BY <1>1, WorkerFacts DEF Working
<1>3. jobs' = [jobs EXCEPT ![Job(w)] = new]
  BY <1>2, JobAsItIs DEF WorkerDies
<1>4. /\ Rest(w) /\ UNCHANGED <<scenario, record, object, text, points, history>>
      /\ crashes' # 0 /\ crashes' \in Nat
  BY DEF WorkerDies, General, Types
<1>5. /\ new \in [state : JobStates, tries : 0 .. Attempts, stalled : BOOLEAN]
      /\ new.state \in {"waiting", "failed"}
      /\ new.tries = jobs[Job(w)].tries /\ new.tries < Attempts
  <2>1. next \in {"waiting", "failed"}
    OBVIOUS
  <2> HIDE DEF next
  <2>2. QED
    BY <1>2, <2>1, JobAsItIs DEF JobStates
<1> HIDE DEF new
<1>6. /\ General' /\ Only(w, Doc(w)) /\ actor'[w] = Idle
      /\ UNCHANGED <<record, object, text, points, announced, fate>>
      /\ jobs'[Job(w)] = new /\ \A k \in Jobs \ {Job(w)} : jobs'[k] = jobs[k]
  BY <1>1, <1>3, <1>4, <1>5, JobLeft
<1>7. QED
  BY <1>1, <1>5, <1>6

LEMMA TakeStep ==
  ASSUME General, NEW w \in Workers, NEW k \in Jobs, Take(w, k)
  PROVE  /\ General' /\ Only(w, k[1]) /\ actor[w] = Idle /\ k = <<k[1], k[2]>>
         /\ UNCHANGED <<record, object, text, points, announced, fate>>
         /\ actor'[w].pc = "find" /\ Doc(w)' = k[1] /\ actor'[w].job = k[2]
         /\ jobs[k].state = "waiting" /\ jobs'[k].state = "active"
         /\ jobs'[k].tries = jobs[k].tries
         /\ \A l \in Jobs \ {k} : jobs'[l] = jobs[l]
<1> DEFINE new == [jobs[k] EXCEPT !.state = "active"]
           to == [Idle EXCEPT !.pc = "find", !.doc = k[1], !.job = k[2]]
<1>1. k[1] \in Docs /\ k[2] \in Versions /\ k = <<k[1], k[2]>>
  BY DEF Jobs
<1>2. w \in Actors /\ w \notin Requests /\ actor[w] = Idle /\ jobs[k].state = "waiting"
  <2>1. w \in Actors /\ w \notin Requests
    BY ConstantFacts DEF Actors
  <2>2. QED
    BY <2>1, IdleFacts DEF Take, At
<1>3. UNCHANGED <<scenario, record, object, text, points, crashes, announced, uploads, fate>>
  BY DEF Take, history
<1>4. jobs' = [jobs EXCEPT ![k] = new] /\ actor' = [actor EXCEPT ![w] = to]
  BY JobAsItIs DEF Take
<1>5. /\ new \in [state : JobStates, tries : 0 .. Attempts, stalled : BOOLEAN]
      /\ new.state = "active" /\ new.tries = jobs[k].tries /\ new.tries < Attempts
  BY <1>2, JobAsItIs DEF JobStates
<1>6. /\ to.pc = "find" /\ to.doc = k[1] /\ to.job = k[2] /\ to.copy = Absent
  BY DEF Idle
<1>7. to \in ActorStates
  <2>1. "find" \in Labels /\ k[2] \in 0 .. MaxVersion /\ k[1] \in Docs \cup {None}
    BY <1>1, ConstantFacts DEF Labels, WorkSteps
  <2>2. QED
    BY <2>1, IdleIsActor DEF ActorStates
<1> HIDE DEF new, to
<1>8. /\ jobs' \in [Jobs -> [state : JobStates, tries : 0 .. Attempts, stalled : BOOLEAN]]
      /\ jobs'[k] = new /\ \A l \in Jobs \ {k} : jobs'[l] = jobs[l]
  BY <1>4, <1>5, JobAsItIs
<1>9. /\ actor' \in [Actors -> ActorStates] /\ actor'[w] = to
      /\ \A b \in Actors \ {w} : actor'[b] = actor[b]
  BY <1>2, <1>4, <1>7 DEF General, Types
<1>10. Types' /\ Only(w, k[1])
  BY <1>1, <1>3, <1>8, <1>9 DEF General, Types, Only
<1>11. (\A e \in Docs : RecordOK(e)') /\ Unique'
  BY <1>1, <1>2, <1>3, <1>10, RecordsStay DEF General, RecordOK
<1>12. \A l \in Jobs : jobs[l].state = "active" => jobs'[l].state = "active"
  BY <1>5, <1>8
<1>13. /\ \A u \in Workers \ {w} : actor'[u] = Idle \/ Working(u)'
       /\ \A q \in Requests \ {w} : actor'[q] = Idle \/ Asking(q)'
  BY <1>1, <1>2, <1>10, <1>12, OthersStay
<1>14. \A c \in Contents : PointOK(c)'
  BY <1>1, <1>2, <1>10, PointsStay
<1>15. Doc(w)' = k[1] /\ Copy(w)' = Absent /\ Job(w)' = k
  BY <1>1, <1>6, <1>9 DEF Doc, Copy, Job
<1>16. Working(w)'
  <2>1. "find" \in WorkSteps /\ "find" \notin Parsed
    BY DEF WorkSteps, Parsed, Written, Indexed
  <2>2. Absent.hash = None
    BY DEF Absent
  <2>3. QED
    BY <1>1, <1>5, <1>6, <1>8, <1>9, <1>15, <2>1, <2>2 DEF Working, Hashed, Present
<1>17. \A l \in Jobs : JobOK(l)'
  BY <1>5, <1>8 DEF General, JobOK
<1>18. ASSUME NEW l \in Jobs, crashes' = 0
       PROVE  Once(l)'
  <2>1. crashes = 0 /\ Once(l)
    BY <1>3, <1>18 DEF General
  <2>2. CASE l = k
    <3>1. announced[k] <= 1 /\ announced[k] # 1
      BY <1>2, <2>1, <2>2 DEF Once
    <3>2. QED
      BY <1>3, <2>2, <3>1 DEF Once
  <2>3. CASE l # k
    <3>1. \A u \in Workers : Job(u)' = l => actor'[u] = actor[u] /\ Job(u) = l
      BY <1>9, <1>15, <2>3 DEF Job, Doc, Actors
    <3>2. QED
      BY <1>3, <1>8, <2>1, <2>3, <3>1 DEF Once
  <2>4. QED
    BY <2>2, <2>3
<1>19. \A l \in Jobs : Once(l)'
  BY <1>18 DEF Once
<1>20. Apart'
  <2>1. SUFFICES ASSUME NEW v \in Workers, NEW u \in Workers,
                        actor'[v] # Idle, actor'[u] # Idle, Job(v)' = Job(u)'
                 PROVE  v = u
    BY DEF Apart
  <2>2. \A b \in Workers \ {w} : actor'[b] = actor[b] /\ Job(b)' = Job(b)
    BY <1>9 DEF Job, Doc, Actors
  <2>3. \A b \in Workers \ {w} : actor'[b] # Idle => Job(b)' # k
    BY <1>2, <2>2, WorkerFacts DEF Working
  <2>4. CASE v # w /\ u # w
    BY <2>1, <2>2, <2>4 DEF General, Apart
  <2>5. QED
    BY <1>15, <2>1, <2>3, <2>4
<1>21. General'
  BY <1>2, <1>10, <1>11, <1>13, <1>14, <1>16, <1>17, <1>19, <1>20, GeneralFrom
<1>22. QED
  BY <1>1, <1>2, <1>3, <1>5, <1>6, <1>8, <1>9, <1>10, <1>15, <1>21
-----------------------------------------------------------------------------
\* The steps of clients, and the start

LEMMA RegisterStep ==
  ASSUME General, NEW d \in Docs, Register(d)
  PROVE  /\ General'
         /\ record[d] = Absent /\ fate[d] = "live"
         /\ record'[d].version = 1 /\ record'[d].status = "pending"
         /\ \A e \in Docs \ {d} : record'[e] = record[e]
         /\ UNCHANGED <<scenario, object, text, points, jobs, actor, crashes, announced, uploads, fate>>
<1> DEFINE doc == [Absent EXCEPT !.version = 1, !.status = "pending"]
<1>1. record' = [record EXCEPT ![d] = doc]
  BY DEF Register
<1>2. UNCHANGED <<scenario, object, text, points, jobs, actor, crashes, announced, uploads, fate>>
  BY DEF Register, history
<1>3. /\ doc \in Documents /\ Present(doc)
      /\ doc.hash = None /\ doc.version = 1 /\ doc.status = "pending"
  <2>1. Absent.hash = None
    BY DEF Absent
  <2>2. /\ Absent \in [version : 0 .. MaxVersion, status : Statuses, hash : Contents \cup {None}]
        /\ "pending" \in Statuses /\ 1 \in 0 .. MaxVersion /\ 1 \in Versions
    BY IdleIsActor, DocumentsAre, ConstantFacts DEF Statuses
  <2>3. /\ doc \in [version : 0 .. MaxVersion, status : Statuses, hash : Contents \cup {None}]
        /\ doc.hash = Absent.hash /\ doc.version = 1 /\ doc.status = "pending"
    BY <2>2
  <2>4. QED
    BY <2>1, <2>2, <2>3, DocumentsAre DEF Present
<1>4. record[d] = Absent /\ fate[d] = "live"
  BY DEF Register
<1> HIDE DEF doc
<1>5. /\ record' \in [Docs -> Documents] /\ record'[d] = doc
      /\ \A e \in Docs \ {d} : record'[e] = record[e]
  BY <1>1, <1>3 DEF General, Types
<1>6. Types'
  BY <1>2, <1>5 DEF General, Types
<1>7. \A e \in Docs : RecordOK(e)'
  BY <1>2, <1>3, <1>5 DEF General, RecordOK, Hashed
<1>8. Unique'
  BY <1>3, <1>5 DEF General, Unique
<1>9. (\A c \in Contents : PointOK(c)') /\ \A k \in Jobs : JobOK(k)' /\ Once(k)'
  BY <1>2 DEF General, PointOK, JobOK, Once, Job, Doc
<1>10. /\ \A w \in Workers : actor'[w] = Idle \/ Working(w)'
       /\ \A r \in Requests : actor'[r] = Idle \/ Asking(r)'
       /\ Apart'
  BY <1>2 DEF General, Working, Asking, Apart, Job, Doc, Copy, Hashed, Present, Terminal
<1>11. General'
  BY <1>6, <1>7, <1>8, <1>9, <1>10 DEF General
<1>12. QED
  BY <1>2, <1>3, <1>4, <1>5, <1>11

LEMMA UploadStep ==
  ASSUME General, NEW d \in Docs, NEW c \in Contents, Upload(d, c)
  PROVE  /\ General'
         /\ UNCHANGED <<scenario, record, text, points, jobs, actor, crashes, announced, fate>>
         /\ \A e \in Docs : uploads[e] \subseteq uploads'[e]
<1>1. UNCHANGED <<scenario, record, text, points, jobs, actor, crashes, announced, fate>>
  BY DEF Upload
<1>2. /\ uploads' \in [Docs -> SUBSET Contents] /\ c \in uploads'[d]
      /\ \A e \in Docs : uploads[e] \subseteq uploads'[e]
  BY DEF Upload, General, Types
<1>3. /\ object' \in [Docs -> Contents \cup {None}]
      /\ \A e \in Docs : object'[e] = object[e] \/ (e = d /\ object'[e] = c)
  BY DEF Upload, General, Types
<1>4. Types'
  BY <1>1, <1>2, <1>3 DEF General, Types
<1>5. \A e \in Docs : RecordOK(e)'
  BY <1>1, <1>2, <1>3 DEF General, RecordOK, Hashed
<1>6. \A x \in Contents : PointOK(x)'
  <2>1. SUFFICES ASSUME NEW x \in Contents, points'[x] # NoPoint
                 PROVE  x \in uploads'[points'[x].doc]
    BY DEF PointOK
  <2>2. points[x] = points'[x] /\ PointOK(x) /\ points[x] \in [doc : Docs, version : Versions]
    BY <1>1, <2>1 DEF General, Types
  <2>3. x \in uploads[points[x].doc] /\ points[x].doc \in Docs
    BY <2>1, <2>2 DEF PointOK
  <2>4. QED
    BY <1>2, <2>2, <2>3
<1>7. (\A k \in Jobs : JobOK(k)' /\ Once(k)') /\ Unique' /\ Apart'
  BY <1>1 DEF General, JobOK, Once, Unique, Apart, Job, Doc
<1>8. ASSUME NEW w \in Workers, actor[w] # Idle
      PROVE  Working(w)'
  <2>1. Working(w)
    BY <1>8 DEF General
  <2>2. Doc(w) \in Docs /\ uploads[Doc(w)] \subseteq uploads'[Doc(w)] /\ actor' = actor /\ jobs' = jobs
    BY <1>1, <1>2, <2>1 DEF Working
  <2>3. QED
    BY <2>1, <2>2 DEF Working, Job, Doc, Copy, Hashed, Present
<1>9. ASSUME NEW r \in Requests, actor[r] # Idle
      PROVE  Asking(r)'
  <2>1. Asking(r)
    BY <1>9 DEF General
  <2>2. Doc(r) \in Docs /\ uploads[Doc(r)] \subseteq uploads'[Doc(r)] /\ actor' = actor
    BY <1>1, <1>2, <2>1 DEF Asking
  <2>3. QED
    BY <2>1, <2>2 DEF Asking, Doc, Copy, Hashed, Present, Terminal
<1>10. General'
  BY <1>1, <1>4, <1>5, <1>6, <1>7, <1>8, <1>9 DEF General
<1>11. QED
  BY <1>1, <1>2, <1>10

LEMMA GeneralStarts == Init => General
<1>1. SUFFICES ASSUME Init
               PROVE  General
  OBVIOUS
<1>2. /\ \A d \in Docs : record[d] = Absent /\ object[d] = None /\ uploads[d] = {} /\ fate[d] = "live"
      /\ \A c \in Contents : points[c] = NoPoint
      /\ \A k \in Jobs : jobs[k] = [state |-> "none", tries |-> 0, stalled |-> FALSE] /\ announced[k] = 0
      /\ \A a \in Actors : actor[a] = Idle
  BY <1>1 DEF Init, Jobs, Actors
<1>3. Types
  BY <1>1, IdleIsActor, ConstantFacts DEF Init, Types, Jobs, Actors, JobStates
<1>4. \A d \in Docs : RecordOK(d)
  BY <1>2 DEF RecordOK, Hashed, Absent
<1>5. (\A c \in Contents : PointOK(c)) /\ \A k \in Jobs : JobOK(k) /\ Once(k)
  BY <1>2 DEF PointOK, JobOK, Once
<1>6. Unique
  BY <1>2 DEF Unique, Absent
<1>7. (\A w \in Workers : actor[w] = Idle) /\ (\A r \in Requests : actor[r] = Idle) /\ Apart
  BY <1>2 DEF Apart, Actors
<1>8. QED
  BY <1>3, <1>4, <1>5, <1>6, <1>7 DEF General

-----------------------------------------------------------------------------
\* A document nobody touches

Untouched(e) ==
  /\ scenario' = scenario
  /\ record'[e] = record[e] /\ fate'[e] = fate[e]
  /\ \A v \in Versions : jobs'[<<e, v>>] = jobs[<<e, v>>] /\ announced'[<<e, v>>] = announced[<<e, v>>]
  /\ \A f \in Docs : uploads[f] \subseteq uploads'[f]
  /\ \A t \in [doc : Docs, version : Versions, content : Contents] :
       t.doc = e => (t \in text' <=> t \in text)
  /\ \A c \in Contents :
       \/ points'[c] = points[c]
       \/ points'[c].doc # e /\ points[c].doc # e
       \/ points'[c].doc # e /\ \E f \in Docs \ {e} : c \in uploads'[f]
  /\ \A a \in Actors : Doc(a) = e \/ Doc(a)' = e => actor'[a] = actor[a]

LEMMA UntouchedByOthers ==
  ASSUME General, General', NEW a \in Actors, NEW d \in Docs, Only(a, d),
         actor[a] = Idle \/ Doc(a) = d, actor'[a] = Idle \/ Doc(a)' = d,
         NEW e \in Docs \ {d}
  PROVE  Untouched(e)
<1>1. Idle.doc \notin Docs
  BY ConstantFacts DEF Idle
<1>2. Doc(a) # e /\ Doc(a)' # e
  BY <1>1 DEF Doc
<1>3. \A b \in Actors : Doc(b) = e \/ Doc(b)' = e => actor'[b] = actor[b]
  BY <1>2 DEF Only
<1>4. \A c \in Contents :
        \/ points'[c] = points[c]
        \/ points'[c].doc # e /\ points[c].doc # e
        \/ points'[c].doc # e /\ \E f \in Docs \ {e} : c \in uploads'[f]
  BY ConstantFacts DEF Only, NoPoint
<1>5. \A v \in Versions : <<e, v>> \in Jobs /\ <<e, v>>[1] = e
  BY DEF Jobs
<1>6. QED
  BY <1>3, <1>4, <1>5 DEF Only, Untouched

LEMMA UntouchedStays ==
  ASSUME General, General', NEW d \in Docs, Tended(d), Untouched(d)
  PROVE  Tended(d)'
<1>1. \A c \in Contents : Solo(d, c)' => Solo(d, c)
  BY DEF Solo, Untouched
<1>2. \A c \in Contents : Solo(d, c)' /\ points[c].doc = d => points'[c] = points[c]
  BY DEF Solo, Untouched
<1>3. \A c \in Contents : points[c].doc # d => points'[c].doc # d
  BY DEF Untouched
<1>4. \A t \in text \cup text' : t.doc = d => (t \in text' <=> t \in text)
  BY DEF Untouched, General, Types
<1>5. \A v \in Versions : OpenJob(d, v)' <=> OpenJob(d, v)
  BY DEF OpenJob, Untouched
<1>6. \A a \in Actors : Doc(a) = d \/ Doc(a)' = d => actor'[a] = actor[a]
  BY DEF Untouched
<1>7. (\A r \in Requests : r \in Actors) /\ (\A w \in Workers : w \in Actors)
  BY DEF Actors
<1>8. \A r \in Requests : Doc(r)' = d => Doc(r) = d
  BY <1>6, <1>7 DEF Doc
<1>9. Owned(d)'
  BY <1>5, <1>8 DEF Tended, Owned
<1>10. \A v \in Versions : Judged(d, v)'
  BY <1>5 DEF Tended, Judged, Untouched, Terminal, Exhausted, Served
<1>11. ASSUME NEW r \in Requests, Doc(r)' = d
       PROVE  Asks(r, d)'
  <2>1. actor'[r] = actor[r] /\ Doc(r) = d /\ Asks(r, d)
    BY <1>6, <1>7, <1>8, <1>11 DEF Tended
  <2>2. record'[d] = record[d] /\ fate'[d] = fate[d]
    BY DEF Untouched
  <2>3. QED
    BY <1>3, <1>4, <2>1, <2>2 DEF Asks, Copy, Terminal
<1>12. ASSUME NEW w \in Workers, Doc(w)' = d
       PROVE  Knows(w, d)'
  <2>1. actor'[w] = actor[w] /\ Doc(w) = d /\ Knows(w, d)
    BY <1>6, <1>7, <1>12 DEF Tended, Doc
  <2>2. actor[w] # Idle
    BY <2>1, ConstantFacts DEF Doc, Idle
  <2>3. /\ actor[w].job \in Versions
        /\ actor[w].pc \in Parsed => actor[w].bytes \in Contents
    BY <2>1, <2>2, WorkerFacts DEF Working, General, Types
  <2>4. /\ record'[d] = record[d]
        /\ jobs'[<<d, actor[w].job>>] = jobs[<<d, actor[w].job>>]
    BY <2>3 DEF Untouched
  <2>5. actor[w].pc \in Written => actor[w].bytes \in Contents
    BY <2>3 DEF Parsed
  <2>6. actor[w].pc \in Written /\ Solo(d, actor[w].bytes)' =>
          [doc |-> d, version |-> actor[w].job, content |-> actor[w].bytes] \in text'
    BY <1>1, <1>4, <2>1, <2>5 DEF Knows
  <2>7. actor[w].pc \in Indexed /\ Solo(d, actor[w].bytes)' =>
          points'[actor[w].bytes] = [doc |-> d, version |-> actor[w].job]
    BY <1>1, <1>2, <2>1, <2>5 DEF Knows, Written
  <2>8. /\ actor'[w] = actor[w] /\ Copy(w)' = Copy(w)
        /\ Terminal(record[d])' <=> Terminal(record[d])
        /\ Served' <=> Served
    BY <2>1, <2>4 DEF Copy, Terminal, Served, Untouched
  <2>9. QED
    BY <2>1, <2>4, <2>6, <2>7, <2>8 DEF Knows
<1>13. Found(d)'
  <2>1. record'[d] = record[d] /\ fate'[d] = fate[d] /\ Found(d)
    BY DEF Untouched, Tended
  <2>2. QED
    BY <1>1, <1>2, <1>4, <2>1 DEF Found
<1>14. Stays(d)'
  <2>1. SUFFICES ASSUME WasIngested(d)', fate'[d] = "live", \A c \in uploads'[d] : Solo(d, c)'
                 PROVE  /\ \E t \in text' : t.doc = d
                        /\ \E c \in Contents : points'[c].doc = d
    BY DEF Stays
  <2>2. WasIngested(d) /\ fate[d] = "live" /\ uploads[d] \subseteq uploads'[d]
    BY <2>1 DEF Untouched, WasIngested
  <2>3. uploads'[d] \subseteq Contents
    BY DEF General, Types
  <2>4. \A c \in uploads[d] : Solo(d, c)
    BY <1>1, <2>1, <2>2, <2>3
  <2>5. PICK t \in text : t.doc = d
    BY <2>2, <2>4 DEF Tended, Stays
  <2>6. PICK c \in Contents : points[c].doc = d
    BY <2>2, <2>4 DEF Tended, Stays
  <2>7. c \in uploads[d]
    BY <2>6, ConstantFacts DEF General, PointOK, NoPoint
  <2>8. points'[c] = points[c]
    BY <1>2, <2>1, <2>2, <2>6, <2>7
  <2>9. QED
    BY <1>4, <2>5, <2>6, <2>8
<1>15. Gone(d)'
  <2>1. record'[d] = record[d] /\ fate'[d] = fate[d] /\ Gone(d)
    BY DEF Untouched, Tended
  <2>2. Open(d)' <=> Open(d)
    BY DEF Open, Untouched
  <2>3. QED
    BY <1>3, <1>4, <1>8, <2>1, <2>2 DEF Gone, Unindexed, Quiet
<1>16. QED
  BY <1>9, <1>10, <1>11, <1>12, <1>13, <1>14, <1>15 DEF Tended
-----------------------------------------------------------------------------
\* The owner of a document: a worker

LEMMA WorkerAlone ==
  ASSUME General, NEW d \in Docs, Tended(d), NEW w \in Workers, Doc(w) = d
  PROVE  /\ actor[w] # Idle /\ Working(w) /\ Knows(w, d) /\ Job(w) = <<d, actor[w].job>>
         /\ actor[w].job \in Versions /\ Job(w) \in Jobs
         /\ OpenJob(d, actor[w].job) /\ jobs[Job(w)].state = "active"
         /\ \A v \in Versions : OpenJob(d, v) => v = actor[w].job
         /\ \A r \in Requests : Doc(r) # d
         /\ \A u \in Workers \ {w} : Doc(u) # d
         /\ record[d].version = actor[w].job /\ record[d] # Absent
         /\ fate[d] # "erased"
<1>1. actor[w] # Idle
  BY ConstantFacts DEF Doc, Idle
<1>2. /\ Working(w) /\ w \in Actors /\ Job(w) \in Jobs /\ Job(w) = <<d, actor[w].job>>
      /\ actor[w].job \in Versions /\ jobs[Job(w)].state = "active"
  BY <1>1, WorkerFacts DEF Working
<1>3. OpenJob(d, actor[w].job)
  BY <1>2 DEF OpenJob
<1>4. /\ \A v \in Versions : OpenJob(d, v) => v = actor[w].job
      /\ \A r \in Requests : Doc(r) # d
  BY <1>2, <1>3 DEF Tended, Owned
<1>5. ASSUME NEW u \in Workers \ {w}, Doc(u) = d
      PROVE  FALSE
  <2>1. actor[u] # Idle
    BY <1>5, ConstantFacts DEF Doc, Idle
  <2>2. Job(u) = <<d, actor[u].job>> /\ actor[u].job \in Versions /\ jobs[Job(u)].state = "active"
    BY <1>5, <2>1, WorkerFacts DEF Working
  <2>3. OpenJob(d, actor[u].job)
    BY <2>2 DEF OpenJob
  <2>4. Job(u) = Job(w)
    BY <1>2, <1>4, <2>2, <2>3
  <2>5. QED
    BY <1>1, <2>1, <2>4 DEF General, Apart
<1>6. record[d].version = actor[w].job
  BY <1>2, <1>3 DEF Tended, Judged
<1>7. record[d] # Absent
  BY <1>2, <1>6, ConstantFacts DEF Absent
<1>8. fate[d] # "erased"
  BY <1>7 DEF Tended, Gone
<1>9. QED
  BY <1>1, <1>2, <1>3, <1>4, <1>5, <1>6, <1>7, <1>8 DEF Tended

\* The worker of d makes a step and goes on.
LEMMA WorkerKeeps ==
  ASSUME General, NEW d \in Docs, Tended(d), NEW w \in Workers, Doc(w) = d,
         Only(w, d), Doc(w)' = d, jobs' = jobs, fate' = fate,
         \A v \in Versions : Judged(d, v)', Knows(w, d)', Found(d)', Stays(d)'
  PROVE  Tended(d)'
<1>1. w \in Actors /\ w \notin Requests
  BY ConstantFacts DEF Actors
<1>2. /\ \A r \in Requests : Doc(r) # d
      /\ \A u \in Workers \ {w} : Doc(u) # d
      /\ fate[d] # "erased"
      /\ \A v \in Versions : OpenJob(d, v) => v = actor[w].job
  BY WorkerAlone
<1>3. /\ \A r \in Requests : Doc(r)' # d
      /\ \A u \in Workers \ {w} : Doc(u)' # d
  BY <1>1, <1>2 DEF Only, Doc, Actors
<1>4. \A v \in Versions : OpenJob(d, v)' <=> OpenJob(d, v)
  BY DEF OpenJob
<1>5. Owned(d)'
  BY <1>2, <1>3, <1>4 DEF Owned
<1>6. Gone(d)'
  BY <1>2 DEF Gone
<1>7. QED
  BY <1>3, <1>5, <1>6 DEF Tended

LEMMA JudgedAlike ==
  ASSUME NEW d \in Docs, Tended(d), NEW a, Only(a, d), record'[d] = record[d],
         fate'[d] = fate[d], announced' = announced, jobs' = jobs
  PROVE  \A v \in Versions : Judged(d, v)'
BY DEF Tended, Judged, OpenJob, Terminal, Exhausted, Served, Only

LEMMA IndexAlike ==
  ASSUME NEW d \in Docs, Tended(d), record'[d] = record[d], fate'[d] = fate[d],
         announced' = announced, text' = text, points' = points, uploads' = uploads
  PROVE  Found(d)' /\ Stays(d)'
<1>1. \A c : Solo(d, c)' <=> Solo(d, c)
  BY DEF Solo
<1>2. Found(d)'
  BY <1>1 DEF Tended, Found
<1>3. Stays(d)'
  BY <1>1 DEF Tended, Stays, WasIngested
<1>4. QED
  BY <1>2, <1>3

\* While the record says otherwise, search owes the document nothing.
LEMMA StillInThePipeline ==
  ASSUME NEW d \in Docs, record'[d].status # "ingested"
  PROVE  Found(d)'
BY DEF Found

LEMMA StaysAlike ==
  ASSUME NEW d \in Docs, Tended(d), fate'[d] = fate[d],
         announced' = announced, text' = text, points' = points, uploads' = uploads
  PROVE  Stays(d)'
BY DEF Tended, Stays, WasIngested, Solo

\* The steps that leave record, text and points alone.
LEMMA CalmWorker ==
  ASSUME General, NEW d \in Docs, Tended(d), NEW w \in Workers, Doc(w) = d,
         Find(w) \/ Parse(w) \/ FindTwin(w) \/ DependencyFails(w)
  PROVE  Tended(d)'
<1>1. /\ Only(w, d) /\ Doc(w)' = d /\ actor'[w].job = actor[w].job
      /\ UNCHANGED <<record, text, points, jobs, announced, fate>>
      /\ \/ actor[w].pc = "find" /\ actor'[w].pc = "throw" /\ record[d] = Absent
         \/ actor[w].pc = "find" /\ actor'[w].pc = "throw" /\ ~Served
         \/ actor[w].pc = "find" /\ actor'[w].pc = "parsing" /\ Copy(w)' = record[d]
         \/ actor[w].pc = "parse" /\ actor'[w].pc = "twin" /\ Copy(w)' = Copy(w)
         \/ /\ actor[w].pc = "twin" /\ actor'[w].pc = "finish" /\ Copy(w)' = Copy(w)
            /\ actor'[w].bytes = actor[w].bytes
            /\ \E e \in Docs \ {d} : record[e].hash = actor[w].bytes
         \/ actor[w].pc = "twin" /\ actor'[w].pc = "chunking" /\ Copy(w)' = Copy(w)
         \/ actor[w].pc = "parsing" /\ actor'[w].pc = "catch" /\ Copy(w)' = Copy(w)
         \/ actor[w].pc \in Busy /\ actor'[w].pc = "catch" /\ Copy(w)' = Copy(w)
  BY FindStep, ParseStep, FindTwinStep, DependencyFailsStep
<1>2. /\ Working(w) /\ Knows(w, d) /\ record[d].version = actor[w].job /\ record[d] # Absent
      /\ fate[d] # "erased"
  BY WorkerAlone
<1>3. /\ record'[d] = record[d] /\ jobs'[<<d, actor'[w].job>>] = jobs[<<d, actor[w].job>>]
      /\ uploads' = uploads /\ (Terminal(record[d])' <=> Terminal(record[d]))
      /\ Served' <=> Served
  BY <1>1 DEF Only, Terminal, Served
<1>4. Knows(w, d)'
  <2>1. CASE actor[w].pc = "find" /\ actor'[w].pc = "throw" /\ record[d] = Absent
    BY <1>2, <2>1
  <2>2. CASE actor[w].pc = "find" /\ actor'[w].pc = "parsing" /\ Copy(w)' = record[d]
    BY <1>3, <2>2 DEF Knows, Busy, Parsed, Written, Indexed
  <2>3. CASE actor[w].pc = "parse" /\ actor'[w].pc = "twin" /\ Copy(w)' = Copy(w)
    BY <1>1, <1>2, <1>3, <2>3 DEF Knows, Busy, Parsed, Written, Indexed
  <2>4. CASE /\ actor[w].pc = "twin" /\ actor'[w].pc = "finish" /\ Copy(w)' = Copy(w)
             /\ actor'[w].bytes = actor[w].bytes
             /\ \E e \in Docs \ {d} : record[e].hash = actor[w].bytes
    <3>1. PICK e \in Docs \ {d} : record[e].hash = actor[w].bytes
      BY <2>4
    <3>2. actor[w].bytes \in uploads[d] /\ actor[w].bytes \in Contents
      BY <1>2, <2>4 DEF Working, Parsed, General, Types
    <3>3. actor[w].bytes \in uploads[e]
      BY <3>1, <3>2, ConstantFacts DEF General, RecordOK, Hashed
    <3>4. ~Solo(d, actor[w].bytes)'
      BY <1>3, <2>4, <3>1, <3>3 DEF Solo
    <3>5. QED
      BY <1>1, <1>2, <1>3, <2>4, <3>4 DEF Knows, Busy, Parsed, Written, Indexed, Solo
  <2>5. CASE actor[w].pc = "twin" /\ actor'[w].pc = "chunking" /\ Copy(w)' = Copy(w)
    BY <1>1, <1>2, <1>3, <2>5 DEF Knows, Busy, Parsed, Written, Indexed
  <2>6. CASE actor[w].pc \in {"parsing"} \cup Busy /\ actor'[w].pc = "catch" /\ Copy(w)' = Copy(w)
    <3>1. Copy(w) = record[d]
      BY <1>2, <2>6 DEF Knows, Busy, Parsed, Written, Indexed
    <3>2. QED
      BY <1>1, <1>2, <1>3, <2>6, <3>1 DEF Knows, Busy, Parsed, Written, Indexed
  <2>7. CASE actor[w].pc = "find" /\ actor'[w].pc = "throw" /\ ~Served
    BY <1>3, <2>7 DEF Knows, Busy, Parsed, Written, Indexed
  <2>8. QED
    BY <1>1, <2>1, <2>2, <2>3, <2>4, <2>5, <2>6, <2>7
<1>5. (\A v \in Versions : Judged(d, v)') /\ Found(d)' /\ Stays(d)'
  BY <1>1, <1>3, JudgedAlike, IndexAlike
<1>6. QED
  BY <1>1, <1>4, <1>5, WorkerKeeps
\* What holds of a document whose contents are its own, for whoever writes its index.
LEMMA PipelineFacts ==
  ASSUME General, NEW d \in Docs, Tended(d), NEW w \in Workers, Doc(w) = d, actor[w].pc \in Busy
  PROVE  /\ Copy(w) = record[d] /\ Copy(w).version = actor[w].job
         /\ Served => jobs[<<d, actor[w].job>>].tries = 0
         /\ record[d].status \in Underway
         /\ actor[w].pc \in Parsed => actor[w].bytes \in uploads[d] /\ actor[w].bytes \in Contents
<1>1. Working(w) /\ Knows(w, d) /\ record[d].version = actor[w].job
  BY WorkerAlone
<1>2. actor[w].pc \notin {"find", "catch", "throw"}
  BY DEF Busy, Parsed, Written, Indexed
<1>3. /\ Copy(w) = record[d] /\ record[d].status \in Underway
      /\ Served => jobs[<<d, actor[w].job>>].tries = 0
  BY <1>1, <1>2 DEF Knows
<1>4. actor[w].pc \in Parsed => actor[w].bytes \in uploads[d] /\ actor[w].bytes \in Contents
  BY <1>1 DEF Working, General, Types
<1>5. QED
  BY <1>1, <1>3, <1>4

\* The steps that change the index.
LEMMA WriteTextTended ==
  ASSUME General, NEW d \in Docs, Tended(d), NEW w \in Workers, Doc(w) = d, WriteText(w)
  PROVE  Tended(d)'
<1>1. /\ Only(w, d) /\ actor[w].pc = "text"
      /\ UNCHANGED <<record, points, jobs, announced, fate>>
      /\ Doc(w)' = d /\ actor'[w].job = actor[w].job /\ actor'[w].bytes = actor[w].bytes
      /\ Copy(w)' = Copy(w) /\ actor'[w].pc = "drop_text"
      /\ [doc |-> d, version |-> Copy(w).version, content |-> actor[w].bytes] \in text'
  BY WriteTextStep
<1>2. actor[w].pc \in Busy /\ actor[w].pc \in Parsed
  BY <1>1 DEF Busy, Parsed
<1>3. /\ Copy(w) = record[d] /\ Copy(w).version = actor[w].job
      /\ Served => jobs[<<d, actor[w].job>>].tries = 0
      /\ record[d].status \in Underway
  BY <1>2, PipelineFacts
<1>4. Knows(w, d)'
  BY <1>1, <1>3 DEF Knows, Busy, Parsed, Written, Indexed, Only, Served
<1>5. Found(d)'
  BY <1>1, <1>3, StillInThePipeline DEF Underway
<1>6. Stays(d)'
  BY <1>1 DEF Tended, Stays, WasIngested, Solo, Only
<1>7. QED
  BY <1>1, <1>4, <1>5, <1>6, JudgedAlike, WorkerKeeps

LEMMA DropTextTended ==
  ASSUME General, NEW d \in Docs, Tended(d), NEW w \in Workers, Doc(w) = d, DropText(w)
  PROVE  Tended(d)'
<1> DEFINE chunk == [doc |-> d, version |-> actor[w].job, content |-> actor[w].bytes]
<1>1. /\ Only(w, d) /\ actor[w].pc = "drop_text"
      /\ UNCHANGED <<record, points, jobs, announced, fate>>
      /\ Doc(w)' = d /\ actor'[w].job = actor[w].job /\ actor'[w].bytes = actor[w].bytes
      /\ Copy(w)' = Copy(w) /\ actor'[w].pc = "points"
      /\ text' = {t \in text : t.doc = d => t.version = Copy(w).version}
  BY DropTextStep
<1>2. actor[w].pc \in Busy /\ actor[w].pc \in Written /\ actor[w].pc \in Parsed
  BY <1>1 DEF Busy, Parsed, Written
<1>3. /\ Copy(w) = record[d] /\ Copy(w).version = actor[w].job
      /\ Served => jobs[<<d, actor[w].job>>].tries = 0
      /\ record[d].status \in Underway
      /\ actor[w].bytes \in uploads[d]
  BY <1>2, PipelineFacts
<1>4. /\ uploads' = uploads /\ \A c : Solo(d, c)' <=> Solo(d, c)
      /\ Served' <=> Served
  BY <1>1 DEF Only, Solo, Served
<1>5. Solo(d, actor[w].bytes) => chunk \in text'
  <2>1. Solo(d, actor[w].bytes) => chunk \in text
    BY <1>2, WorkerAlone DEF Knows
  <2>2. QED
    BY <1>1, <1>3, <2>1
<1>6. Knows(w, d)'
  BY <1>1, <1>3, <1>4, <1>5 DEF Knows, Busy, Parsed, Written, Indexed
<1>7. Found(d)'
  BY <1>1, <1>3, StillInThePipeline DEF Underway
<1>8. Stays(d)'
  <2>1. ASSUME \A c \in uploads[d] : Solo(d, c)
        PROVE  \E t \in text' : t.doc = d
    <3>1. chunk \in text' /\ chunk.doc = d
      BY <1>3, <1>5, <2>1
    <3>2. QED
      BY <3>1
  <2>2. QED
    BY <1>1, <1>4, <2>1 DEF Tended, Stays, WasIngested
<1>9. QED
  BY <1>1, <1>6, <1>7, <1>8, JudgedAlike, WorkerKeeps

LEMMA UpsertPointsTended ==
  ASSUME General, NEW d \in Docs, Tended(d), NEW w \in Workers, Doc(w) = d, UpsertPoints(w)
  PROVE  Tended(d)'
<1> DEFINE point == [doc |-> d, version |-> actor[w].job]
<1>1. /\ Only(w, d) /\ actor[w].pc = "points"
      /\ UNCHANGED <<record, text, jobs, announced, fate>>
      /\ Doc(w)' = d /\ actor'[w].job = actor[w].job /\ actor'[w].bytes = actor[w].bytes
      /\ Copy(w)' = Copy(w) /\ actor'[w].pc = "drop_points"
      /\ points'[actor[w].bytes] = [doc |-> d, version |-> Copy(w).version]
  BY UpsertPointsStep
<1>2. actor[w].pc \in Busy /\ actor[w].pc \in Written /\ actor[w].pc \in Parsed
  BY <1>1 DEF Busy, Parsed, Written
<1>3. /\ Copy(w) = record[d] /\ Copy(w).version = actor[w].job
      /\ Served => jobs[<<d, actor[w].job>>].tries = 0
      /\ record[d].status \in Underway
      /\ actor[w].bytes \in uploads[d] /\ actor[w].bytes \in Contents
  BY <1>2, PipelineFacts
<1>4. /\ uploads' = uploads /\ \A c : Solo(d, c)' <=> Solo(d, c)
      /\ Served' <=> Served
  BY <1>1 DEF Only, Solo, Served
<1>5. points'[actor[w].bytes] = point /\ point.doc = d
  BY <1>1, <1>3
<1>6. Knows(w, d)'
  <2>1. Knows(w, d)
    BY WorkerAlone
  <2>2. QED
    BY <1>1, <1>2, <1>3, <1>4, <1>5, <2>1 DEF Knows, Busy, Parsed, Written, Indexed
<1>7. Found(d)'
  BY <1>1, <1>3, StillInThePipeline DEF Underway
<1>8. Stays(d)'
  BY <1>1, <1>3, <1>4, <1>5 DEF Tended, Stays, WasIngested
<1>9. QED
  BY <1>1, <1>6, <1>7, <1>8, JudgedAlike, WorkerKeeps

LEMMA DropOtherVersionsTended ==
  ASSUME General, NEW d \in Docs, Tended(d), NEW w \in Workers, Doc(w) = d, DropOtherVersions(w)
  PROVE  Tended(d)'
<1> DEFINE point == [doc |-> d, version |-> actor[w].job]
<1>1. /\ Only(w, d) /\ actor[w].pc = "drop_points"
      /\ UNCHANGED <<record, text, jobs, announced, fate>>
      /\ Doc(w)' = d /\ actor'[w].job = actor[w].job /\ actor'[w].bytes = actor[w].bytes
      /\ Copy(w)' = Copy(w) /\ actor'[w].pc = "finish"
      /\ \A c \in Contents :
           points'[c] = IF points[c].doc = d /\ points[c].version # Copy(w).version
                          THEN NoPoint ELSE points[c]
  BY DropOtherVersionsStep
<1>2. actor[w].pc \in Busy /\ actor[w].pc \in Written /\ actor[w].pc \in Parsed /\ actor[w].pc \in Indexed
  BY <1>1 DEF Busy, Parsed, Written, Indexed
<1>3. /\ Copy(w) = record[d] /\ Copy(w).version = actor[w].job
      /\ Served => jobs[<<d, actor[w].job>>].tries = 0
      /\ record[d].status \in Underway
      /\ actor[w].bytes \in uploads[d] /\ actor[w].bytes \in Contents
  BY <1>2, PipelineFacts
<1>4. /\ uploads' = uploads /\ \A c : Solo(d, c)' <=> Solo(d, c)
      /\ Served' <=> Served
  BY <1>1 DEF Only, Solo, Served
<1>5. Knows(w, d)
  BY WorkerAlone
<1>6. Solo(d, actor[w].bytes) => points'[actor[w].bytes] = point /\ point.doc = d
  BY <1>1, <1>2, <1>3, <1>5 DEF Knows
<1>7. Knows(w, d)'
  BY <1>1, <1>2, <1>3, <1>4, <1>5, <1>6 DEF Knows, Busy, Parsed, Written, Indexed
<1>8. Found(d)'
  BY <1>1, <1>3, StillInThePipeline DEF Underway
<1>9. Stays(d)'
  <2>1. ASSUME \A c \in uploads[d] : Solo(d, c)
        PROVE  \E c \in Contents : points'[c].doc = d
    BY <1>3, <1>6, <2>1
  <2>2. QED
    BY <1>1, <1>4, <2>1 DEF Tended, Stays, WasIngested
<1>10. QED
  BY <1>1, <1>7, <1>8, <1>9, JudgedAlike, WorkerKeeps
\* The steps that save the record.
LEMMA OwnHashFree ==
  ASSUME General, NEW d \in Docs, NEW doc, doc.hash = record[d].hash
  PROVE  HashFree(d, doc)
BY DEF General, Unique, HashFree

\* The record changes, and its version does not.
LEMMA JudgedAgain ==
  ASSUME General, NEW d \in Docs, Tended(d), NEW w \in Workers, Doc(w) = d,
         record'[d].version = record[d].version, fate'[d] = fate[d], jobs' = jobs,
         Present(record[d]), scenario' = scenario,
         \A v \in Versions \ {actor[w].job} : announced'[<<d, v>>] = announced[<<d, v>>],
         announced'[Job(w)] <= 1,
         announced'[Job(w)] = 0 \/ Terminal(record'[d]),
         record'[d].status # "pending"
  PROVE  \A v \in Versions : Judged(d, v)'
<1>1. /\ \A v \in Versions : OpenJob(d, v) => v = actor[w].job
      /\ record[d].version = actor[w].job /\ jobs[Job(w)].state = "active"
      /\ Job(w) = <<d, actor[w].job>> /\ actor[w].job \in Versions
      /\ record[d] # Absent
  BY WorkerAlone
<1>2. Job(w) \in Jobs
  BY WorkerAlone
<1>3. announced[Job(w)] \in Nat
  BY <1>2 DEF General, Types
<1>4. ASSUME NEW v \in Versions
      PROVE  Judged(d, v)'
  <2>1. Judged(d, v) /\ v \in Int
    BY ConstantFacts DEF Tended
  <2>2. OpenJob(d, v)' => v = actor[w].job
    BY <1>1 DEF OpenJob
  <2>3. CASE v = actor[w].job
    <3>1. v <= record'[d].version
      BY <1>1, <2>1, <2>3
    <3>2. jobs'[<<d, v>>].state = "active"
      BY <1>1, <2>3
    <3>3. announced'[<<d, v>>] > 0 => Terminal(record[d])'
      BY <1>1, <2>3 DEF Terminal
    <3>4. announced'[<<d, v>>] <= 1
      BY <1>1, <2>3
    <3>5. QED
      BY <1>1, <2>3, <3>1, <3>2, <3>3, <3>4 DEF Judged, Exhausted
  <2>4. CASE v # actor[w].job
    <3>1. announced'[<<d, v>>] = announced[<<d, v>>] /\ jobs'[<<d, v>>] = jobs[<<d, v>>]
      BY <2>4
    <3>2. v <= record[d].version \/ (announced[<<d, v>>] > 0 \/ jobs[<<d, v>>].state # "none") = FALSE
      BY <1>1, <2>1 DEF Judged
    <3>3. record'[d].version # v
      BY <1>1, <2>4
    <3>4. QED
      BY <2>1, <2>2, <2>4, <3>1, <3>2, <3>3 DEF Judged, Exhausted
  <2>5. QED
    BY <2>3, <2>4
<1>5. QED
  BY <1>4

LEMMA AdvanceTended ==
  ASSUME General, NEW d \in Docs, Tended(d), NEW w \in Workers, Doc(w) = d,
         NEW stage \in Underway, NEW next \in {"parse", "embedding", "indexing", "text"},
         stage \in WorkSteps, next \in Parsed => stage \in Parsed,
         stage # "parsing" => stage \in Busy,
         Advance(w, stage, next)
  PROVE  Tended(d)'
<1>0. next \in Busy /\ next \notin Written
  BY DEF Busy, Parsed, Written, Indexed
<1>1. /\ Only(w, d) /\ actor[w].pc = stage
      /\ UNCHANGED <<text, points, jobs, announced, fate>>
      /\ Doc(w)' = d /\ actor'[w].job = actor[w].job
      /\ \/ /\ CanAdvance(Copy(w).status, stage) /\ actor'[w].pc = next
            /\ Copy(w)' = record'[d]
            /\ record'[d].status = stage
            /\ record'[d].version = Copy(w).version
            /\ record'[d].hash = Copy(w).hash
         \/ /\ ~(CanAdvance(Copy(w).status, stage) /\ HashFree(d, Copy(w)))
            /\ actor'[w].pc = "catch" /\ Copy(w)' = Copy(w) /\ record' = record
  BY <1>0, AdvanceStep
<1>2. /\ Working(w) /\ Knows(w, d) /\ record[d].version = actor[w].job
      /\ Job(w) = <<d, actor[w].job>> /\ Job(w) \in Jobs /\ actor[w].job \in Versions
      /\ OpenJob(d, actor[w].job)
  BY WorkerAlone
<1>3. stage \notin {"find", "catch", "throw"}
  BY DEF Underway
<1>4. Copy(w) = record[d] /\ Present(record[d])
  BY <1>1, <1>2, <1>3 DEF Knows, Present
<1>5. stage # "parsing" => record[d].status \in Underway /\ (Served => jobs[Job(w)].tries = 0)
  BY <1>1, <1>2 DEF Knows
<1>6. uploads' = uploads /\ scenario' = scenario /\ (Served' <=> Served)
  BY <1>1 DEF Only, Served
<1>7. CASE /\ CanAdvance(Copy(w).status, stage) /\ actor'[w].pc = next
           /\ Copy(w)' = record'[d]
           /\ record'[d].status = stage
           /\ record'[d].version = Copy(w).version
  <2>1. /\ record[d].status \in {"pending"} \cup Underway
        /\ stage = "parsing" => record[d].status = "pending"
    BY <1>4, <1>7, StagesAre
  <2>2. ~Terminal(record[d])
    BY <2>1 DEF Terminal, Underway
  <2>3. announced[Job(w)] = 0
    BY <1>2, <2>2 DEF Tended, Judged, General, Types
  <2>4. Served => jobs[Job(w)].tries = 0
    <3>1. jobs[Job(w)].tries \in Nat
      BY <1>2, JobAsItIs, ConstantFacts
    <3>2. stage = "parsing" /\ Served => ~(jobs[Job(w)].tries > 0)
      BY <1>2, <2>1 DEF Tended, Judged
    <3>3. QED
      BY <1>5, <3>1, <3>2
  <2>5. \A v \in Versions : Judged(d, v)'
    BY <1>1, <1>4, <1>6, <1>7, <2>3, JudgedAgain DEF Underway
  <2>6. Knows(w, d)'
    BY <1>0, <1>1, <1>2, <1>6, <1>7, <2>4 DEF Knows, Busy, Parsed, Written, Indexed
  <2>7. Found(d)'
    BY <1>7, StillInThePipeline DEF Underway
  <2>8. Stays(d)'
    BY <1>1, <1>6, StaysAlike
  <2>9. QED
    BY <1>1, <2>5, <2>6, <2>7, <2>8, WorkerKeeps
<1>8. CASE /\ ~(CanAdvance(Copy(w).status, stage) /\ HashFree(d, Copy(w)))
           /\ actor'[w].pc = "catch" /\ Copy(w)' = Copy(w) /\ record' = record
  <2>1. Knows(w, d)'
    BY <1>1, <1>2, <1>4, <1>8 DEF Knows, Busy, Parsed, Written, Indexed
  <2>2. QED
    BY <1>1, <1>6, <1>8, <2>1, JudgedAlike, IndexAlike, WorkerKeeps
<1>9. QED
  BY <1>1, <1>7, <1>8

LEMMA CatchTended ==
  ASSUME General, NEW d \in Docs, Tended(d), NEW w \in Workers, Doc(w) = d, Catch(w)
  PROVE  Tended(d)'
<1>1. /\ Only(w, d) /\ actor[w].pc = "catch"
      /\ UNCHANGED <<text, points, jobs, announced, fate>>
      /\ Doc(w)' = d /\ actor'[w].job = actor[w].job
      /\ actor'[w].pc = "throw"
      /\ \/ record'[d].status = "failed" /\ record'[d].version = Copy(w).version
         \/ (~HashFree(d, Copy(w)) \/ ~Served) /\ record' = record
  BY CatchStep
<1>2. /\ Knows(w, d) /\ record[d].version = actor[w].job /\ actor[w].job \in Versions
      /\ Job(w) = <<d, actor[w].job>> /\ Job(w) \in Jobs
  BY WorkerAlone
<1>3. /\ Copy(w).version = actor[w].job
      /\ \/ Copy(w).hash = record[d].hash
         \/ record[d].status # "pending" /\ (Served => jobs[Job(w)].tries = 0)
  BY <1>1, <1>2 DEF Knows
<1>4. uploads' = uploads /\ scenario' = scenario /\ (Served' <=> Served)
  BY <1>1 DEF Only, Served
<1>5. CASE record'[d].status = "failed" /\ record'[d].version = Copy(w).version
  <2>1. Terminal(record'[d]) /\ announced[Job(w)] <= 1
    BY <1>2, <1>5 DEF Terminal, Tended, Judged
  <2>2. \A v \in Versions : Judged(d, v)'
    BY <1>1, <1>2, <1>3, <1>4, <1>5, <2>1, JudgedAgain DEF Present
  <2>3. Knows(w, d)'
    BY <1>1, <1>5 DEF Knows, Busy, Parsed, Written, Indexed, Terminal
  <2>4. Found(d)' /\ Stays(d)'
    BY <1>1, <1>4, <1>5, StillInThePipeline, StaysAlike
  <2>5. QED
    BY <1>1, <2>2, <2>3, <2>4, WorkerKeeps
<1>6. CASE (~HashFree(d, Copy(w)) \/ ~Served) /\ record' = record
  <2>1. Served => record[d].status # "pending" /\ jobs[Job(w)].tries = 0
    BY <1>3, <1>6, OwnHashFree
  <2>2. Knows(w, d)'
    BY <1>1, <1>2, <1>4, <1>6, <2>1 DEF Knows, Busy, Parsed, Written, Indexed
  <2>3. QED
    BY <1>1, <1>4, <1>6, <2>2, JudgedAlike, IndexAlike, WorkerKeeps
<1>7. QED
  BY <1>1, <1>5, <1>6

LEMMA FinishTended ==
  ASSUME General, NEW d \in Docs, Tended(d), NEW w \in Workers, Doc(w) = d, Finish(w)
  PROVE  Tended(d)'
<1>1. /\ Only(w, d) /\ actor[w].pc = "finish"
      /\ UNCHANGED <<text, points, jobs, fate>>
      /\ Doc(w)' = d /\ actor'[w].job = actor[w].job
      /\ \/ /\ actor'[w].pc = "return"
            /\ record'[d].status = "ingested"
            /\ record'[d].version = Copy(w).version
            /\ record'[d].hash = actor[w].bytes
            /\ Copy(w)' = record'[d]
            /\ announced'[Job(w)] = announced[Job(w)] + 1
            /\ \A k \in Jobs \ {Job(w)} : announced'[k] = announced[k]
         \/ /\ actor'[w].pc = "catch" /\ record' = record /\ announced' = announced
            /\ Copy(w).version = Copy(w)'.version
  BY FinishStep
<1>2. actor[w].pc \in Busy /\ actor[w].pc \in Parsed /\ actor[w].pc \in Written /\ actor[w].pc \in Indexed
  BY <1>1 DEF Busy, Parsed, Written, Indexed
<1>3. /\ Copy(w) = record[d] /\ Copy(w).version = actor[w].job
      /\ Served => jobs[<<d, actor[w].job>>].tries = 0
      /\ record[d].status \in Underway
      /\ actor[w].bytes \in uploads[d] /\ actor[w].bytes \in Contents
  BY <1>2, PipelineFacts
<1>4. /\ Knows(w, d) /\ record[d].version = actor[w].job /\ actor[w].job \in Versions
      /\ Job(w) = <<d, actor[w].job>> /\ Job(w) \in Jobs
  BY WorkerAlone
<1>5. /\ uploads' = uploads /\ \A c : Solo(d, c)' <=> Solo(d, c)
      /\ scenario' = scenario /\ (Served' <=> Served)
  BY <1>1 DEF Only, Solo, Served
<1>6. CASE /\ actor'[w].pc = "return"
           /\ record'[d].status = "ingested"
           /\ record'[d].version = Copy(w).version
           /\ record'[d].hash = actor[w].bytes
           /\ Copy(w)' = record'[d]
           /\ announced'[Job(w)] = announced[Job(w)] + 1
           /\ \A k \in Jobs \ {Job(w)} : announced'[k] = announced[k]
  <2>1. ~Terminal(record[d]) /\ Terminal(record'[d])
    BY <1>3, <1>6 DEF Terminal, Underway
  <2>2. announced[Job(w)] = 0
    BY <1>4, <2>1 DEF Tended, Judged, General, Types
  <2>3. \A v \in Versions \ {actor[w].job} : announced'[<<d, v>>] = announced[<<d, v>>]
    BY <1>4, <1>6 DEF Jobs
  <2>4. \A v \in Versions : Judged(d, v)'
    BY <1>1, <1>3, <1>4, <1>5, <1>6, <2>1, <2>2, <2>3, JudgedAgain DEF Present
  <2>5. Solo(d, actor[w].bytes) =>
          /\ [doc |-> d, version |-> actor[w].job, content |-> actor[w].bytes] \in text
          /\ points[actor[w].bytes] = [doc |-> d, version |-> actor[w].job]
    BY <1>2, <1>4 DEF Knows
  <2>6. Found(d)'
    BY <1>1, <1>3, <1>5, <1>6, <2>5 DEF Found
  <2>7. Stays(d)'
    <3>1. ASSUME \A c \in uploads[d] : Solo(d, c)
          PROVE  (\E t \in text : t.doc = d) /\ \E c \in Contents : points[c].doc = d
      <4>1. /\ [doc |-> d, version |-> actor[w].job, content |-> actor[w].bytes] \in text
            /\ points[actor[w].bytes].doc = d
        BY <1>3, <2>5, <3>1
      <4>2. QED
        BY <1>3, <4>1
    <3>2. QED
      BY <1>1, <1>5, <3>1 DEF Stays
  <2>8. Knows(w, d)'
    BY <1>6, <2>1 DEF Knows, Busy, Parsed, Written, Indexed, Terminal
  <2>9. QED
    BY <1>1, <2>4, <2>6, <2>7, <2>8, WorkerKeeps
<1>7. CASE /\ actor'[w].pc = "catch" /\ record' = record /\ announced' = announced
           /\ Copy(w).version = Copy(w)'.version
  <2>1. Knows(w, d)'
    BY <1>1, <1>3, <1>5, <1>7 DEF Knows, Busy, Parsed, Written, Indexed, Underway
  <2>2. QED
    BY <1>1, <1>5, <1>7, <2>1, JudgedAlike, IndexAlike, WorkerKeeps
<1>8. QED
  BY <1>1, <1>6, <1>7

-----------------------------------------------------------------------------
\* The steps that take a job and let it go

LEMMA JudgedByQueue ==
  ASSUME NEW d \in Docs, Tended(d), NEW u \in Versions, OpenJob(d, u),
         record'[d] = record[d], fate'[d] = fate[d], announced' = announced,
         \A v \in Versions \ {u} : jobs'[<<d, v>>] = jobs[<<d, v>>],
         scenario' = scenario,
         jobs'[<<d, u>>].state = "completed" => Terminal(record[d]),
         Exhausted(<<d, u>>)' /\ Served => Terminal(record[d]),
         OpenJob(d, u)' /\ jobs'[<<d, u>>].tries > 0 /\ Served => record[d].status # "pending"
  PROVE  \A v \in Versions : Judged(d, v)'
<1>1. ASSUME NEW v \in Versions
      PROVE  Judged(d, v)'
  <2>1. Judged(d, v) /\ (Terminal(record[d])' <=> Terminal(record[d])) /\ (Served' <=> Served)
    BY DEF Tended, Terminal, Served
  <2>2. CASE v = u
    <3>1. jobs[<<d, v>>].state # "none" /\ record[d].version = v
      BY <2>1, <2>2 DEF OpenJob, Judged
    <3>2. QED
      BY <2>1, <2>2, <3>1 DEF Judged
  <2>3. CASE v # u
    <3>1. jobs'[<<d, v>>] = jobs[<<d, v>>]
      BY <2>3
    <3>2. QED
      BY <2>1, <3>1 DEF Judged, OpenJob, Exhausted
  <2>4. QED
    BY <2>2, <2>3
<1>2. QED
  BY <1>1

LEMMA WorkerLeaves ==
  ASSUME General, NEW d \in Docs, Tended(d), NEW w \in Workers, Doc(w) = d,
         Only(w, d), actor'[w] = Idle,
         UNCHANGED <<record, text, points, announced, fate>>,
         \A k \in Jobs \ {Job(w)} : jobs'[k] = jobs[k],
         jobs'[Job(w)].state = "completed" => Terminal(record[d]),
         jobs'[Job(w)].state = "failed" /\ jobs'[Job(w)].tries = Attempts /\ Served =>
           Terminal(record[d]),
         jobs'[Job(w)].state = "waiting" /\ jobs'[Job(w)].tries > 0 /\ Served =>
           record[d].status # "pending",
         jobs'[Job(w)].state # "active"
  PROVE  Tended(d)'
<1>1. w \in Actors /\ w \notin Requests /\ uploads' = uploads /\ scenario' = scenario
  BY ConstantFacts DEF Actors, Only
<1>2. /\ \A r \in Requests : Doc(r) # d
      /\ \A u \in Workers \ {w} : Doc(u) # d
      /\ fate[d] # "erased"
      /\ OpenJob(d, actor[w].job) /\ actor[w].job \in Versions
      /\ \A v \in Versions : OpenJob(d, v) => v = actor[w].job
      /\ Job(w) = <<d, actor[w].job>>
  BY WorkerAlone
<1>3. Doc(w)' # d
  BY ConstantFacts DEF Doc, Idle
<1>4. /\ \A r \in Requests : Doc(r)' # d
      /\ \A u \in Workers : Doc(u)' # d
  BY <1>1, <1>2, <1>3 DEF Only, Doc, Actors
<1>5. \A v \in Versions \ {actor[w].job} : jobs'[<<d, v>>] = jobs[<<d, v>>]
  BY <1>2 DEF Jobs
<1>6. \A v \in Versions : Judged(d, v)'
  BY <1>1, <1>2, <1>5, JudgedByQueue DEF OpenJob, Exhausted
<1>7. \A v \in Versions : OpenJob(d, v)' => v = actor[w].job
  BY <1>2, <1>5 DEF OpenJob
<1>8. Owned(d)'
  BY <1>4, <1>7 DEF Owned
<1>9. Found(d)' /\ Stays(d)' /\ Gone(d)'
  BY <1>1, <1>2, IndexAlike DEF Gone
<1>10. QED
  BY <1>4, <1>6, <1>8, <1>9 DEF Tended

LEMMA LeavingTended ==
  ASSUME General, NEW d \in Docs, Tended(d), NEW w \in Workers, Doc(w) = d,
         Return(w) \/ Throw(w) \/ WorkerDies(w)
  PROVE  Tended(d)'
<1>1. /\ Knows(w, d) /\ actor[w].job \in Versions /\ Job(w) = <<d, actor[w].job>> /\ Job(w) \in Jobs
      /\ OpenJob(d, actor[w].job)
  BY WorkerAlone
<1>2. jobs[Job(w)].tries \in Nat
  BY <1>1, JobAsItIs, ConstantFacts
<1>3. CASE Return(w)
  <2>1. /\ Only(w, d) /\ actor[w].pc = "return"
        /\ UNCHANGED <<record, text, points, announced, fate>>
        /\ actor'[w] = Idle /\ jobs'[Job(w)].state = "completed"
        /\ \A k \in Jobs \ {Job(w)} : jobs'[k] = jobs[k]
    BY <1>3, ReturnStep
  <2>2. Terminal(record[d])
    BY <1>1, <2>1 DEF Knows
  <2>3. QED
    BY <2>1, <2>2, WorkerLeaves
<1>4. CASE Throw(w)
  <2>1. /\ Only(w, d) /\ actor[w].pc = "throw"
        /\ UNCHANGED <<record, text, points, announced, fate>>
        /\ actor'[w] = Idle
        /\ jobs'[Job(w)].state \in {"waiting", "failed"}
        /\ jobs'[Job(w)].state = "failed" => jobs[Job(w)].tries > 0
        /\ \A k \in Jobs \ {Job(w)} : jobs'[k] = jobs[k]
    BY <1>4, ThrowStep
  <2>2. Served => /\ record[d].status # "pending"
                  /\ jobs[Job(w)].tries = 0 \/ Terminal(record[d])
    BY <1>1, <2>1 DEF Knows
  <2>3. jobs'[Job(w)].state = "failed" /\ Served => Terminal(record[d])
    BY <1>2, <2>1, <2>2
  <2>4. QED
    BY <2>1, <2>2, <2>3, WorkerLeaves
<1>5. CASE WorkerDies(w)
  <2>1. /\ Only(w, d)
        /\ UNCHANGED <<record, text, points, announced, fate>>
        /\ actor'[w] = Idle
        /\ jobs'[Job(w)].state \in {"waiting", "failed"}
        /\ jobs'[Job(w)].tries = jobs[Job(w)].tries /\ jobs[Job(w)].tries < Attempts
        /\ \A k \in Jobs \ {Job(w)} : jobs'[k] = jobs[k]
    BY <1>5, WorkerDiesStep
  <2>2. jobs[Job(w)].tries > 0 /\ Served => record[d].status # "pending"
    BY <1>1 DEF Tended, Judged
  <2>3. jobs'[Job(w)].tries # Attempts
    BY <1>2, <2>1, ConstantFacts
  <2>4. QED
    BY <2>1, <2>2, <2>3, WorkerLeaves
<1>6. QED
  BY <1>3, <1>4, <1>5

LEMMA TakeTended ==
  ASSUME General, NEW w \in Workers, NEW k \in Jobs, Take(w, k), Tended(k[1])
  PROVE  Tended(k[1])'
<1> DEFINE d == k[1]
           v == k[2]
<1>1. /\ Only(w, d) /\ actor[w] = Idle /\ k = <<d, v>> /\ d \in Docs /\ v \in Versions
      /\ UNCHANGED <<record, text, points, announced, fate>>
      /\ actor'[w].pc = "find" /\ Doc(w)' = d /\ actor'[w].job = v
      /\ jobs[k].state = "waiting" /\ jobs'[k].state = "active"
      /\ jobs'[k].tries = jobs[k].tries
      /\ \A l \in Jobs \ {k} : jobs'[l] = jobs[l]
  BY TakeStep DEF Jobs
<1> HIDE DEF d, v
<1>2. Tended(d) /\ OpenJob(d, v)
  BY <1>1 DEF d, OpenJob
<1>3. w \in Actors /\ w \notin Requests /\ uploads' = uploads /\ scenario' = scenario
  BY <1>1, ConstantFacts DEF Actors, Only
<1>4. \A u \in Versions \ {v} : jobs'[<<d, u>>] = jobs[<<d, u>>]
  BY <1>1 DEF Jobs
<1>5. \A u \in Versions : OpenJob(d, u)' <=> OpenJob(d, u)
  BY <1>1, <1>2, <1>4 DEF OpenJob
<1>6. \A r \in Requests : Doc(r) # d
  BY <1>1, <1>2 DEF Tended, Owned
<1>7. \A r \in Requests : Doc(r)' # d
  BY <1>1, <1>3, <1>6 DEF Only, Doc, Actors
<1>8. Owned(d)'
  BY <1>2, <1>5, <1>7 DEF Tended, Owned
<1>9. \A u \in Workers : Doc(u) # d
  <2>1. SUFFICES ASSUME NEW u \in Workers, Doc(u) = d
                 PROVE  FALSE
    OBVIOUS
  <2>2. OpenJob(d, actor[u].job) /\ jobs[Job(u)].state = "active" /\ Job(u) = <<d, actor[u].job>>
        /\ actor[u].job \in Versions
    BY <1>1, <1>2, <2>1, WorkerAlone
  <2>3. actor[u].job = v
    BY <1>1, <1>2, <2>2 DEF Tended, Owned
  <2>4. QED
    BY <1>1, <2>2, <2>3
<1>10. \A u \in Workers \ {w} : Doc(u)' # d
  BY <1>1, <1>3, <1>9 DEF Only, Doc, Actors
<1>11. Served /\ jobs[k].tries > 0 => record[d].status # "pending"
  BY <1>1, <1>2 DEF Tended, Judged
<1>12. \A u \in Versions : Judged(d, u)'
  BY <1>1, <1>2, <1>3, <1>4, <1>11, JudgedByQueue DEF Exhausted
<1>13. Knows(w, d)'
  BY <1>1 DEF Knows, Busy, Parsed, Written, Indexed
<1>14. Found(d)' /\ Stays(d)'
  BY <1>1, <1>2, <1>3, IndexAlike
<1>15. Gone(d)'
  <2>1. fate[d] # "erased"
    BY <1>1, <1>2 DEF Tended, Gone, Quiet, Open, OpenJob
  <2>2. QED
    BY <1>1, <2>1 DEF Gone
<1>16. Tended(d)'
  BY <1>7, <1>8, <1>10, <1>12, <1>13, <1>14, <1>15 DEF Tended
<1>17. QED
  BY <1>16 DEF d

-----------------------------------------------------------------------------
\* The owner of a document: a request, or one that finds it quiet

LEMMA RequestAlone ==
  ASSUME General, NEW d \in Docs, Tended(d), NEW r \in Requests, Doc(r) = d \/ Quiet(d)
  PROVE  /\ r \in Actors /\ r \notin Workers
         /\ Doc(r) = d => /\ Asks(r, d) /\ actor[r] # Idle /\ record[d] # Absent
                          /\ fate[d] # "erased"
         /\ \A v \in Versions : ~OpenJob(d, v)
         /\ \A q \in Requests \ {r} : Doc(q) # d
         /\ \A w \in Workers : Doc(w) # d
<1>1. r \in Actors /\ r \notin Workers
  BY ConstantFacts DEF Actors
<1>2. Doc(r) = d => Asks(r, d) /\ actor[r] # Idle
  BY ConstantFacts DEF Tended, Doc, Idle
<1>3. Doc(r) = d => record[d] # Absent /\ fate[d] # "erased"
  BY <1>2 DEF Asks, Tended, Gone
<1>4. \A v \in Versions : ~OpenJob(d, v)
  BY DEF Tended, Owned, Quiet, Open, OpenJob
<1>5. \A q \in Requests \ {r} : Doc(q) # d
  BY DEF Tended, Owned, Quiet
<1>6. \A w \in Workers : Doc(w) # d
  BY <1>4, WorkerAlone
<1>7. QED
  BY <1>1, <1>2, <1>3, <1>4, <1>5, <1>6

LEMMA RequestKeeps ==
  ASSUME General, NEW d \in Docs, Tended(d), NEW r \in Requests, Doc(r) = d \/ Quiet(d),
         Only(r, d), actor'[r] = Idle \/ Doc(r)' = d,
         \/ jobs' = jobs
         \/ /\ actor'[r] = Idle
            /\ \E u \in Versions : \A v \in Versions : OpenJob(d, v)' => v = u,
         \A v \in Versions : Judged(d, v)',
         Doc(r)' = d => Asks(r, d)',
         Found(d)', Stays(d)', Gone(d)'
  PROVE  Tended(d)'
<1>1. /\ r \in Actors /\ r \notin Workers
      /\ \A v \in Versions : ~OpenJob(d, v)
      /\ \A q \in Requests \ {r} : Doc(q) # d
      /\ \A w \in Workers : Doc(w) # d
  BY RequestAlone
<1>2. /\ \A q \in Requests \ {r} : Doc(q)' # d
      /\ \A w \in Workers : Doc(w)' # d
  BY <1>1 DEF Only, Doc, Actors
<1>3. actor'[r] = Idle => Doc(r)' # d
  BY ConstantFacts DEF Doc, Idle
<1>4. jobs' = jobs => \A v \in Versions : ~OpenJob(d, v)'
  BY <1>1 DEF OpenJob
<1>5. Owned(d)'
  BY <1>2, <1>3, <1>4 DEF Owned
<1>6. QED
  BY <1>2, <1>5 DEF Tended

\* A request that leaves everything but itself as it is.
LEMMA RequestRests ==
  ASSUME General, NEW d \in Docs, Tended(d), NEW r \in Requests, Doc(r) = d \/ Quiet(d),
         record[d] # Absent,
         Only(r, d), actor'[r] = Idle \/ Doc(r)' = d,
         UNCHANGED <<record, text, points, jobs, announced, fate>>,
         Doc(r)' = d => Asks(r, d)'
  PROVE  Tended(d)'
<1>1. uploads' = uploads
  BY DEF Only
<1>2. (\A v \in Versions : Judged(d, v)') /\ Found(d)' /\ Stays(d)'
  BY <1>1, JudgedAlike, IndexAlike
<1>3. Gone(d)'
  BY DEF Tended, Gone
<1>4. QED
  BY <1>2, <1>3, RequestKeeps

LEMMA ConfirmTended ==
  ASSUME General, NEW d \in Docs, Tended(d), NEW r \in Requests, Confirm(r, d), scenario.patient
  PROVE  Tended(d)'
<1>1. /\ Only(r, d) /\ record[d] # Absent
      /\ actor'[r].pc = "stat" /\ Doc(r)' = d /\ Copy(r)' = record[d]
      /\ UNCHANGED <<record, text, points, jobs, announced, fate>>
      /\ Quiet(d)
  BY ConfirmStep
<1>2. Asks(r, d)'
  BY <1>1 DEF Asks, DeleteSteps
<1>3. QED
  BY <1>1, <1>2, RequestRests

LEMMA StatTended ==
  ASSUME General, NEW d \in Docs, Tended(d), NEW r \in Requests, Doc(r) = d,
         Stat(r) \/ RequestDies(r)
  PROVE  Tended(d)'
<1>1. /\ Only(r, d) /\ UNCHANGED <<record, text, points, jobs, announced, fate>>
      /\ \/ actor'[r] = Idle
         \/ /\ actor[r].pc = "stat" /\ actor'[r].pc = "confirm" /\ Doc(r)' = d
            /\ Copy(r)' = IF Terminal(Copy(r)) THEN StartReingestion(Copy(r)) ELSE Copy(r)
  BY StatStep, RequestDiesStep
<1>2. Asks(r, d) /\ record[d] # Absent /\ actor[r] # Idle
  BY RequestAlone
<1>3. Doc(r)' = d => Asks(r, d)'
  <2>1. SUFFICES ASSUME Doc(r)' = d
                 PROVE  Asks(r, d)'
    OBVIOUS
  <2>2. /\ actor[r].pc = "stat" /\ actor'[r].pc = "confirm"
        /\ Copy(r)' = IF Terminal(Copy(r)) THEN StartReingestion(Copy(r)) ELSE Copy(r)
    BY <1>1, <2>1, ConstantFacts DEF Doc, Idle
  <2>3. Copy(r) = record[d] /\ record[d] \in Documents
    BY <1>2, <2>2 DEF Asks, General, Types
  <2>4. /\ ~Terminal(Copy(r)')
        /\ Copy(r)' = record[d] \/ (Terminal(record[d]) /\ Copy(r)' = StartReingestion(record[d]))
    <3>1. ~Terminal(StartReingestion(record[d]))
      BY <2>3, DocumentsAre DEF StartReingestion, Terminal
    <3>2. QED
      BY <2>2, <2>3, <3>1
  <2>5. QED
    BY <1>1, <1>2, <2>2, <2>4 DEF Asks, Terminal, StartReingestion, DeleteSteps
<1>4. QED
  BY <1>1, <1>2, <1>3, RequestRests

LEMMA SaveConfirmedTended ==
  ASSUME General, NEW d \in Docs, Tended(d), NEW r \in Requests, Doc(r) = d, SaveConfirmed(r)
  PROVE  Tended(d)'
<1>1. /\ Only(r, d) /\ actor[r].pc = "confirm"
      /\ UNCHANGED <<text, points, jobs, announced, fate>>
      /\ \/ actor'[r] = Idle /\ record' = record
         \/ /\ actor'[r].pc = "enqueue" /\ Doc(r)' = d /\ Copy(r)' = Copy(r)
            /\ record'[d] = Copy(r)
  BY SaveConfirmedStep
<1>2. /\ Asks(r, d) /\ record[d] # Absent /\ actor[r] # Idle /\ fate[d] # "erased"
      /\ \A v \in Versions : ~OpenJob(d, v)
  BY RequestAlone
<1>3. CASE actor'[r] = Idle /\ record' = record
  <2>1. Doc(r)' # d
    BY <1>3, ConstantFacts DEF Doc, Idle
  <2>2. QED
    BY <1>1, <1>2, <1>3, <2>1, RequestRests
<1>4. CASE /\ actor'[r].pc = "enqueue" /\ Doc(r)' = d /\ Copy(r)' = Copy(r)
           /\ record'[d] = Copy(r)
  <2>1. /\ ~Terminal(Copy(r)) /\ Present(Copy(r))
        /\ \/ Copy(r) = record[d]
           \/ Terminal(record[d]) /\ Copy(r) = StartReingestion(record[d])
    BY <1>1, <1>2, RequestFacts DEF Asks, Asking
  <2>2. record[d] \in Documents /\ record[d].version \in Int
    BY DocumentsAre, ConstantFacts DEF General, Types
  <2>3. ASSUME NEW v \in Versions
        PROVE  Judged(d, v)'
    <3>1. Judged(d, v) /\ v \in Int
      BY ConstantFacts DEF Tended
    <3>2. CASE Copy(r) = record[d]
      BY <1>1, <1>4, <3>2, JudgedAlike
    <3>3. CASE Copy(r) = StartReingestion(record[d])
      <4>1. record'[d].version = record[d].version + 1
        BY <1>4, <2>2, <3>3, DocumentsAre DEF StartReingestion
      <4>2. /\ announced'[<<d, v>>] = announced[<<d, v>>] /\ jobs'[<<d, v>>] = jobs[<<d, v>>]
            /\ ~OpenJob(d, v)'
        BY <1>1, <1>2 DEF OpenJob
      <4>3. announced[<<d, v>>] > 0 \/ jobs[<<d, v>>].state # "none" => v <= record[d].version
        <5>1. record[d] # Absent
          BY <1>2
        <5>2. QED
          BY <3>1, <5>1 DEF Judged
      <4>4. announced'[<<d, v>>] > 0 \/ jobs'[<<d, v>>].state # "none" =>
              v <= record'[d].version /\ record'[d].version # v
        BY <2>2, <3>1, <4>1, <4>2, <4>3
      <4>5. QED
        BY <3>1, <4>2, <4>4 DEF Judged, Exhausted
    <3>4. QED
      BY <2>1, <3>2, <3>3
  <2>4. Found(d)'
    BY <1>4, <2>1, StillInThePipeline DEF Terminal
  <2>5. Stays(d)' /\ Gone(d)'
    BY <1>1, <1>2, StaysAlike DEF Gone, Only
  <2>6. record'[d] # Absent
    BY <1>4, <2>1, ConstantFacts DEF Present, Absent
  <2>7. Asks(r, d)'
    BY <1>4, <2>6 DEF Asks, DeleteSteps
  <2>8. QED
    BY <1>1, <1>4, <2>3, <2>4, <2>5, <2>7, RequestKeeps
<1>5. QED
  BY <1>1, <1>3, <1>4

LEMMA EnqueueTended ==
  ASSUME General, NEW d \in Docs, Tended(d), NEW r \in Requests, Doc(r) = d, Enqueue(r)
  PROVE  Tended(d)'
<1> DEFINE u == Copy(r).version
<1>1. /\ Only(r, d) /\ actor[r].pc = "enqueue"
      /\ UNCHANGED <<record, object, text, points, crashes, announced, fate>>
      /\ actor'[r] = Idle
      /\ <<d, u>> \in Jobs
      /\ \A k \in Jobs :
           \/ jobs'[k] = jobs[k]
           \/ /\ k = <<d, u>> /\ jobs[k].state = "none"
              /\ jobs'[k].state = "waiting" /\ jobs'[k].tries = jobs[k].tries
  BY EnqueueStep
<1>2. /\ Asks(r, d) /\ record[d] # Absent /\ fate[d] # "erased"
      /\ \A v \in Versions : ~OpenJob(d, v)
  BY RequestAlone
<1>3. u = record[d].version /\ u \in Versions
  BY <1>1, <1>2 DEF Asks, Jobs
<1> HIDE DEF u
<1>4. \A v \in Versions \ {u} : jobs'[<<d, v>>] = jobs[<<d, v>>]
  BY <1>1 DEF Jobs
<1>5. \A v \in Versions : OpenJob(d, v)' => v = u
  BY <1>2, <1>4 DEF OpenJob
<1>6. ASSUME NEW v \in Versions
      PROVE  Judged(d, v)'
  <2>1. /\ Judged(d, v) /\ v \in Int /\ (Terminal(record[d])' <=> Terminal(record[d]))
        /\ announced'[<<d, v>>] = announced[<<d, v>>] /\ record'[d] = record[d] /\ fate'[d] = fate[d]
        /\ Served' <=> Served
    BY <1>1, ConstantFacts DEF Tended, Terminal, Only, Served
  <2>2. CASE jobs'[<<d, v>>] = jobs[<<d, v>>]
    BY <2>1, <2>2 DEF Judged, OpenJob, Exhausted
  <2>3. CASE /\ v = u /\ jobs[<<d, v>>].state = "none"
             /\ jobs'[<<d, v>>].state = "waiting" /\ jobs'[<<d, v>>].tries = jobs[<<d, v>>].tries
    <3>1. jobs[<<d, v>>].tries = 0
      BY <1>1, <2>3 DEF General, JobOK
    <3>2. v = record[d].version
      BY <1>3, <2>3
    <3>3. QED
      BY <2>1, <2>3, <3>1, <3>2 DEF Judged, Exhausted
  <2>4. QED
    BY <1>1, <1>4, <2>2, <2>3
<1>7. Found(d)' /\ Stays(d)' /\ Gone(d)' /\ Doc(r)' # d
  BY <1>1, <1>2, IndexAlike, ConstantFacts DEF Gone, Only, Doc, Idle
<1>8. QED
  BY <1>1, <1>3, <1>5, <1>6, <1>7, RequestKeeps

LEMMA DeleteTended ==
  ASSUME General, NEW d \in Docs, Tended(d), NEW r \in Requests, Delete(r, d), scenario.patient
  PROVE  Tended(d)'
<1>1. /\ Only(r, d) /\ record[d] # Absent
      /\ actor'[r].pc = "delete_points" /\ Doc(r)' = d
      /\ UNCHANGED <<record, text, points, jobs, announced>>
      /\ fate'[d] = fate[d] \/ (fate[d] = "live" /\ fate'[d] = "doomed")
      /\ fate'[d] # "live"
      /\ Quiet(d)
  BY DeleteStep
<1>2. \A v \in Versions : Judged(d, v)'
  <2>1. \A v \in Versions : Judged(d, v) /\ (OpenJob(d, v)' <=> OpenJob(d, v))
    BY <1>1 DEF Tended, OpenJob
  <2>2. (Terminal(record[d])' <=> Terminal(record[d])) /\ (Served' <=> Served)
    BY <1>1 DEF Terminal, Only, Served
  <2>3. QED
    BY <1>1, <2>1, <2>2 DEF Judged, Exhausted
<1>3. Asks(r, d)'
  BY <1>1 DEF Asks, DeleteSteps
<1>4. Found(d)' /\ Stays(d)'
  BY <1>1 DEF Tended, Found, Stays
<1>5. Gone(d)'
  BY <1>1 DEF Tended, Gone
<1>6. QED
  BY <1>1, <1>2, <1>3, <1>4, <1>5, RequestKeeps

LEMMA DeletingTended ==
  ASSUME General, NEW d \in Docs, Tended(d), NEW r \in Requests, Doc(r) = d,
         DeletePoints(r) \/ DeleteText(r) \/ DeleteObject(r)
  PROVE  Tended(d)'
<1>1. /\ Only(r, d) /\ UNCHANGED <<record, jobs, announced, fate>> /\ Doc(r)' = d
      /\ \/ /\ actor[r].pc = "delete_points" /\ actor'[r].pc = "delete_text"
            /\ \A c \in Contents : points'[c].doc # d
         \/ /\ actor[r].pc = "delete_text" /\ actor'[r].pc = "delete_object"
            /\ points' = points /\ \A t \in text' : t.doc # d
         \/ /\ actor[r].pc = "delete_object" /\ actor'[r].pc = "delete_record"
            /\ text' = text /\ points' = points
  BY DeletePointsStep, DeleteTextStep, DeleteObjectStep
<1>2. Asks(r, d) /\ record[d] # Absent /\ fate[d] # "erased"
  BY RequestAlone
<1>3. fate[d] # "live"
  BY <1>1, <1>2 DEF Asks, DeleteSteps
<1>4. Asks(r, d)'
  <2>1. record'[d] = record[d] /\ fate'[d] = fate[d]
    BY <1>1
  <2>2. CASE /\ actor[r].pc = "delete_points" /\ actor'[r].pc = "delete_text"
             /\ \A c \in Contents : points'[c].doc # d
    BY <1>2, <1>3, <2>1, <2>2 DEF Asks, DeleteSteps
  <2>3. CASE /\ actor[r].pc = "delete_text" /\ actor'[r].pc = "delete_object"
             /\ points' = points /\ \A t \in text' : t.doc # d
    BY <1>2, <1>3, <2>1, <2>3 DEF Asks, DeleteSteps
  <2>4. CASE /\ actor[r].pc = "delete_object" /\ actor'[r].pc = "delete_record"
             /\ text' = text /\ points' = points
    BY <1>2, <1>3, <2>1, <2>4 DEF Asks, DeleteSteps
  <2>5. QED
    BY <1>1, <2>2, <2>3, <2>4
<1>5. Found(d)' /\ Stays(d)' /\ Gone(d)'
  BY <1>1, <1>2, <1>3 DEF Tended, Found, Stays, Gone
<1>6. QED
  BY <1>1, <1>4, <1>5, JudgedAlike, RequestKeeps

LEMMA DeleteRecordTended ==
  ASSUME General, General', NEW d \in Docs, Tended(d), NEW r \in Requests, Doc(r) = d,
         DeleteRecord(r)
  PROVE  Tended(d)'
<1>1. /\ Only(r, d) /\ actor[r].pc = "delete_record"
      /\ UNCHANGED <<text, points, jobs, announced>>
      /\ actor'[r] = Idle /\ record'[d] = Absent /\ fate'[d] = "erased"
  BY DeleteRecordStep
<1>2. /\ Asks(r, d) /\ r \in Actors /\ r \notin Workers
      /\ \A v \in Versions : ~OpenJob(d, v)
      /\ \A q \in Requests \ {r} : Doc(q) # d
  BY RequestAlone
<1>3. Unindexed(d)
  BY <1>1, <1>2 DEF Asks, DeleteSteps, Unindexed
<1>4. \A v \in Versions : record'[d].version # v /\ ~OpenJob(d, v)'
  BY <1>1, <1>2, ConstantFacts DEF Absent, OpenJob
<1>5. \A v \in Versions : Judged(d, v)'
  BY <1>1, <1>4 DEF Tended, Judged
<1>6. Doc(r)' # d
  BY <1>1, ConstantFacts DEF Doc, Idle
<1>7. \A q \in Requests : Doc(q)' # d
  BY <1>1, <1>2, <1>6 DEF Only, Doc, Actors
<1>8. Gone(d)'
  BY <1>1, <1>3, <1>4, <1>7 DEF Gone, Unindexed, Quiet, Open, OpenJob
<1>9. Found(d)' /\ Stays(d)'
  BY <1>1 DEF Found, Stays, Absent
<1>10. QED
  BY <1>1, <1>5, <1>6, <1>8, <1>9, RequestKeeps

-----------------------------------------------------------------------------
\* Documents come into being

LEMMA RegisterTended ==
  ASSUME General, General', NEW d \in Docs, Register(d), \A e \in Docs : Tended(e), NEW e \in Docs
  PROVE  Tended(e)'
<1>1. /\ record[d] = Absent /\ fate[d] = "live"
      /\ record'[d].version = 1 /\ record'[d].status = "pending"
      /\ \A f \in Docs \ {d} : record'[f] = record[f]
      /\ UNCHANGED <<scenario, object, text, points, jobs, actor, crashes, announced, uploads, fate>>
  BY RegisterStep
<1>2. CASE e # d
  BY <1>1, <1>2, UntouchedStays DEF Untouched
<1>3. CASE e = d
  <2>1. /\ Tended(d)
        /\ \A r \in Requests : Doc(r) # d
        /\ \A w \in Workers : Doc(w) # d
    BY <1>1, WorkerAlone DEF Tended, Asks
  <2>2. ASSUME NEW v \in Versions
        PROVE  /\ ~(announced[<<d, v>>] > 0) /\ jobs[<<d, v>>].state = "none"
               /\ announced[<<d, v>>] <= 1
    <3>1. Judged(d, v) /\ v \in Int /\ v > 0 /\ record[d].version = 0
      BY <1>1, <2>1, ConstantFacts DEF Tended, Absent
    <3>2. QED
      BY <1>1, <3>1 DEF Judged
  <2>3. \A v \in Versions : Judged(d, v)' /\ ~OpenJob(d, v)'
    BY <1>1, <2>2 DEF Judged, OpenJob, Exhausted
  <2>4. (\A r \in Requests : Doc(r)' # d) /\ (\A w \in Workers : Doc(w)' # d)
    BY <1>1, <2>1 DEF Doc
  <2>5. Owned(d)'
    BY <2>3, <2>4 DEF Owned
  <2>6. Found(d)' /\ Stays(d)' /\ Gone(d)'
    BY <1>1, <2>1, StillInThePipeline, StaysAlike DEF Gone
  <2>7. QED
    BY <1>3, <2>3, <2>4, <2>5, <2>6 DEF Tended
<1>4. QED
  BY <1>2, <1>3

LEMMA UploadTended ==
  ASSUME General, General', NEW d \in Docs, NEW c \in Contents, Upload(d, c),
         NEW e \in Docs, Tended(e)
  PROVE  Tended(e)'
<1>1. /\ UNCHANGED <<scenario, record, text, points, jobs, actor, crashes, announced, fate>>
      /\ \A f \in Docs : uploads[f] \subseteq uploads'[f]
  BY UploadStep
<1>2. Untouched(e)
  BY <1>1 DEF Untouched
<1>3. QED
  BY <1>2, UntouchedStays

LEMMA TendedStarts == Init => \A d \in Docs : Tended(d)
<1>1. SUFFICES ASSUME Init, NEW d \in Docs
               PROVE  Tended(d)
  OBVIOUS
<1>2. /\ record[d] = Absent /\ fate[d] = "live"
      /\ \A v \in Versions : jobs[<<d, v>>].state = "none" /\ announced[<<d, v>>] = 0
      /\ \A r \in Requests : Doc(r) # d
      /\ \A w \in Workers : Doc(w) # d
  BY <1>1, ConstantFacts DEF Init, Doc, Idle
<1>3. Owned(d) /\ \A v \in Versions : Judged(d, v)
  BY <1>2 DEF Owned, Judged, OpenJob, Exhausted
<1>4. record[d].status # "ingested" /\ ~WasIngested(d)
  <2>1. Absent.status = "absent"
    BY DEF Absent
  <2>2. \A v \in Versions : ~(announced[<<d, v>>] > 0)
    BY <1>2
  <2>3. QED
    BY <1>2, <2>1, <2>2 DEF WasIngested
<1>5. Found(d) /\ Stays(d) /\ Gone(d)
  BY <1>2, <1>4 DEF Found, Stays, Gone
<1>6. QED
  BY <1>2, <1>3, <1>5 DEF Tended

-----------------------------------------------------------------------------
\* Every step

\* A step of an actor on its document disturbs no other.
LEMMA OneAtATime ==
  ASSUME IngestionInv, General', NEW a \in Actors, NEW d \in Docs, Only(a, d),
         actor[a] = Idle \/ Doc(a) = d, actor'[a] = Idle \/ Doc(a)' = d,
         scenario.patient => Tended(d)'
  PROVE  IngestionInv'
<1>1. General /\ scenario' = scenario
  BY DEF IngestionInv, Only
<1>2. ASSUME scenario.patient, NEW e \in Docs
      PROVE  Tended(e)'
  <2>1. CASE e = d
    BY <1>2, <2>1
  <2>2. CASE e # d
    <3>1. Untouched(e)
      BY <1>1, <2>2, UntouchedByOthers
    <3>2. Tended(e)
      BY <1>2 DEF IngestionInv
    <3>3. QED
      BY <1>1, <3>1, <3>2, UntouchedStays
  <2>3. QED
    BY <2>1, <2>2
<1>3. QED
  BY <1>1, <1>2 DEF IngestionInv

LEMMA ArrivalHolds ==
  ASSUME IngestionInv, NEW r \in Requests, NEW d \in Docs, Confirm(r, d) \/ Delete(r, d)
  PROVE  IngestionInv'
<1>1. General /\ r \in Actors
  BY DEF IngestionInv, Actors
<1>2. General' /\ Only(r, d) /\ actor[r] = Idle /\ Doc(r)' = d
  BY <1>1, ConfirmStep, DeleteStep
<1>3. scenario.patient => Tended(d)'
  BY <1>1, ConfirmTended, DeleteTended DEF IngestionInv
<1>4. QED
  BY <1>1, <1>2, <1>3, OneAtATime

LEMMA ServeStep ==
  ASSUME General, NEW r \in Requests, Serve(r) \/ RequestDies(r)
  PROVE  /\ General' /\ Only(r, Doc(r)) /\ Doc(r) \in Docs
         /\ actor'[r] = Idle \/ Doc(r)' = Doc(r)
<1>1. General' /\ Only(r, Doc(r)) /\ actor[r] # Idle /\ (actor'[r] = Idle \/ Doc(r)' = Doc(r))
  BY StatStep, SaveConfirmedStep, EnqueueStep, DeletePointsStep, DeleteTextStep,
     DeleteObjectStep, DeleteRecordStep, RequestDiesStep DEF Serve
<1>2. QED
  BY <1>1, IdleFacts DEF Actors

LEMMA ServingHolds ==
  ASSUME IngestionInv, NEW r \in Requests, Serve(r) \/ RequestDies(r)
  PROVE  IngestionInv'
<1>1. General /\ r \in Actors
  BY DEF IngestionInv, Actors
<1>2. PICK d \in Docs : Doc(r) = d
  BY <1>1, ServeStep
<1>3. General' /\ Only(r, d) /\ (actor'[r] = Idle \/ Doc(r)' = d)
  BY <1>1, <1>2, ServeStep
<1>4. scenario.patient => Tended(d)'
  <2>1. SUFFICES ASSUME scenario.patient
                 PROVE  Tended(d)'
    OBVIOUS
  <2>2. Tended(d)
    BY <2>1 DEF IngestionInv
  <2>3. QED
    BY <1>1, <1>2, <1>3, <2>2, StatTended, SaveConfirmedTended, EnqueueTended, DeletingTended,
       DeleteRecordTended DEF Serve
<1>5. QED
  BY <1>1, <1>2, <1>3, <1>4, OneAtATime

LEMMA TakingHolds ==
  ASSUME IngestionInv, NEW w \in Workers, NEW k \in Jobs, Take(w, k)
  PROVE  IngestionInv'
<1>1. General /\ w \in Actors /\ k[1] \in Docs
  BY DEF IngestionInv, Actors, Jobs
<1>2. General' /\ Only(w, k[1]) /\ actor[w] = Idle /\ Doc(w)' = k[1]
  BY <1>1, TakeStep
<1>3. scenario.patient => Tended(k[1])'
  BY <1>1, TakeTended DEF IngestionInv
<1>4. QED
  BY <1>1, <1>2, <1>3, OneAtATime

Stages ==
  {<<"parsing", "parse">>, <<"chunking", "embedding">>, <<"embedding", "indexing">>,
   <<"indexing", "text">>}

LEMMA StagesAreSteps ==
  ASSUME NEW s \in Stages
  PROVE  /\ s[1] \in Underway /\ s[1] \in WorkSteps
         /\ s[2] \in Busy /\ s[2] \in {"parse", "embedding", "indexing", "text"}
         /\ s[2] \in Parsed => s[1] \in Parsed
         /\ s[1] # "parsing" => s[1] \in Busy
BY DEF Stages, Underway, WorkSteps, Busy, Parsed, Written, Indexed

\* What a worker does with its job, by what it changes.
Computes(w) ==
  Find(w) \/ Parse(w) \/ FindTwin(w) \/ Finish(w) \/ DependencyFails(w) \/ Catch(w)

Indexes(w) == WriteText(w) \/ DropText(w) \/ UpsertPoints(w) \/ DropOtherVersions(w)

Leaves(w) == Return(w) \/ Throw(w) \/ WorkerDies(w)

Advances(w) == \E s \in Stages : Advance(w, s[1], s[2])

LEMMA WorkStep ==
  ASSUME General, NEW w \in Workers, Computes(w) \/ Indexes(w) \/ Leaves(w) \/ Advances(w)
  PROVE  /\ General' /\ Only(w, Doc(w)) /\ Doc(w) \in Docs
         /\ actor'[w] = Idle \/ Doc(w)' = Doc(w)
<1>1. Computes(w) => General' /\ Only(w, Doc(w)) /\ actor[w] # Idle /\ Doc(w)' = Doc(w)
  BY FindStep, ParseStep, FindTwinStep, FinishStep, DependencyFailsStep, CatchStep DEF Computes
<1>2. Indexes(w) => General' /\ Only(w, Doc(w)) /\ actor[w] # Idle /\ Doc(w)' = Doc(w)
  BY WriteTextStep, DropTextStep, UpsertPointsStep, DropOtherVersionsStep DEF Indexes
<1>3. Leaves(w) => General' /\ Only(w, Doc(w)) /\ actor[w] # Idle /\ actor'[w] = Idle
  BY ReturnStep, ThrowStep, WorkerDiesStep DEF Leaves
<1>4. Advances(w) => General' /\ Only(w, Doc(w)) /\ actor[w] # Idle /\ Doc(w)' = Doc(w)
  BY StagesAreSteps, AdvanceStep DEF Advances
<1>5. QED
  BY <1>1, <1>2, <1>3, <1>4, IdleFacts DEF Actors

LEMMA WorkingHolds ==
  ASSUME IngestionInv, NEW w \in Workers, Computes(w) \/ Indexes(w) \/ Leaves(w) \/ Advances(w)
  PROVE  IngestionInv'
<1>1. General /\ w \in Actors
  BY DEF IngestionInv, Actors
<1>2. PICK d \in Docs : Doc(w) = d
  BY <1>1, WorkStep
<1>3. General' /\ Only(w, d) /\ (actor'[w] = Idle \/ Doc(w)' = d)
  BY <1>1, <1>2, WorkStep
<1>4. scenario.patient => Tended(d)'
  <2>1. SUFFICES ASSUME scenario.patient
                 PROVE  Tended(d)'
    OBVIOUS
  <2>2. Tended(d)
    BY <2>1 DEF IngestionInv
  <2>3. Computes(w) => Tended(d)'
    BY <1>1, <1>2, <2>2, CalmWorker, FinishTended, CatchTended DEF Computes
  <2>4. Indexes(w) => Tended(d)'
    BY <1>1, <1>2, <2>2, WriteTextTended, DropTextTended, UpsertPointsTended,
       DropOtherVersionsTended DEF Indexes
  <2>5. Leaves(w) => Tended(d)'
    BY <1>1, <1>2, <2>2, LeavingTended DEF Leaves
  <2>6. Advances(w) => Tended(d)'
    BY <1>1, <1>2, <2>2, StagesAreSteps, AdvanceTended DEF Advances
  <2>7. QED
    BY <2>3, <2>4, <2>5, <2>6
<1>5. QED
  BY <1>1, <1>2, <1>3, <1>4, OneAtATime

LEMMA CreationHolds ==
  ASSUME IngestionInv, NEW d \in Docs,
         Register(d) \/ \E c \in Contents : Upload(d, c)
  PROVE  IngestionInv'
<1>1. General
  BY DEF IngestionInv
<1>2. General' /\ scenario' = scenario
  BY <1>1, RegisterStep, UploadStep
<1>3. scenario.patient => \A e \in Docs : Tended(e)'
  BY <1>1, <1>2, RegisterTended, UploadTended DEF IngestionInv
<1>4. QED
  BY <1>2, <1>3 DEF IngestionInv

LEMMA IngestionInvStays ==
  ASSUME IngestionInv, [Next]_vars
  PROVE  IngestionInv'
<1>1. ASSUME NEW d \in Docs, Register(d) \/ \E c \in Contents : Upload(d, c)
      PROVE  IngestionInv'
  BY <1>1, CreationHolds
<1>2. ASSUME NEW r \in Requests, NEW d \in Docs, Confirm(r, d) \/ Delete(r, d)
      PROVE  IngestionInv'
  BY <1>2, ArrivalHolds
<1>3. ASSUME NEW r \in Requests, Serve(r) \/ RequestDies(r)
      PROVE  IngestionInv'
  BY <1>3, ServingHolds
<1>4. ASSUME NEW w \in Workers, Work(w)
      PROVE  IngestionInv'
  <2>1. \/ \E k \in Jobs : Take(w, k)
        \/ Computes(w) \/ Indexes(w) \/ Leaves(w) \/ Advances(w)
    BY <1>4 DEF Work, Jobs, Computes, Indexes, Leaves, Advances, Stages
  <2>2. QED
    BY <2>1, TakingHolds, WorkingHolds
<1>5. ASSUME NEW w \in Workers, WorkerDies(w)
      PROVE  IngestionInv'
  BY <1>5, WorkingHolds DEF Leaves
<1>6. CASE UNCHANGED vars
  <2>1. General' <=> General
    BY <1>6 DEF vars, stores, history, General, Types, RecordOK, PointOK, JobOK, Once, Working,
       Asking, Unique, Apart, Hashed, Doc, Copy, Job
  <2>2. \A d \in Docs : Untouched(d)
    BY <1>6 DEF vars, stores, history, Untouched
  <2>3. scenario' = scenario
    BY <1>6 DEF vars
  <2>4. QED
    BY <2>1, <2>2, <2>3, UntouchedStays DEF IngestionInv
<1>7. QED
  BY <1>1, <1>2, <1>3, <1>4, <1>5, <1>6 DEF Next

-----------------------------------------------------------------------------
\* The theorems

LEMMA IngestionStarts == Init => IngestionInv
BY GeneralStarts, TendedStarts DEF IngestionInv

\* The invariant the others follow from: what an actor holds (General) in every
\* scenario, and, where clients are patient, that a document has one owner at a
\* time, who alone changes it (Tended).
THEOREM IngestionHolds == Spec => []IngestionInv
<1>1. Init => IngestionInv
  BY IngestionStarts
<1>2. IngestionInv /\ [Next]_vars => IngestionInv'
  BY IngestionInvStays
<1>3. QED
  BY <1>1, <1>2, PTL DEF Spec

LEMMA TypesAreTypeOK ==
  ASSUME General
  PROVE  TypeOK
<1>1. \A k \in Docs \X Versions :
        /\ jobs[k].state \in {"none", "waiting", "active", "completed", "failed"}
        /\ jobs[k].tries \in 0 .. Attempts
  BY JobAsItIs DEF Jobs, JobStates
<1>2. \A a \in Workers \cup Requests : Copy(a) \in Documents
  BY DEF General, Types, Actors, ActorStates, Copy
<1>3. /\ record \in [Docs -> Documents]
      /\ object \in [Docs -> Contents \cup {None}]
      /\ text \subseteq [doc : Docs, version : Versions, content : Contents]
      /\ points \in [Contents -> [doc : Docs, version : Versions] \cup {NoPoint}]
  BY DEF General, Types
<1>4. \A d, e \in Docs : record[d].hash = record[e].hash => d = e \/ record[d].hash = None
  BY DEF General, Unique
<1>5. QED
  BY <1>1, <1>2, <1>3, <1>4 DEF TypeOK

LEMMA JobsAreSettled ==
  ASSUME IngestionInv
  PROVE  JobsSettle
<1>1. General
  BY DEF IngestionInv
<1>2. ASSUME NEW k \in Docs \X Versions, scenario.patient
      PROVE  /\ announced[k] <= 1
             /\ /\ jobs[k].state = "completed" \/ (Exhausted(k) /\ ~scenario.outages)
                /\ record[k[1]].version = k[2]
                => Terminal(record[k[1]])
  <2>1. k = <<k[1], k[2]>> /\ k[1] \in Docs /\ k[2] \in Versions
    OBVIOUS
  <2>2. Judged(k[1], k[2])
    BY <1>2, <2>1 DEF IngestionInv, Tended
  <2>3. QED
    BY <2>1, <2>2 DEF Judged, Served
<1>3. ASSUME NEW k \in Docs \X Versions, crashes = 0
      PROVE  announced[k] <= 1
  BY <1>1, <1>3 DEF General, Once, Jobs
<1>4. QED
  BY <1>1, <1>2, <1>3, TypesAreTypeOK DEF JobsSettle, AnnouncedOnce, EndedWithVerdict

LEMMA TendedIsKept ==
  ASSUME IngestionInv
  PROVE  IngestedIsFound /\ StaysIndexed /\ ErasedIsGone
<1>1. ASSUME scenario.patient, NEW d \in Docs
      PROVE  Found(d) /\ Stays(d) /\ Gone(d)
  BY <1>1 DEF IngestionInv, Tended
<1>2. IngestedIsFound
  BY <1>1 DEF IngestedIsFound, Found
<1>3. StaysIndexed
  BY <1>1 DEF StaysIndexed, Stays
<1>4. ErasedIsGone
  BY <1>1 DEF ErasedIsGone, Gone
<1>5. QED
  BY <1>2, <1>3, <1>4

\* ingest-document.ts and bullmq-queue.ts: a job announces its document once; when it
\* completes the document has its verdict, and so it has when the job uses up its
\* attempts where Mongo serves the lookups before the try block and the save in its
\* catch.  The proof needs that a job has a second attempt: one whose hash is refused
\* both times it is saved leaves its verdict to the next.  Of a job that stalls twice,
\* or whose lookups or failure saves are rejected, the theorem says nothing:
\* FailureMarksDocument is violated there.
THEOREM JobsStaySettled == Spec => []JobsSettle
<1>1. IngestionInv => JobsSettle
  BY JobsAreSettled
<1>2. QED
  BY <1>1, IngestionHolds, PTL

\* An ingested document of patient clients is found by the text and under the
\* version its record has.
THEOREM IngestedStaysFound == Spec => []IngestedIsFound
<1>1. IngestionInv => IngestedIsFound
  BY TendedIsKept
<1>2. QED
  BY <1>1, IngestionHolds, PTL

\* replaceForDocument writes before it drops: from its first ingestion to its
\* delete, a document of patient clients is never without text and points.
THEOREM IndexStays == Spec => []StaysIndexed
<1>1. IngestionInv => StaysIndexed
  BY TendedIsKept
<1>2. QED
  BY <1>1, IngestionHolds, PTL

\* delete-document.ts: a document erased by patient clients leaves no record, no
\* text and no points, and none comes back.
THEOREM ErasedStaysGone == Spec => []ErasedIsGone
<1>1. IngestionInv => ErasedIsGone
  BY TendedIsKept
<1>2. QED
  BY <1>1, IngestionHolds, PTL
=============================================================================
