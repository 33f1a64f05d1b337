------------------------- MODULE KnowledgeIngestion -------------------------
(***************************************************************************)
(* The documents of one vector store (apps/knowledge): registered,         *)
(* uploaded, confirmed, ingested by the workers of a BullMQ queue, and     *)
(* deleted.  Four stores are written without a transaction between them:   *)
(* the metadata and the chunks in Mongo, the points in Qdrant and the      *)
(* bytes in object storage.                                                *)
(*                                                                         *)
(* Requests and workers hold a copy of the document from the moment they   *)
(* read it and every save writes all of that copy, so each await is a step *)
(* of its own.  A document stands for its one chunk: what is left out is   *)
(* how a text is cut, not which text is where.                             *)
(***************************************************************************)
EXTENDS Integers, Sequences, FiniteSets

CONSTANTS
  Docs,        \* document ids, each registered at most once
  Contents,    \* what the uploaded bytes hash to
  Workers,     \* the jobs in flight (`concurrency`)
  Requests,    \* the API calls in flight
  None,        \* no content, no document
  Attempts,    \* `attempts` of a job
  MaxVersion,  \* bound on the versions of a document
  Scenarios    \* how clients behave, and bounds on what takes part

ASSUME IngestionAssumption ==
  /\ None \notin Docs \cup Contents
  /\ Workers \cap Requests = {}
  /\ Attempts \in Nat \ {0, 1}
  /\ MaxVersion \in Nat \ {0}
  /\ Scenarios \subseteq
       [patient : BOOLEAN, docs : SUBSET Docs, contents : SUBSET Contents,
        workers : SUBSET Workers, requests : SUBSET Requests,
        versions : 1 .. MaxVersion, crashes : Nat, outages : BOOLEAN]

VARIABLES
  scenario,   \* patient clients wait for a document to settle; never changes
  record,     \* the documents collection
  object,     \* object storage
  text,       \* the chunks collection
  points,     \* the vector index: a point's id is the hash of its content
  jobs,       \* the queue, by job id
  actor,      \* where each worker and request is, and its copy of the document
  crashes,
  announced,  \* how often each job announced its document as ingested
  uploads,    \* the contents each document ever had
  fate        \* live, doomed by a delete, or erased by it

stores == <<record, object, text, points, jobs>>
history == <<announced, uploads, fate>>
vars == <<scenario, stores, actor, crashes, history>>

Versions == 1 .. MaxVersion
Absent == [version |-> 0, status |-> "absent", hash |-> None]
NoPoint == [doc |-> None, version |-> 0]
Idle == [pc |-> "idle", doc |-> None, job |-> 0, copy |-> Absent, bytes |-> None]

Init ==
  /\ scenario \in Scenarios
  /\ record = [d \in Docs |-> Absent]
  /\ object = [d \in Docs |-> None]
  /\ text = {}
  /\ points = [c \in Contents |-> NoPoint]
  /\ jobs = [k \in Docs \X Versions |-> [state |-> "none", tries |-> 0, stalled |-> FALSE]]
  /\ actor = [a \in Workers \cup Requests |-> Idle]
  /\ crashes = 0
  /\ announced = [k \in Docs \X Versions |-> 0]
  /\ uploads = [d \in Docs |-> {}]
  /\ fate = [d \in Docs |-> "live"]

-----------------------------------------------------------------------------
\* What everyone does

At(a, label) == actor[a].pc = label

Goto(a, label) == actor' = [actor EXCEPT ![a].pc = label]

Doc(a) == actor[a].doc

Copy(a) == actor[a].copy

Rest(a) == actor' = [actor EXCEPT ![a] = Idle]

\* (Mistake, for the mutant runs: no unique index.)
HashAlwaysFree(d, doc) == doc.hash \in Contents \cup {None}

\* The partial unique index on the content hash.
HashFree(d, doc) ==
  doc.hash # None => \A e \in Docs \ {d} : record[e].hash # doc.hash

\* save() of a's copy, changed to doc: an upsert of the whole record, where the
\* index allows it.
Save(a, doc, next) ==
  /\ record' = [record EXCEPT ![Doc(a)] = doc]
  /\ actor' = [actor EXCEPT ![a].copy = doc, ![a].pc = next]

Terminal(doc) == doc.status \in {"ingested", "failed"}

Open(d) == \E v \in Versions : jobs[<<d, v>>].state \in {"waiting", "active"}

Quiet(d) == ~Open(d) /\ \A r \in Requests : Doc(r) # d

-----------------------------------------------------------------------------
\* Clients

Register(d) ==
  /\ d \in scenario.docs
  /\ record[d] = Absent /\ uploads[d] = {} /\ fate[d] = "live"
  /\ record' = [record EXCEPT ![d] = [Absent EXCEPT !.version = 1, !.status = "pending"]]
  /\ UNCHANGED <<scenario, object, text, points, jobs, actor, crashes, history>>

\* A PUT to the presigned URL, whenever the client likes; bound: a document
\* gets a content once.
Upload(d, c) ==
  /\ record[d] # Absent
  /\ c \in scenario.contents \ uploads[d]
  /\ object' = [object EXCEPT ![d] = c]
  /\ uploads' = [uploads EXCEPT ![d] = @ \cup {c}]
  /\ UNCHANGED <<scenario, record, text, points, jobs, actor, crashes, announced, fate>>

\* A request finds its document.
Arrive(r, d, label) ==
  /\ r \in scenario.requests /\ At(r, "idle")
  /\ record[d] # Absent
  /\ scenario.patient => Quiet(d)
  /\ actor' = [actor EXCEPT ![r] = [Idle EXCEPT !.pc = label, !.doc = d, !.copy = record[d]]]
  /\ UNCHANGED <<scenario, stores, crashes, announced, uploads>>

\* CompleteDocumentUpload
Confirm(r, d) ==
  /\ Terminal(record[d]) => record[d].version < scenario.versions
  /\ Arrive(r, d, "stat")
  /\ UNCHANGED fate

StartReingestion(doc) ==
  [doc EXCEPT !.version = @ + 1, !.status = "pending"]

Stat(r) ==
  /\ At(r, "stat")
  /\ IF object[Doc(r)] = None
       THEN Rest(r)
       ELSE actor' = [actor EXCEPT ![r].pc = "confirm",
                                   ![r].copy = IF Terminal(@) THEN StartReingestion(@) ELSE @]
  /\ UNCHANGED <<scenario, stores, crashes, history>>

SaveConfirmed(r) ==
  /\ At(r, "confirm")
  /\ IF HashFree(Doc(r), Copy(r))
       THEN Save(r, Copy(r), "enqueue")
       ELSE Rest(r) /\ UNCHANGED record
  /\ UNCHANGED <<scenario, object, text, points, jobs, crashes, history>>

\* (Mistake, for the mutant runs: no job id, every call enqueues.)
EnqueueAgain(r) ==
  /\ At(r, "enqueue")
  /\ jobs' = [jobs EXCEPT ![<<Doc(r), Copy(r).version>>] =
                [state |-> "waiting", tries |-> 0, stalled |-> FALSE]]
  /\ Rest(r)
  /\ UNCHANGED <<scenario, record, object, text, points, crashes, history>>

\* BullMQ drops an id it still knows, in whatever state that job is.
Enqueue(r) ==
  /\ At(r, "enqueue")
  /\ jobs' = [jobs EXCEPT ![<<Doc(r), Copy(r).version>>].state =
                IF @ = "none" THEN "waiting" ELSE @]
  /\ Rest(r)
  /\ UNCHANGED <<scenario, record, object, text, points, crashes, history>>

\* DeleteDocument: vectors, chunks, bytes, metadata.
Delete(r, d) ==
  /\ Arrive(r, d, "delete_points")
  /\ fate' = [fate EXCEPT ![d] = IF @ = "live" THEN "doomed" ELSE @]

PointsWithout(dropped) == [c \in Contents |-> IF c \in dropped THEN NoPoint ELSE points[c]]

DeletePoints(r) ==
  /\ At(r, "delete_points")
  /\ points' = PointsWithout({c \in Contents : points[c].doc = Doc(r)})
  /\ Goto(r, "delete_text")
  /\ UNCHANGED <<scenario, record, object, text, jobs, crashes, history>>

\* (Mistake, for the mutant runs: only the chunks of the current version go.)
DeleteCurrentText(r) ==
  /\ At(r, "delete_text")
  /\ text' = {t \in text : t.doc # Doc(r) \/ t.version # Copy(r).version}
  /\ Goto(r, "delete_object")
  /\ UNCHANGED <<scenario, record, object, points, jobs, crashes, history>>

DeleteText(r) ==
  /\ At(r, "delete_text")
  /\ text' = {t \in text : t.doc # Doc(r)}
  /\ Goto(r, "delete_object")
  /\ UNCHANGED <<scenario, record, object, points, jobs, crashes, history>>

\* The storage may refuse; the delete goes on.
DeleteObject(r) ==
  /\ At(r, "delete_object")
  /\ \/ object' = [object EXCEPT ![Doc(r)] = None]
     \/ UNCHANGED object
  /\ Goto(r, "delete_record")
  /\ UNCHANGED <<scenario, record, text, points, jobs, crashes, history>>

DeleteRecord(r) ==
  /\ At(r, "delete_record")
  /\ record' = [record EXCEPT ![Doc(r)] = Absent]
  /\ fate' = [fate EXCEPT ![Doc(r)] = "erased"]
  /\ Rest(r)
  /\ UNCHANGED <<scenario, object, text, points, jobs, crashes, announced, uploads>>

Serve(r) ==
  \/ Stat(r) \/ SaveConfirmed(r) \/ Enqueue(r)
  \/ DeletePoints(r) \/ DeleteText(r) \/ DeleteObject(r) \/ DeleteRecord(r)

-----------------------------------------------------------------------------
\* IngestDocument, in a worker

Job(w) == <<Doc(w), actor[w].job>>

Take(w, k) ==
  /\ w \in scenario.workers /\ At(w, "idle")
  /\ jobs[k].state = "waiting"
  /\ jobs' = [jobs EXCEPT ![k].state = "active"]
  /\ actor' = [actor EXCEPT ![w] = [Idle EXCEPT !.pc = "find", !.doc = k[1], !.job = k[2]]]
  /\ UNCHANGED <<scenario, record, object, text, points, crashes, history>>

\* Outside the try block: a document that is gone, or a lookup that Mongo rejects,
\* fails the job only.
Find(w) ==
  /\ At(w, "find")
  /\ \/ actor' = [actor EXCEPT ![w].copy = record[Doc(w)],
                               ![w].pc = IF record[Doc(w)] = Absent THEN "throw" ELSE "parsing"]
     \/ scenario.outages /\ Goto(w, "throw")
  /\ UNCHANGED <<scenario, stores, crashes, history>>

Pipeline == <<"pending", "parsing", "chunking", "embedding", "indexing">>

CanAdvance(from, to) ==
  \E i, j \in DOMAIN Pipeline : i < j /\ Pipeline[i] = from /\ Pipeline[j] = to

\* advance() and save(): refused backwards, from a terminal status, and by the
\* unique index.
Advance(w, stage, next) ==
  /\ At(w, stage)
  /\ LET doc == [Copy(w) EXCEPT !.status = stage]
     IN IF CanAdvance(Copy(w).status, stage) /\ HashFree(Doc(w), doc)
          THEN Save(w, doc, next)
          ELSE Goto(w, "catch") /\ UNCHANGED record
  /\ UNCHANGED <<scenario, object, text, points, jobs, crashes, history>>

\* The bytes are opened, parsed and hashed in one pass.
Parse(w) ==
  /\ At(w, "parse")
  /\ object[Doc(w)] # None
  /\ actor' = [actor EXCEPT ![w].bytes = object[Doc(w)], ![w].pc = "twin"]
  /\ UNCHANGED <<scenario, stores, crashes, history>>

FindTwin(w) ==
  /\ At(w, "twin")
  /\ IF \E e \in Docs \ {Doc(w)} : record[e].hash = actor[w].bytes
       THEN Goto(w, "finish")
       ELSE Goto(w, "chunking")
  /\ UNCHANGED <<scenario, stores, crashes, history>>

\* replaceForDocument: the new version is written, then the others dropped.
WriteText(w) ==
  /\ At(w, "text")
  /\ LET new == [doc |-> Doc(w), version |-> Copy(w).version, content |-> actor[w].bytes]
         Replaced(t) == t.doc = new.doc /\ t.version = new.version
     IN text' = {t \in text : ~Replaced(t)} \cup {new}
  /\ Goto(w, "drop_text")
  /\ UNCHANGED <<scenario, record, object, points, jobs, crashes, history>>

\* (Mistake, for the mutant runs: every version is dropped.)
DropAllText(w) ==
  /\ At(w, "drop_text")
  /\ text' = {t \in text : t.doc # Doc(w)}
  /\ Goto(w, "points")
  /\ UNCHANGED <<scenario, record, object, points, jobs, crashes, history>>

DropText(w) ==
  /\ At(w, "drop_text")
  /\ text' = {t \in text : t.doc = Doc(w) => t.version = Copy(w).version}
  /\ Goto(w, "points")
  /\ UNCHANGED <<scenario, record, object, points, jobs, crashes, history>>

\* The id of a point does not name its document: equal bytes share it.
UpsertPoints(w) ==
  /\ At(w, "points")
  /\ points' = [points EXCEPT ![actor[w].bytes] =
                  [doc |-> Doc(w), version |-> Copy(w).version]]
  /\ Goto(w, "drop_points")
  /\ UNCHANGED <<scenario, record, object, text, jobs, crashes, history>>

\* (Mistake, for the mutant runs: the version to keep is the one dropped.)
DropThisVersion(w) ==
  /\ At(w, "drop_points")
  /\ points' = PointsWithout({c \in Contents : /\ points[c].doc = Doc(w)
                                               /\ points[c].version = Copy(w).version})
  /\ Goto(w, "finish")
  /\ UNCHANGED <<scenario, record, object, text, jobs, crashes, history>>

DropOtherVersions(w) ==
  /\ At(w, "drop_points")
  /\ points' = PointsWithout({c \in Contents : /\ points[c].doc = Doc(w)
                                               /\ points[c].version # Copy(w).version})
  /\ Goto(w, "finish")
  /\ UNCHANGED <<scenario, record, object, text, jobs, crashes, history>>

\* markIngested() and save() with its event, in one transaction.  The copy
\* keeps the new hash even when the index, or Mongo, refuses it.
Finish(w) ==
  /\ At(w, "finish")
  /\ LET doc == [Copy(w) EXCEPT !.status = "ingested", !.hash = actor[w].bytes]
     IN \/ /\ HashFree(Doc(w), doc)
           /\ Save(w, doc, "return")
           /\ announced' = [announced EXCEPT ![Job(w)] = @ + 1]
        \/ /\ actor' = [actor EXCEPT ![w].copy = doc, ![w].pc = "catch"]
           /\ UNCHANGED <<record, announced>>
  /\ UNCHANGED <<scenario, object, text, points, jobs, crashes, uploads, fate>>

\* Inside the try block: a parser, the embeddings before the advance to indexing,
\* Mongo or Qdrant fails.
DependencyFails(w) ==
  /\ actor[w].pc \in {"parsing", "parse", "twin", "chunking", "embedding", "indexing",
                      "text", "drop_text", "points", "drop_points"}
  /\ Goto(w, "catch")
  /\ UNCHANGED <<scenario, stores, crashes, history>>

\* (Mistake, for the mutant runs: the error is only rethrown.)
CatchRethrows(w) ==
  /\ At(w, "catch")
  /\ Goto(w, "throw")
  /\ UNCHANGED <<scenario, stores, crashes, history>>

\* fail() and save() with its event, then the error is thrown on; or that of this
\* save, which the index refuses or Mongo rejects.
Catch(w) ==
  /\ At(w, "catch")
  /\ LET doc == [Copy(w) EXCEPT !.status = "failed"]
     IN \/ HashFree(Doc(w), doc) /\ Save(w, doc, "throw")
        \/ /\ ~HashFree(Doc(w), doc) \/ scenario.outages
           /\ Goto(w, "throw") /\ UNCHANGED record
  /\ UNCHANGED <<scenario, object, text, points, jobs, crashes, history>>

\* BullMQ learns how the attempt ended.
Return(w) ==
  /\ At(w, "return")
  /\ jobs' = [jobs EXCEPT ![Job(w)].state = "completed"]
  /\ Rest(w)
  /\ UNCHANGED <<scenario, record, object, text, points, crashes, history>>

Throw(w) ==
  /\ At(w, "throw")
  /\ LET tries == jobs[Job(w)].tries + 1
     IN jobs' = [jobs EXCEPT ![Job(w)].tries = tries,
                             ![Job(w)].state = IF tries < Attempts THEN "waiting" ELSE "failed"]
  /\ Rest(w)
  /\ UNCHANGED <<scenario, record, object, text, points, crashes, history>>

Work(w) ==
  \/ \E k \in Docs \X Versions : Take(w, k)
  \/ Find(w) \/ Parse(w) \/ FindTwin(w)
  \/ Advance(w, "parsing", "parse") \/ Advance(w, "chunking", "embedding")
  \/ Advance(w, "embedding", "indexing") \/ Advance(w, "indexing", "text")
  \/ WriteText(w) \/ DropText(w) \/ UpsertPoints(w) \/ DropOtherVersions(w)
  \/ Finish(w) \/ DependencyFails(w) \/ Catch(w) \/ Return(w) \/ Throw(w)

-----------------------------------------------------------------------------
\* A worker dies.  BullMQ finds the job stalled and delivers it again, once; when
\* it stalls again the job is failed, and no code runs for it (`maxStalledCount`).
WorkerDies(w) ==
  /\ crashes < scenario.crashes
  /\ ~At(w, "idle")
  /\ crashes' = crashes + 1
  /\ jobs' = [jobs EXCEPT ![Job(w)].state = IF jobs[Job(w)].stalled THEN "failed" ELSE "waiting",
                          ![Job(w)].stalled = TRUE]
  /\ Rest(w)
  /\ UNCHANGED <<scenario, record, object, text, points, history>>

\* The API dies, or a step of the request rejects: the rest is not done.
RequestDies(r) ==
  /\ crashes < scenario.crashes
  /\ ~At(r, "idle")
  /\ crashes' = crashes + 1
  /\ Rest(r)
  /\ UNCHANGED <<scenario, stores, history>>

Next ==
  \/ \E d \in Docs : Register(d) \/ \E c \in Contents : Upload(d, c)
  \/ \E r \in Requests, d \in Docs : Confirm(r, d) \/ Delete(r, d)
  \/ \E r \in Requests : Serve(r) \/ RequestDies(r)
  \/ \E w \in Workers : Work(w) \/ WorkerDies(w)

Spec == Init /\ [][Next]_vars

-----------------------------------------------------------------------------
Documents ==
  [version : 0 .. MaxVersion,
   status : {"absent", "ingested", "failed"} \cup {Pipeline[i] : i \in DOMAIN Pipeline},
   hash : Contents \cup {None}]

\* Every variable stays in its set, a content keeps one chunk per version of a
\* document, and no two documents of the store have one hash.
TypeOK ==
  /\ record \in [Docs -> Documents]
  /\ object \in [Docs -> Contents \cup {None}]
  /\ text \subseteq [doc : Docs, version : Versions, content : Contents]
  /\ points \in [Contents -> [doc : Docs, version : Versions] \cup {NoPoint}]
  /\ \A k \in Docs \X Versions :
       /\ jobs[k].state \in {"none", "waiting", "active", "completed", "failed"}
       /\ jobs[k].tries \in 0 .. Attempts
  /\ \A a \in Workers \cup Requests : Copy(a) \in Documents
  /\ \A d, e \in Docs : record[d].hash = record[e].hash => d = e \/ record[d].hash = None

\* c is nobody else's content, so no twin of d takes its point over.
Solo(d, c) == \A e \in Docs \ {d} : c \notin uploads[e]

\* When clients wait for a document to settle before they touch it again, a
\* document that says `ingested` is the one search finds: its chunks are those
\* of its version and hash, and its point leads to it, whatever failed, died or
\* was delivered twice on the way.  (Twins are not: two that are ingested at
\* once share one point, and one whose twin goes away has neither.)
IngestedIsFound ==
  scenario.patient =>
    \A d \in Docs :
      LET v == record[d].version
          c == record[d].hash
      IN record[d].status = "ingested" /\ fate[d] = "live" /\ Solo(d, c) =>
           /\ [doc |-> d, version |-> v, content |-> c] \in text
           /\ points[c] = [doc |-> d, version |-> v]

WasIngested(d) == \E v \in Versions : announced[<<d, v>>] > 0

\* Reindexing writes the new before it drops the old: a document that was once
\* ingested keeps chunks and points, if its contents are its own, until somebody
\* deletes it.
StaysIndexed ==
  scenario.patient =>
    \A d \in Docs :
      /\ WasIngested(d)
      /\ fate[d] = "live"
      /\ \A c \in uploads[d] : Solo(d, c)
      => /\ \E t \in text : t.doc = d
         /\ \E c \in Contents : points[c].doc = d

Unindexed(d) ==
  /\ \A t \in text : t.doc # d
  /\ \A c \in Contents : points[c].doc # d

\* A document deleted while nothing else touches it leaves nothing behind, and
\* nothing brings it back.
ErasedIsGone ==
  scenario.patient => \A d \in Docs : fate[d] = "erased" => record[d] = Absent /\ Unindexed(d)

\* complete-upload.ts:20-21: a retried confirmation is not worked on twice.  A
\* job announces its document once, however many confirmations and deletes race
\* with each other and with the worker (while no process dies), and however often
\* it is delivered (while clients are patient).
AnnouncedOnce ==
  scenario.patient \/ crashes = 0 =>
    \A k \in Docs \X Versions : announced[k] <= 1

\* Its attempts are used up; else BullMQ failed it for stalling twice.
Exhausted(k) == jobs[k].state = "failed" /\ jobs[k].tries = Attempts

\* While clients are patient a job that completes leaves its document with a
\* verdict, and so does one that uses up its attempts, whatever failed inside the
\* try block, died once or was refused by the index on the way: the attempt that
\* finds the document in the pipeline marks it.  What the block does not protect is
\* excepted: its lookups, the save of the failure (no outages), and a second death.
EndedWithVerdict ==
  scenario.patient =>
    \A k \in Docs \X Versions :
      /\ \/ jobs[k].state = "completed"
         \/ Exhausted(k) /\ ~scenario.outages
      /\ record[k[1]].version = k[2]
      => Terminal(record[k[1]])

\* The jobs of the queue: each does its work once, and ends with a verdict.
JobsSettle == TypeOK /\ AnnouncedOnce /\ EndedWithVerdict

\* What the repository says and the code does not do.

\* ingest-document.ts:43-45: "Every failure marks the document `failed` with a
\* stable code rather than leaving it stuck mid-pipeline".  A job that BullMQ gives
\* up leaves its document with a verdict.
FailureMarksDocument ==
  scenario.patient =>
    \A k \in Docs \X Versions :
      jobs[k].state = "failed" /\ record[k[1]].version = k[2] => Terminal(record[k[1]])

\* ingest-document.ts:148-149: "a search during reindexing never sees the
\* document disappear".  Search reads a hit's text under the version the record
\* has (search-store.ts:204-211).
FoundWhileReindexing ==
  \A d \in Docs :
    WasIngested(d) /\ fate[d] = "live" =>
      \E t \in text : t.doc = d /\ t.version = record[d].version
=============================================================================
