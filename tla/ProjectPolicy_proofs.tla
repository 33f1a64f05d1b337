-------------------------- MODULE ProjectPolicy_proofs --------------------------
(***************************************************************************)
(* What is proved of the policies of a project and of their readers, for   *)
(* any number of administrators, requests and replicas, any lengths of     *)
(* periods and times to live, and any documents at the start.              *)
(*                                                                         *)
(* The invariant has two halves.  Governed: a document is always one that  *)
(* was allowed, in memory too, and the last event about it tells what is   *)
(* stored.  Routed: of what a replica or a request has, when it was read   *)
(* and what could have been saved since.  A step of an administrator       *)
(* leaves the second alone, for what it saves, it saves now.               *)
(***************************************************************************)
EXTENDS ProjectPolicy, FiniteSetTheorems, TLAPS

-----------------------------------------------------------------------------
\* Periods

LEMMA Lengths ==
  /\ Day \in Nat \ {0} /\ Month \in Nat \ {0} /\ TwoDays = 2 * Day /\ Month > TwoDays
  /\ \A kind \in Kinds : Length(kind) \in Nat \ {0}
BY PolicyAssumption DEF Kinds, Length

\* A moment is in the period that starts before it, which starts in itself.
LEMMA PeriodOf ==
  ASSUME NEW kind \in Kinds, NEW t \in Nat
  PROVE  /\ StartOfPeriod(kind, t) \in Nat /\ StartOfPeriod(kind, t) <= t
         /\ t < StartOfPeriod(kind, t) + Length(kind)
         /\ StartOfPeriod(kind, StartOfPeriod(kind, t)) = StartOfPeriod(kind, t)
         /\ \E q \in Nat : StartOfPeriod(kind, t) = q * Length(kind)
<1>1. PICK l \in Nat \ {0} : l = Length(kind)
  BY Lengths
<1>2. t % l \in 0 .. l - 1 /\ \E q \in Nat : t - (t % l) = q * l
  OBVIOUS
<1>3. PICK s \in Nat : s = t - (t % l) /\ \E q \in Nat : s = q * l
  <2>1. PICK q \in Nat : t - (t % l) = q * l
    BY <1>2
  <2>2. q * l \in Nat
    OBVIOUS
  <2>3. QED
    BY <2>1, <2>2
<1>4. s <= t /\ t < s + l
  <2>1. PICK m \in 0 .. l - 1 : m = t % l
    BY <1>2
  <2>2. s = t - m
    BY <1>3, <2>1
  <2>3. QED
    BY <2>1, <2>2
<1>5. s % l = 0
  <2>1. PICK q \in Nat : s = q * l
    BY <1>3
  <2>2. (q * l) % l = 0
    OBVIOUS
  <2>3. QED
    BY <2>1, <2>2
<1>6. s - (s % l) = s
  BY <1>5
<1>7. QED
  BY <1>1, <1>3, <1>4, <1>6 DEF StartOfPeriod

\* Two periods that start less than their length apart are one.
LEMMA OnePeriod ==
  ASSUME NEW l \in Nat \ {0}, NEW p \in Nat, NEW q \in Nat, p * l < q * l + l, q * l < p * l + l
  PROVE  p = q
OBVIOUS

LEMMA StartIs ==
  ASSUME NEW kind \in Kinds, NEW s \in Nat, NEW t \in Nat,
         StartOfPeriod(kind, s) = s, s <= t, t < s + Length(kind)
  PROVE  StartOfPeriod(kind, t) = s
<1>1. PICK l \in Nat \ {0} : l = Length(kind)
  BY Lengths
<1>2. PICK p \in Nat : s = p * l
  BY <1>1, PeriodOf
<1>3. PICK q \in Nat : StartOfPeriod(kind, t) = q * l
  BY <1>1, PeriodOf
<1>4. q * l <= t /\ t < q * l + l
  BY <1>1, <1>3, PeriodOf
<1>5. p * l \in Nat /\ q * l \in Nat /\ p * l < q * l + l /\ q * l < p * l + l
  BY <1>1, <1>2, <1>4
<1>6. p = q
  BY <1>5, OnePeriod
<1>7. QED
  BY <1>2, <1>3, <1>6

\* Two moments counted as one day, or one month, are less than that apart.
LEMMA CountedAsOne ==
  ASSUME NEW l \in Nat \ {0}, NEW x \in Nat, NEW y \in Nat, x \div l = y \div l
  PROVE  x < y + l /\ y < x + l
<1>1. PICK d \in Int : d = x \div l
  OBVIOUS
<1>2. l * d <= x /\ x < l * d + l
  BY <1>1
<1>3. l * d <= y /\ y < l * d + l
  BY <1>1
<1>4. l * d \in Int
  OBVIOUS
<1>5. QED
  BY <1>2, <1>3, <1>4

-----------------------------------------------------------------------------
\* The administrators

Stages == {"idle", "creating", "saving policy", "budgeting", "saving budget", "done", "refused"}
AdminStates == [pc : Stages, project : Projects, budget : Budgets]

Announcements ==
  [type : {"created", "policy"}, version : Nat]
    \cup [type : {"budget"}, limit : Nat, block : BOOLEAN, period : Kinds]

\* A policy within its level, and a budget whose period has begun.
Allowed(doc) ==
  /\ doc \in Projects /\ doc.version > 0
  /\ doc.zones # {} /\ doc.zones \subseteq MaxZones(scenario.level)
  /\ doc.capture => scenario.level # "restricted"

Begun(b) ==
  b # NoBudget =>
    /\ b \in Budgets /\ b.period \in Kinds
    /\ b.start <= now /\ StartOfPeriod(b.period, b.start) = b.start

Prepared(a) ==
  /\ At(a, "saving policy") => Allowed(admin[a].project) /\ project # NoProject
  /\ At(a, "budgeting") => Asked(a, "budget")
  /\ At(a, "saving budget") =>
       Asked(a, "budget") /\ admin[a].budget # NoBudget /\ Begun(admin[a].budget)

\* The documents, and what was told of them.
Decided ==
  /\ scenario \in Scenarios
  /\ now \in Nat /\ scenario.start <= now /\ now <= scenario.until
  /\ project = NoProject \/ Allowed(project)
  /\ Begun(budget)
  /\ project = NoProject => \A i \in DOMAIN events : events[i].type # "created"

Governed ==
  /\ Decided
  /\ events \in Seq(Announcements)
  /\ admin \in [Admins -> AdminStates] /\ \A a \in Admins : Prepared(a)
  /\ EventsTellTheStore

LEMMA Documents ==
  /\ NoProject \in Projects /\ NoBudget \in Budgets
  /\ \A doc : Allowed(doc) => doc \in Projects /\ doc # NoProject
  /\ \A b : Begun(b) => b \in Budgets
  /\ \A level \in Levels : MaxZones(level) \subseteq Zones /\ MaxZones(level) # {}
<1>1. NoProject \in Projects /\ NoBudget \in Budgets
  BY DEF NoProject, NoBudget, Projects, Budgets
<1>2. \A doc : Allowed(doc) => doc \in Projects /\ doc # NoProject
  BY DEF Allowed, NoProject
<1>3. \A b : Begun(b) => b \in Budgets
  BY <1>1 DEF Begun
<1>4. \A level \in Levels : MaxZones(level) \subseteq Zones /\ MaxZones(level) # {}
  BY DEF Levels, MaxZones, Zones
<1>5. QED
  BY <1>1, <1>2, <1>3, <1>4

LEMMA GovernedStarts == Init => Governed
<1>1. SUFFICES ASSUME Init PROVE Governed
  OBVIOUS
<1> USE DEF Init, GovernanceInit
<1>2. Decided
  BY <1>1, SituationAssumption DEF Decided, Allowed, Begun
<1>3. admin \in [Admins -> AdminStates] /\ \A a \in Admins : Prepared(a)
  BY <1>1, Documents DEF AdminStates, Stages, Prepared, At
<1>4. events \in Seq(Announcements) /\ EventsTellTheStore
  BY <1>1 DEF EventsTellTheStore
<1>5. QED
  BY <1>2, <1>3, <1>4 DEF Governed

\* An event that tells what is stored now, and is not a second creation.
LEMMA ToldOnce ==
  ASSUME events \in Seq(Announcements), EventsTellTheStore, NEW e \in Announcements,
         events' = Append(events, e),
         e.type = "created" => \A i \in DOMAIN events : events[i].type # "created",
         \/ e.type \in {"created", "policy"} /\ project'.version = e.version /\ UNCHANGED budget
         \/ e.type = "budget" /\ budget'.limit = e.limit /\ budget'.block = e.block /\ UNCHANGED project
  PROVE  events' \in Seq(Announcements) /\ EventsTellTheStore'
<1>1. /\ Len(events) \in Nat /\ DOMAIN events = 1 .. Len(events)
      /\ Len(events') = Len(events) + 1 /\ DOMAIN events' = 1 .. Len(events) + 1
      /\ events'[Len(events) + 1] = e /\ events' \in Seq(Announcements)
      /\ \A i \in DOMAIN events : events'[i] = events[i]
  OBVIOUS
<1>2. ASSUME NEW i \in DOMAIN events', NEW types, IsLast(i, types)'
      PROVE  i = Len(events) + 1 \/ (i \in DOMAIN events /\ IsLast(i, types) /\ e.type \notin types)
  <2>1. CASE i \in DOMAIN events
    <3>1. e.type \notin types
      BY <1>1, <1>2, <2>1 DEF IsLast
    <3>2. \A j \in i + 1 .. Len(events) : j \in DOMAIN events /\ j \in i + 1 .. Len(events')
      BY <1>1, <2>1
    <3>3. IsLast(i, types)
      BY <1>1, <1>2, <2>1, <3>2 DEF IsLast
    <3>4. QED
      BY <2>1, <3>1, <3>3
  <2>2. QED
    BY <1>1, <2>1
<1>3. ASSUME NEW i \in DOMAIN events', IsLast(i, {"created", "policy"})'
      PROVE  events'[i].version = project'.version
  <2>1. CASE i = Len(events) + 1
    BY <1>1, <1>3, <2>1 DEF IsLast
  <2>2. CASE i \in DOMAIN events /\ IsLast(i, {"created", "policy"}) /\ e.type \notin {"created", "policy"}
    BY <1>1, <2>2 DEF EventsTellTheStore
  <2>3. QED
    BY <1>2, <1>3, <2>1, <2>2
<1>4. ASSUME NEW i \in DOMAIN events', IsLast(i, {"budget"})'
      PROVE  events'[i].limit = budget'.limit /\ events'[i].block = budget'.block
  <2>1. CASE i = Len(events) + 1
    BY <1>1, <1>4, <2>1 DEF IsLast
  <2>2. CASE i \in DOMAIN events /\ IsLast(i, {"budget"}) /\ e.type \notin {"budget"}
    BY <1>1, <2>2 DEF EventsTellTheStore
  <2>3. QED
    BY <1>2, <1>4, <2>1, <2>2
<1>5. ASSUME NEW i \in DOMAIN events', NEW j \in DOMAIN events',
             events'[i].type = "created", events'[j].type = "created"
      PROVE  i = j
  <2>1. \A k \in DOMAIN events' : k \in DOMAIN events \/ k = Len(events) + 1
    BY <1>1
  <2>2. QED
    BY <1>1, <1>5, <2>1 DEF EventsTellTheStore
<1>6. QED
  BY <1>1, <1>3, <1>4, <1>5 DEF EventsTellTheStore

\* Where one request goes on, the others are as they were.
LEMMA OneAdmin ==
  ASSUME Governed, NEW a \in Admins, NEW s \in AdminStates, admin' = [admin EXCEPT ![a] = s],
         UNCHANGED <<scenario, now>>, project # NoProject => project' # NoProject,
         s.pc = "saving policy" => Allowed(s.project) /\ project # NoProject,
         s.pc \in {"budgeting", "saving budget"} => Asked(a, "budget"),
         s.pc = "saving budget" => s.budget # NoBudget /\ Begun(s.budget)
  PROVE  admin' \in [Admins -> AdminStates] /\ \A b \in Admins : Prepared(b)'
<1>1. admin' \in [Admins -> AdminStates] /\ admin'[a] = s /\ \A b \in Admins : b # a => admin'[b] = admin[b]
  BY DEF Governed
<1>2. \A b \in Admins : b # a => Prepared(b)'
  BY <1>1 DEF Governed, Prepared, At, Asked, Allowed, Begun
<1>3. Prepared(a)'
  BY <1>1 DEF Prepared, At, Asked, Allowed, Begun
<1>4. QED
  BY <1>1, <1>2, <1>3

\* A request that only goes to another label, which asks nothing of it.
LEMMA AdminGoes ==
  ASSUME Governed, NEW a \in Admins, NEW label \in {"creating", "budgeting", "done", "refused"},
         Goes(a, label), UNCHANGED <<scenario, now>>, project # NoProject => project' # NoProject,
         label = "budgeting" => Asked(a, "budget")
  PROVE  admin' \in [Admins -> AdminStates] /\ \A b \in Admins : Prepared(b)'
<1> DEFINE s == [admin[a] EXCEPT !.pc = label]
<1>1. s \in AdminStates /\ s.pc = label
  BY DEF Governed, AdminStates, Stages
<1>2. admin' = [admin EXCEPT ![a] = s]
  BY DEF Goes
<1>3. QED
  BY <1>1, <1>2, OneAdmin

\* Nothing is stored, nothing is told.
LEMMA StoresKept ==
  ASSUME Governed, UNCHANGED <<scenario, now, stores>>,
         admin' \in [Admins -> AdminStates] /\ \A b \in Admins : Prepared(b)'
  PROVE  Governed'
<1>1. Decided'
  BY DEF Governed, Decided, Allowed, Begun, stores
<1>2. events' \in Seq(Announcements) /\ EventsTellTheStore'
  BY DEF Governed, EventsTellTheStore, IsLast, stores
<1>3. QED
  BY <1>1, <1>2 DEF Governed

\* A project is stored.
LEMMA ProjectSaved ==
  ASSUME Governed, NEW doc, Allowed(doc), NEW e, SaveProject(doc, e), UNCHANGED <<scenario, now>>,
         e = [type |-> "policy", version |-> doc.version] \/
           (e = [type |-> "created", version |-> doc.version] /\ project = NoProject),
         admin' \in [Admins -> AdminStates] /\ \A b \in Admins : Prepared(b)'
  PROVE  Governed'
<1>1. project' = doc /\ project' # NoProject /\ doc \in Projects /\ UNCHANGED budget /\ events' = Append(events, e)
  BY Documents DEF SaveProject
<1>2. Decided'
  BY <1>1 DEF Governed, Decided, Allowed, Begun
<1>3. doc.version \in Nat
  BY <1>1 DEF Projects
<1>4. e \in Announcements /\ e.type \in {"created", "policy"} /\ project'.version = e.version
  BY <1>1, <1>3 DEF Announcements
<1>5. e.type = "created" => \A i \in DOMAIN events : events[i].type # "created"
  BY DEF Governed, Decided
<1>6. events' \in Seq(Announcements) /\ EventsTellTheStore'
  BY <1>1, <1>4, <1>5, ToldOnce DEF Governed
<1>7. QED
  BY <1>2, <1>6 DEF Governed

\* A budget is stored.
LEMMA BudgetSaved ==
  ASSUME Governed, NEW b, b # NoBudget, Begun(b), NEW period \in Kinds,
         SaveBudgetDocument(b, [type |-> "budget", limit |-> b.limit, block |-> b.block, period |-> period]),
         UNCHANGED <<scenario, now>>,
         admin' \in [Admins -> AdminStates] /\ \A c \in Admins : Prepared(c)'
  PROVE  Governed'
<1> DEFINE e == [type |-> "budget", limit |-> b.limit, block |-> b.block, period |-> period]
<1>1. budget' = b /\ b \in Budgets /\ UNCHANGED project /\ events' = Append(events, e)
  BY DEF SaveBudgetDocument, Begun
<1>2. e \in Announcements /\ e.type = "budget" /\ budget'.limit = e.limit /\ budget'.block = e.block
  BY <1>1 DEF Announcements, Budgets
<1>3. e.type # "created" /\ \A i \in DOMAIN events' : i \in DOMAIN events \/ events'[i] = e
  <2>1. events \in Seq(Announcements)
    BY DEF Governed
  <2>2. \A i \in DOMAIN Append(events, e) : i \in DOMAIN events \/ Append(events, e)[i] = e
    BY <1>2, <2>1
  <2>3. QED
    BY <1>1, <2>2
<1>4. \A i \in DOMAIN events : events'[i] = events[i]
  BY <1>1, <1>2 DEF Governed
<1>5. Decided'
  BY <1>1, <1>3, <1>4 DEF Governed, Decided, Allowed, Begun
<1>6. events' \in Seq(Announcements) /\ EventsTellTheStore'
  BY <1>1, <1>2, ToldOnce DEF Governed
<1>7. QED
  BY <1>5, <1>6 DEF Governed

\* What the setters leave of a policy that is allowed is allowed.
LEMMA ChangedIsAllowed ==
  ASSUME Governed, NEW a \in Admins, Asked(a, "policy"), project # NoProject, Valid(Command(a))
  PROVE  Allowed(Changed(project, Command(a)))
<1> DEFINE cmd == Command(a)
           doc == Changed(project, cmd)
<1>1. Allowed(project) /\ scenario \in Scenarios /\ scenario.level \in Levels
  BY SituationAssumption DEF Governed, Decided
<1>2. project \in Projects /\ MaxZones(scenario.level) \subseteq Zones
  BY <1>1, Documents
<1>3. /\ IsFiniteSet(DOMAIN cmd)
      /\ "capture" \in DOMAIN cmd => cmd.capture \in BOOLEAN
      /\ "rules" \in DOMAIN cmd => cmd.rules \in Nat
      /\ "concurrency" \in DOMAIN cmd => cmd.concurrency \in Nat
  BY <1>1, SituationAssumption DEF Asked, Command
<1>4. doc.version \in Nat /\ doc.version > 0
  <2>1. Cardinality(DOMAIN cmd) \in Nat
    BY <1>3, FS_CardinalityType
  <2>2. doc.version = project.version + Cardinality(DOMAIN cmd)
    BY DEF Changed
  <2>3. project.version \in Nat /\ project.version > 0
    BY <1>1, <1>2 DEF Projects, Allowed
  <2>4. QED
    BY <2>1, <2>2, <2>3
<1>5. doc.zones \in SUBSET Zones /\ doc.zones # {} /\ doc.zones \subseteq MaxZones(scenario.level)
  BY <1>1, <1>2 DEF Changed, Valid, RestrictTo, Allowed, Projects
<1>6. doc.capture \in BOOLEAN /\ (doc.capture => scenario.level # "restricted")
  BY <1>1, <1>2, <1>3 DEF Changed, Valid, Given, Allowed, Projects
<1>7. doc.rules \in Nat /\ doc.concurrency \in Nat
  BY <1>2, <1>3 DEF Changed, Given, Projects
<1>8. doc \in Projects
  BY <1>4, <1>5, <1>6, <1>7 DEF Changed, Projects
<1>9. QED
  BY <1>4, <1>5, <1>6, <1>8 DEF Allowed

\* A budget that is rolled over has begun, in the period that is running.
LEMMA RolledOverIsBegun ==
  ASSUME now \in Nat, NEW b, b # NoBudget, Begun(b)
  PROVE  /\ RolledOver(b) # NoBudget /\ Begun(RolledOver(b)) /\ RolledOver(b).period = b.period
         /\ RolledOver(b).start = StartOfPeriod(b.period, now)
         /\ RolledOver(b).limit = b.limit /\ RolledOver(b).block = b.block
<1>1. /\ b \in Budgets /\ b.period \in Kinds /\ b.start \in Nat
      /\ b.start <= now /\ StartOfPeriod(b.period, b.start) = b.start
  BY DEF Begun, Budgets
<1>2. Length(b.period) \in Nat \ {0}
  BY <1>1, Lengths
<1>3. CASE now >= PeriodEnd(b)
  <2> DEFINE s == StartOfPeriod(b.period, now)
  <2>1. s \in Nat /\ s <= now /\ StartOfPeriod(b.period, s) = s
    BY <1>1, PeriodOf
  <2>2. RolledOver(b) = [b EXCEPT !.start = s]
    BY <1>3 DEF RolledOver
  <2> HIDE DEF s
  <2>3. RolledOver(b) \in Budgets /\ RolledOver(b).start = s /\ RolledOver(b).period = b.period
        /\ RolledOver(b).limit = b.limit /\ RolledOver(b).block = b.block
    BY <1>1, <2>1, <2>2 DEF Budgets
  <2>4. RolledOver(b) # NoBudget
    BY <1>1, <2>3 DEF NoBudget, Kinds
  <2>5. QED
    BY <1>1, <2>1, <2>3, <2>4 DEF Begun, s
<1>4. CASE ~(now >= PeriodEnd(b))
  <2>1. RolledOver(b) = b
    BY <1>4 DEF RolledOver
  <2>2. now < b.start + Length(b.period)
    BY <1>1, <1>2, <1>4 DEF PeriodEnd
  <2>3. StartOfPeriod(b.period, now) = b.start
    BY <1>1, <2>2, StartIs
  <2>4. QED
    BY <2>1, <2>3
<1>5. QED
  BY <1>3, <1>4

LEMMA UpdatedIsBegun ==
  ASSUME Governed, NEW a \in Admins, Asked(a, "budget")
  PROVE  Updated(budget, Command(a)) # NoBudget /\ Begun(Updated(budget, Command(a)))
<1> DEFINE cmd == Command(a)
           b   == Updated(budget, cmd)
<1>1. scenario \in Scenarios /\ now \in Nat /\ Begun(budget)
  BY DEF Governed, Decided
<1>2. cmd.period \in Kinds /\ cmd.limit \in Nat /\ ("block" \in DOMAIN cmd => cmd.block \in BOOLEAN)
  BY <1>1, SituationAssumption DEF Asked, Command
<1>3. CASE budget = NoBudget
  <2> DEFINE s == StartOfPeriod(cmd.period, now)
  <2>1. s \in Nat /\ s <= now /\ StartOfPeriod(cmd.period, s) = s
    BY <1>1, <1>2, PeriodOf
  <2>2. b = [period |-> cmd.period, start |-> s, limit |-> cmd.limit, block |-> Given(cmd, "block", TRUE)]
    BY <1>3 DEF Updated
  <2> HIDE DEF s
  <2>3. PICK k \in BOOLEAN : k = Given(cmd, "block", TRUE)
    BY <1>2 DEF Given
  <2>4. b \in Budgets /\ b.period \in Kinds /\ b.start = s /\ b.period = cmd.period
    <3>1. PICK period \in Kinds, limit \in Nat : period = cmd.period /\ limit = cmd.limit
      BY <1>2
    <3>2. b = [period |-> period, start |-> s, limit |-> limit, block |-> k]
      BY <2>2, <2>3, <3>1
    <3>3. [period |-> period, start |-> s, limit |-> limit, block |-> k] \in Budgets
      BY <2>1 DEF Budgets
    <3>4. QED
      BY <3>1, <3>2, <3>3
  <2>5. b # NoBudget
    BY <2>4 DEF NoBudget, Kinds
  <2>6. QED
    BY <2>1, <2>4, <2>5 DEF Begun
<1>4. CASE budget # NoBudget
  <2> DEFINE old == RolledOver(budget)
  <2>1. old # NoBudget /\ Begun(old) /\ old \in Budgets /\ old.period \in Kinds
    BY <1>1, <1>4, RolledOverIsBegun DEF Begun
  <2>2. b = [old EXCEPT !.limit = cmd.limit, !.block = Given(cmd, "block", @)]
    BY <1>4 DEF Updated
  <2> HIDE DEF old
  <2>3. Given(cmd, "block", old.block) \in BOOLEAN
    BY <1>2, <2>1 DEF Given, Budgets
  <2>4. b \in Budgets /\ b.period = old.period /\ b.start = old.start
    BY <1>2, <2>1, <2>2, <2>3 DEF Budgets
  <2>5. b # NoBudget
    BY <2>1, <2>4 DEF NoBudget, Kinds
  <2>6. QED
    BY <2>1, <2>4, <2>5 DEF Begun
<1>5. QED
  BY <1>3, <1>4

LEMMA AdministerKeeps ==
  ASSUME Governed, NEW a \in Admins, Administer(a)
  PROVE  Governed'
<1>1. ASSUME LookUpSlug(a) PROVE Governed'
  <2>1. Goes(a, IF project = NoProject THEN "creating" ELSE "refused") /\ UNCHANGED <<scenario, now, stores>>
    BY <1>1 DEF LookUpSlug
  <2>2. admin' \in [Admins -> AdminStates] /\ \A b \in Admins : Prepared(b)'
    BY <2>1, AdminGoes DEF stores
  <2>3. QED
    BY <2>1, <2>2, StoresKept
<1>2. ASSUME Create(a) PROVE Governed'
  <2>1. CASE project = NoProject
    <3>1. SaveProject(NewProject, [type |-> "created", version |-> 1]) /\ Goes(a, "done") /\ UNCHANGED <<scenario, now>>
      BY <1>2, <2>1 DEF Create
    <3>2. scenario.level \in Levels
      BY SituationAssumption DEF Governed, Decided
    <3>3. Allowed(NewProject) /\ NewProject.version = 1
      BY <3>2, Documents DEF Allowed, NewProject, Projects
    <3>4. admin' \in [Admins -> AdminStates] /\ \A b \in Admins : Prepared(b)'
      BY <2>1, <3>1, AdminGoes
    <3>5. QED
      BY <2>1, <3>1, <3>3, <3>4, ProjectSaved
  <2>2. CASE project # NoProject
    <3>1. Goes(a, "refused") /\ UNCHANGED <<scenario, now, stores>>
      BY <1>2, <2>2 DEF Create
    <3>2. admin' \in [Admins -> AdminStates] /\ \A b \in Admins : Prepared(b)'
      BY <3>1, AdminGoes DEF stores
    <3>3. QED
      BY <3>1, <3>2, StoresKept
  <2>3. QED
    BY <2>1, <2>2
<1>3. ASSUME ReadForPolicy(a) PROVE Governed'
  <2>1. CASE project = NoProject \/ ~Valid(Command(a))
    <3>1. Goes(a, "refused") /\ UNCHANGED <<scenario, now, stores>>
      BY <1>3, <2>1 DEF ReadForPolicy, Goes
    <3>2. admin' \in [Admins -> AdminStates] /\ \A b \in Admins : Prepared(b)'
      BY <3>1, AdminGoes DEF stores
    <3>3. QED
      BY <3>1, <3>2, StoresKept
  <2>2. CASE project # NoProject /\ Valid(Command(a))
    <3> DEFINE doc == Changed(project, Command(a))
               s == [admin[a] EXCEPT !.pc = "saving policy", !.project = doc]
    <3>1. admin' = [admin EXCEPT ![a] = s] /\ UNCHANGED <<scenario, now, stores>> /\ Asked(a, "policy")
      BY <1>3, <2>2 DEF ReadForPolicy
    <3>2. Allowed(doc) /\ doc \in Projects
      BY <2>2, <3>1, ChangedIsAllowed, Documents
    <3> HIDE DEF doc
    <3>3. s \in AdminStates /\ s.pc = "saving policy" /\ s.project = doc
      BY <3>2 DEF Governed, AdminStates, Stages
    <3> HIDE DEF s
    <3>4. admin' \in [Admins -> AdminStates] /\ \A b \in Admins : Prepared(b)'
      BY <2>2, <3>1, <3>2, <3>3, OneAdmin DEF stores
    <3>5. QED
      BY <3>1, <3>4, StoresKept
  <2>3. QED
    BY <2>1, <2>2
<1>4. ASSUME SavePolicy(a) PROVE Governed'
  <2> DEFINE doc == admin[a].project
  <2>1. /\ SaveProject(doc, [type |-> "policy", version |-> doc.version]) /\ Goes(a, "done")
        /\ UNCHANGED <<scenario, now>> /\ Allowed(doc)
    BY <1>4 DEF SavePolicy, Governed, Prepared
  <2>2. project' # NoProject
    BY <2>1, Documents DEF SaveProject
  <2>3. admin' \in [Admins -> AdminStates] /\ \A b \in Admins : Prepared(b)'
    BY <2>1, <2>2, AdminGoes
  <2>4. QED
    BY <2>1, <2>3, ProjectSaved
<1>5. ASSUME CheckProject(a) PROVE Governed'
  <2>1. /\ Goes(a, IF project = NoProject THEN "refused" ELSE "budgeting")
        /\ UNCHANGED <<scenario, now, stores>> /\ Asked(a, "budget")
    BY <1>5 DEF CheckProject
  <2>2. admin' \in [Admins -> AdminStates] /\ \A b \in Admins : Prepared(b)'
    BY <2>1, AdminGoes DEF stores
  <2>3. QED
    BY <2>1, <2>2, StoresKept
<1>6. ASSUME ReadBudget(a) PROVE Governed'
  <2> DEFINE b == Updated(budget, Command(a))
             s == [admin[a] EXCEPT !.pc = "saving budget", !.budget = b]
  <2>1. admin' = [admin EXCEPT ![a] = s] /\ UNCHANGED <<scenario, now, stores>> /\ Asked(a, "budget")
    BY <1>6 DEF ReadBudget, Governed, Prepared
  <2>2. b # NoBudget /\ Begun(b) /\ b \in Budgets
    BY <2>1, UpdatedIsBegun, Documents
  <2> HIDE DEF b
  <2>3. s \in AdminStates /\ s.pc = "saving budget" /\ s.budget = b
    BY <2>2 DEF Governed, AdminStates, Stages
  <2> HIDE DEF s
  <2>4. admin' \in [Admins -> AdminStates] /\ \A c \in Admins : Prepared(c)'
    BY <2>1, <2>2, <2>3, OneAdmin DEF stores
  <2>5. QED
    BY <2>1, <2>4, StoresKept
<1>7. ASSUME SaveBudget(a) PROVE Governed'
  <2> DEFINE b == admin[a].budget
             period == Command(a).period
  <2>1. /\ SaveBudgetDocument(b, [type |-> "budget", limit |-> b.limit, block |-> b.block, period |-> period])
        /\ Goes(a, "done") /\ UNCHANGED <<scenario, now>>
        /\ b # NoBudget /\ Begun(b) /\ Asked(a, "budget")
    BY <1>7 DEF SaveBudget, Governed, Prepared
  <2>2. period \in Kinds
    BY <2>1, SituationAssumption DEF Asked, Command, Governed, Decided
  <2>3. UNCHANGED project
    BY <2>1 DEF SaveBudgetDocument
  <2>4. admin' \in [Admins -> AdminStates] /\ \A c \in Admins : Prepared(c)'
    BY <2>1, <2>3, AdminGoes
  <2> HIDE DEF b, period
  <2>5. QED
    BY <2>1, <2>2, <2>4, BudgetSaved
<1>8. ASSUME AdminFails(a) PROVE Governed'
  <2>1. Goes(a, "refused") /\ UNCHANGED <<scenario, now, stores>>
    BY <1>8 DEF AdminFails
  <2>2. admin' \in [Admins -> AdminStates] /\ \A b \in Admins : Prepared(b)'
    BY <2>1, AdminGoes DEF stores
  <2>3. QED
    BY <2>1, <2>2, StoresKept
<1>9. QED
  BY <1>1, <1>2, <1>3, <1>4, <1>5, <1>6, <1>7, <1>8 DEF Administer

-----------------------------------------------------------------------------
\* The readers

Labels == InFlight \cup {"idle", "failing", "served", "failed"}
Entries == [value : PolicyType, expires : Nat]
CallStates ==
  [pc : Labels, since : Nat, seen : Entries, token : Nat, project : Nat, budget : Budgets,
   value : PolicyType, at : Nat]

ProjectSaves == [at : Nat, doc : Projects]
BudgetSaves  == [at : Nat, doc : Budgets]

RoutedTypes ==
  /\ saves \in [project : Seq(ProjectSaves), budget : Seq(BudgetSaves)]
  /\ cache \in [Replicas -> Entries]
  /\ token \in [Replicas -> [expires : Nat, fetching : BOOLEAN]]
  /\ call \in [Requests -> CallStates]
  /\ failedAt \in [Replicas -> Nat] /\ \A p \in Replicas : failedAt[p] <= now

\* Of a log of saves, those after the n-th are not older than t; nor is anything that
\* was saved after the documents of a policy.
Since(saved, n, t) == \A i \in n + 1 .. Len(saved) : saved[i].at >= t
Recent(value, t) == Since(saves.project, value.project, t) /\ Since(saves.budget, value.budget, t)

\* The key of a policy is that of the period in which it was read.
Keyed(value) ==
  value.kind \in Kinds =>
    LET start == StartOfPeriod(value.kind, value.readAt)
        end   == start + Length(value.kind)
    IN \/ value.kind = "monthly" /\ value.key = <<"month", end \div Month>>
       \/ /\ value.key = <<"day", end \div Day>>
          /\ value.kind = "daily" \/ end - value.readAt <= TwoDays + FetchTime

\* What a replica remembers, and until when.
EntryFits(p, e) ==
  /\ Keyed(e.value)
  /\ IF e.value.stale THEN e.expires <= failedAt[p] + StaleTtl
     ELSE e.expires <= now + Ttl /\ Recent(e.value, e.expires - Ttl - FetchTime)

\* What was read of a budget, rolled over.
Answered(c) ==
  /\ ~c.value.stale
  /\ c.value.project = c.project /\ Since(saves.budget, c.value.budget, c.since)
  /\ c.since <= c.value.readAt /\ c.value.readAt <= now
  /\ c.value.kind = c.budget.period
  /\ c.value.kind \in Kinds => c.budget.start = StartOfPeriod(c.value.kind, c.value.readAt)

\* What a request has, and what it was served.
CallFits(r, c) ==
  /\ Keyed(c.seen.value)
  /\ c.pc # "idle" => r \in DOMAIN scenario.host
  /\ c.pc \in InFlight => c.since <= now /\ now <= c.since + FetchTime
  /\ c.pc = "sending" => c.token > c.since + FetchTime
  /\ c.pc \in {"reading", "arriving"} => Since(saves.project, c.project, c.since)
  /\ c.pc = "arriving" => Answered(c)
  /\ c.pc = "failing" => failedAt[HostOf(r)] = now
  /\ c.pc = "served" =>
       /\ c.at <= now /\ Keyed(c.value)
       /\ IF c.value.stale THEN c.at <= failedAt[HostOf(r)] + StaleTtl
          ELSE Recent(c.value, c.at - Ttl - FetchTime + 1)

Routed ==
  /\ RoutedTypes
  /\ \A p \in Replicas : EntryFits(p, cache[p])
  /\ \A r \in Requests : CallFits(r, call[r])
  /\ \A p \in Replicas : token[p].fetching <=> Waiting(p) # {}

\* The inductive invariant.
PolicyInv == Governed /\ Routed

LEMMA Times ==
  /\ Ttl \in Nat \ {0} /\ StaleTtl \in Nat /\ FetchTime \in Nat /\ MaxTime \in Nat
  /\ Margin \in Nat /\ TokenLife \in Nat /\ TokenLife > Margin /\ Margin >= FetchTime
BY PolicyAssumption

LEMMA NothingYet ==
  /\ NoPolicy \in PolicyType /\ NoEntry \in Entries /\ Asking \in CallStates
  /\ Keyed(NoPolicy) /\ ~NoPolicy.stale /\ NoEntry.value = NoPolicy /\ NoEntry.expires = 0
  /\ Asking.pc = "idle" /\ Asking.seen = NoEntry
<1>1. NoPolicy \in PolicyType /\ ~NoPolicy.stale /\ NoPolicy.kind \notin Kinds
  BY Times DEF NoPolicy, NoKey, PolicyType, Kinds
<1>2. NoEntry \in Entries /\ NoEntry.value = NoPolicy /\ NoEntry.expires = 0
  BY <1>1 DEF NoEntry, Entries
<1>3. Asking \in CallStates /\ Asking.pc = "idle" /\ Asking.seen = NoEntry
  BY <1>1, <1>2, Documents DEF Asking, CallStates, Labels
<1>4. Keyed(NoPolicy)
  BY <1>1 DEF Keyed
<1>5. QED
  BY <1>1, <1>2, <1>3, <1>4

LEMMA RoutedStarts == Init => Routed
<1>1. SUFFICES ASSUME Init PROVE Routed
  OBVIOUS
<1> USE DEF Init, GovernanceInit
<1>2. Governed
  BY <1>1, GovernedStarts
<1>3. now \in Nat /\ (project = NoProject \/ project \in Projects) /\ (budget = NoBudget \/ budget \in Budgets)
  BY <1>2, Documents DEF Governed, Decided
<1>4. saves \in [project : Seq(ProjectSaves), budget : Seq(BudgetSaves)]
  <2>1. project # NoProject => [at |-> now, doc |-> project] \in ProjectSaves
    BY <1>3 DEF ProjectSaves
  <2>2. budget # NoBudget => [at |-> now, doc |-> budget] \in BudgetSaves
    BY <1>3 DEF BudgetSaves
  <2>3. QED
    BY <1>1, <2>1, <2>2
<1>5. RoutedTypes
  BY <1>1, <1>3, <1>4, NothingYet DEF RoutedTypes
<1>6. \A p \in Replicas : EntryFits(p, cache[p])
  <2>1. /\ \A i \in DOMAIN saves.project : saves.project[i].at \in Nat
        /\ \A i \in DOMAIN saves.budget : saves.budget[i].at \in Nat
        /\ DOMAIN saves.project = 1 .. Len(saves.project) /\ DOMAIN saves.budget = 1 .. Len(saves.budget)
        /\ Len(saves.project) \in Nat /\ Len(saves.budget) \in Nat
    <3>1. saves.project \in Seq(ProjectSaves) /\ saves.budget \in Seq(BudgetSaves)
      BY <1>4
    <3>2. /\ \A i \in DOMAIN saves.project : saves.project[i] \in ProjectSaves
          /\ \A i \in DOMAIN saves.budget : saves.budget[i] \in BudgetSaves
          /\ DOMAIN saves.project = 1 .. Len(saves.project) /\ DOMAIN saves.budget = 1 .. Len(saves.budget)
          /\ Len(saves.project) \in Nat /\ Len(saves.budget) \in Nat
      BY <3>1
    <3>3. QED
      BY <3>2 DEF ProjectSaves, BudgetSaves
  <2>2. Recent(NoPolicy, 0 - Ttl - FetchTime)
    BY <2>1, Times DEF Recent, Since, NoPolicy
  <2>3. \A p \in Replicas : EntryFits(p, NoEntry)
    BY <1>3, <2>2, NothingYet, Times DEF EntryFits
  <2>4. QED
    BY <1>1, <2>3
<1>7. \A r \in Requests : CallFits(r, call[r])
  BY <1>1, NothingYet DEF CallFits, InFlight
<1>8. \A p \in Replicas : token[p].fetching <=> Waiting(p) # {}
  <2>1. \A r \in Requests : ~On(r, "token")
    BY <1>1, NothingYet DEF On
  <2>2. DOMAIN scenario.host \subseteq Requests
    BY <1>1, SituationAssumption
  <2>3. QED
    BY <1>1, <2>1, <2>2 DEF Waiting
<1>9. QED
  BY <1>5, <1>6, <1>7, <1>8 DEF Routed

-----------------------------------------------------------------------------
\* What time and the steps of others leave of it

\* A log that only gains what is saved now.
Grows(saved, more) ==
  /\ Len(saved) \in Nat /\ Len(more) \in Nat /\ Len(saved) <= Len(more)
  /\ \A i \in 1 .. Len(more) : IF i <= Len(saved) THEN more[i] = saved[i] ELSE more[i].at = now

SavesGrow ==
  /\ saves' \in [project : Seq(ProjectSaves), budget : Seq(BudgetSaves)]
  /\ Grows(saves.project, saves'.project) /\ Grows(saves.budget, saves'.budget)

\* Failures are noted when they happen.
FailuresNoted ==
  /\ failedAt' \in [Replicas -> Nat]
  /\ \A p \in Replicas : failedAt'[p] = failedAt[p] \/ failedAt'[p] = now

LEMMA SinceGrows ==
  ASSUME NEW saved, NEW more, Grows(saved, more), NEW n \in Nat, NEW t \in Int, t <= now, now \in Nat,
         Since(saved, n, t)
  PROVE  Since(more, n, t)
<1>1. SUFFICES ASSUME NEW i \in n + 1 .. Len(more) PROVE more[i].at >= t
  BY DEF Since
<1>2. i \in 1 .. Len(more)
  BY <1>1 DEF Grows
<1>3. CASE i <= Len(saved)
  <2>1. i \in n + 1 .. Len(saved) /\ more[i] = saved[i]
    BY <1>1, <1>2, <1>3 DEF Grows
  <2>2. QED
    BY <2>1 DEF Since
<1>4. CASE ~(i <= Len(saved))
  <2>1. more[i].at = now
    BY <1>2, <1>4 DEF Grows
  <2>2. QED
    BY <2>1
<1>5. QED
  BY <1>3, <1>4

LEMMA FitsLater ==
  ASSUME Governed, RoutedTypes, UNCHANGED <<scenario, now>>, SavesGrow, FailuresNoted
  PROVE  /\ \A p \in Replicas, e \in Entries : EntryFits(p, e) => EntryFits(p, e)'
         /\ \A r \in Requests, c \in CallStates : CallFits(r, c) => CallFits(r, c)'
<1>1. now \in Nat /\ scenario \in Scenarios /\ \A p \in Replicas : failedAt[p] \in Nat /\ failedAt[p] <= now
  BY DEF Governed, Decided, RoutedTypes
<1>2. \A p \in Replicas : failedAt'[p] \in Nat /\ failedAt[p] <= failedAt'[p]
  BY <1>1 DEF FailuresNoted
<1>3. \A r \in DOMAIN scenario.host : HostOf(r) \in Replicas /\ HostOf(r)' = HostOf(r)
  BY <1>1, SituationAssumption DEF HostOf
<1>4. ASSUME NEW value \in PolicyType, NEW t \in Int, t <= now, Recent(value, t)
      PROVE  Recent(value, t)'
  <2>1. value.project \in Nat /\ value.budget \in Nat
    BY DEF PolicyType
  <2>2. Since(saves'.project, value.project, t)
    BY <1>1, <1>4, <2>1, SinceGrows DEF SavesGrow, Recent
  <2>3. Since(saves'.budget, value.budget, t)
    BY <1>1, <1>4, <2>1, SinceGrows DEF SavesGrow, Recent
  <2>4. QED
    BY <2>2, <2>3 DEF Recent, Since
<1>5. ASSUME NEW p \in Replicas, NEW e \in Entries, EntryFits(p, e)
      PROVE  EntryFits(p, e)'
  <2>1. e.value \in PolicyType /\ e.value.stale \in BOOLEAN /\ e.expires \in Nat /\ Keyed(e.value)
    BY <1>5 DEF Entries, PolicyType, EntryFits
  <2>2. Keyed(e.value)'
    BY <2>1 DEF Keyed, StartOfPeriod, Length
  <2>3. CASE e.value.stale
    <3>1. e.expires <= failedAt[p] + StaleTtl
      BY <1>5, <2>3 DEF EntryFits
    <3>2. e.expires <= failedAt'[p] + StaleTtl
      BY <1>1, <1>2, <2>1, <3>1, Times
    <3>3. QED
      BY <2>2, <2>3, <3>2 DEF EntryFits
  <2>4. CASE ~e.value.stale
    <3>1. e.expires <= now + Ttl /\ Recent(e.value, e.expires - Ttl - FetchTime)
      BY <1>5, <2>4 DEF EntryFits
    <3>2. e.expires - Ttl - FetchTime \in Int /\ e.expires - Ttl - FetchTime <= now
      BY <1>1, <2>1, <3>1, Times
    <3>3. Recent(e.value, e.expires - Ttl - FetchTime)'
      BY <1>4, <2>1, <3>1, <3>2
    <3>4. QED
      BY <2>2, <2>4, <3>1, <3>3 DEF EntryFits
  <2>5. QED
    BY <2>3, <2>4
<1>6. ASSUME NEW r \in Requests, NEW c \in CallStates, CallFits(r, c)
      PROVE  CallFits(r, c)'
  <2>1. /\ c.since \in Nat /\ c.project \in Nat /\ c.at \in Nat
        /\ c.value \in PolicyType /\ c.value.budget \in Nat /\ c.value.stale \in BOOLEAN
    BY DEF CallStates, PolicyType
  <2>2. Keyed(c.seen.value)' /\ (c.pc # "idle" => r \in DOMAIN scenario'.host)
    BY <1>6 DEF CallFits, Keyed, StartOfPeriod, Length
  <2>3. /\ c.pc \in InFlight => c.since <= now' /\ now' <= c.since + FetchTime
        /\ c.pc = "sending" => c.token > c.since + FetchTime
    BY <1>6 DEF CallFits
  <2>4. c.pc \in {"reading", "arriving"} => Since(saves'.project, c.project, c.since)
    <3>1. c.pc \in {"reading", "arriving"} => Since(saves.project, c.project, c.since) /\ c.since <= now
      BY <1>6 DEF CallFits, InFlight
    <3>2. QED
      BY <1>1, <2>1, <3>1, SinceGrows DEF SavesGrow
  <2>5. c.pc = "arriving" => Answered(c)'
    <3>1. c.pc = "arriving" => Answered(c) /\ c.since <= now
      BY <1>6 DEF CallFits, InFlight
    <3>2. c.pc = "arriving" => Since(saves'.budget, c.value.budget, c.since)
      BY <1>1, <2>1, <3>1, SinceGrows DEF SavesGrow, Answered
    <3>3. QED
      BY <3>1, <3>2 DEF Answered, StartOfPeriod, Length
  <2>6. c.pc = "failing" => failedAt'[HostOf(r)] = now'
    <3>1. c.pc = "failing" => failedAt[HostOf(r)] = now /\ HostOf(r) \in Replicas
      BY <1>3, <1>6 DEF CallFits
    <3>2. QED
      BY <3>1 DEF FailuresNoted
  <2>7. c.pc = "served" =>
          /\ c.at <= now' /\ Keyed(c.value)'
          /\ IF c.value.stale THEN c.at <= failedAt'[HostOf(r)] + StaleTtl
             ELSE Recent(c.value, c.at - Ttl - FetchTime + 1)'
    <3>1. SUFFICES ASSUME c.pc = "served"
          PROVE  /\ c.at <= now' /\ Keyed(c.value)'
                 /\ IF c.value.stale THEN c.at <= failedAt'[HostOf(r)] + StaleTtl
                    ELSE Recent(c.value, c.at - Ttl - FetchTime + 1)'
      OBVIOUS
    <3>2. /\ c.at <= now /\ Keyed(c.value) /\ HostOf(r) \in Replicas
          /\ IF c.value.stale THEN c.at <= failedAt[HostOf(r)] + StaleTtl
             ELSE Recent(c.value, c.at - Ttl - FetchTime + 1)
      BY <1>3, <1>6, <3>1 DEF CallFits
    <3>3. c.at <= now' /\ Keyed(c.value)'
      BY <3>2 DEF Keyed, StartOfPeriod, Length
    <3>4. c.value.stale => c.at <= failedAt'[HostOf(r)] + StaleTtl
      BY <1>1, <1>2, <2>1, <3>2, Times
    <3>5. c.at - Ttl - FetchTime + 1 \in Int /\ c.at - Ttl - FetchTime + 1 <= now
      BY <1>1, <2>1, <3>2, Times
    <3>6. ~c.value.stale => Recent(c.value, c.at - Ttl - FetchTime + 1)'
      BY <1>4, <2>1, <3>2, <3>5
    <3>7. QED
      BY <3>3, <3>4, <3>6
  <2>8. HostOf(r)' = HostOf(r)
    BY DEF HostOf
  <2>9. QED
    BY <2>2, <2>3, <2>4, <2>5, <2>6, <2>7, <2>8 DEF CallFits
<1>7. QED
  BY <1>5, <1>6

\* What is not older than a moment is not older than an earlier one.
LEMMA RecentEarlier ==
  ASSUME RoutedTypes, NEW value \in PolicyType, NEW t \in Int, NEW s \in Int, s <= t, Recent(value, t)
  PROVE  Recent(value, s)
<1>1. /\ saves.project \in Seq(ProjectSaves) /\ saves.budget \in Seq(BudgetSaves)
      /\ value.project \in Nat /\ value.budget \in Nat
  BY DEF RoutedTypes, PolicyType
<1>2. /\ Len(saves.project) \in Nat /\ \A i \in 1 .. Len(saves.project) : saves.project[i] \in ProjectSaves
      /\ Len(saves.budget) \in Nat /\ \A i \in 1 .. Len(saves.budget) : saves.budget[i] \in BudgetSaves
  BY <1>1
<1>3. /\ \A i \in 1 .. Len(saves.project) : saves.project[i].at \in Nat
      /\ \A i \in 1 .. Len(saves.budget) : saves.budget[i].at \in Nat
  BY <1>2 DEF ProjectSaves, BudgetSaves
<1>4. Since(saves.project, value.project, s)
  <2>1. ASSUME NEW i \in value.project + 1 .. Len(saves.project) PROVE saves.project[i].at >= s
    <3>1. i \in 1 .. Len(saves.project)
      BY <1>1, <1>2
    <3>2. saves.project[i].at >= t /\ saves.project[i].at \in Nat
      BY <1>3, <3>1 DEF Recent, Since
    <3>3. QED
      BY <3>2
  <2>2. QED
    BY <2>1 DEF Since
<1>5. Since(saves.budget, value.budget, s)
  <2>1. ASSUME NEW i \in value.budget + 1 .. Len(saves.budget) PROVE saves.budget[i].at >= s
    <3>1. i \in 1 .. Len(saves.budget)
      BY <1>1, <1>2
    <3>2. saves.budget[i].at >= t /\ saves.budget[i].at \in Nat
      BY <1>3, <3>1 DEF Recent, Since
    <3>3. QED
      BY <3>2
  <2>2. QED
    BY <2>1 DEF Since
<1>6. QED
  BY <1>4, <1>5 DEF Recent

\* A step of an administrator.
LEMMA AdministerSaves ==
  ASSUME Governed, RoutedTypes, NEW a \in Admins, Administer(a)
  PROVE  SavesGrow /\ UNCHANGED <<scenario, now>>
<1> DEFINE P == saves.project
           B == saves.budget
<1>1. /\ saves \in [project : Seq(ProjectSaves), budget : Seq(BudgetSaves)]
      /\ P \in Seq(ProjectSaves) /\ B \in Seq(BudgetSaves) /\ now \in Nat
  BY DEF RoutedTypes, Governed, Decided
<1>2. Grows(P, P) /\ Grows(B, B)
  BY <1>1 DEF Grows
<1>3. ASSUME NEW doc \in Projects, NEW e, SaveProject(doc, e) PROVE SavesGrow
  <2> DEFINE x == [at |-> now, doc |-> doc]
  <2>1. x \in ProjectSaves /\ x.at = now
    BY <1>1 DEF ProjectSaves
  <2>2. saves' = [saves EXCEPT !.project = Append(P, x)]
    BY <1>3 DEF SaveProject
  <2> HIDE DEF x, P, B
  <2>3. Append(P, x) \in Seq(ProjectSaves) /\ Grows(P, Append(P, x))
    BY <1>1, <2>1 DEF Grows
  <2>4. saves'.project = Append(P, x) /\ saves'.budget = B
        /\ saves' \in [project : Seq(ProjectSaves), budget : Seq(BudgetSaves)]
    BY <1>1, <2>2, <2>3 DEF P, B
  <2>5. QED
    BY <1>2, <2>3, <2>4 DEF SavesGrow, P, B
<1>4. ASSUME NEW doc \in Budgets, NEW e, SaveBudgetDocument(doc, e) PROVE SavesGrow
  <2> DEFINE x == [at |-> now, doc |-> doc]
  <2>1. x \in BudgetSaves /\ x.at = now
    BY <1>1 DEF BudgetSaves
  <2>2. saves' = [saves EXCEPT !.budget = Append(B, x)]
    BY <1>4 DEF SaveBudgetDocument
  <2> HIDE DEF x, P, B
  <2>3. Append(B, x) \in Seq(BudgetSaves) /\ Grows(B, Append(B, x))
    BY <1>1, <2>1 DEF Grows
  <2>4. saves'.budget = Append(B, x) /\ saves'.project = P
        /\ saves' \in [project : Seq(ProjectSaves), budget : Seq(BudgetSaves)]
    BY <1>1, <2>2, <2>3 DEF P, B
  <2>5. QED
    BY <1>2, <2>3, <2>4 DEF SavesGrow, P, B
<1>5. ASSUME UNCHANGED stores PROVE SavesGrow
  BY <1>1, <1>2, <1>5 DEF SavesGrow, stores
<1>6. NewProject \in Projects /\ admin[a].project \in Projects /\ admin[a].budget \in Budgets
  <2>1. scenario.level \in Levels
    BY SituationAssumption DEF Governed, Decided
  <2>2. QED
    BY <2>1, Documents DEF NewProject, Projects, Governed, AdminStates
<1>7. SavesGrow
  BY <1>3, <1>4, <1>5, <1>6
     DEF Administer, LookUpSlug, Create, ReadForPolicy, SavePolicy, CheckProject, ReadBudget, SaveBudget, AdminFails
<1>8. UNCHANGED <<scenario, now>>
  BY DEF Administer, LookUpSlug, Create, ReadForPolicy, SavePolicy, CheckProject, ReadBudget, SaveBudget, AdminFails
<1>9. QED
  BY <1>7, <1>8

\* What a step has to show of what it changes.
LEMMA RoutedKept ==
  ASSUME PolicyInv, UNCHANGED <<scenario, now>>, SavesGrow, FailuresNoted,
         cache' \in [Replicas -> Entries],
         token' \in [Replicas -> [expires : Nat, fetching : BOOLEAN]],
         call' \in [Requests -> CallStates],
         \A p \in Replicas : cache'[p] = cache[p] \/ EntryFits(p, cache[p])',
         \A r \in Requests : call'[r] = call[r] \/ CallFits(r, call[r])',
         \A p \in Replicas : token'[p].fetching <=> Waiting(p)' # {}
  PROVE  Routed'
<1>1. Governed /\ Routed /\ RoutedTypes /\ now \in Nat
  BY DEF PolicyInv, Routed, Governed, Decided
<1>2. RoutedTypes'
  <2>1. \A p \in Replicas : failedAt'[p] <= now'
    <3>1. \A p \in Replicas : failedAt[p] <= now
      BY <1>1 DEF RoutedTypes
    <3>2. QED
      BY <1>1, <3>1 DEF FailuresNoted
  <2>2. QED
    BY <2>1 DEF RoutedTypes, SavesGrow, FailuresNoted
<1>3. /\ \A p \in Replicas : cache[p] \in Entries /\ EntryFits(p, cache[p])
      /\ \A r \in Requests : call[r] \in CallStates /\ CallFits(r, call[r])
  BY <1>1 DEF Routed, RoutedTypes
<1>4. ASSUME NEW p \in Replicas, cache'[p] = cache[p] PROVE EntryFits(p, cache[p])'
  <2>1. PICK e \in Entries : e = cache[p] /\ EntryFits(p, e)
    BY <1>3
  <2>2. EntryFits(p, e)'
    BY <1>1, <2>1, FitsLater
  <2>3. e = cache'[p]
    BY <1>4, <2>1
  <2>4. QED
    BY <2>2, <2>3 DEF EntryFits
<1>5. ASSUME NEW r \in Requests, call'[r] = call[r] PROVE CallFits(r, call[r])'
  <2>1. PICK c \in CallStates : c = call[r] /\ CallFits(r, c)
    BY <1>3
  <2>2. CallFits(r, c)'
    BY <1>1, <2>1, FitsLater
  <2>3. c = call'[r]
    BY <1>5, <2>1
  <2>4. QED
    BY <2>2, <2>3 DEF CallFits
<1>6. QED
  BY <1>2, <1>4, <1>5 DEF Routed

LEMMA AdministerSpares ==
  ASSUME PolicyInv, NEW a \in Admins, Administer(a), UNCHANGED router
  PROVE  Routed'
<1>1. Governed /\ Routed /\ RoutedTypes /\ SavesGrow /\ UNCHANGED <<scenario, now>>
  BY AdministerSaves DEF PolicyInv, Routed
<1>2. UNCHANGED <<cache, token, call, failedAt>>
  BY DEF router
<1>3. FailuresNoted
  BY <1>1, <1>2 DEF FailuresNoted, RoutedTypes
<1>4. \A p \in Replicas : token'[p].fetching <=> Waiting(p)' # {}
  BY <1>1, <1>2 DEF Routed, Waiting, On, HostOf
<1>5. QED
  BY <1>1, <1>2, <1>3, <1>4, RoutedKept DEF RoutedTypes

-----------------------------------------------------------------------------
\* The steps of the readers

LEMMA SavesStay ==
  ASSUME PolicyInv, UNCHANGED governance
  PROVE  SavesGrow
<1>1. /\ saves \in [project : Seq(ProjectSaves), budget : Seq(BudgetSaves)] /\ saves' = saves
      /\ saves.project \in Seq(ProjectSaves) /\ saves.budget \in Seq(BudgetSaves)
  BY DEF PolicyInv, Routed, RoutedTypes, governance, stores
<1>2. Grows(saves.project, saves.project) /\ Grows(saves.budget, saves.budget)
  BY <1>1 DEF Grows
<1>3. QED
  BY <1>1, <1>2 DEF SavesGrow

\* A request goes on that neither waited for the token nor will.
LEMMA OneCall ==
  ASSUME PolicyInv, NEW r \in Requests, NEW c \in CallStates, call' = [call EXCEPT ![r] = c],
         call[r].pc # "token", c.pc # "token", CallFits(r, c)',
         UNCHANGED <<scenario, now, governance, token>>, FailuresNoted,
         cache' \in [Replicas -> Entries],
         \A p \in Replicas : cache'[p] = cache[p] \/ EntryFits(p, cache[p])'
  PROVE  Routed'
<1>1. Routed /\ RoutedTypes /\ SavesGrow
  BY SavesStay DEF PolicyInv, Routed
<1>2. call' \in [Requests -> CallStates] /\ call'[r] = c /\ \A q \in Requests : q # r => call'[q] = call[q]
  BY <1>1 DEF RoutedTypes
<1>3. token' \in [Replicas -> [expires : Nat, fetching : BOOLEAN]]
  BY <1>1 DEF RoutedTypes
<1>4. CallFits(r, call[r])'
  BY <1>2 DEF CallFits
<1>5. \A p \in Replicas : token'[p].fetching <=> Waiting(p)' # {}
  <2>1. scenario \in Scenarios /\ DOMAIN scenario.host \subseteq Requests
    BY SituationAssumption DEF PolicyInv, Governed, Decided
  <2>2. \A q \in Requests : On(q, "token")' <=> On(q, "token")
    BY <1>2 DEF On
  <2>3. \A p : Waiting(p)' = Waiting(p)
    BY <2>1, <2>2 DEF Waiting, HostOf
  <2>4. QED
    BY <1>1, <2>3 DEF Routed
<1>6. QED
  BY <1>1, <1>2, <1>3, <1>4, <1>5, RoutedKept

LEMMA Hosts ==
  ASSUME Governed, NEW r \in DOMAIN scenario.host
  PROVE  r \in Requests /\ HostOf(r) \in Replicas
BY SituationAssumption DEF Governed, Decided, HostOf

\* A request ends with a policy, or without.
LEMMA EndStates ==
  ASSUME Governed, NEW value \in PolicyType, NEW e \in Entries
  PROVE  /\ [Asking EXCEPT !.pc = "served", !.value = value, !.at = now] \in CallStates
         /\ [Asking EXCEPT !.pc = "failing", !.seen = e] \in CallStates
         /\ Failed \in CallStates
BY NothingYet DEF CallStates, Labels, Failed, Governed, Decided

LEMMA FailedFits ==
  ASSUME PolicyInv, NEW r \in DOMAIN scenario.host, UNCHANGED scenario
  PROVE  CallFits(r, Failed)' /\ Failed.pc = "failed"
<1>1. Failed.pc = "failed" /\ Failed.seen.value = NoPolicy
  BY NothingYet DEF Failed, CallStates, Asking
<1>2. Keyed(NoPolicy)'
  BY NothingYet DEF Keyed, NoPolicy, Kinds
<1>3. QED
  BY <1>1, <1>2 DEF CallFits, InFlight, Keyed

LEMMA ServedFits ==
  ASSUME PolicyInv, NEW r \in DOMAIN scenario.host, NEW value \in PolicyType, Keyed(value),
         IF value.stale THEN now <= failedAt[HostOf(r)] + StaleTtl
         ELSE Recent(value, now - Ttl - FetchTime + 1)
  PROVE  CallFits(r, [Asking EXCEPT !.pc = "served", !.value = value, !.at = now])
<1> DEFINE c == [Asking EXCEPT !.pc = "served", !.value = value, !.at = now]
<1>1. now \in Nat
  BY DEF PolicyInv, Governed, Decided
<1>2. c.pc = "served" /\ c.seen = NoEntry /\ c.value = value /\ c.at = now
  BY NothingYet DEF Asking
<1> HIDE DEF c
<1>3. CallFits(r, c)
  BY <1>1, <1>2, NothingYet DEF CallFits, InFlight
<1>4. QED
  BY <1>3 DEF c

LEMMA LookUpKeeps ==
  ASSUME PolicyInv, NEW r \in Requests, LookUp(r)
  PROVE  Routed'
<1>1. /\ Governed /\ RoutedTypes /\ now \in Nat /\ r \in DOMAIN scenario.host
      /\ UNCHANGED <<scenario, now, governance, cache, failedAt>> /\ call[r].pc = "idle"
  BY DEF PolicyInv, Routed, LookUp, On, Governed, Decided
<1>2. PICK p \in Replicas : p = HostOf(r) /\ p = HostOf(r)'
  BY <1>1, Hosts DEF HostOf
<1> DEFINE entry == cache[p]
<1>3. /\ Governed /\ RoutedTypes /\ now \in Nat /\ r \in DOMAIN scenario.host /\ p = HostOf(r) /\ p = HostOf(r)'
      /\ UNCHANGED <<scenario, now, governance, cache, failedAt>> /\ call[r].pc = "idle"
  BY <1>1, <1>2
<1>4. entry \in Entries /\ EntryFits(p, entry) /\ entry.value \in PolicyType /\ entry.expires \in Nat
      /\ cache' \in [Replicas -> Entries]
  BY <1>3 DEF PolicyInv, Routed, RoutedTypes, Entries
<1>5. FailuresNoted /\ SavesGrow
  BY <1>3, SavesStay DEF FailuresNoted, RoutedTypes
<1>6. CASE entry # NoEntry /\ entry.expires > now
  <2>1. PICK c \in CallStates : c = [Asking EXCEPT !.pc = "served", !.value = entry.value, !.at = now]
    BY <1>3, <1>4, EndStates
  <2>2. call' = [call EXCEPT ![r] = c] /\ UNCHANGED token /\ c.pc = "served"
    BY <1>3, <1>6, <2>1 DEF LookUp, Serves, Asking
  <2>3. Keyed(entry.value)
    BY <1>4 DEF EntryFits
  <2>4. entry.value.stale => now <= failedAt[p] + StaleTtl
    <3>1. entry.value.stale => entry.expires <= failedAt[p] + StaleTtl
      BY <1>4 DEF EntryFits
    <3>2. failedAt[p] \in Nat
      BY <1>3 DEF RoutedTypes
    <3>3. QED
      BY <1>3, <1>4, <1>6, <3>1, <3>2, Times
  <2>5. ~entry.value.stale => Recent(entry.value, now - Ttl - FetchTime + 1)
    <3>1. SUFFICES ASSUME ~entry.value.stale PROVE Recent(entry.value, now - Ttl - FetchTime + 1)
      OBVIOUS
    <3>2. Recent(entry.value, entry.expires - Ttl - FetchTime)
      BY <1>4, <3>1 DEF EntryFits
    <3>3. /\ entry.expires - Ttl - FetchTime \in Int /\ now - Ttl - FetchTime + 1 \in Int
          /\ now - Ttl - FetchTime + 1 <= entry.expires - Ttl - FetchTime
      BY <1>3, <1>4, <1>6, Times
    <3>4. QED
      BY <1>3, <1>4, <3>2, <3>3, RecentEarlier
  <2>6. CallFits(r, c)
    BY <1>3, <1>4, <2>1, <2>3, <2>4, <2>5, ServedFits
  <2>7. CallFits(r, c)'
    BY <1>3, <1>5, <2>6, FitsLater
  <2>8. QED
    BY <1>3, <1>4, <1>5, <2>2, <2>7, OneCall
<1>7. CASE ~(entry # NoEntry /\ entry.expires > now)
  <2> DEFINE label == IF TokenUsable(p) THEN "sending" ELSE "token"
             new == [call[r] EXCEPT !.seen = entry, !.since = now, !.token = token[p].expires + Margin, !.pc = label]
  <2>1. call' = [call EXCEPT ![r] = new] /\ token' = [token EXCEPT ![p].fetching = @ \/ ~TokenUsable(p)]
    BY <1>3, <1>7 DEF LookUp
  <2>2. token[p] \in [expires : Nat, fetching : BOOLEAN] /\ call[r] \in CallStates /\ token[p].expires + Margin \in Nat
    BY <1>3, Times DEF RoutedTypes
  <2>3. PICK c \in CallStates : c = new /\ c.pc = label /\ c.seen = entry /\ c.since = now
                              /\ c.token = token[p].expires + Margin
    <3>1. /\ new \in CallStates /\ new.pc = label /\ new.seen = entry /\ new.since = now
          /\ new.token = token[p].expires + Margin
      BY <1>3, <1>4, <2>2 DEF CallStates, Labels, InFlight
    <3>2. QED
      BY <3>1
  <2>4. label = "sending" => token[p].expires + Margin > now + FetchTime
    BY <1>3, <2>2, Times DEF TokenUsable
  <2> HIDE DEF new
  <2>5. Keyed(entry.value) /\ now <= now + FetchTime
    BY <1>3, <1>4, Times DEF EntryFits
  <2>6. CallFits(r, c)
    BY <1>3, <2>3, <2>4, <2>5 DEF CallFits, InFlight
  <2>7. CallFits(r, c)'
    BY <1>3, <1>5, <2>3, <2>6, FitsLater
  <2>8. CASE TokenUsable(p)
    <3>1. token' = token
      <4>1. (token[p].fetching \/ ~TokenUsable(p)) = token[p].fetching
        BY <2>2, <2>8
      <4>2. token' = [token EXCEPT ![p].fetching = token[p].fetching]
        BY <2>1, <4>1
      <4>3. QED
        BY <1>3, <2>2, <4>2 DEF RoutedTypes
    <3>2. c.pc = "sending"
      BY <2>3, <2>8
    <3>3. QED
      BY <1>3, <1>4, <1>5, <2>1, <2>3, <2>7, <3>1, <3>2, OneCall
  <2>9. CASE ~TokenUsable(p)
    <3>1. /\ token' \in [Replicas -> [expires : Nat, fetching : BOOLEAN]] /\ token'[p].fetching
          /\ \A q \in Replicas : q # p => token'[q] = token[q]
      <4>1. (token[p].fetching \/ ~TokenUsable(p)) = TRUE
        BY <2>9
      <4>2. token' = [token EXCEPT ![p].fetching = TRUE]
        BY <2>1, <4>1
      <4>3. QED
        BY <1>3, <2>2, <4>2 DEF RoutedTypes
    <3>2. /\ call' \in [Requests -> CallStates] /\ call'[r] = c /\ call'[r].pc = "token"
          /\ \A q \in Requests : q # r => call'[q] = call[q]
      BY <1>3, <2>1, <2>3, <2>9 DEF RoutedTypes
    <3>3. CallFits(r, call[r])'
      BY <2>7, <3>2 DEF CallFits
    <3>4. \A q \in Replicas : token'[q].fetching <=> Waiting(q)' # {}
      <4>1. r \in Waiting(p)'
        BY <1>3, <3>2 DEF Waiting, On, HostOf
      <4>2. \A q \in Replicas : q # p => Waiting(q)' = Waiting(q)
        <5>1. \A s \in DOMAIN scenario.host : s \in Requests
          BY <1>3, Hosts
        <5>2. QED
          BY <1>3, <3>2, <5>1 DEF Waiting, On, HostOf
      <4>3. \A q \in Replicas : q # p => (token'[q].fetching <=> Waiting(q)' # {})
        BY <3>1, <4>2 DEF PolicyInv, Routed
      <4>4. QED
        BY <3>1, <4>1, <4>3
    <3>5. QED
      BY <1>3, <1>4, <1>5, <3>1, <3>2, <3>3, <3>4, RoutedKept
  <2>10. QED
    BY <2>8, <2>9
<1>8. QED
  BY <1>6, <1>7

\* A fetch that fails now.
LEMMA FailingFits ==
  ASSUME Governed, NEW r \in DOMAIN scenario.host, UNCHANGED <<scenario, now>>,
         call[r] \in CallStates, Keyed(call[r].seen.value),
         call'[r] = Failing(call[r]), failedAt'[HostOf(r)] = now
  PROVE  call'[r] \in CallStates /\ call'[r].pc = "failing" /\ CallFits(r, call[r])'
<1>1. PICK e \in Entries : e = call[r].seen
  BY DEF CallStates
<1>2. PICK c \in CallStates : c = call'[r] /\ c.pc = "failing" /\ c.seen = e
  <2>1. call'[r] = [Asking EXCEPT !.pc = "failing", !.seen = e]
    BY <1>1 DEF Failing
  <2>2. /\ [Asking EXCEPT !.pc = "failing", !.seen = e] \in CallStates
        /\ [Asking EXCEPT !.pc = "failing", !.seen = e].pc = "failing"
        /\ [Asking EXCEPT !.pc = "failing", !.seen = e].seen = e
    BY NothingYet DEF CallStates, Labels
  <2>3. QED
    BY <2>1, <2>2
<1>3. Keyed(e.value)'
  BY <1>1 DEF Keyed, StartOfPeriod, Length
<1>4. HostOf(r)' = HostOf(r)
  BY DEF HostOf
<1>5. CallFits(r, c)'
  BY <1>2, <1>3, <1>4 DEF CallFits, InFlight
<1>6. QED
  BY <1>2, <1>5 DEF CallFits

LEMMA TokenArrivesKeeps ==
  ASSUME PolicyInv, NEW p \in Replicas, TokenArrives(p)
  PROVE  Routed'
<1>1. /\ Governed /\ Routed /\ RoutedTypes /\ now \in Nat /\ scenario \in Scenarios
      /\ UNCHANGED <<scenario, now, governance, cache, failedAt>>
  BY DEF PolicyInv, Routed, TokenArrives, Governed, Decided
<1>2. FailuresNoted /\ SavesGrow /\ cache' \in [Replicas -> Entries]
  BY <1>1, SavesStay DEF FailuresNoted, RoutedTypes
<1>3. /\ token' \in [Replicas -> [expires : Nat, fetching : BOOLEAN]] /\ ~token'[p].fetching
      /\ \A q \in Replicas : q # p => token'[q] = token[q]
  <2>1. now + TokenLife - Margin \in Nat
    BY <1>1, Times
  <2>2. token' = [token EXCEPT ![p] = [expires |-> now + TokenLife - Margin, fetching |-> FALSE]]
    BY DEF TokenArrives
  <2>3. QED
    BY <1>1, <2>1, <2>2 DEF RoutedTypes
<1>4. \A r \in Requests : r \notin Waiting(p) => call'[r] = call[r]
  BY DEF TokenArrives
<1>5. ASSUME NEW r \in Requests, r \in Waiting(p)
      PROVE  call'[r] \in CallStates /\ call'[r].pc = "sending" /\ CallFits(r, call[r])'
  <2>1. PICK old \in CallStates : old = call[r] /\ CallFits(r, old) /\ old.pc = "token" /\ r \in DOMAIN scenario.host
    BY <1>1, <1>5 DEF Routed, RoutedTypes, Waiting, On
  <2>2. now + TokenLife \in Nat
    BY <1>1, Times
  <2>3. /\ [old EXCEPT !.pc = "sending", !.token = now + TokenLife] \in CallStates
        /\ [old EXCEPT !.pc = "sending", !.token = now + TokenLife].pc = "sending"
        /\ [old EXCEPT !.pc = "sending", !.token = now + TokenLife].token = now + TokenLife
        /\ [old EXCEPT !.pc = "sending", !.token = now + TokenLife].since = old.since
        /\ [old EXCEPT !.pc = "sending", !.token = now + TokenLife].seen = old.seen
    BY <2>1, <2>2 DEF CallStates, Labels, InFlight
  <2>4. PICK c \in CallStates : /\ c = [old EXCEPT !.pc = "sending", !.token = now + TokenLife]
                                /\ c.pc = "sending" /\ c.token = now + TokenLife
                                /\ c.since = old.since /\ c.seen = old.seen
    BY <2>3
  <2>5. call'[r] = c
    BY <1>5, <2>1, <2>4 DEF TokenArrives
  <2>6. old.since <= now /\ now <= old.since + FetchTime /\ Keyed(old.seen.value) /\ old.since \in Nat
    BY <2>1 DEF CallFits, InFlight, CallStates
  <2>7. c.token > c.since + FetchTime
    BY <1>1, <2>4, <2>6, Times
  <2>8. CallFits(r, c)
    BY <2>1, <2>4, <2>6, <2>7 DEF CallFits, InFlight
  <2>9. CallFits(r, c)'
    BY <1>1, <1>2, <2>8, FitsLater
  <2>10. QED
    BY <2>4, <2>5, <2>9 DEF CallFits
<1>6. call' \in [Requests -> CallStates]
  <2>1. \A r \in Requests : call'[r] \in CallStates
    BY <1>1, <1>4, <1>5 DEF RoutedTypes
  <2>2. QED
    BY <2>1 DEF TokenArrives
<1>7. \A q \in Replicas : token'[q].fetching <=> Waiting(q)' # {}
  <2>1. \A r \in DOMAIN scenario.host : r \in Requests
    BY <1>1, Hosts
  <2>2. Waiting(p)' = {}
    BY <1>1, <1>4, <1>5, <2>1 DEF Waiting, On, HostOf
  <2>3. \A q \in Replicas : q # p => Waiting(q)' = Waiting(q)
    <3>1. \A r \in Waiting(p) : r \in Requests /\ HostOf(r) = p
      BY <2>1 DEF Waiting
    <3>2. \A r \in DOMAIN scenario.host : HostOf(r) # p => call'[r] = call[r]
      BY <1>4, <2>1, <3>1
    <3>3. QED
      BY <1>1, <3>2 DEF Waiting, On, HostOf
  <2>4. \A q \in Replicas : q # p => (token'[q].fetching <=> Waiting(q)' # {})
    BY <1>1, <1>3, <2>3 DEF Routed
  <2>5. QED
    BY <1>3, <2>2, <2>4
<1>8. QED
  BY <1>1, <1>2, <1>3, <1>4, <1>5, <1>6, <1>7, RoutedKept

LEMMA TokenFailsKeeps ==
  ASSUME PolicyInv, NEW p \in Replicas, TokenFails(p)
  PROVE  Routed'
<1>1. /\ Governed /\ Routed /\ RoutedTypes /\ now \in Nat /\ scenario \in Scenarios
      /\ UNCHANGED <<scenario, now, governance, cache>>
      /\ failedAt' = [failedAt EXCEPT ![p] = now]
  BY DEF PolicyInv, Routed, TokenFails, Governed, Decided
<1>2. FailuresNoted /\ SavesGrow /\ cache' \in [Replicas -> Entries] /\ failedAt'[p] = now
  BY <1>1, SavesStay DEF FailuresNoted, RoutedTypes
<1>3. /\ token' \in [Replicas -> [expires : Nat, fetching : BOOLEAN]] /\ ~token'[p].fetching
      /\ \A q \in Replicas : q # p => token'[q] = token[q]
  <2>1. token' = [token EXCEPT ![p].fetching = FALSE]
    BY DEF TokenFails
  <2>2. QED
    BY <1>1, <2>1 DEF RoutedTypes
<1>4. \A r \in Requests : r \notin Waiting(p) => call'[r] = call[r]
  BY DEF TokenFails
<1>5. ASSUME NEW r \in Requests, r \in Waiting(p)
      PROVE  call'[r] \in CallStates /\ call'[r].pc = "failing" /\ CallFits(r, call[r])'
  <2>1. /\ call[r] \in CallStates /\ Keyed(call[r].seen.value)
        /\ r \in DOMAIN scenario.host /\ HostOf(r) = p /\ call'[r] = Failing(call[r])
    BY <1>1, <1>5 DEF Routed, RoutedTypes, Waiting, TokenFails, CallFits
  <2>2. QED
    BY <1>1, <1>2, <2>1, FailingFits
<1>6. call' \in [Requests -> CallStates]
  <2>1. \A r \in Requests : call'[r] \in CallStates
    BY <1>1, <1>4, <1>5 DEF RoutedTypes
  <2>2. QED
    BY <2>1 DEF TokenFails
<1>7. \A q \in Replicas : token'[q].fetching <=> Waiting(q)' # {}
  <2>1. \A r \in DOMAIN scenario.host : r \in Requests
    BY <1>1, Hosts
  <2>2. Waiting(p)' = {}
    BY <1>1, <1>4, <1>5, <2>1 DEF Waiting, On, HostOf
  <2>3. \A q \in Replicas : q # p => Waiting(q)' = Waiting(q)
    <3>1. \A r \in Waiting(p) : r \in Requests /\ HostOf(r) = p
      BY <2>1 DEF Waiting
    <3>2. \A r \in DOMAIN scenario.host : HostOf(r) # p => call'[r] = call[r]
      BY <1>4, <2>1, <3>1
    <3>3. QED
      BY <1>1, <3>2 DEF Waiting, On, HostOf
  <2>4. \A q \in Replicas : q # p => (token'[q].fetching <=> Waiting(q)' # {})
    BY <1>1, <1>3, <2>3 DEF Routed
  <2>5. QED
    BY <1>3, <2>2, <2>4
<1>8. QED
  BY <1>1, <1>2, <1>3, <1>4, <1>5, <1>6, <1>7, RoutedKept

\* What every step of a request that is fetching starts from.
LEMMA Fetching ==
  ASSUME PolicyInv, NEW r \in Requests, call[r].pc \in {"sending", "reading", "arriving", "failing"},
         UNCHANGED <<scenario, now, governance>>
  PROVE  /\ Governed /\ RoutedTypes /\ SavesGrow /\ now \in Nat /\ now <= MaxTime
         /\ r \in DOMAIN scenario.host /\ HostOf(r) \in Replicas
         /\ call[r] \in CallStates /\ CallFits(r, call[r])
         /\ call[r].since \in Nat /\ call[r].project \in Nat /\ call[r].value \in PolicyType
         /\ call[r].budget \in Budgets
<1>1. Governed /\ RoutedTypes /\ SavesGrow /\ now \in Nat /\ now <= scenario.until /\ scenario \in Scenarios
  BY SavesStay DEF PolicyInv, Routed, Governed, Decided
<1>2. now <= MaxTime
  BY <1>1, SituationAssumption, Times
<1>3. call[r] \in CallStates /\ CallFits(r, call[r])
  BY <1>1 DEF PolicyInv, Routed, RoutedTypes
<1>4. r \in DOMAIN scenario.host
  BY <1>3 DEF CallFits
<1>5. HostOf(r) \in Replicas
  BY <1>1, <1>4, Hosts
<1>6. QED
  BY <1>1, <1>2, <1>3, <1>4, <1>5 DEF CallStates

LEMMA GetProjectKeeps ==
  ASSUME PolicyInv, NEW r \in Requests, GetProject(r)
  PROVE  Routed'
<1>1. call[r].pc = "sending" /\ UNCHANGED <<scenario, now, governance, cache, token, failedAt>>
  BY DEF GetProject, On
<1>2. /\ Governed /\ RoutedTypes /\ SavesGrow /\ r \in DOMAIN scenario.host
      /\ call[r] \in CallStates /\ CallFits(r, call[r]) /\ call[r].since \in Nat
  BY <1>1, Fetching
<1>3. FailuresNoted /\ cache' \in [Replicas -> Entries]
  BY <1>1, <1>2 DEF FailuresNoted, RoutedTypes
<1>4. CASE project = NoProject
  <2>1. PICK c \in CallStates : c = Failed
    BY <1>2, EndStates, NothingYet DEF Entries
  <2>2. call' = [call EXCEPT ![r] = c] /\ c.pc # "token"
    BY <1>2, <1>1, <1>4, <2>1, FailedFits DEF GetProject
  <2>3. Failed' = c
    BY <2>1 DEF Failed, Asking, NoEntry, NoPolicy, NoKey, NoBudget
  <2>4. CallFits(r, c)'
    BY <1>1, <1>2, <2>1, <2>3, FailedFits DEF CallFits
  <2>5. QED
    BY <1>1, <1>3, <2>2, <2>4, OneCall
<1>5. CASE project # NoProject
  <2>1. Len(saves.project) \in Nat
    BY <1>2 DEF SavesGrow, Grows
  <2>2. PICK c \in CallStates : /\ c = [call[r] EXCEPT !.pc = "reading", !.project = Len(saves.project), !.token = 0]
                                /\ c.pc = "reading" /\ c.project = Len(saves.project)
                                /\ c.since = call[r].since /\ c.seen = call[r].seen
    <3> DEFINE new == [call[r] EXCEPT !.pc = "reading", !.project = Len(saves.project), !.token = 0]
    <3>1. /\ new \in CallStates /\ new.pc = "reading" /\ new.project = Len(saves.project)
          /\ new.since = call[r].since /\ new.seen = call[r].seen
      BY <1>2, <2>1 DEF CallStates, Labels, InFlight
    <3>2. QED
      BY <3>1
  <2>3. call' = [call EXCEPT ![r] = c]
    BY <1>5, <2>2 DEF GetProject
  <2>4. Since(saves.project, c.project, c.since)
    BY <2>1, <2>2 DEF Since
  <2>5. CallFits(r, c)
    BY <1>1, <1>2, <2>2, <2>4 DEF CallFits, InFlight
  <2>6. CallFits(r, c)'
    BY <1>1, <1>2, <1>3, <2>5, FitsLater
  <2>7. QED
    BY <1>1, <1>3, <2>2, <2>3, <2>6, OneCall
<1>6. QED
  BY <1>4, <1>5

LEMMA GetBudgetKeeps ==
  ASSUME PolicyInv, NEW r \in Requests, GetBudget(r)
  PROVE  Routed'
<1>1. call[r].pc = "reading" /\ UNCHANGED <<scenario, now, governance, cache, token, failedAt>>
  BY DEF GetBudget, On
<1>2. /\ Governed /\ RoutedTypes /\ SavesGrow /\ r \in DOMAIN scenario.host /\ now \in Nat /\ now <= MaxTime
      /\ call[r] \in CallStates /\ CallFits(r, call[r]) /\ call[r].since \in Nat /\ call[r].project \in Nat
  BY <1>1, Fetching
<1>3. FailuresNoted /\ cache' \in [Replicas -> Entries] /\ Len(saves.budget) \in Nat
  BY <1>1, <1>2 DEF FailuresNoted, RoutedTypes, SavesGrow, Grows
<1>4. Begun(budget) /\ budget \in Budgets /\ budget.period \in Kinds \cup {"none"}
  BY <1>2, Documents DEF Governed, Decided, Budgets
<1>5. PICK b \in Budgets : /\ b = RolledOver(budget) /\ b.period = budget.period
                           /\ budget.period \in Kinds => b.start = StartOfPeriod(budget.period, now)
  <2>1. CASE budget = NoBudget
    <3>1. RolledOver(budget) = budget /\ budget.period \notin Kinds
      BY <2>1 DEF RolledOver, NoBudget, Kinds
    <3>2. QED
      BY <1>4, <3>1
  <2>2. CASE budget # NoBudget
    BY <1>2, <1>4, <2>2, RolledOverIsBegun, Documents
  <2>3. QED
    BY <2>1, <2>2
<1>6. PICK value \in PolicyType :
         /\ value = [NoPolicy EXCEPT !.project = call[r].project, !.budget = Len(saves.budget),
                                     !.readAt = now, !.kind = budget.period]
         /\ ~value.stale /\ value.project = call[r].project /\ value.budget = Len(saves.budget)
         /\ value.readAt = now /\ value.kind = budget.period
  <2>1. PICK n \in Nat, m \in Nat, t \in 0 .. MaxTime, kind \in Kinds \cup {"none"} :
          n = call[r].project /\ m = Len(saves.budget) /\ t = now /\ kind = budget.period
    BY <1>2, <1>3, <1>4, Times
  <2> DEFINE new == [NoPolicy EXCEPT !.project = n, !.budget = m, !.readAt = t, !.kind = kind]
  <2>2. new \in PolicyType /\ ~new.stale /\ new.project = n /\ new.budget = m /\ new.readAt = t /\ new.kind = kind
    BY NothingYet DEF PolicyType
  <2>3. QED
    BY <2>1, <2>2
<1>7. PICK c \in CallStates :
         /\ c = [call[r] EXCEPT !.pc = "arriving", !.budget = b, !.value = value]
         /\ c.pc = "arriving" /\ c.budget = b /\ c.value = value
         /\ c.since = call[r].since /\ c.seen = call[r].seen /\ c.project = call[r].project
  <2> DEFINE new == [call[r] EXCEPT !.pc = "arriving", !.budget = b, !.value = value]
  <2>1. /\ new \in CallStates /\ new.pc = "arriving" /\ new.budget = b /\ new.value = value
        /\ new.since = call[r].since /\ new.seen = call[r].seen /\ new.project = call[r].project
    BY <1>2 DEF CallStates, Labels, InFlight
  <2>2. QED
    BY <2>1
<1>8. call' = [call EXCEPT ![r] = c]
  BY <1>5, <1>6, <1>7 DEF GetBudget, PeriodInForce
<1>9. call[r].since <= now /\ now <= call[r].since + FetchTime /\ Since(saves.project, call[r].project, call[r].since)
  BY <1>1, <1>2 DEF CallFits, InFlight
<1>10. Answered(c)
  <2>1. Since(saves.budget, Len(saves.budget), c.since)
    <3>1. PICK m \in Nat : m = Len(saves.budget)
      BY <1>3
    <3>2. m + 1 .. m = {}
      OBVIOUS
    <3>3. QED
      BY <3>1, <3>2 DEF Since
  <2>2. Since(saves.budget, c.value.budget, c.since)
    BY <1>6, <1>7, <2>1
  <2>3. ~c.value.stale /\ c.value.project = c.project /\ c.value.kind = c.budget.period
    BY <1>5, <1>6, <1>7
  <2>4. c.since <= c.value.readAt /\ c.value.readAt <= now
    <3>1. c.value.readAt = now /\ c.since = call[r].since /\ now <= now
      <4>1. c.value = value /\ value.readAt = now /\ c.since = call[r].since
        BY <1>6, <1>7
      <4>2. now \in Nat
        BY <1>2
      <4>3. QED
        BY <4>1, <4>2
    <3>2. QED
      BY <1>9, <3>1
  <2>5. c.value.kind \in Kinds => c.budget.start = StartOfPeriod(c.value.kind, c.value.readAt)
    BY <1>5, <1>6, <1>7
  <2>6. QED
    BY <2>2, <2>3, <2>4, <2>5 DEF Answered
<1>11. CallFits(r, c)
  BY <1>1, <1>2, <1>7, <1>9, <1>10 DEF CallFits, InFlight
<1>12. CallFits(r, c)'
  BY <1>1, <1>2, <1>3, <1>11, FitsLater
<1>13. QED
  BY <1>1, <1>3, <1>7, <1>8, <1>12, OneCall

\* The key that is read off the end of a period is that of the period: what is left of
\* a day is never more than two, and an answer is late by no more than a fetch.
LEMMA KeyOfAnswer ==
  ASSUME now \in Nat, NEW b \in Budgets, NEW value \in PolicyType, value.kind = b.period,
         value.kind \in Kinds => b.start = StartOfPeriod(value.kind, value.readAt),
         value.readAt <= now, now <= value.readAt + FetchTime, value.key = PeriodKey(b)
  PROVE  Keyed(value)
<1>1. SUFFICES ASSUME value.kind \in Kinds PROVE Keyed(value)
  BY DEF Keyed
<1>2. PICK kind \in Kinds, start \in Nat, l \in Nat \ {0}, readAt \in Nat :
        /\ kind = value.kind /\ start = b.start /\ l = Length(kind) /\ readAt = value.readAt
        /\ start = StartOfPeriod(kind, readAt) /\ start <= readAt
  <2>1. value.readAt \in Nat
    BY Times DEF PolicyType
  <2>2. StartOfPeriod(value.kind, value.readAt) \in Nat /\ StartOfPeriod(value.kind, value.readAt) <= value.readAt
    BY <1>1, <2>1, PeriodOf
  <2>3. QED
    BY <1>1, <2>1, <2>2, Lengths
<1>3. PICK end \in Nat : end = start + l /\ end = PeriodEnd(b)
  BY <1>2 DEF PeriodEnd
<1>4. b # NoBudget
  BY <1>1 DEF NoBudget, Kinds
<1>5. CASE end - now > TwoDays
  <2>1. value.key = <<"month", end \div Month>>
    BY <1>3, <1>4, <1>5 DEF PeriodKey
  <2>2. kind # "daily"
    <3>1. SUFFICES ASSUME kind = "daily" PROVE FALSE
      OBVIOUS
    <3>2. l = Day
      BY <1>2, <3>1 DEF Length
    <3>3. QED
      BY <1>2, <1>3, <1>5, <3>2, Lengths
  <2>3. kind = "monthly"
    BY <2>2 DEF Kinds
  <2>4. QED
    BY <1>2, <1>3, <2>1, <2>3 DEF Keyed
<1>6. CASE ~(end - now > TwoDays)
  <2>1. value.key = <<"day", end \div Day>>
    BY <1>3, <1>4, <1>6 DEF PeriodKey
  <2>2. end - readAt <= TwoDays + FetchTime
    BY <1>2, <1>3, <1>6, Lengths, Times
  <2>3. QED
    BY <1>2, <1>3, <2>1, <2>2 DEF Keyed
<1>7. QED
  BY <1>5, <1>6

LEMMA KeyType ==
  ASSUME NEW b \in Budgets
  PROVE  PeriodKey(b) \in {"no-budget", "month", "day"} \X Nat
<1>1. b.start \in Nat /\ Length(b.period) \in Nat
  BY Lengths DEF Budgets, Length
<1>2. PICK end \in Nat : end = PeriodEnd(b)
  BY <1>1 DEF PeriodEnd
<1>3. end \div Month \in Nat /\ end \div Day \in Nat
  BY Lengths
<1>4. QED
  BY <1>2, <1>3 DEF PeriodKey, NoKey

LEMMA ArriveKeeps ==
  ASSUME PolicyInv, NEW r \in Requests, Arrive(r)
  PROVE  Routed'
<1>1. call[r].pc = "arriving" /\ UNCHANGED <<scenario, now, governance, token, failedAt>>
  BY DEF Arrive, On
<1>2. /\ Governed /\ RoutedTypes /\ SavesGrow /\ r \in DOMAIN scenario.host /\ now \in Nat
      /\ call[r] \in CallStates /\ CallFits(r, call[r]) /\ call[r].since \in Nat /\ call[r].project \in Nat
      /\ call[r].value \in PolicyType /\ call[r].budget \in Budgets
  BY <1>1, Fetching
<1>3. FailuresNoted
  BY <1>1, <1>2 DEF FailuresNoted, RoutedTypes
<1>4. PICK p \in Replicas : p = HostOf(r) /\ p = HostOf(r)'
  BY <1>1, Fetching DEF HostOf
<1>5. /\ Answered(call[r]) /\ call[r].since <= now /\ now <= call[r].since + FetchTime
      /\ Since(saves.project, call[r].project, call[r].since)
  BY <1>1, <1>2 DEF CallFits, InFlight
<1>6. PICK value \in PolicyType :
         /\ value = [call[r].value EXCEPT !.key = PeriodKey(call[r].budget)]
         /\ value.key = PeriodKey(call[r].budget) /\ ~value.stale
         /\ value.project = call[r].project /\ value.budget = call[r].value.budget
         /\ value.readAt = call[r].value.readAt /\ value.kind = call[r].value.kind
  <2> DEFINE new == [call[r].value EXCEPT !.key = PeriodKey(call[r].budget)]
  <2>1. PeriodKey(call[r].budget) \in {"no-budget", "month", "day"} \X Nat
    BY <1>2, KeyType
  <2>2. /\ new \in PolicyType
        /\ new.key = PeriodKey(call[r].budget) /\ new.stale = call[r].value.stale
        /\ new.project = call[r].value.project /\ new.budget = call[r].value.budget
        /\ new.readAt = call[r].value.readAt /\ new.kind = call[r].value.kind
    BY <1>2, <2>1 DEF PolicyType
  <2>3. QED
    BY <1>5, <2>2 DEF Answered
<1>7. Keyed(value)
  <2>1. value.readAt \in Nat /\ value.readAt <= now /\ now <= value.readAt + FetchTime
    BY <1>2, <1>5, <1>6, Times DEF Answered, PolicyType
  <2>2. /\ value.kind = call[r].budget.period
        /\ value.kind \in Kinds => call[r].budget.start = StartOfPeriod(value.kind, value.readAt)
    BY <1>5, <1>6 DEF Answered
  <2>3. QED
    BY <1>2, <1>6, <2>1, <2>2, KeyOfAnswer
<1>8. Recent(value, call[r].since)
  BY <1>5, <1>6 DEF Recent, Answered
<1>9. PICK c \in CallStates : c = [Asking EXCEPT !.pc = "served", !.value = value, !.at = now]
  BY <1>2, EndStates, NothingYet
<1>10. call' = [call EXCEPT ![r] = c] /\ c.pc # "token"
  BY <1>6, <1>9 DEF Arrive, Serves, Asking
<1>11. CallFits(r, c)'
  <2>1. /\ now - Ttl - FetchTime + 1 \in Int /\ call[r].since \in Int
        /\ now - Ttl - FetchTime + 1 <= call[r].since
    BY <1>2, <1>5, Times
  <2>2. Recent(value, now - Ttl - FetchTime + 1)
    BY <1>2, <1>8, <2>1, RecentEarlier
  <2>3. CallFits(r, c)
    BY <1>2, <1>6, <1>7, <1>9, <2>2, ServedFits
  <2>4. QED
    BY <1>1, <1>2, <1>3, <2>3, FitsLater
<1>12. PICK e \in Entries : e = [value |-> value, expires |-> now + Ttl]
  <2>1. PICK t \in Nat : t = now + Ttl
    BY <1>2, Times
  <2>2. [value |-> value, expires |-> t] \in Entries
    BY DEF Entries
  <2>3. QED
    BY <2>1, <2>2
<1>13. cache' = [cache EXCEPT ![p] = e]
  BY <1>4, <1>6, <1>12 DEF Arrive, Cached
<1>14. EntryFits(p, e)'
  <2>1. /\ now + Ttl - Ttl - FetchTime \in Int /\ call[r].since \in Int
        /\ now + Ttl - Ttl - FetchTime <= call[r].since
    BY <1>2, <1>5, Times
  <2>2. Recent(value, now + Ttl - Ttl - FetchTime)
    BY <1>2, <1>8, <2>1, RecentEarlier
  <2>3. e.value = value /\ e.expires = now + Ttl
    BY <1>12
  <2>4. EntryFits(p, e)
    BY <1>2, <1>6, <1>7, <2>2, <2>3, Times DEF EntryFits
  <2>5. QED
    BY <1>1, <1>2, <1>3, <2>4, FitsLater
<1>15. cache' \in [Replicas -> Entries] /\ \A q \in Replicas : cache'[q] = cache[q] \/ EntryFits(q, cache[q])'
  <2>1. cache' \in [Replicas -> Entries] /\ cache'[p] = e /\ \A q \in Replicas : q # p => cache'[q] = cache[q]
    BY <1>2, <1>13 DEF RoutedTypes
  <2>2. EntryFits(p, cache[p])'
    BY <1>14, <2>1 DEF EntryFits
  <2>3. QED
    BY <2>1, <2>2
<1>16. QED
  BY <1>1, <1>3, <1>10, <1>11, <1>15, OneCall

LEMMA FetchFailsKeeps ==
  ASSUME PolicyInv, NEW r \in Requests, FetchFails(r)
  PROVE  Routed'
<1>1. /\ call[r].pc \in {"sending", "reading", "arriving"} /\ UNCHANGED <<scenario, now, governance, cache, token>>
      /\ call' = [call EXCEPT ![r] = Failing(call[r])] /\ failedAt' = [failedAt EXCEPT ![HostOf(r)] = now]
  BY DEF FetchFails
<1>2. /\ Governed /\ RoutedTypes /\ r \in DOMAIN scenario.host /\ HostOf(r) \in Replicas /\ now \in Nat
      /\ call[r] \in CallStates /\ CallFits(r, call[r])
  BY <1>1, Fetching
<1>3. FailuresNoted /\ failedAt'[HostOf(r)] = now /\ cache' \in [Replicas -> Entries]
  BY <1>1, <1>2 DEF FailuresNoted, RoutedTypes
<1>4. call'[r] = Failing(call[r])
  BY <1>1, <1>2 DEF RoutedTypes
<1>5. call'[r] \in CallStates /\ call'[r].pc = "failing" /\ CallFits(r, call[r])'
  BY <1>1, <1>2, <1>3, <1>4, FailingFits DEF CallFits
<1>6. PICK c \in CallStates : c = call'[r]
  BY <1>5
<1>7. call' = [call EXCEPT ![r] = c] /\ c.pc = "failing" /\ CallFits(r, c)'
  BY <1>1, <1>4, <1>5, <1>6 DEF CallFits
<1>8. QED
  BY <1>1, <1>3, <1>7, OneCall

LEMMA FallBackKeeps ==
  ASSUME PolicyInv, NEW r \in Requests, FallBack(r)
  PROVE  Routed'
<1>1. call[r].pc = "failing" /\ UNCHANGED <<scenario, now, governance, token, failedAt>>
  BY DEF FallBack, On
<1>2. /\ Governed /\ RoutedTypes /\ SavesGrow /\ r \in DOMAIN scenario.host /\ now \in Nat
      /\ call[r] \in CallStates /\ CallFits(r, call[r])
  BY <1>1, Fetching
<1>3. FailuresNoted
  BY <1>1, <1>2 DEF FailuresNoted, RoutedTypes
<1>4. CASE call[r].seen = NoEntry
  <2>1. PICK c \in CallStates : c = Failed
    BY <1>2, EndStates, NothingYet
  <2>2. call' = [call EXCEPT ![r] = c] /\ c.pc # "token" /\ UNCHANGED cache
    BY <1>2, <1>1, <1>4, <2>1, FailedFits DEF FallBack
  <2>3. Failed' = c
    BY <2>1 DEF Failed, Asking, NoEntry, NoPolicy, NoKey, NoBudget
  <2>4. CallFits(r, c)'
    BY <1>1, <1>2, <2>1, <2>3, FailedFits DEF CallFits
  <2>5. cache' \in [Replicas -> Entries]
    BY <1>2, <2>2 DEF RoutedTypes
  <2>6. QED
    BY <1>1, <1>3, <2>2, <2>4, <2>5, OneCall
<1>5. CASE call[r].seen # NoEntry
  <2>1. PICK p \in Replicas : p = HostOf(r) /\ p = HostOf(r)'
    BY <1>1, Fetching DEF HostOf
  <2>2. PICK value \in PolicyType : value = Flagged(call[r].seen.value) /\ value.stale /\ Keyed(value)
    <3>1. call[r].seen.value \in PolicyType /\ Keyed(call[r].seen.value)
      BY <1>2 DEF CallStates, Entries, CallFits
    <3>2. /\ Flagged(call[r].seen.value) \in PolicyType /\ Flagged(call[r].seen.value).stale
          /\ Flagged(call[r].seen.value).kind = call[r].seen.value.kind
          /\ Flagged(call[r].seen.value).key = call[r].seen.value.key
          /\ Flagged(call[r].seen.value).readAt = call[r].seen.value.readAt
      BY <3>1 DEF Flagged, PolicyType
    <3>3. Keyed(Flagged(call[r].seen.value))
      BY <3>1, <3>2 DEF Keyed
    <3>4. QED
      BY <3>2, <3>3
  <2>3. failedAt[p] = now
    BY <1>1, <1>2, <2>1 DEF CallFits
  <2>4. PICK c \in CallStates : c = [Asking EXCEPT !.pc = "served", !.value = value, !.at = now]
    BY <1>2, EndStates, NothingYet
  <2>5. call' = [call EXCEPT ![r] = c] /\ c.pc # "token"
    BY <1>5, <2>2, <2>4 DEF FallBack, Serves, Asking
  <2>6. CallFits(r, c)'
    <3>1. now <= failedAt[p] + StaleTtl
      BY <1>2, <2>3, Times
    <3>2. CallFits(r, c)
      BY <1>2, <2>1, <2>2, <2>4, <3>1, ServedFits
    <3>3. QED
      BY <1>1, <1>2, <1>3, <3>2, FitsLater
  <2>7. PICK e \in Entries : e = [value |-> value, expires |-> now + StaleTtl]
    <3>1. PICK t \in Nat : t = now + StaleTtl
      BY <1>2, Times
    <3>2. [value |-> value, expires |-> t] \in Entries
      BY DEF Entries
    <3>3. QED
      BY <3>1, <3>2
  <2>8. cache' = [cache EXCEPT ![p] = e]
    BY <1>5, <2>1, <2>2, <2>7 DEF FallBack, Cached
  <2>9. EntryFits(p, e)'
    <3>1. e.value = value /\ e.expires = now + StaleTtl
      BY <2>7
    <3>2. EntryFits(p, e)
      BY <1>2, <2>2, <2>3, <3>1, Times DEF EntryFits
    <3>3. QED
      BY <1>1, <1>2, <1>3, <3>2, FitsLater
  <2>10. cache' \in [Replicas -> Entries] /\ \A q \in Replicas : cache'[q] = cache[q] \/ EntryFits(q, cache[q])'
    <3>1. cache' \in [Replicas -> Entries] /\ cache'[p] = e /\ \A q \in Replicas : q # p => cache'[q] = cache[q]
      BY <1>2, <2>8 DEF RoutedTypes
    <3>2. EntryFits(p, cache[p])'
      BY <2>9, <3>1 DEF EntryFits
    <3>3. QED
      BY <3>1, <3>2
  <2>11. QED
    BY <1>1, <1>3, <2>5, <2>6, <2>10, OneCall
<1>6. QED
  BY <1>4, <1>5

-----------------------------------------------------------------------------
\* Every step keeps the invariant

\* Time passes: nothing that was read gets older than it may.
LEMMA TickKeeps ==
  ASSUME PolicyInv, Tick
  PROVE  PolicyInv'
<1>1. /\ Governed /\ Routed /\ RoutedTypes /\ Decided /\ now \in Nat /\ now < scenario.until /\ now' = now + 1
      /\ UNCHANGED <<scenario, project, budget, events, saves, admin, cache, token, call, failedAt>>
  BY DEF PolicyInv, Governed, Routed, Decided, Tick, governance, router, stores
<1>2. scenario \in Scenarios /\ scenario.start \in Nat /\ scenario.until \in Nat
  BY <1>1, SituationAssumption DEF Decided
<1>3. now' \in Nat /\ now <= now' /\ scenario'.start <= now' /\ now' <= scenario'.until
  BY <1>1, <1>2 DEF Decided
<1>4. ASSUME NEW b, Begun(b) PROVE Begun(b)'
  <2>1. b # NoBudget => b.start \in Nat /\ b.start <= now
    BY <1>4 DEF Begun, Budgets
  <2>2. b # NoBudget => b.start <= now'
    BY <1>1, <2>1
  <2>3. QED
    BY <1>4, <2>2 DEF Begun, StartOfPeriod, Length
<1>5. Governed'
  <2>1. Begun(budget)'
    <3>1. PICK b : b = budget /\ b = budget'
      BY <1>1
    <3>2. Begun(b)'
      BY <1>1, <1>4, <3>1 DEF Decided
    <3>3. QED
      BY <3>1, <3>2 DEF Begun
  <2>2. Decided'
    BY <1>1, <1>2, <1>3, <2>1 DEF Decided, Allowed
  <2>3. ASSUME NEW a \in Admins PROVE Prepared(a)'
    <3>1. Prepared(a) /\ admin'[a] = admin[a]
      BY <1>1 DEF Governed
    <3>2. PICK b : b = admin[a].budget /\ b = admin'[a].budget
      BY <3>1
    <3>3. At(a, "saving budget") => Begun(b)'
      BY <1>4, <3>1, <3>2 DEF Prepared
    <3>4. At(a, "saving budget") => Begun(admin[a].budget)'
      BY <3>2, <3>3 DEF Begun
    <3>5. QED
      BY <1>1, <3>1, <3>4 DEF Prepared, At, Asked, Allowed
  <2>4. events' \in Seq(Announcements) /\ EventsTellTheStore'
    BY <1>1 DEF Governed, EventsTellTheStore, IsLast
  <2>5. QED
    BY <1>1, <2>2, <2>3, <2>4 DEF Governed
<1>6. RoutedTypes'
  <2>1. \A p \in Replicas : failedAt[p] \in Nat /\ failedAt[p] <= now
    BY <1>1 DEF RoutedTypes
  <2>2. \A p \in Replicas : failedAt'[p] <= now'
    BY <1>1, <2>1
  <2>3. QED
    BY <1>1, <2>2 DEF RoutedTypes
<1>7. ASSUME NEW p \in Replicas PROVE EntryFits(p, cache[p])'
  <2>1. PICK e \in Entries : e = cache[p] /\ e = cache'[p] /\ EntryFits(p, e)
    BY <1>1 DEF Routed, RoutedTypes
  <2>2. e.expires \in Nat /\ (e.expires <= now + Ttl => e.expires <= now' + Ttl)
    BY <1>1, Times DEF Entries
  <2>3. EntryFits(p, e)'
    BY <1>1, <2>1, <2>2 DEF EntryFits, Keyed, StartOfPeriod, Length, Recent, Since
  <2>4. QED
    BY <2>1, <2>3 DEF EntryFits
<1>8. ASSUME NEW r \in Requests PROVE CallFits(r, call[r])'
  <2>1. PICK c \in CallStates : c = call[r] /\ c = call'[r] /\ CallFits(r, c)
    BY <1>1 DEF Routed, RoutedTypes
  <2>2. c.since \in Nat /\ c.at \in Nat /\ c.value.readAt \in Nat
    BY Times DEF CallStates, PolicyType
  <2>3. c.pc # "failing" /\ (c.pc \in InFlight => now < c.since + FetchTime)
    BY <2>1 DEF Tick, On
  <2>4. c.pc \in InFlight => c.since <= now' /\ now' <= c.since + FetchTime
    BY <1>1, <2>1, <2>2, <2>3, Times DEF CallFits
  <2>5. c.pc = "arriving" => Answered(c)'
    <3>1. c.pc = "arriving" => Answered(c)
      BY <2>1 DEF CallFits
    <3>2. c.value.readAt <= now => c.value.readAt <= now'
      BY <1>1, <2>2
    <3>3. QED
      BY <1>1, <3>1, <3>2 DEF Answered, Since, StartOfPeriod, Length
  <2>6. c.at <= now => c.at <= now'
    BY <1>1, <2>2
  <2>7. HostOf(r)' = HostOf(r)
    BY <1>1 DEF HostOf
  <2>8. CallFits(r, c)'
    <3>1. Keyed(c.seen.value)' /\ (c.pc # "idle" => r \in DOMAIN scenario'.host)
          /\ (c.pc = "sending" => c.token > c.since + FetchTime)
      BY <1>1, <2>1 DEF CallFits, Keyed, StartOfPeriod, Length
    <3>2. c.pc \in {"reading", "arriving"} => Since(saves'.project, c.project, c.since)
      BY <1>1, <2>1 DEF CallFits, Since
    <3>3. c.pc = "served" =>
            /\ c.at <= now' /\ Keyed(c.value)'
            /\ IF c.value.stale THEN c.at <= failedAt'[HostOf(r)] + StaleTtl
               ELSE Recent(c.value, c.at - Ttl - FetchTime + 1)'
      BY <1>1, <2>1, <2>6 DEF CallFits, Keyed, StartOfPeriod, Length, Recent, Since
    <3>4. QED
      BY <1>1, <2>1, <2>3, <2>4, <2>5, <2>7, <3>1, <3>2, <3>3 DEF CallFits, Since
  <2>9. QED
    BY <2>1, <2>8 DEF CallFits
<1>9. \A p \in Replicas : token'[p].fetching <=> Waiting(p)' # {}
  BY <1>1 DEF Routed, Waiting, On, HostOf
<1>10. QED
  BY <1>5, <1>6, <1>7, <1>8, <1>9 DEF PolicyInv, Routed

\* A step of a reader, which leaves the documents alone.
LEMMA ReadersSpare ==
  ASSUME PolicyInv, UNCHANGED <<scenario, now, governance>>
  PROVE  Governed'
<1>1. Governed /\ UNCHANGED <<scenario, now, stores>> /\ UNCHANGED <<project, admin>>
  BY DEF PolicyInv, governance, stores
<1>2. admin' \in [Admins -> AdminStates] /\ \A b \in Admins : Prepared(b)'
  BY <1>1 DEF Governed, Prepared, At, Asked, Allowed, Begun
<1>3. QED
  BY <1>1, <1>2, StoresKept

LEMMA PolicyStep == PolicyInv /\ [Next]_vars => PolicyInv'
<1>1. SUFFICES ASSUME PolicyInv, [Next]_vars PROVE PolicyInv'
  OBVIOUS
<1>2. ASSUME NEW a \in Admins, Administer(a), UNCHANGED router PROVE PolicyInv'
  BY <1>1, <1>2, AdministerKeeps, AdministerSpares DEF PolicyInv
<1>3. ASSUME NEW r \in Requests, Ask(r) PROVE PolicyInv'
  <2>1. Routed'
    BY <1>1, <1>3, LookUpKeeps, GetProjectKeeps, GetBudgetKeeps, ArriveKeeps, FetchFailsKeeps, FallBackKeeps DEF Ask
  <2>2. UNCHANGED <<scenario, now, governance>>
    BY <1>3 DEF Ask, LookUp, GetProject, GetBudget, Arrive, FetchFails, FallBack
  <2>3. QED
    BY <1>1, <2>1, <2>2, ReadersSpare DEF PolicyInv
<1>4. ASSUME NEW p \in Replicas, TokenArrives(p) \/ TokenFails(p) PROVE PolicyInv'
  <2>1. Routed'
    BY <1>1, <1>4, TokenArrivesKeeps, TokenFailsKeeps
  <2>2. UNCHANGED <<scenario, now, governance>>
    BY <1>4 DEF TokenArrives, TokenFails
  <2>3. QED
    BY <1>1, <2>1, <2>2, ReadersSpare DEF PolicyInv
<1>5. CASE Tick
  BY <1>1, <1>5, TickKeeps
<1>6. CASE UNCHANGED vars
  <2>1. Governed'
    BY <1>1, <1>6, ReadersSpare DEF vars
  <2>2. UNCHANGED <<scenario, now, cache, token, call, failedAt>> /\ SavesGrow
    BY <1>1, <1>6, SavesStay DEF vars, router
  <2>3. RoutedTypes /\ FailuresNoted /\ \A p \in Replicas : token'[p].fetching <=> Waiting(p)' # {}
    BY <1>1, <2>2 DEF PolicyInv, Routed, RoutedTypes, FailuresNoted, Waiting, On, HostOf
  <2>4. Routed'
    BY <1>1, <2>2, <2>3, RoutedKept DEF RoutedTypes
  <2>5. QED
    BY <2>1, <2>4 DEF PolicyInv
<1>7. QED
  BY <1>1, <1>2, <1>3, <1>4, <1>5, <1>6 DEF Next, Rest

\* What is stored and told was allowed, and what a reader has is as recent, and counted
\* under the key, that its time says, in every state of every behaviour.
THEOREM PolicyHolds == Spec => []PolicyInv
<1>1. Init => PolicyInv
  BY GovernedStarts, RoutedStarts DEF PolicyInv
<1>2. QED
  BY <1>1, PolicyStep, PTL DEF Spec

-----------------------------------------------------------------------------
\* What follows from it

\* What administrators decided is what is stored, announced and allowed: the last event
\* about a document tells what is stored of it, whoever raced, and a policy stays within
\* the level of its project (project.repository.ts:127-133, data-classification.ts:9-14).
THEOREM StoredAsDecidedHolds == Spec => []StoredAsDecided
<1>1. PolicyInv => StoredAsDecided
  <2>1. SUFFICES ASSUME PolicyInv PROVE StoredAsDecided
    OBVIOUS
  <2>2. Governed /\ Decided /\ Routed /\ RoutedTypes /\ EventsTellTheStore
    BY <2>1 DEF PolicyInv, Governed, Routed
  <2>3. scenario \in Scenarios /\ now \in 0 .. MaxTime /\ scenario.level \in Levels
    <3>1. scenario \in Scenarios /\ now \in Nat /\ now <= scenario.until
      BY <2>2 DEF Decided
    <3>2. scenario.until \in Nat /\ scenario.until <= MaxTime /\ scenario.level \in Levels
      BY <3>1, SituationAssumption
    <3>3. QED
      BY <3>1, <3>2, Times
  <2>4. GovernanceTypeOK
    <3>1. project \in Projects /\ budget \in Budgets
      BY <2>2, Documents DEF Decided
    <3>2. \A a \in Admins : admin[a].project \in Projects /\ admin[a].budget \in Budgets
      BY <2>2 DEF Governed, AdminStates
    <3>3. QED
      BY <2>3, <3>1, <3>2 DEF GovernanceTypeOK
  <2>5. TypeOK
    <3>1. \A p \in Replicas : cache[p].value \in PolicyType
      BY <2>2 DEF RoutedTypes, Entries
    <3>2. \A r \in Requests :
            /\ call[r].pc \in InFlight \cup {"idle", "failing", "served", "failed"}
            /\ call[r].value \in PolicyType
      BY <2>2 DEF RoutedTypes, CallStates, Labels
    <3>3. QED
      BY <2>2, <2>4, <3>1, <3>2 DEF TypeOK, Routed
  <2>6. PolicyWithinLevel
    <3>1. CASE project = NoProject
      BY <3>1 DEF PolicyWithinLevel, NoProject
    <3>2. CASE Allowed(project)
      BY <3>2 DEF PolicyWithinLevel, Allowed
    <3>3. QED
      BY <2>2, <3>1, <3>2 DEF Decided
  <2>7. QED
    BY <2>2, <2>5, <2>6 DEF StoredAsDecided
<1>2. QED
  BY <1>1, PolicyHolds, PTL

\* A policy served unflagged was in force less than a TTL and a fetch ago, a flagged one
\* is served shortly after a failure, and no token expires on the way
\* (http-policy-reader.ts:44-46, 84-86, service-token.ts:28-30).
THEOREM CachedIsRecentHolds == Spec => []CachedIsRecent
<1>1. PolicyInv => CachedIsRecent
  <2>1. SUFFICES ASSUME PolicyInv PROVE CachedIsRecent
    OBVIOUS
  <2>2. RoutedTypes /\ now \in Nat /\ \A r \in Requests : call[r] \in CallStates /\ CallFits(r, call[r])
    BY <2>1 DEF PolicyInv, Routed, RoutedTypes, Governed, Decided
  <2>3. /\ Len(saves.project) \in Nat /\ \A i \in 1 .. Len(saves.project) : saves.project[i].at \in Nat
        /\ Len(saves.budget) \in Nat /\ \A i \in 1 .. Len(saves.budget) : saves.budget[i].at \in Nat
    <3>1. saves.project \in Seq(ProjectSaves) /\ saves.budget \in Seq(BudgetSaves)
      BY <2>2 DEF RoutedTypes
    <3>2. /\ Len(saves.project) \in Nat /\ \A i \in 1 .. Len(saves.project) : saves.project[i] \in ProjectSaves
          /\ Len(saves.budget) \in Nat /\ \A i \in 1 .. Len(saves.budget) : saves.budget[i] \in BudgetSaves
      BY <3>1
    <3>3. QED
      BY <3>2 DEF ProjectSaves, BudgetSaves
  <2>4. ASSUME NEW c \in CallStates
        PROVE  /\ c.since \in Nat /\ c.token \in Nat /\ c.at \in Nat
               /\ c.value.project \in Nat /\ c.value.budget \in Nat /\ c.value.stale \in BOOLEAN
    BY DEF CallStates, PolicyType
  <2>5. UnflaggedIsRecent
    <3>1. SUFFICES ASSUME NEW r \in Requests, On(r, "served"), ~call[r].value.stale
          PROVE  /\ \A i \in call[r].value.project + 1 .. Len(saves.project) :
                      saves.project[i].at > call[r].at - Ttl - FetchTime
                 /\ \A i \in call[r].value.budget + 1 .. Len(saves.budget) :
                      saves.budget[i].at > call[r].at - Ttl - FetchTime
      BY DEF UnflaggedIsRecent
    <3>2. PICK c \in CallStates : c = call[r] /\ Recent(c.value, c.at - Ttl - FetchTime + 1)
      BY <2>2, <3>1 DEF CallFits, On
    <3>3. PICK t \in Int : t = c.at - Ttl - FetchTime
      BY <2>4, Times
    <3>4. Recent(c.value, t + 1)
      BY <3>2, <3>3
    <3>5. /\ \A i \in c.value.project + 1 .. Len(saves.project) : saves.project[i].at > t
          /\ \A i \in c.value.budget + 1 .. Len(saves.budget) : saves.budget[i].at > t
      BY <2>3, <2>4, <3>4 DEF Recent, Since
    <3>6. QED
      BY <3>2, <3>3, <3>5
  <2>6. FlaggedAfterFailure
    <3>1. SUFFICES ASSUME NEW r \in Requests, On(r, "served"), call[r].value.stale
          PROVE  call[r].at - failedAt[HostOf(r)] <= StaleTtl
      BY DEF FlaggedAfterFailure
    <3>2. call[r].at <= failedAt[HostOf(r)] + StaleTtl /\ r \in DOMAIN scenario.host /\ call[r].at \in Nat
      BY <2>2, <2>4, <3>1 DEF CallFits, On
    <3>3. failedAt[HostOf(r)] \in Nat
      BY <2>1, <2>2, <3>2, Hosts DEF PolicyInv, RoutedTypes
    <3>4. QED
      BY <3>2, <3>3, Times
  <2>7. TokenOutlivesFetch
    <3>1. SUFFICES ASSUME NEW r \in Requests, On(r, "sending") PROVE call[r].token > now
      BY DEF TokenOutlivesFetch
    <3>2. /\ now <= call[r].since + FetchTime /\ call[r].token > call[r].since + FetchTime
          /\ call[r].token \in Nat /\ call[r].since \in Nat
      BY <2>2, <2>4, <3>1 DEF CallFits, On, InFlight
    <3>3. QED
      BY <2>2, <3>2, Times
  <2>8. QED
    BY <2>5, <2>6, <2>7 DEF CachedIsRecent
<1>2. QED
  BY <1>1, PolicyHolds, PTL

\* A key tells the period, and outside of the last two days of a month the period the key.
LEMMA KeysOfPeriods ==
  ASSUME NEW v \in PolicyType, NEW w \in PolicyType, v.kind \in Kinds, w.kind = v.kind, Keyed(v), Keyed(w)
  PROVE  LET start(u) == StartOfPeriod(u.kind, u.readAt)
             clear(u) == \/ u.kind = "daily"
                         \/ start(u) + Month - u.readAt > TwoDays + FetchTime
         IN  /\ v.key = w.key => start(v) = start(w)
             /\ start(v) = start(w) /\ clear(v) /\ clear(w) => v.key = w.key
<1> DEFINE start(u) == StartOfPeriod(u.kind, u.readAt)
           clear(u) == \/ u.kind = "daily"
                       \/ start(u) + Month - u.readAt > TwoDays + FetchTime
<1>1. PICK kind \in Kinds, l \in Nat \ {0} : kind = v.kind /\ kind = w.kind /\ l = Length(kind)
  BY Lengths
<1>2. PICK rv \in Nat, rw \in Nat : rv = v.readAt /\ rw = w.readAt
  BY Times DEF PolicyType
<1>3. PICK p \in Nat : StartOfPeriod(kind, rv) = p * l
  BY <1>1, PeriodOf
<1>4. PICK q \in Nat : StartOfPeriod(kind, rw) = q * l
  BY <1>1, PeriodOf
<1>5. PICK sv \in Nat, sw \in Nat : sv = p * l /\ sw = q * l /\ start(v) = sv /\ start(w) = sw
  <2>1. p * l \in Nat /\ q * l \in Nat
    OBVIOUS
  <2>2. QED
    BY <1>1, <1>2, <1>3, <1>4, <2>1
<1>6. PICK ev \in Nat, ew \in Nat : ev = sv + l /\ ew = sw + l
  OBVIOUS
<1>7. /\ \/ kind = "monthly" /\ v.key = <<"month", ev \div Month>>
         \/ v.key = <<"day", ev \div Day>> /\ (kind = "daily" \/ ev - rv <= TwoDays + FetchTime)
      /\ \/ kind = "monthly" /\ w.key = <<"month", ew \div Month>>
         \/ w.key = <<"day", ew \div Day>> /\ (kind = "daily" \/ ew - rw <= TwoDays + FetchTime)
  BY <1>1, <1>2, <1>5, <1>6 DEF Keyed
<1>8. Day <= l /\ (kind = "monthly" => l = Month) /\ (kind = "daily" => l = Day)
  BY <1>1, Lengths DEF Length, Kinds
<1>9. ASSUME v.key = w.key PROVE sv = sw
  <2>1. \E m \in Nat \ {0} : m <= l /\ ev \div m = ew \div m
    <3>0. \A a, b, x, y : <<a, x>> = <<b, y>> => a = b /\ x = y
      OBVIOUS
    <3>1. CASE v.key = <<"month", ev \div Month>> /\ kind = "monthly"
      <4>1. w.key = <<"month", ew \div Month>>
        <5>1. w.key # <<"day", ew \div Day>>
          BY <1>9, <3>0, <3>1
        <5>2. QED
          BY <1>7, <5>1
      <4>2. ev \div Month = ew \div Month
        BY <1>9, <3>0, <3>1, <4>1
      <4>3. l = Month
        BY <1>8, <3>1
      <4>4. ev \div l = ew \div l /\ l <= l
        BY <4>2, <4>3
      <4>5. QED
        BY <4>4
    <3>2. CASE v.key = <<"day", ev \div Day>>
      <4>1. w.key = <<"day", ew \div Day>>
        <5>1. w.key # <<"month", ew \div Month>>
          BY <1>9, <3>0, <3>2
        <5>2. QED
          BY <1>7, <5>1
      <4>2. ev \div Day = ew \div Day
        BY <1>9, <3>0, <3>2, <4>1
      <4>3. QED
        BY <1>8, <4>2, Lengths
    <3>3. QED
      BY <1>7, <3>1, <3>2
  <2>2. PICK m \in Nat \ {0} : m <= l /\ ev \div m = ew \div m
    BY <2>1
  <2>3. ev < ew + m /\ ew < ev + m
    BY <2>2, CountedAsOne
  <2>4. sv < sw + l /\ sw < sv + l
    BY <1>6, <2>2, <2>3
  <2>5. p = q
    BY <1>5, <2>4, OnePeriod
  <2>6. QED
    BY <1>5, <2>5
<1>10. ASSUME sv = sw, clear(v), clear(w) PROVE v.key = w.key
  <2>1. ev = ew
    BY <1>6, <1>10
  <2>2. CASE kind = "daily"
    BY <1>7, <2>1, <2>2
  <2>3. CASE kind = "monthly"
    <3>1. sv + Month - rv > TwoDays + FetchTime /\ sw + Month - rw > TwoDays + FetchTime
      BY <1>1, <1>2, <1>5, <1>10, <2>3
    <3>2. ev = sv + Month /\ ew = sw + Month
      BY <1>6, <1>8, <2>3
    <3>3. ~(ev - rv <= TwoDays + FetchTime) /\ ~(ew - rw <= TwoDays + FetchTime)
      BY <3>1, <3>2, Lengths, Times
    <3>4. v.key = <<"month", ev \div Month>> /\ w.key = <<"month", ew \div Month>>
      BY <1>7, <2>3, <3>3
    <3>5. QED
      BY <2>1, <3>4
  <2>4. QED
    BY <2>2, <2>3 DEF Kinds
<1>11. QED
  BY <1>5, <1>9, <1>10

\* The counters of one period are not used for the next, nor exchanged for others within
\* it, but for the last two days of a month (get-project-policy.ts:33-37).
THEOREM OneKeyPerPeriodHolds == Spec => []OneKeyPerPeriod
<1>1. PolicyInv => OneKeyPerPeriod
  <2>1. SUFFICES ASSUME PolicyInv, NEW v \in Known, NEW w \in Known, v.kind \in Kinds, w.kind = v.kind
        PROVE  LET start(u) == StartOfPeriod(u.kind, u.readAt)
                   clear(u) == \/ u.kind = "daily"
                               \/ start(u) + Month - u.readAt > TwoDays + FetchTime
               IN  /\ v.key = w.key => start(v) = start(w)
                   /\ start(v) = start(w) /\ clear(v) /\ clear(w) => v.key = w.key
    BY DEF OneKeyPerPeriod
  <2>2. \A u \in Known : u \in PolicyType /\ Keyed(u)
    <3>1. \A p \in Replicas : cache[p].value \in PolicyType /\ Keyed(cache[p].value)
      BY <2>1 DEF PolicyInv, Routed, RoutedTypes, Entries, EntryFits
    <3>2. \A r \in Requests : On(r, "served") => call[r].value \in PolicyType /\ Keyed(call[r].value)
      BY <2>1 DEF PolicyInv, Routed, RoutedTypes, CallStates, CallFits, On
    <3>3. QED
      BY <3>1, <3>2 DEF Known, Served
  <2>3. QED
    BY <2>1, <2>2, KeysOfPeriods
<1>2. QED
  BY <1>1, PolicyHolds, PTL
=============================================================================
