---------------------------- MODULE IngestProofs ----------------------------
(***************************************************************************)
(* Ingestion keeps its promise, for every number of clients, reports,      *)
(* tenants and workers and every size of queue and batch: what leaves      *)
(* custody is applied or on record, and so is what a client counts as sent.*)
(***************************************************************************)
EXTENDS Ingest, DataLemmas

\* What is asked of a worker's task: a report being posted.
Task == {k \in [report : Report, attempt : 1..MaxAttempts, pos : Nat, code : Codes] :
           k.pos <= Len(Body[k.report])}

IngestTypes ==
  /\ queue \in Seq(Event)
  /\ batch \in [PWorker -> Seq(Event)]
  /\ outbox \in Seq(Report)
  /\ task \in [CWorker -> Task \cup {Idle}]
  /\ rstat \in [Report -> RStats]

\* Between flushes there is none.
FlushIsOver == rstate = "idle" => inflight = {}

Held == Queued \cup InHand

Kept(e) == e \in Held \cup applied \/ (e \in failed /\ TenantOf[e] \in OnRecord)

SentKept == \A r \in Report : rstat[r] = "sent" => \A e \in WellFormed(r) : Kept(e)

Done(e) == e \in Malformed \/ Kept(e)

\* The events a request is past are kept, and a refusal is on record.
Safe(k) ==
  k # Idle =>
    /\ k.code # "none" => k.pos > 0
    /\ k.code = "full" => TenantOf[Body[k.report][k.pos]] \in OnRecord
    /\ \A i \in 1..Len(Body[k.report]) :
         i < k.pos \/ k.code = "accepted" => Done(Body[k.report][i])

IngestInv == IngestTypes /\ FlushIsOver /\ (\A w \in CWorker : Safe(task[w])) /\ SentKept

-----------------------------------------------------------------------------
(* Lists of events *)

\* The events of a list are its elements.
LEMMA EventsAre ==
  ASSUME NEW s \in Seq(Event)
  PROVE  EventsOf(s) = Elements(s) /\ EventsOf(s) \subseteq Event
BY DEF EventsOf, Elements

\* What a channel and a batch hold after an event more or less.
LEMMA EventsMove ==
  ASSUME NEW s \in Seq(Event)
  PROVE  /\ \A e \in Event : Append(s, e) \in Seq(Event)
                             /\ EventsOf(Append(s, e)) = EventsOf(s) \cup {e}
         /\ s # <<>> => /\ Head(s) \in Event /\ Tail(s) \in Seq(Event)
                        /\ EventsOf(s) = {Head(s)} \cup EventsOf(Tail(s))
<1>1. ASSUME NEW e \in Event
      PROVE  Append(s, e) \in Seq(Event) /\ EventsOf(Append(s, e)) = EventsOf(s) \cup {e}
  <2>1. Append(s, e) \in Seq(Event) /\ Elements(Append(s, e)) = Elements(s) \cup {e}
    BY AppendElements
  <2> QED BY <2>1, EventsAre
<1>2. ASSUME s # <<>>
      PROVE  /\ Head(s) \in Event /\ Tail(s) \in Seq(Event)
             /\ EventsOf(s) = {Head(s)} \cup EventsOf(Tail(s))
  <2>1. /\ Head(s) \in Event /\ Tail(s) \in Seq(Event)
        /\ Elements(s) = {Head(s)} \cup Elements(Tail(s))
    BY <1>2, TailElements
  <2> QED BY <2>1, EventsAre
<1> QED BY <1>1, <1>2

\* A batch without one tenant's events.
LEMMA OthersAre ==
  ASSUME IngestTypes, NEW w \in PWorker, NEW t
  PROVE  /\ Others(w, t) \in Seq(Event)
         /\ EventsOf(Others(w, t)) = EventsOf(batch[w]) \ Group(w, t)
         /\ Group(w, t) \subseteq {e \in Held : TenantOf[e] = t}
<1>1. PICK s : s = batch[w]
  OBVIOUS
<1>2. s \in Seq(Event)
  BY <1>1 DEF IngestTypes
<1>3. PICK f : f = EventsFrom(t)
  OBVIOUS
<1>4. Without(s, f) \in Seq(Event) /\ Elements(Without(s, f)) = Elements(s) \ f
  BY <1>2, WithoutIs
<1>5. Others(w, t) = Without(s, f) /\ Group(w, t) = EventsOf(s) \cap f
  BY <1>1, <1>3 DEF Others, Group
<1>6. EventsOf(Without(s, f)) = Elements(Without(s, f)) /\ EventsOf(s) = Elements(s)
  BY <1>2, <1>4, EventsAre
<1>7. EventsOf(s) \subseteq Held
  BY <1>1 DEF Held, InHand
<1> QED BY <1>1, <1>3, <1>4, <1>5, <1>6, <1>7 DEF EventsFrom

\* Only one worker's batch changes.
LEMMA OneHand ==
  ASSUME IngestTypes, NEW w \in PWorker, NEW b, batch' = [batch EXCEPT ![w] = b]
  PROVE  InHand' = EventsOf(b) \cup UNION {EventsOf(batch[v]) : v \in PWorker \ {w}}
<1>1. \A v \in PWorker : batch'[v] = IF v = w THEN b ELSE batch[v]
  BY DEF IngestTypes
<1>2. InHand' = UNION {EventsOf(batch'[v]) : v \in PWorker}
  BY DEF InHand, EventsOf
<1> QED BY <1>1, <1>2

-----------------------------------------------------------------------------
(* The promise *)

\* An event leaves custody applied, or among the failed ones of a tenant on
\* record; a failed one is forgotten only when it is applied.
Accounted ==
  /\ failed \subseteq failed' \cup applied'
  /\ Held \ Held' \subseteq applied' \cup {e \in failed' : TenantOf[e] \in OnRecord'}

Promised == (UNCHANGED Promise!vars \/ Promise!Next) /\ Accounted

\* What the promise is about.
LEMMA PromiseIs ==
  /\ UNCHANGED Promise!vars <=>
       Held' = Held /\ applied' = applied /\ OnRecord' = OnRecord
  /\ \A e : Promise!Accept(e) <=>
       Held' = Held \cup {e} /\ applied' = applied /\ OnRecord' = OnRecord
  /\ \A t : Promise!Refuse(t) <=>
       OnRecord' = OnRecord \cup {t} /\ Held' = Held /\ applied' = applied
BY DEF Promise!vars, Promise!Accept, Promise!Refuse, Held

\* Where no flush fails, the promise is all there is to keep.
LEMMA NothingFails ==
  ASSUME failed' = failed,
         UNCHANGED Promise!vars \/ (\E e \in Event : Promise!Accept(e))
         \/ \E t \in Tenant : Promise!Refuse(t)
  PROVE  Promised
<1>1. UNCHANGED Promise!vars \/ Promise!Next
  BY DEF Promise!Next
<1>2. Held \subseteq Held'
  BY PromiseIs
<1> QED BY <1>1, <1>2 DEF Promised, Accounted

\* An event that the queue takes is accepted.
LEMMA EnqueueAccepts ==
  ASSUME IngestTypes, NEW e \in Event, Enqueue(e), UNCHANGED <<batch, applied, inflight, health>>
  PROVE  Promise!Accept(e) /\ queue' \in Seq(Event) /\ e \in Held'
<1>1. /\ queue' = Append(queue, e) /\ pending' = pending
      /\ batch' = batch /\ applied' = applied /\ inflight' = inflight /\ health' = health
  BY DEF Enqueue
<1>2. queue' \in Seq(Event) /\ Queued' = Queued \cup {e}
  <2>1. queue \in Seq(Event)
    BY DEF IngestTypes
  <2>2. Queued' = EventsOf(queue')
    BY DEF Queued, EventsOf
  <2> QED BY <1>1, <2>1, <2>2, EventsMove DEF Queued
<1>3. InHand' = InHand /\ OnRecord' = OnRecord
  BY <1>1 DEF InHand, OnRecord, EventsOf
<1> QED BY <1>1, <1>2, <1>3, PromiseIs DEF Held

\* An event that the queue refuses is on record.
LEMMA RefuseRecords ==
  ASSUME NEW e \in Event, Refuse(e), UNCHANGED <<batch, applied, inflight, health>>
  PROVE  Promise!Refuse(TenantOf[e]) /\ queue' = queue /\ TenantOf[e] \in OnRecord'
<1>1. /\ queue' = queue /\ pending' = pending \cup {TenantOf[e]}
      /\ batch' = batch /\ applied' = applied /\ inflight' = inflight /\ health' = health
  BY DEF Refuse, Bump
<1>2. Held' = Held /\ OnRecord' = OnRecord \cup {TenantOf[e]}
  BY <1>1 DEF Held, Queued, InHand, OnRecord, EventsOf
<1> QED BY <1>1, <1>2, PromiseIs

\* Where neither events nor losses move, the promise is not concerned.
LEMMA NothingMoves ==
  ASSUME UNCHANGED <<queue, batch, applied, recVars>>
  PROVE  UNCHANGED Promise!vars
<1>1. queue' = queue /\ batch' = batch /\ applied' = applied /\ OnRecord' = OnRecord
  BY DEF recVars, OnRecord
<1>2. Held' = Held
  BY <1>1 DEF Held, Queued, InHand, EventsOf
<1> QED BY <1>1, <1>2, PromiseIs

\* A worker's steps: an event goes from the queue to its batch, and a tenant's
\* events out of the batch.
LEMMA WorkerKeepsPromise ==
  ASSUME IngestTypes, NEW w \in PWorker, WorkerStep(w)
  PROVE  /\ Promised
         /\ queue' \in Seq(Event) /\ batch' \in [PWorker -> Seq(Event)]
<1>1. queue \in Seq(Event) /\ batch \in [PWorker -> Seq(Event)] /\ batch[w] \in Seq(Event)
  BY DEF IngestTypes
<1>2. CASE Receive(w)
  <2>1. /\ queue # <<>> /\ queue' = Tail(queue)
        /\ batch' = [batch EXCEPT ![w] = Append(batch[w], Head(queue))]
        /\ UNCHANGED <<applied, failed, recVars>>
    BY <1>2 DEF Receive
  <2>2. PICK b : b = Append(batch[w], Head(queue))
    OBVIOUS
  <2>3. /\ Head(queue) \in Event /\ Tail(queue) \in Seq(Event)
        /\ Queued = {Head(queue)} \cup EventsOf(Tail(queue))
    BY <1>1, <2>1, EventsMove DEF Queued
  <2>4. b \in Seq(Event) /\ EventsOf(b) = EventsOf(batch[w]) \cup {Head(queue)}
    BY <1>1, <2>2, <2>3, EventsMove
  <2>5. batch' = [batch EXCEPT ![w] = b]
    BY <2>1, <2>2
  <2>6. InHand' = EventsOf(b) \cup UNION {EventsOf(batch[v]) : v \in PWorker \ {w}}
    BY <2>5, OneHand
  <2>7. Queued' = EventsOf(Tail(queue))
    BY <2>1 DEF Queued, EventsOf
  <2>8. Held' = Held
    <3>1. InHand = EventsOf(batch[w]) \cup UNION {EventsOf(batch[v]) : v \in PWorker \ {w}}
      BY DEF InHand
    <3> QED BY <2>3, <2>4, <2>6, <2>7, <3>1 DEF Held
  <2>9. OnRecord' = OnRecord /\ applied' = applied
    BY <2>1 DEF OnRecord, recVars
  <2>10. queue' \in Seq(Event) /\ batch' \in [PWorker -> Seq(Event)]
    BY <1>1, <2>1, <2>3, <2>4, <2>5
  <2>11. UNCHANGED Promise!vars /\ failed' = failed
    BY <2>1, <2>8, <2>9, PromiseIs
  <2> QED BY <2>10, <2>11, NothingFails
<1>3. CASE FlushTick(w) \/ Leave(w)
  <2>1. UNCHANGED <<queue, batch, applied, failed, recVars>>
    BY <1>3 DEF FlushTick, Leave
  <2> QED BY <1>1, <2>1, NothingMoves, NothingFails
<1>4. ASSUME NEW t \in Tenant, FlushGroup(w, t) \/ FailGroup(w, t)
      PROVE  Promised /\ queue' \in Seq(Event) /\ batch' \in [PWorker -> Seq(Event)]
  <2>1. PICK done \in SUBSET Group(w, t) :
          /\ applied' = applied \cup done
          /\ \/ OnRecord' = OnRecord \cup {t} /\ failed' = (failed \cup Group(w, t)) \ applied'
             \/ OnRecord' = OnRecord /\ done = Group(w, t) /\ failed' = failed \ applied'
    <3>1. CASE FlushGroup(w, t)
      <4>1. /\ applied' = applied \cup Group(w, t) /\ OnRecord' = OnRecord
            /\ failed' = failed \ applied'
        BY <3>1 DEF FlushGroup, recVars, OnRecord
      <4> QED BY <4>1
    <3>2. CASE FailGroup(w, t)
      <4>1. OnRecord' = OnRecord \cup {t} /\ failed' = (failed \cup Group(w, t)) \ applied'
        BY <3>2 DEF FailGroup, Bump, OnRecord
      <4> QED BY <3>2, <4>1 DEF FailGroup
    <3> QED BY <1>4, <3>1, <3>2
  <2>2. PICK some, b : some = Group(w, t) /\ b = Others(w, t)
    OBVIOUS
  <2>3. queue' = queue /\ batch' = [batch EXCEPT ![w] = b]
    BY <1>4, <2>2 DEF FlushGroup, FailGroup, AfterGroup
  <2>4. /\ b \in Seq(Event) /\ EventsOf(b) = EventsOf(batch[w]) \ some
        /\ some \subseteq {e \in Held : TenantOf[e] = t}
    BY <2>2, OthersAre
  <2>5. InHand' = EventsOf(b) \cup UNION {EventsOf(batch[v]) : v \in PWorker \ {w}}
    BY <2>3, OneHand
  <2>6. Queued' = Queued
    BY <2>3 DEF Queued, EventsOf
  <2>7. Held \ some \subseteq Held' /\ Held' \subseteq Held
    BY <2>4, <2>5, <2>6 DEF Held, InHand
  <2>8. some \in SUBSET {e \in Held : TenantOf[e] = t} /\ done \in SUBSET some
    BY <2>1, <2>2, <2>4
  <2>9. /\ applied' = applied \cup done
        /\ \/ OnRecord' = OnRecord \cup {t} /\ failed' = (failed \cup some) \ applied'
           \/ OnRecord' = OnRecord /\ done = some /\ failed' = failed \ applied'
    BY <2>1, <2>2
  <2>10. Promise!Settle(t)
    BY <2>7, <2>8, <2>9 DEF Promise!Settle, Held
  <2>11. batch' \in [PWorker -> Seq(Event)]
    BY <1>1, <2>3, <2>4
  <2>12. Accounted
    <3>1. failed \subseteq failed' \cup applied'
      BY <2>9
    <3>2. ASSUME NEW e \in Held \ Held', e \notin applied'
          PROVE  e \in failed' /\ TenantOf[e] \in OnRecord'
      <4>1. e \in some /\ TenantOf[e] = t
        BY <2>4, <2>7, <3>2
      <4> QED BY <2>9, <3>2, <4>1
    <3> QED BY <3>1, <3>2 DEF Accounted
  <2> QED BY <1>1, <2>3, <2>10, <2>11, <2>12 DEF Promised, Promise!Next
<1> QED BY <1>2, <1>3, <1>4 DEF WorkerStep

\* The recorder moves losses between its counters, its flush and the table.
LEMMA RecorderKeepsPromise ==
  ASSUME FlushIsOver, RecorderStep
  PROVE  UNCHANGED Promise!vars /\ UNCHANGED pipeVars /\ FlushIsOver'
<1>1. UNCHANGED pipeVars
  BY DEF RecorderStep, FlushStart, FlushFinal, RecordIngestHealth, Restore
<1>2. OnRecord' = OnRecord
  <2>1. CASE FlushStart \/ FlushFinal
    BY <2>1 DEF FlushIsOver, FlushStart, FlushFinal, OnRecord
  <2>2. CASE RecordIngestHealth
    BY <2>2 DEF RecordIngestHealth, OnRecord
  <2>3. CASE Restore
    BY <2>3 DEF Restore, OnRecord
  <2> QED BY <2>1, <2>2, <2>3 DEF RecorderStep
<1>3. Held' = Held /\ applied' = applied
  BY <1>1 DEF pipeVars, Held, Queued, InHand, EventsOf
<1>4. FlushIsOver'
  BY DEF RecorderStep, FlushStart, FlushFinal, RecordIngestHealth, Restore, RunOn, FlushIsOver
<1>5. UNCHANGED Promise!vars
  BY <1>2, <1>3, PromiseIs
<1> QED BY <1>1, <1>4, <1>5

-----------------------------------------------------------------------------
(* The requests *)

\* What is kept stays kept, and what is on record stays there.
LEMMA KeptStays ==
  ASSUME Promised
  PROVE  /\ \A e : Kept(e) => Kept(e)'
         /\ \A t : t \in OnRecord => t \in OnRecord'
<1>1. applied \subseteq applied' /\ OnRecord \subseteq OnRecord'
  <2>1. CASE UNCHANGED Promise!vars \/ (\E e \in Event : Promise!Accept(e))
             \/ \E t \in Tenant : Promise!Refuse(t)
    BY <2>1, PromiseIs
  <2>2. ASSUME NEW t \in Tenant, Promise!Settle(t)
        PROVE  applied \subseteq applied' /\ OnRecord \subseteq OnRecord'
    BY <2>2 DEF Promise!Settle
  <2> QED BY <2>1, <2>2 DEF Promised, Promise!Next
<1>2. ASSUME NEW e, Kept(e) PROVE Kept(e)'
  <2>1. /\ e \in failed => e \in failed' \cup applied'
        /\ e \in Held => \/ e \in Held' \cup applied'
                         \/ e \in failed' /\ TenantOf[e] \in OnRecord'
    BY DEF Promised, Accounted
  <2> QED BY <1>1, <1>2, <2>1 DEF Kept
<1> QED BY <1>1, <1>2

\* The events of a report.
LEMMA BodyIs ==
  ASSUME NEW r \in Report
  PROVE  /\ Body[r] \in Seq(Event) /\ Len(Body[r]) \in Nat \ {0}
         /\ \A i \in 1..Len(Body[r]) : Body[r][i] \in Event
         /\ \A e \in WellFormed(r) : \E i \in 1..Len(Body[r]) : e = Body[r][i] /\ e \notin Malformed
<1>1. Body[r] \in Seq(Event) /\ Body[r] # <<>>
  BY IngestAssumption
<1> QED BY <1>1 DEF WellFormed, EventsOf

\* What a request has behind it stays behind it.
LEMMA SafeStays ==
  ASSUME Promised, NEW k, Safe(k)
  PROVE  Safe(k)'
<1>1. (\A e : Kept(e) => Kept(e)') /\ \A t : t \in OnRecord => t \in OnRecord'
  BY KeptStays
<1> QED BY <1>1 DEF Safe, Done

\* A report that was not sent just now was kept before.
LEMMA SentStays ==
  ASSUME Promised, SentKept, \A r \in Report : rstat'[r] = "sent" => rstat[r] = "sent"
  PROVE  SentKept'
<1>1. \A e : Kept(e) => Kept(e)'
  BY KeptStays
<1> QED BY <1>1 DEF SentKept, WellFormed, EventsOf

TasksFine == task \in [CWorker -> Task \cup {Idle}] /\ \A w \in CWorker : Safe(task[w])

\* One worker's request goes on, the others wait.
LEMMA OneTask ==
  ASSUME TasksFine, Promised, NEW w \in CWorker, NEW k \in Task \cup {Idle}, Safe(k)',
         task' = [task EXCEPT ![w] = k]
  PROVE  TasksFine'
<1>1. \A v \in CWorker : task'[v] = IF v = w THEN k ELSE task[v]
  BY DEF TasksFine
<1>2. task' \in [CWorker -> Task \cup {Idle}]
  BY DEF TasksFine
<1>3. ASSUME NEW v \in CWorker PROVE Safe(task[v])'
  <2>1. PICK x, y : x = task[v] /\ y = task'[v]
    OBVIOUS
  <2>2. CASE v = w
    <3>1. y = k
      BY <1>1, <2>1, <2>2
    <3> QED BY <2>1, <3>1 DEF Safe
  <2>3. CASE v # w
    <3>1. y = x /\ Safe(x)
      BY <1>1, <2>1, <2>3 DEF TasksFine
    <3>2. Safe(x)'
      BY <3>1, SafeStays
    <3> QED BY <2>1, <3>1, <3>2 DEF Safe
  <2> QED BY <2>2, <2>3
<1>4. (task \in [CWorker -> Task \cup {Idle}])'
  BY <1>2 DEF Task
<1> QED BY <1>3, <1>4 DEF TasksFine

\* No request goes on.
LEMMA TasksWait ==
  ASSUME TasksFine, Promised, task' = task
  PROVE  TasksFine'
<1>1. ASSUME NEW v \in CWorker PROVE Safe(task[v])'
  <2>1. PICK x : x = task[v]
    OBVIOUS
  <2>2. Safe(x)'
    BY <2>1, SafeStays DEF TasksFine
  <2> QED BY <2>1, <2>2 DEF Safe
<1> QED BY <1>1 DEF TasksFine, Task

\* A request that is being served.
LEMMA ServingIs ==
  ASSUME TasksFine, NEW w \in CWorker, Serving(w)
  PROVE  /\ task[w] \in Task /\ task[w] # Idle /\ task[w].report \in Report
         /\ task[w].pos \in 1..Len(Body[task[w].report])
         /\ task[w].code = "none" /\ Current(w) \in Event
<1>1. task[w] \in Task \cup {Idle} /\ task[w].pos > 0 /\ task[w].code = "none"
  BY DEF TasksFine, Serving
<1>2. task[w] # Idle /\ task[w] \in Task
  BY <1>1 DEF Idle
<1>3. /\ task[w].report \in Report /\ task[w].pos \in Nat
      /\ task[w].pos <= Len(Body[task[w].report])
  BY <1>2 DEF Task
<1>4. Len(Body[task[w].report]) \in Nat
      /\ \A i \in 1..Len(Body[task[w].report]) : Body[task[w].report][i] \in Event
  BY <1>3, BodyIs
<1> QED BY <1>1, <1>2, <1>3, <1>4 DEF Current

\* An event done with: the request goes on, or it is accepted as a whole.
LEMMA AdvanceKeeps ==
  ASSUME TasksFine, Promised, NEW w \in CWorker, Serving(w), Advance(w),
         NEW e, e = Current(w), Done(e)'
  PROVE  TasksFine'
<1>1. PICK k, n : k = task[w] /\ n = Len(Body[k.report])
  OBVIOUS
<1>2. /\ k \in Task /\ k # Idle /\ k.report \in Report /\ k.pos \in 1..n /\ n \in Nat
      /\ k.code = "none" /\ e = Body[k.report][k.pos]
  <2>1. /\ k \in Task /\ k # Idle /\ k.report \in Report /\ k.pos \in 1..n
        /\ k.code = "none" /\ e = Body[k.report][k.pos]
    BY <1>1, ServingIs DEF Current
  <2>2. n \in Nat
    BY <1>1, <2>1, BodyIs
  <2> QED BY <2>1, <2>2
<1>3. Safe(k)'
  BY <1>1, SafeStays DEF TasksFine
<1>4. \A i \in 1..n : i < k.pos => Done(Body[k.report][i])'
  BY <1>1, <1>2, <1>3 DEF Safe
<1>5. PICK m : m = IF k.pos = n THEN [k EXCEPT !.code = "accepted"] ELSE [k EXCEPT !.pos = @ + 1]
  OBVIOUS
<1>6. task' = [task EXCEPT ![w] = m]
  BY <1>1, <1>5 DEF Advance
<1>7. /\ m \in Task /\ m.report = k.report
      /\ \/ k.pos = n /\ m.pos = n /\ m.code = "accepted"
         \/ k.pos # n /\ m.pos = k.pos + 1 /\ m.code = "none"
  BY <1>1, <1>2, <1>5 DEF Task, Codes
<1>8. \A i \in 1..n : i <= k.pos => Done(Body[k.report][i])'
  BY <1>2, <1>4
<1>9. Safe(m)'
  BY <1>1, <1>2, <1>7, <1>8 DEF Safe
<1> QED BY <1>6, <1>7, <1>9, OneTask

\* A refusal, of the event or of the pipeline.
LEMMA AnswerKeeps ==
  ASSUME TasksFine, Promised, NEW w \in CWorker, Serving(w),
         NEW code \in {"invalid", "full", "closed"}, Answer(w, code),
         NEW e, e = Current(w), code = "full" => TenantOf[e] \in OnRecord'
  PROVE  TasksFine'
<1>1. PICK k : k = task[w]
  OBVIOUS
<1>2. /\ k \in Task /\ k # Idle /\ k.report \in Report /\ k.pos > 0
      /\ k.code = "none" /\ e = Body[k.report][k.pos]
  BY <1>1, ServingIs DEF Current
<1>3. Safe(k)'
  BY <1>1, SafeStays DEF TasksFine
<1>4. PICK m : m = [k EXCEPT !.code = code]
  OBVIOUS
<1>5. task' = [task EXCEPT ![w] = m]
  BY <1>1, <1>4 DEF Answer
<1>6. m \in Task /\ m.report = k.report /\ m.pos = k.pos /\ m.code = code
  BY <1>2, <1>4 DEF Task, Codes
<1>7. Safe(m)'
  BY <1>2, <1>3, <1>6 DEF Safe
<1> QED BY <1>5, <1>6, <1>7, OneTask

\* A request from its beginning is past nothing.
LEMMA AttemptIs ==
  ASSUME NEW r \in Report, NEW n \in 1..MaxAttempts
  PROVE  Attempt(r, n) \in Task /\ Safe(Attempt(r, n))'
<1>1. PICK k : k = Attempt(r, n)
  OBVIOUS
<1>2. /\ k \in [report : Report, attempt : 1..MaxAttempts, pos : Nat, code : Codes]
      /\ k.report = r /\ k.pos = 0 /\ k.code = "none"
  BY <1>1 DEF Attempt, Codes
<1>3. k \in Task
  BY <1>2, BodyIs DEF Task
<1>4. \A i \in 1..Len(Body[r]) : ~(i < 0)
  BY BodyIs
<1>5. Safe(k)'
  BY <1>2, <1>4 DEF Safe
<1> QED BY <1>1, <1>3, <1>5

\* The report is posted again, or it has failed.
LEMMA AgainKeeps ==
  ASSUME TasksFine, Promised, SentKept, rstat \in [Report -> RStats],
         NEW w \in CWorker, task[w] # Idle, Again(w)
  PROVE  TasksFine' /\ SentKept' /\ rstat' \in [Report -> RStats]
<1>1. /\ task[w] \in Task /\ task[w].report \in Report /\ task[w].attempt \in 1..MaxAttempts
      /\ MaxAttempts \in Nat
  BY ReporterAssumption DEF TasksFine, Task
<1>2. CASE task[w].attempt < MaxAttempts
           /\ task' = [task EXCEPT ![w] = Attempt(@.report, @.attempt + 1)] /\ rstat' = rstat
  <2>1. PICK r, n, k : r = task[w].report /\ n = task[w].attempt + 1 /\ k = Attempt(r, n)
    OBVIOUS
  <2>2. r \in Report /\ n \in 1..MaxAttempts
    BY <1>1, <1>2, <2>1
  <2>3. k \in Task /\ Safe(k)'
    BY <2>1, <2>2, AttemptIs
  <2>4. task' = [task EXCEPT ![w] = k]
    BY <1>2, <2>1
  <2> QED BY <1>2, <2>3, <2>4, OneTask, SentStays
<1>3. CASE Settle(w, "failed")
  <2>1. rstat' = [rstat EXCEPT ![task[w].report] = "failed"] /\ task' = [task EXCEPT ![w] = Idle]
    BY <1>3 DEF Settle
  <2>2. Safe(Idle)'
    BY DEF Safe
  <2>3. rstat' \in [Report -> RStats] /\ \A r \in Report : rstat'[r] = "sent" => rstat[r] = "sent"
    BY <1>1, <2>1 DEF RStats
  <2> QED BY <2>1, <2>2, <2>3, OneTask, SentStays
<1> QED BY <1>2, <1>3 DEF Again

\* The client and the application: reports are made, posted and settled.
LEMMA ReporterKeeps ==
  ASSUME IngestTypes, TasksFine, Promised, SentKept,
         Application \/ \E w \in CWorker : Client(w)
  PROVE  TasksFine' /\ SentKept' /\ rstat' \in [Report -> RStats] /\ outbox' \in Seq(Report)
<1> USE DEF IngestTypes
<1>1. CASE CloseReporter
  <2>1. UNCHANGED <<outbox, task, rstat>>
    BY <1>1 DEF CloseReporter
  <2> QED BY <2>1, TasksWait, SentStays
<1>2. ASSUME NEW r \in Report, EnqueueReport(r)
      PROVE  TasksFine' /\ SentKept' /\ rstat' \in [Report -> RStats] /\ outbox' \in Seq(Report)
  <2>1. /\ task' = task
        /\ rstat' \in {[rstat EXCEPT ![r] = "dropped"], [rstat EXCEPT ![r] = "queued"]}
        /\ outbox' \in {outbox, Append(outbox, r)}
    BY <1>2 DEF EnqueueReport
  <2>2. rstat' \in [Report -> RStats] /\ \A x \in Report : rstat'[x] = "sent" => rstat[x] = "sent"
    BY <2>1 DEF RStats
  <2>3. outbox' \in Seq(Report)
    BY <2>1
  <2> QED BY <2>1, <2>2, <2>3, TasksWait, SentStays
<1>3. ASSUME NEW w \in CWorker, TakeReport(w)
      PROVE  TasksFine' /\ SentKept' /\ rstat' \in [Report -> RStats] /\ outbox' \in Seq(Report)
  <2>1. PICK r, k : r = Head(outbox) /\ k = Attempt(r, 1)
    OBVIOUS
  <2>2. /\ outbox # <<>> /\ outbox' = Tail(outbox) /\ rstat' = rstat
        /\ task' = [task EXCEPT ![w] = k]
    BY <1>3, <2>1 DEF TakeReport
  <2>3. r \in Report /\ outbox' \in Seq(Report)
    BY <2>1, <2>2
  <2>4. 1 \in 1..MaxAttempts
    BY ReporterAssumption
  <2>5. k \in Task /\ Safe(k)'
    BY <2>1, <2>3, <2>4, AttemptIs
  <2> QED BY <2>2, <2>3, <2>5, OneTask, SentStays
<1>4. ASSUME NEW w \in CWorker, Reply(w)
      PROVE  TasksFine' /\ SentKept' /\ rstat' \in [Report -> RStats] /\ outbox' \in Seq(Report)
  <2>1. /\ outbox' = outbox /\ task[w] # Idle /\ task[w] \in Task /\ Safe(task[w])
    BY <1>4 DEF Reply, Idle, TasksFine, Retryable
  <2>2. CASE task[w].code \in Retryable /\ Again(w)
    BY <2>1, <2>2, AgainKeeps
  <2>3. ASSUME NEW outcome \in {"sent", "failed"}, Settle(w, outcome),
               outcome = "sent" => task[w].code = "accepted"
        PROVE  TasksFine' /\ SentKept' /\ rstat' \in [Report -> RStats]
    <3>1. PICK k : k = task[w]
      OBVIOUS
    <3>2. rstat' = [rstat EXCEPT ![k.report] = outcome] /\ task' = [task EXCEPT ![w] = Idle]
      BY <2>3, <3>1 DEF Settle
    <3>3. k.report \in Report
      BY <2>1, <3>1 DEF Task
    <3>4. rstat' \in [Report -> RStats]
      BY <3>2 DEF RStats
    <3>5. TasksFine'
      <4>1. Safe(Idle)'
        BY DEF Safe
      <4> QED BY <3>2, <4>1, OneTask
    <3>6. ASSUME NEW r \in Report, rstat'[r] = "sent", NEW e \in WellFormed(r) PROVE Kept(e)'
      <4>1. CASE r = k.report
        <5>1. k.code = "accepted"
          BY <2>3, <3>1, <3>2, <3>6, <4>1
        <5>2. PICK i \in 1..Len(Body[r]) : e = Body[r][i] /\ e \notin Malformed
          BY BodyIs
        <5>3. Safe(k)
          BY <2>1, <3>1
        <5>4. Done(e)
          BY <2>1, <3>1, <4>1, <5>1, <5>2, <5>3 DEF Safe
        <5>5. Kept(e)
          BY <5>2, <5>4 DEF Done
        <5> QED BY <5>5, KeptStays
      <4>2. CASE r # k.report
        <5>1. rstat[r] = "sent"
          BY <3>2, <3>6, <4>2
        <5>2. Kept(e)
          BY <5>1 DEF SentKept
        <5> QED BY <5>2, KeptStays
      <4> QED BY <4>1, <4>2
    <3>7. SentKept'
      BY <3>6 DEF SentKept, WellFormed, EventsOf
    <3> QED BY <3>4, <3>5, <3>7
  <2> QED BY <1>4, <2>1, <2>2, <2>3 DEF Reply
<1>5. ASSUME NEW w \in CWorker, TransportError(w)
      PROVE  TasksFine' /\ SentKept' /\ rstat' \in [Report -> RStats] /\ outbox' \in Seq(Report)
  <2>1. outbox' = outbox /\ task[w] # Idle /\ Again(w)
    BY <1>5 DEF TransportError
  <2> QED BY <2>1, AgainKeeps
<1> QED BY <1>1, <1>2, <1>3, <1>4, <1>5 DEF Application, Client

\* A request: each of its events is enqueued, refused or rejected.
LEMMA RequestKeeps ==
  ASSUME IngestTypes, TasksFine, NEW w \in CWorker, Arrive(w) \/ RejectEvent(w) \/ SubmitEvent(w)
  PROVE  /\ UNCHANGED Promise!vars \/ (\E e \in Event : Promise!Accept(e))
            \/ \E t \in Tenant : Promise!Refuse(t)
         /\ TasksFine' /\ queue' \in Seq(Event)
         /\ UNCHANGED <<batch, failed, outbox, rstat, inflight, rstate>>
<1>1. CASE Arrive(w)
  <2>1. /\ task[w] # Idle /\ task[w].pos = 0 /\ task' = [task EXCEPT ![w].pos = 1]
        /\ UNCHANGED <<outbox, rstat, pipeVars, recVars>>
    BY <1>1 DEF Arrive
  <2>2. UNCHANGED <<queue, batch, applied, failed, inflight, rstate, recVars>>
    BY <2>1 DEF pipeVars, recVars
  <2>3. UNCHANGED Promise!vars
    BY <2>2, NothingMoves
  <2>4. PICK k, m : k = task[w] /\ m = [k EXCEPT !.pos = 1]
    OBVIOUS
  <2>5. k \in Task /\ k.report \in Report /\ k.pos = 0 /\ Safe(k)
    BY <2>1, <2>4 DEF TasksFine, Task
  <2>6. Len(Body[k.report]) \in Nat \ {0}
    BY <2>5, BodyIs
  <2>7. m \in Task /\ m.report = k.report /\ m.pos = 1 /\ m.code = k.code
    BY <2>4, <2>5, <2>6 DEF Task
  <2>8. m.code = "none" /\ k # Idle
    BY <2>1, <2>4, <2>5, <2>7 DEF Safe
  <2>9. Safe(m)'
    <3>1. \A i \in 1..Len(Body[m.report]) : ~(i < 1)
      BY <2>6, <2>7
    <3> QED BY <2>7, <2>8, <3>1 DEF Safe
  <2>10. task' = [task EXCEPT ![w] = m]
    BY <2>1, <2>4
  <2>11. TasksFine'
    BY <2>2, <2>3, <2>7, <2>9, <2>10, OneTask, NothingFails
  <2> QED BY <2>1, <2>2, <2>3, <2>11 DEF IngestTypes
<1>2. CASE RejectEvent(w)
  <2>1. /\ Serving(w) /\ Current(w) \in Malformed
        /\ Answer(w, "invalid") \/ Advance(w)
        /\ UNCHANGED <<outbox, rstat, pipeVars, recVars>>
    BY <1>2 DEF RejectEvent
  <2>2. UNCHANGED <<queue, batch, applied, failed, inflight, rstate, recVars>>
    BY <2>1 DEF pipeVars, recVars
  <2>3. UNCHANGED Promise!vars
    BY <2>2, NothingMoves
  <2>4. PICK e : e = Current(w)
    OBVIOUS
  <2>5. Done(e)'
    BY <2>1, <2>4 DEF Done
  <2>6. TasksFine'
    BY <2>1, <2>2, <2>3, <2>4, <2>5, AdvanceKeeps, AnswerKeeps, NothingFails
  <2> QED BY <2>1, <2>2, <2>3, <2>6 DEF IngestTypes
<1>3. CASE SubmitEvent(w)
  <2>1. /\ Serving(w)
        /\ \/ Enqueue(Current(w)) /\ Advance(w)
           \/ Refuse(Current(w)) /\ Answer(w, "full")
           \/ closed /\ Answer(w, "closed") /\ UNCHANGED <<queue, pending>>
        /\ UNCHANGED <<outbox, rstat, batch, applied, failed, inflight, rstate, health>>
    BY <1>3 DEF SubmitEvent
  <2>2. PICK e : e = Current(w)
    OBVIOUS
  <2>3. e \in Event /\ TenantOf[e] \in Tenant
    BY <2>1, <2>2, ServingIs, PipelineAssumption
  <2>4. CASE Enqueue(e) /\ Advance(w)
    <3>1. Promise!Accept(e) /\ queue' \in Seq(Event) /\ e \in Held'
      BY <2>1, <2>3, <2>4, EnqueueAccepts
    <3>2. Promised
      BY <2>1, <2>3, <3>1, NothingFails
    <3>3. Done(e)'
      BY <3>1 DEF Done, Kept
    <3>4. TasksFine'
      BY <2>1, <2>2, <2>4, <3>2, <3>3, AdvanceKeeps
    <3> QED BY <2>1, <2>3, <3>1, <3>4
  <2>5. CASE Refuse(e) /\ Answer(w, "full")
    <3>1. Promise!Refuse(TenantOf[e]) /\ queue' = queue /\ TenantOf[e] \in OnRecord'
      BY <2>1, <2>3, <2>5, RefuseRecords
    <3>2. Promised
      BY <2>1, <2>3, <3>1, NothingFails
    <3>3. TasksFine'
      BY <2>1, <2>2, <2>5, <3>1, <3>2, AnswerKeeps
    <3> QED BY <2>1, <2>3, <3>1, <3>3 DEF IngestTypes
  <2>6. CASE Answer(w, "closed") /\ UNCHANGED <<queue, pending>>
    <3>1. UNCHANGED Promise!vars
      BY <2>1, <2>6, NothingMoves DEF recVars
    <3>2. TasksFine'
      BY <2>1, <2>2, <2>6, <3>1, AnswerKeeps, NothingFails
    <3> QED BY <2>1, <2>6, <3>1, <3>2 DEF IngestTypes
  <2> QED BY <2>1, <2>2, <2>4, <2>5, <2>6
<1> QED BY <1>1, <1>2, <1>3

-----------------------------------------------------------------------------
(* The steps *)

\* Nothing is held and nothing is lost before the first event.
LEMMA IngestInvInit == Init => IngestInv /\ Promise!Init
<1> SUFFICES ASSUME Init PROVE IngestInv /\ Promise!Init
  OBVIOUS
<1>1. /\ queue = <<>> /\ batch = [w \in PWorker |-> <<>>] /\ applied = {}
      /\ pending = {} /\ inflight = {} /\ health = {}
      /\ outbox = <<>> /\ task = [w \in CWorker |-> Idle]
      /\ rstat = [r \in Report |-> "new"]
  BY DEF Init, PipeInit, RepInit
<1>2. IngestTypes /\ FlushIsOver
  BY <1>1 DEF IngestTypes, FlushIsOver, RStats
<1>3. (\A w \in CWorker : Safe(task[w])) /\ SentKept
  BY <1>1 DEF Safe, SentKept
<1>4. Held = {} /\ OnRecord = {}
  BY <1>1 DEF Held, Queued, InHand, OnRecord, EventsOf
<1> QED BY <1>1, <1>2, <1>3, <1>4 DEF IngestInv, Promise!Init, Held

\* The invariant is what its parts are.
LEMMA Whole ==
  ASSUME TasksFine', SentKept', FlushIsOver', queue' \in Seq(Event),
         batch' \in [PWorker -> Seq(Event)], outbox' \in Seq(Report),
         rstat' \in [Report -> RStats]
  PROVE  IngestInv'
<1>1. TasksFine' => (task' \in [CWorker -> Task \cup {Idle}]) /\ \A w \in CWorker : Safe(task[w])'
  BY DEF TasksFine, Task
<1>2. IngestTypes'
  BY <1>1 DEF IngestTypes, Task, RStats
<1> QED BY <1>1, <1>2 DEF IngestInv

\* Every step keeps the invariant and the promise.
LEMMA IngestInvStep ==
  ASSUME IngestInv, [Next]_vars
  PROVE  IngestInv' /\ [Promise!Next]_(Promise!vars)
<1> SUFFICES IngestInv' /\ Promised
  BY DEF Promised
<1>1. IngestTypes /\ FlushIsOver /\ TasksFine /\ SentKept
  BY DEF IngestInv, IngestTypes, TasksFine
<1>2. ASSUME UNCHANGED <<queue, batch, applied, failed, recVars>>
      PROVE  Promised /\ FlushIsOver'
  BY <1>1, <1>2, NothingMoves, NothingFails DEF FlushIsOver, recVars
<1>3. CASE Application \/ \E w \in CWorker : Client(w)
  <2>1. UNCHANGED <<queue, batch, applied, failed, recVars>>
    BY <1>3 DEF Application, Client, pipeVars
  <2>2. TasksFine' /\ SentKept' /\ rstat' \in [Report -> RStats] /\ outbox' \in Seq(Report)
    BY <1>1, <1>2, <1>3, <2>1, ReporterKeeps
  <2> QED BY <1>1, <1>2, <2>1, <2>2, Whole DEF IngestTypes
<1>4. ASSUME NEW w \in CWorker, Request(w) PROVE IngestInv' /\ Promised
  <2>1. /\ UNCHANGED Promise!vars \/ (\E e \in Event : Promise!Accept(e))
           \/ \E t \in Tenant : Promise!Refuse(t)
        /\ TasksFine' /\ queue' \in Seq(Event)
        /\ UNCHANGED <<batch, failed, outbox, rstat, inflight, rstate>>
    BY <1>1, <1>4, RequestKeeps DEF Request
  <2>2. Promised
    BY <2>1, NothingFails
  <2>3. SentKept' /\ FlushIsOver'
    BY <1>1, <2>1, <2>2, SentStays DEF FlushIsOver
  <2> QED BY <1>1, <2>1, <2>2, <2>3, Whole DEF IngestTypes
<1>5. ASSUME NEW w \in CWorker, Reset(w) PROVE IngestInv' /\ Promised
  <2>1. UNCHANGED <<queue, batch, applied, failed, recVars>> /\ outbox' = outbox /\ task[w] # Idle /\ Again(w)
    BY <1>5 DEF Reset, pipeVars, Serving, Idle
  <2>2. TasksFine' /\ SentKept' /\ rstat' \in [Report -> RStats]
    BY <1>1, <1>2, <2>1, AgainKeeps DEF IngestTypes
  <2> QED BY <1>1, <1>2, <2>1, <2>2, Whole DEF IngestTypes
<1>6. ASSUME NEW e \in Event, ForeignEvent(e) PROVE IngestInv' /\ Promised
  <2>1. /\ Enqueue(e) \/ Refuse(e)
        /\ UNCHANGED <<outbox, task, rstat, batch, applied, failed, inflight, rstate, health>>
    BY <1>6 DEF ForeignEvent, repVars
  <2>2. TenantOf[e] \in Tenant
    BY PipelineAssumption
  <2>3. Promised /\ queue' \in Seq(Event)
    <3>1. CASE Enqueue(e)
      BY <1>1, <2>1, <3>1, EnqueueAccepts, NothingFails
    <3>2. CASE Refuse(e)
      BY <1>1, <2>1, <2>2, <3>2, RefuseRecords, NothingFails DEF IngestTypes
    <3> QED BY <2>1, <3>1, <3>2
  <2>4. TasksFine' /\ SentKept' /\ FlushIsOver'
    BY <1>1, <2>1, <2>3, TasksWait, SentStays DEF FlushIsOver
  <2> QED BY <1>1, <2>1, <2>3, <2>4, Whole DEF IngestTypes
<1>7. ASSUME NEW w \in PWorker, Worker(w) PROVE IngestInv' /\ Promised
  <2>1. WorkerStep(w) /\ UNCHANGED <<outbox, task, rstat>>
    BY <1>7 DEF Worker, repVars
  <2>2. UNCHANGED <<inflight, rstate>>
    BY <2>1 DEF WorkerStep, Receive, FlushTick, Leave, FlushGroup, FailGroup, recVars
  <2>3. Promised /\ queue' \in Seq(Event) /\ batch' \in [PWorker -> Seq(Event)]
    BY <1>1, <2>1, WorkerKeepsPromise
  <2>4. TasksFine' /\ SentKept' /\ FlushIsOver'
    BY <1>1, <2>1, <2>2, <2>3, TasksWait, SentStays DEF FlushIsOver
  <2> QED BY <1>1, <2>1, <2>3, <2>4, Whole DEF IngestTypes
<1>8. CASE Recorder
  <2>1. RecorderStep /\ UNCHANGED <<outbox, task, rstat>>
    BY <1>8 DEF Recorder, repVars
  <2>2. Promised /\ FlushIsOver' /\ UNCHANGED <<queue, batch>>
    BY <1>1, <2>1, RecorderKeepsPromise, NothingFails DEF pipeVars
  <2>3. TasksFine' /\ SentKept'
    BY <1>1, <2>1, <2>2, TasksWait, SentStays
  <2> QED BY <1>1, <2>1, <2>2, <2>3, Whole DEF IngestTypes
<1>9. CASE Signal \/ ClosePipe \/ Stop \/ UNCHANGED vars
  <2>1. UNCHANGED <<outbox, task, rstat, queue, batch, applied, failed, recVars>>
    BY <1>9 DEF Signal, ClosePipe, Stop, vars, repVars, pipeVars
  <2>2. TasksFine' /\ SentKept'
    BY <1>1, <1>2, <2>1, TasksWait, SentStays
  <2> QED BY <1>1, <1>2, <2>1, <2>2, Whole DEF IngestTypes
<1> QED BY <1>3, <1>4, <1>5, <1>6, <1>7, <1>8, <1>9 DEF Next

\* Who was told that the queue is full has its loss on record, for every number of
\* clients and however the flushes of the counters fail (Recorder.Flush).
THEOREM RefusalsAreRecorded == Spec => []RefusalIsOnRecord
<1>1. IngestInv => RefusalIsOnRecord
  <2> SUFFICES ASSUME IngestInv, NEW w \in CWorker, task[w].code = "full"
               PROVE  TenantOf[Current(w)] \in OnRecord
    BY DEF RefusalIsOnRecord
  <2>1. task[w] # Idle
    BY DEF Idle
  <2> QED BY <2>1 DEF IngestInv, Safe, Current
<1> QED BY <1>1, IngestInvInit, IngestInvStep, PTL DEF Spec

\* What a client counts as sent is in custody, in the store or among the events of
\* failed flushes on record, while the process runs: a bulk call refused half way is
\* posted again from its first event (Reporter.post, the handlers, Submit).
THEOREM SentEventsAreKept == Spec => []SentIsKept
<1>1. IngestInv => SentIsKept
  BY DEF IngestInv, SentKept, Kept, Held, SentIsKept
<1> QED BY <1>1, IngestInvInit, IngestInvStep, PTL DEF Spec

\* Ingestion implements its promise: an event leaves custody applied, or its
\* tenant's loss is on record, and stays there (Pipeline.flush, Recorder.Flush).
THEOREM IngestKeepsCustody == Spec => CustodySpec
<1> QED BY IngestInvInit, IngestInvStep, PTL DEF Spec, CustodySpec, Promise!Spec
=============================================================================
