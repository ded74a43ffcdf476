------------------------------ MODULE Pipeline ------------------------------
(***************************************************************************)
(* The bounded ingest pipeline (internal/pipeline), the recorder that      *)
(* counts what it loses (internal/health) and the ingest_health table the  *)
(* recorder writes to.  Workers, recorder and the requests that submit     *)
(* events run concurrently; one context, cancelled by SIGTERM, is shared   *)
(* by all of them.                                                         *)
(*                                                                         *)
(* HasIngestGap asks of a tenant's counters whether a loss is among them,  *)
(* so a map of counters is the set of tenants with one, and adding two     *)
(* maps is a union.  The minutes the counters are kept by are in Silence.  *)
(***************************************************************************)
EXTENDS Lists, FiniteSets

CONSTANTS
  Event,        \* events, each of one tenant
  Tenant,
  TenantOf,     \* [Event -> Tenant]
  PWorker,      \* pipeline workers
  BufferSize,   \* Config.BufferSize
  BatchSize     \* Config.BatchSize

ASSUME PipelineAssumption ==
  /\ TenantOf \in [Event -> Tenant]
  /\ BufferSize \in Nat \ {0}
  /\ BatchSize \in Nat \ {0}

VARIABLES
  queue,      \* the channel: Seq(Event)
  closed,     \* Pipeline.closed, the channel is closed with it
  cancelled,  \* the shared context is done
  batch,      \* [PWorker -> Seq(Event)]: the batch in a worker's hands
  wstate,     \* [PWorker -> WStates]
  applied,    \* events the handler wrote to the store
  failed,     \* history: events of failed flushes that nothing applied
  pending,    \* tenants with losses counted and not being written yet
  inflight,   \* tenants with losses in the flush under way
  rstate,     \* where Recorder.Run is
  health      \* tenants with dropped or handler_errors in ingest_health

pipeVars == <<queue, batch, wstate, applied, failed>>
recVars == <<pending, inflight, rstate, health>>

\* "select": waiting; "flush": handing over its batch; "leave": the last flush,
\* under a context that is not cancelled; "left": returned.
WStates == {"select", "flush", "leave", "left"}

\* "final": the flush after the context ended; "gone": Run returned.
RStates == {"idle", "write", "final", "gone"}

PipeTypeOK ==
  /\ queue \in Seq(Event)
  /\ Len(queue) <= BufferSize
  /\ closed \in BOOLEAN
  /\ cancelled \in BOOLEAN
  /\ batch \in [PWorker -> Seq(Event)]
  /\ \A w \in PWorker : Len(batch[w]) <= BatchSize
  /\ wstate \in [PWorker -> WStates]
  /\ applied \subseteq Event
  /\ failed \subseteq Event
  /\ pending \subseteq Tenant
  /\ inflight \subseteq Tenant
  /\ rstate \in RStates
  /\ health \subseteq Tenant

PipeInit ==
  /\ queue = <<>>
  /\ closed = FALSE
  /\ cancelled = FALSE
  /\ batch = [w \in PWorker |-> <<>>]
  /\ wstate = [w \in PWorker |-> "select"]
  /\ applied = {}
  /\ failed = {}
  /\ pending = {}
  /\ inflight = {}
  /\ rstate = "idle"
  /\ health = {}

-----------------------------------------------------------------------------
(* Submit, under the read lock that Close excludes: one of three answers.  *)

\* Recorder.bump, by Dropped or BatchFailed: events of tenant t are lost.
Bump(t) == pending' = pending \cup {t}

\* A bug's form of Refuse: the refused event is not counted.
RefuseSilently(e) ==
  /\ ~closed
  /\ Len(queue) >= BufferSize
  /\ UNCHANGED <<queue, pending>>

Enqueue(e) ==
  /\ ~closed
  /\ Len(queue) < BufferSize
  /\ queue' = Append(queue, e)
  /\ UNCHANGED pending

\* A full queue refuses at once instead of blocking the caller.
Refuse(e) ==
  /\ ~closed
  /\ Len(queue) >= BufferSize
  /\ Bump(TenantOf[e])
  /\ UNCHANGED queue

-----------------------------------------------------------------------------
(* The worker's loop.  When several cases of its select are ready it takes *)
(* any of them, so a cancelled context does not stop it from receiving.    *)

EventsOf(s) == {s[i] : i \in DOMAIN s}
InHand == UNION {EventsOf(batch[w]) : w \in PWorker}
Queued == EventsOf(queue)

\* A bug's form of Receive: the batch of a worker is reset before it is flushed.
ReceiveOver(w) ==
  /\ wstate[w] = "select"
  /\ queue # <<>>
  /\ queue' = Tail(queue)
  /\ batch' = [batch EXCEPT ![w] = <<Head(queue)>>]
  /\ wstate' = [wstate EXCEPT ![w] = IF Len(batch[w]) + 1 >= BatchSize THEN "flush" ELSE @]
  /\ UNCHANGED <<closed, cancelled, applied, failed, recVars>>

Receive(w) ==
  /\ wstate[w] = "select"
  /\ queue # <<>>
  /\ queue' = Tail(queue)
  /\ batch' = [batch EXCEPT ![w] = Append(@, Head(queue))]
  /\ wstate' = [wstate EXCEPT ![w] = IF Len(batch[w]) + 1 >= BatchSize THEN "flush" ELSE @]
  /\ UNCHANGED <<closed, cancelled, applied, failed, recVars>>

\* The ticker: a batch that is not full is flushed too.
FlushTick(w) ==
  /\ wstate[w] = "select"
  /\ batch[w] # <<>>
  /\ wstate' = [wstate EXCEPT ![w] = "flush"]
  /\ UNCHANGED <<queue, batch, applied, failed, closed, cancelled, recVars>>

\* The channel is closed and empty, or the context is done and whatever is
\* queued stays there: the batch in hand is flushed and the worker returns.
Leave(w) ==
  /\ wstate[w] = "select"
  /\ cancelled \/ (closed /\ queue = <<>>)
  /\ wstate' = [wstate EXCEPT ![w] = IF batch[w] = <<>> THEN "left" ELSE "leave"]
  /\ UNCHANGED <<queue, batch, applied, failed, closed, cancelled, recVars>>

\* flush's byTenant: one tenant's events, and the rest of the batch.
EventsFrom(t) == {e \in Event : TenantOf[e] = t}
Group(w, t) == EventsOf(batch[w]) \cap EventsFrom(t)
Others(w, t) == Without(batch[w], EventsFrom(t))

AfterGroup(w, t) ==
  /\ batch' = [batch EXCEPT ![w] = Others(w, t)]
  /\ wstate' = [wstate EXCEPT ![w] =
                  IF Others(w, t) # <<>> THEN @
                  ELSE IF @ = "leave" THEN "left" ELSE "select"]

\* The handler takes one tenant's events.  A write under the cancelled context
\* fails; the last flush runs under one that is not cancelled.
FlushGroup(w, t) ==
  /\ wstate[w] \in {"flush", "leave"}
  /\ Group(w, t) # {}
  /\ cancelled => wstate[w] = "leave"
  /\ applied' = applied \cup Group(w, t)
  /\ failed' = failed \ applied'
  /\ AfterGroup(w, t)
  /\ UNCHANGED <<queue, closed, cancelled, recVars>>

\* A bug's form of FailGroup: the error takes the whole batch down with it.
FailGroupAll(w, t) ==
  /\ wstate[w] \in {"flush", "leave"}
  /\ Group(w, t) # {}
  /\ UNCHANGED applied
  /\ failed' = (failed \cup Group(w, t)) \ applied'
  /\ Bump(t)
  /\ batch' = [batch EXCEPT ![w] = <<>>]
  /\ wstate' = [wstate EXCEPT ![w] = IF @ = "leave" THEN "left" ELSE "select"]
  /\ UNCHANGED <<queue, closed, cancelled, inflight, rstate, health>>

\* The handler fails on one tenant's events, some of which it may have
\* applied: all of them are counted as lost and the other tenants' go on.
FailGroup(w, t) ==
  /\ wstate[w] \in {"flush", "leave"}
  /\ Group(w, t) # {}
  /\ \E done \in SUBSET Group(w, t) : applied' = applied \cup done
  /\ failed' = (failed \cup Group(w, t)) \ applied'
  /\ Bump(t)
  /\ AfterGroup(w, t)
  /\ UNCHANGED <<queue, closed, cancelled, inflight, rstate, health>>

WorkerStep(w) ==
  \/ Receive(w)
  \/ FlushTick(w)
  \/ Leave(w)
  \/ \E t \in Tenant : FlushGroup(w, t) \/ FailGroup(w, t)

-----------------------------------------------------------------------------
(* The recorder.  Flush swaps the counters out, writes them without the    *)
(* lock and puts them back if the write fails.                             *)

\* A bug's form of FlushStart: off by one, the counters of a single tenant wait.
FlushStartMany ==
  /\ rstate = "idle"
  /\ Cardinality(pending) > 1
  /\ inflight' = pending
  /\ pending' = {}
  /\ rstate' = "write"
  /\ UNCHANGED <<pipeVars, closed, cancelled, health>>

\* A tick with something to write.
FlushStart ==
  /\ rstate = "idle"
  /\ pending # {}
  /\ inflight' = pending
  /\ pending' = {}
  /\ rstate' = "write"
  /\ UNCHANGED <<pipeVars, closed, cancelled, health>>

\* A bug's form of FlushFinal: there is a last flush only if there is something
\* to write.
FlushFinalBusy ==
  /\ rstate = "idle"
  /\ cancelled
  /\ pending # {}
  /\ inflight' = pending
  /\ pending' = {}
  /\ rstate' = "final"
  /\ UNCHANGED <<pipeVars, closed, cancelled, health>>

\* The context is done: one more flush, then Run returns.
FlushFinal ==
  /\ rstate = "idle"
  /\ cancelled
  /\ inflight' = pending
  /\ pending' = {}
  /\ rstate' = IF pending = {} THEN "gone" ELSE "final"
  /\ UNCHANGED <<pipeVars, closed, cancelled, health>>

RunOn == rstate' = IF rstate = "final" THEN "gone" ELSE "idle"

RecordIngestHealth ==
  /\ rstate \in {"write", "final"}
  /\ health' = health \cup inflight
  /\ inflight' = {}
  /\ RunOn
  /\ UNCHANGED <<pipeVars, closed, cancelled, pending>>

\* A bug's form of Restore: the counts replace what came in meanwhile.
RestoreOver ==
  /\ rstate \in {"write", "final"}
  /\ pending' = inflight
  /\ inflight' = {}
  /\ RunOn
  /\ UNCHANGED <<pipeVars, closed, cancelled, health>>

\* The write fails, before or after it was committed.
Restore ==
  /\ rstate \in {"write", "final"}
  /\ health' \in {health, health \cup inflight}
  /\ pending' = pending \cup inflight
  /\ inflight' = {}
  /\ RunOn
  /\ UNCHANGED <<pipeVars, closed, cancelled>>

RecorderStep == FlushStart \/ FlushFinal \/ RecordIngestHealth \/ Restore
=============================================================================
