------------------------------- MODULE Ingest -------------------------------
(***************************************************************************)
(* From the application to the store: the client's Reporter, the event     *)
(* handlers of internal/ingest, the pipeline with its recorder, and the    *)
(* shutdown of cmd/reconsync.                                              *)
(***************************************************************************)
EXTENDS Reporter, Pipeline

CONSTANTS
  Malformed,   \* SUBSET Event: events that do not validate
  Foreign,     \* SUBSET Event: events that other clients send
  MayStop      \* BOOLEAN: a SIGTERM may come

ASSUME IngestAssumption ==
  /\ Body \in [Report -> Seq(Event) \ {<<>>}]
  /\ Malformed \subseteq Event
  /\ Foreign \subseteq Event
  /\ MayStop \in BOOLEAN

VARIABLES
  phase,    \* of cmd/reconsync's run
  foreign   \* events of other clients still to come

vars == <<repVars, pipeVars, recVars, closed, cancelled, phase, foreign>>

\* "shutdown": srv.Shutdown, no new requests; "closing": pipe.Close has begun;
\* "stopped": run has returned.
Phases == {"serving", "shutdown", "closing", "stopped"}

TypeOK == RepTypeOK /\ PipeTypeOK /\ phase \in Phases /\ foreign \subseteq Foreign

Init == RepInit /\ PipeInit /\ phase = "serving" /\ foreign \in SUBSET Foreign

-----------------------------------------------------------------------------
(* The requests.  Every Submit is a step of its own.                       *)

Serving(w) == task[w].pos > 0 /\ task[w].code = "none"

Current(w) == Body[task[w].report][task[w].pos]

Answer(w, code) == task' = [task EXCEPT ![w].code = code]

\* On to the next event of the body, or the answer 202.
Advance(w) ==
  LET k == task[w] IN
  task' = [task EXCEPT ![w] = IF k.pos = Len(Body[k.report])
                              THEN [k EXCEPT !.code = "accepted"]
                              ELSE [k EXCEPT !.pos = @ + 1]]

Arrive(w) ==
  /\ phase = "serving"
  /\ task[w] # Idle
  /\ task[w].pos = 0
  /\ task' = [task EXCEPT ![w].pos = 1]
  /\ UNCHANGED <<outbox, rclosed, rstat, pipeVars, recVars, closed, cancelled, phase, foreign>>

\* toDebitEvent, toCreditEvent, toBulkEvent fail: a single event is refused
\* with 400, an event of a bulk call is listed as rejected and skipped.
RejectEvent(w) ==
  /\ Serving(w)
  /\ Current(w) \in Malformed
  /\ IF Len(Body[task[w].report]) = 1 THEN Answer(w, "invalid") ELSE Advance(w)
  /\ UNCHANGED <<outbox, rclosed, rstat, pipeVars, recVars, closed, cancelled, phase, foreign>>

\* A bug's form of SubmitEvent: a bulk call goes on after a refusal.
SubmitOnwards(w) ==
  /\ Serving(w)
  /\ Current(w) \notin Malformed
  /\ \/ Enqueue(Current(w)) /\ Advance(w)
     \/ closed /\ Answer(w, "closed") /\ UNCHANGED <<queue, pending>>
     \/ Refuse(Current(w)) /\ Advance(w)
  /\ UNCHANGED <<outbox, rclosed, rstat, batch, wstate, applied, failed, closed, cancelled,
                 inflight, rstate, health, phase, foreign>>

\* Submit and what the handler makes of its answer: a full or closed pipeline
\* ends the whole request, also a bulk call that is half way through.
SubmitEvent(w) ==
  /\ Serving(w)
  /\ Current(w) \notin Malformed
  /\ \/ Enqueue(Current(w)) /\ Advance(w)
     \/ Refuse(Current(w)) /\ Answer(w, "full")
     \/ closed /\ Answer(w, "closed") /\ UNCHANGED <<queue, pending>>
  /\ UNCHANGED <<outbox, rclosed, rstat, batch, wstate, applied, failed, closed, cancelled,
                 inflight, rstate, health, phase, foreign>>

\* Another client's event, sent once: which tenant's it is makes no difference
\* to the queue.
ForeignEvent(e) ==
  /\ phase = "serving"
  /\ e \in foreign
  /\ foreign' = foreign \ {e}
  /\ Enqueue(e) \/ Refuse(e)
  /\ UNCHANGED <<repVars, batch, wstate, applied, failed, closed, cancelled,
                 inflight, rstate, health, phase>>

-----------------------------------------------------------------------------
(* The process.                                                            *)

\* SIGTERM ends the one context that requests, workers and loops share.
Signal ==
  /\ MayStop
  /\ phase = "serving"
  /\ phase' = "shutdown"
  /\ cancelled' = TRUE
  /\ UNCHANGED <<repVars, pipeVars, recVars, closed, foreign>>

\* srv.Shutdown returns when the requests in progress are answered or the
\* drain timeout has passed; then pipe.Close.
ClosePipe ==
  /\ phase = "shutdown"
  /\ phase' = "closing"
  /\ closed' = TRUE
  /\ UNCHANGED <<repVars, pipeVars, recVars, cancelled, foreign>>

\* Close has waited for the workers and run for the loops.
Stop ==
  /\ phase = "closing"
  /\ \A w \in PWorker : wstate[w] = "left"
  /\ rstate = "gone"
  /\ phase' = "stopped"
  /\ UNCHANGED <<repVars, pipeVars, recVars, closed, cancelled, foreign>>

\* A request that was still in progress when the process ended.
Reset(w) ==
  /\ phase = "stopped"
  /\ Serving(w)
  /\ Again(w)
  /\ UNCHANGED <<outbox, rclosed, pipeVars, recVars, closed, cancelled, phase, foreign>>

-----------------------------------------------------------------------------
(* Who takes steps.                                                        *)

Application ==
  /\ CloseReporter \/ \E r \in Report : EnqueueReport(r)
  /\ UNCHANGED <<pipeVars, recVars, closed, cancelled, phase, foreign>>

Client(w) ==
  /\ TakeReport(w) \/ Reply(w) \/ TransportError(w)
  /\ UNCHANGED <<pipeVars, recVars, closed, cancelled, phase, foreign>>

Request(w) ==
  /\ phase # "stopped"
  /\ Arrive(w) \/ RejectEvent(w) \/ SubmitEvent(w)

Worker(w) == phase # "stopped" /\ WorkerStep(w) /\ UNCHANGED <<repVars, phase, foreign>>

Recorder == phase # "stopped" /\ RecorderStep /\ UNCHANGED <<repVars, phase, foreign>>

Next ==
  \/ Application
  \/ \E w \in CWorker : Client(w) \/ Request(w) \/ Reset(w)
  \/ \E e \in Event : ForeignEvent(e)
  \/ \E w \in PWorker : Worker(w)
  \/ Recorder
  \/ Signal \/ ClosePipe \/ Stop

Spec == Init /\ [][Next]_vars

\* A goroutine that can go on does, tickers fire, an HTTP call ends with an
\* answer or its timeout, and the database does not refuse every write of the
\* counters.  Nothing obliges the application to report or the
\* operator to send a signal.
Fairness ==
  /\ \A w \in CWorker : WF_vars(Client(w) \/ Request(w) \/ Reset(w))
  /\ \A w \in PWorker : WF_vars(Worker(w))
  /\ WF_vars(Recorder)
  /\ SF_vars(phase # "stopped" /\ RecordIngestHealth /\ UNCHANGED <<repVars, phase, foreign>>)
  /\ WF_vars(ClosePipe)
  /\ WF_vars(Stop)

FairSpec == Spec /\ Fairness

-----------------------------------------------------------------------------
(* Properties.                                                             *)

OnRecord == pending \cup inflight \cup health

WellFormed(r) == EventsOf(Body[r]) \ Malformed

\* Who was told that the queue is full is on record as having lost an event:
\* no flush of the counters, failed or not, has forgotten it since.
RefusalIsOnRecord ==
  \A w \in CWorker : task[w].code = "full" => TenantOf[Current(w)] \in OnRecord

\* While the process runs, every event the client counts as sent is in custody, in
\* the store, or was lost in a failed flush that is on record.  The refusal of an
\* event is no excuse, although it is on record too: a bulk call refused half way
\* is not counted as sent before a later attempt has handed in all of it.
SentIsKept ==
  phase # "stopped" =>
    \A r \in Report : rstat[r] = "sent" =>
      \A e \in WellFormed(r) :
        \/ e \in Queued \cup InHand \cup applied
        \/ e \in failed /\ TenantOf[e] \in OnRecord

\* Ingestion implements its promise: events leave custody applied or on record.
Promise == INSTANCE Custody WITH
  held <- Queued \cup InHand,
  applied <- applied,
  gap <- OnRecord
CustodySpec == Promise!Spec

\* While the process lives, a sent event reaches the store or its loss reaches
\* the table the detector reads: again and again nothing sent is outstanding.
SentIsSettled ==
  []<>(cancelled \/ \A r \in Report : rstat[r] = "sent" =>
         \A e \in WellFormed(r) : e \in applied \/ TenantOf[e] \in health)

\* A shutdown ends, whoever is in the middle of what.
ShutdownEnds == cancelled ~> phase = "stopped"
=============================================================================
