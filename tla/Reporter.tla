------------------------------ MODULE Reporter ------------------------------
(***************************************************************************)
(* The client library's Reporter (pkg/reconsync): reports wait in a        *)
(* bounded queue and a few workers post them, each with a bounded number   *)
(* of attempts.  A report is one request: a single event, or the events of *)
(* a bulk call.                                                            *)
(***************************************************************************)
EXTENDS Naturals, Sequences

CONSTANTS
  Report,        \* reports the application makes, each once
  NoReport,
  Body,          \* [Report -> Seq(Event)]: the events of the request
  CWorker,       \* the reporter's workers
  RBuffer,       \* WithBuffer
  MaxAttempts    \* WithMaxAttempts

ASSUME ReporterAssumption ==
  /\ NoReport \notin Report
  /\ RBuffer \in Nat \ {0}
  /\ MaxAttempts \in Nat \ {0}

VARIABLES
  outbox,    \* the reporter's channel: Seq(Report)
  rclosed,   \* Reporter.closed
  task,      \* [CWorker -> Tasks]: the request a worker is posting
  rstat      \* [Report -> RStats]: which of the counters the report is in

repVars == <<outbox, rclosed, task, rstat>>

RStats == {"new", "queued", "sent", "failed", "dropped"}

\* What the server answered: 202, 400, 429 or 503.
Codes == {"none", "accepted", "invalid", "full", "closed"}
Retryable == {"full", "closed"}

\* pos is the event of the body the server handles; 0 while the request has
\* not reached it.
Idle == [report |-> NoReport, attempt |-> 0, pos |-> 0, code |-> "none"]

Attempt(r, n) == [report |-> r, attempt |-> n, pos |-> 0, code |-> "none"]

RepTypeOK ==
  /\ outbox \in Seq(Report)
  /\ Len(outbox) <= RBuffer
  /\ rclosed \in BOOLEAN
  /\ \A w \in CWorker :
       \/ task[w] = Idle
       \/ /\ task[w].report \in Report
          /\ task[w].attempt \in 1..MaxAttempts
          /\ task[w].pos \in 0..Len(Body[task[w].report])
          /\ task[w].code \in Codes
  /\ rstat \in [Report -> RStats]

\* The application may have closed its reporter without ever using it.
RepInit ==
  /\ outbox = <<>>
  /\ rclosed \in BOOLEAN
  /\ task = [w \in CWorker |-> Idle]
  /\ rstat = [r \in Report |-> "new"]

\* ReportDebit, ReportCredit, ReportReversalCompleted: queued or dropped, at once.
EnqueueReport(r) ==
  /\ rstat[r] = "new"
  /\ IF rclosed \/ Len(outbox) >= RBuffer
     THEN rstat' = [rstat EXCEPT ![r] = "dropped"] /\ UNCHANGED outbox
     ELSE /\ rstat' = [rstat EXCEPT ![r] = "queued"]
          /\ outbox' = Append(outbox, r)
  /\ UNCHANGED <<rclosed, task>>

\* run: a worker takes the next report.  Closing the channel does not empty it.
TakeReport(w) ==
  /\ task[w] = Idle
  /\ outbox # <<>>
  /\ task' = [task EXCEPT ![w] = Attempt(Head(outbox), 1)]
  /\ outbox' = Tail(outbox)
  /\ UNCHANGED <<rclosed, rstat>>

CloseReporter ==
  /\ ~rclosed
  /\ rclosed' = TRUE
  /\ UNCHANGED <<outbox, task, rstat>>

Settle(w, outcome) ==
  /\ rstat' = [rstat EXCEPT ![task[w].report] = outcome]
  /\ task' = [task EXCEPT ![w] = Idle]

\* post's loop: another attempt after an error that may be retried, unless
\* they are used up or the worker's own timeout has passed.
Again(w) ==
  \/ /\ task[w].attempt < MaxAttempts
     /\ task' = [task EXCEPT ![w] = Attempt(@.report, @.attempt + 1)]
     /\ UNCHANGED rstat
  \/ Settle(w, "failed")

\* A bug's form of Reply: a refusal that may be retried counts as sent.
ReplyAny(w) ==
  /\ task[w].code # "none"
  /\ Settle(w, IF task[w].code = "invalid" THEN "failed" ELSE "sent")
  /\ UNCHANGED <<outbox, rclosed>>

\* The answer arrives.
Reply(w) ==
  /\ \/ task[w].code = "accepted" /\ Settle(w, "sent")
     \/ task[w].code = "invalid" /\ Settle(w, "failed")
     \/ task[w].code \in Retryable /\ Again(w)
  /\ UNCHANGED <<outbox, rclosed>>

\* The request is not delivered, or its answer is lost after it was handled.
TransportError(w) ==
  /\ task[w] # Idle
  /\ task[w].pos = 0 \/ task[w].code # "none"
  /\ Again(w)
  /\ UNCHANGED <<outbox, rclosed>>
=============================================================================
