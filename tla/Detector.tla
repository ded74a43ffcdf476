------------------------------ MODULE Detector ------------------------------
(***************************************************************************)
(* The detection sweep (internal/service/detector.go), run by several      *)
(* replicas over one store with no leader: claim expired transactions, ask *)
(* the rail, weigh the evidence, record the verdict, queue the webhooks,   *)
(* mark the reversal as pending, then warn about approaching deadlines.    *)
(* Every store call is a step of its own; credits keep arriving between    *)
(* them.  The endpoints are one tenant's.                                  *)
(*                                                                         *)
(* A row that a replica has claimed is written by nobody else but credits  *)
(* until that replica marks it, so the UPDATE and the read with which      *)
(* applyTransition classifies a miss are one step here.                    *)
(***************************************************************************)
EXTENDS TxnRows, Integers, FiniteSets

CONSTANTS
  Sweeper,       \* replicas of the detector
  Endpoint,      \* the tenant's webhook endpoints
  Subscribed,    \* [Endpoint -> SUBSET Events]
  Backfill,      \* SUBSET Txn: historical replays
  Verdicts,      \* SUBSET CreditStatuses: what providers report
  Corroborate,   \* BOOLEAN: a provider registry is configured
  Floor,         \* MinReversalConfidence in percent, 0 for none
  Batch,         \* rows one sweep claims
  MaxAborts,     \* sweeps that end in an error or with their process
  MaxToggles     \* times an operator enables or disables an endpoint

Reversal == "reversal.triggered"
Suspect  == "transaction.suspect"
AtRisk   == "sla.at_risk"
Events   == {Reversal, Suspect, AtRisk}

ASSUME DetectorAssumption ==
  /\ Subscribed \in [Endpoint -> SUBSET Events]
  /\ Backfill \subseteq Txn
  /\ Verdicts \subseteq CreditStatuses
  /\ Corroborate \in BOOLEAN
  /\ Floor \in 0..100
  /\ Batch \in Nat \ {0}
  /\ MaxAborts \in Nat
  /\ MaxToggles \in Nat

VARIABLES
  due,        \* SUBSET Txn: the window has closed
  gapped,     \* SUBSET Txn: ingest_health shows a gap over the window
  nearing,    \* SUBSET Txn: within SLAWarnBefore of the regulatory deadline
  warned,     \* SUBSET Txn: sla_warned_at is set
  enabled,    \* SUBSET Endpoint
  queued,     \* [Txn \X Endpoint \X Events -> Nat]: webhook_deliveries rows
  audited,    \* [Txn -> SUBSET Events]: detection records of the audit chain
  claimedAs,  \* [Txn -> Statuses \cup {Absent}]: the claim's verdict, a history
  railSaid,   \* [Txn -> Outcomes \cup {"unasked"}]: the rail's answer, a history
  aborts, toggles

VARIABLE
  sw          \* [Sweeper -> SweepState]: the local variables of Sweep

rowVars == <<status, due, gapped, nearing, warned, enabled, queued, audited,
             claimedAs, railSaid, aborts, toggles>>
vars == <<rowVars, sw>>

\* The rail's answers; an adapter that errors or is missing answers unknown.
Outcomes == {"settled", "failed", "not_found", "unknown"}

PCs == {"idle", "loop", "ask", "settle", "uncertain", "verdict", "floor", "list",
        "enqueue", "mark", "warnloop", "warnqueue"}
None == "none"

\* What each signal adds to the confidence of a verdict, in percent.
WeightWindowExpired    == 55
WeightIngestIntact     == 15
WeightProviderFailed   == 30
WeightProviderNotFound == 25

\* The sum of the weights, clamped.
Confidence(total) == IF total > 100 THEN 100 ELSE total

SweepState ==
  [pc    : PCs,
   batch : SUBSET (Txn \X Statuses),     \* claimed rows, as read, not yet processed
   cur   : Txn \cup {None},              \* the transaction being processed
   local : Statuses \cup {None},         \* its Status field
   conf  : 0..100,                       \* the confidence of its evidence
   event : Events \cup {None},           \* the webhook decided on
   read  : BOOLEAN,                      \* the endpoints were read in this sweep
   eps   : SUBSET Endpoint,              \* ... and these were enabled
   todo  : SUBSET Endpoint,              \* endpoints still to be queued for
   sent  : BOOLEAN]                      \* something was queued for cur

Idle == [pc |-> "idle", batch |-> {}, cur |-> None, local |-> None, conf |-> 0,
         event |-> None, read |-> FALSE, eps |-> {}, todo |-> {}, sent |-> FALSE]

TypeOK ==
  /\ status \in [Txn -> Statuses \cup {Absent}]
  /\ due \subseteq Txn /\ gapped \subseteq Txn /\ nearing \subseteq Txn
  /\ warned \subseteq Txn /\ enabled \subseteq Endpoint
  /\ queued \in [Txn \X Endpoint \X Events -> Nat]
  /\ audited \in [Txn -> SUBSET Events]
  /\ claimedAs \in [Txn -> Statuses \cup {Absent}]
  /\ railSaid \in [Txn -> Outcomes \cup {"unasked"}]
  /\ aborts \in Nat /\ toggles \in Nat
  /\ sw \in [Sweeper -> SweepState]

Init ==
  /\ status = [t \in Txn |-> Absent]
  /\ due = {} /\ gapped = {} /\ nearing = {} /\ warned = {}
  /\ enabled = Endpoint
  /\ queued = [x \in Txn \X Endpoint \X Events |-> 0]
  /\ audited = [t \in Txn |-> {}]
  /\ claimedAs = [t \in Txn |-> Absent]
  /\ railSaid = [t \in Txn |-> "unasked"]
  /\ aborts = 0 /\ toggles = 0
  /\ sw = [s \in Sweeper |-> Idle]

At(s, label) == sw[s].pc = label

-----------------------------------------------------------------------------
(* The claim *)

\* What the sweep may claim, and every subset of it up to the batch size: the
\* oldest come first, but rows another replica has locked are skipped, and so
\* are those of a tenant that SilentTenants names: such a sweep claims nothing.
Expired == {t \in due : IsOpen(status[t])}

ClaimBatch(s, T) ==
  /\ At(s, "idle")
  /\ Cardinality(T) <= Batch
  /\ ClaimRows(T, gapped)
  /\ claimedAs' = [t \in Txn |-> IF t \in T THEN status'[t] ELSE claimedAs[t]]
  /\ sw' = [sw EXCEPT ![s].pc = "loop", ![s].batch = {<<t, status'[t]>> : t \in T}]
  /\ UNCHANGED <<due, gapped, nearing, warned, enabled, queued, audited, railSaid,
                 aborts, toggles>>

Claim(s) == \E T \in SUBSET Expired : ClaimBatch(s, T)

\* Take the next claimed transaction and collect the base evidence.  The gap
\* is read again: it may have been flushed since, or not be readable now.
NextTxn(s) ==
  /\ At(s, "loop")
  /\ \E row \in sw[s].batch, intact \in BOOLEAN :
       /\ intact => row[1] \notin gapped
       /\ sw' = [sw EXCEPT
            ![s].pc = IF Corroborate /\ row[2] = "orphaned" THEN "ask" ELSE "verdict",
            ![s].batch = @ \ {row},
            ![s].cur = row[1],
            ![s].local = row[2],
            ![s].conf = Confidence(WeightWindowExpired
                                   + (IF intact THEN WeightIngestIntact ELSE 0))]
  /\ UNCHANGED rowVars

-----------------------------------------------------------------------------
(* corroborate *)

Ask(s) ==
  /\ At(s, "ask")
  /\ \E o \in Outcomes :
       /\ railSaid' = [railSaid EXCEPT ![sw[s].cur] = o]
       /\ sw' = [sw EXCEPT
            ![s].pc = CASE o = "settled" -> "settle"
                        [] o = "unknown" -> "uncertain"
                        [] OTHER         -> "verdict",
            ![s].conf = CASE o = "failed"    -> Confidence(@ + WeightProviderFailed)
                          [] o = "not_found" -> Confidence(@ + WeightProviderNotFound)
                          [] OTHER           -> @]
  /\ UNCHANGED <<status, due, gapped, nearing, warned, enabled, queued, audited,
                 claimedAs, aborts, toggles>>

\* An UPDATE of the transaction in hand that a miss does not stop.
TryMark(s, target) ==
  IF UpdateMatches(sw[s].cur, target) THEN UpdateRow(sw[s].cur, target)
                                      ELSE UNCHANGED status

\* The rail says it arrived: nothing is sent.  When another writer moved the
\* row first the race is tolerated - and processing goes on.
Settle(s) ==
  /\ At(s, "settle")
  /\ TryMark(s, "completed")
  /\ sw' = [sw EXCEPT ![s].pc =
              IF UpdateMatches(sw[s].cur, "completed") THEN "loop" ELSE "verdict"]
  /\ UNCHANGED <<due, gapped, nearing, warned, enabled, queued, audited, claimedAs,
                 railSaid, aborts, toggles>>

\* Mutant: a transaction nobody could answer for is skipped like a settled one.
UncertainSkipped(s) ==
  /\ At(s, "uncertain")
  /\ TryMark(s, "suspect")
  /\ sw' = [sw EXCEPT ![s].pc = "loop"]
  /\ UNCHANGED <<due, gapped, nearing, warned, enabled, queued, audited, claimedAs,
                 railSaid, aborts, toggles>>

\* The rail did not answer: a human decides.
Uncertain(s) ==
  /\ At(s, "uncertain")
  /\ TryMark(s, "suspect")
  /\ sw' = [sw EXCEPT ![s].pc = "verdict",
                      ![s].local = IF UpdateMatches(sw[s].cur, "suspect")
                                     THEN "suspect" ELSE @]
  /\ UNCHANGED <<due, gapped, nearing, warned, enabled, queued, audited, claimedAs,
                 railSaid, aborts, toggles>>

-----------------------------------------------------------------------------
(* The verdict and its webhook *)

BelowFloor(s) == Floor > 0 /\ sw[s].conf < Floor

\* Mutants: backfill notifies; break instead of continue.
NotifyAll(s) == "list"
NotifyBreak(s) == IF sw[s].cur \in Backfill THEN "warnloop" ELSE "list"

\* Backfilled transactions never notify.
Notify(s) == IF sw[s].cur \in Backfill THEN "loop" ELSE "list"

\* Mutants: ambiguity is not looked at; the verdict is recorded before the
\* floor is applied.
JudgeAll(s) ==
  /\ At(s, "verdict")
  /\ sw' = [sw EXCEPT ![s].event = Reversal, ![s].pc = Notify(s)]
  /\ UNCHANGED rowVars
JudgeRecords(s) ==
  LET ev == IF sw[s].local = "suspect" THEN Suspect ELSE Reversal
  IN  /\ At(s, "verdict")
      /\ audited' = [audited EXCEPT ![sw[s].cur] = @ \cup {ev}]
      /\ sw' = [sw EXCEPT
           ![s].event = ev,
           ![s].pc = IF ev = Reversal /\ BelowFloor(s) THEN "floor" ELSE Notify(s)]
      /\ UNCHANGED <<status, due, gapped, nearing, warned, enabled, queued, claimedAs,
                     railSaid, aborts, toggles>>

Judge(s) ==
  /\ At(s, "verdict")
  /\ sw' = [sw EXCEPT
       ![s].event = IF sw[s].local = "suspect" THEN Suspect ELSE Reversal,
       ![s].pc = IF sw[s].local # "suspect" /\ BelowFloor(s) THEN "floor" ELSE Notify(s)]
  /\ UNCHANGED rowVars

\* Mutant: the status changes and the event does not.
ApplyFloorHalf(s) ==
  /\ At(s, "floor")
  /\ TryMark(s, "suspect")
  /\ sw' = [sw EXCEPT ![s].local = "suspect", ![s].pc = Notify(s)]
  /\ UNCHANGED <<due, gapped, nearing, warned, enabled, queued, audited, claimedAs,
                 railSaid, aborts, toggles>>

\* Evidence below the floor raises an investigation instead of a reversal.
ApplyFloor(s) ==
  /\ At(s, "floor")
  /\ TryMark(s, "suspect")
  /\ sw' = [sw EXCEPT ![s].local = "suspect", ![s].event = Suspect, ![s].pc = Notify(s)]
  /\ UNCHANGED <<due, gapped, nearing, warned, enabled, queued, audited, claimedAs,
                 railSaid, aborts, toggles>>

\* The tenant's endpoints are read once per sweep.
Endpoints(s) == IF sw[s].read THEN sw[s].eps ELSE enabled
Targets(E, ev) == {e \in E : ev \in Subscribed[e]}

\* List the endpoints and record the verdict; a failed append is only logged.
List(s) ==
  /\ At(s, "list")
  /\ \E appended \in BOOLEAN :
       audited' = IF appended THEN [audited EXCEPT ![sw[s].cur] = @ \cup {sw[s].event}]
                              ELSE audited
  /\ sw' = [sw EXCEPT ![s].pc = "enqueue",
                      ![s].read = TRUE,
                      ![s].eps = Endpoints(s),
                      ![s].todo = Targets(Endpoints(s), sw[s].event),
                      ![s].sent = FALSE]
  /\ UNCHANGED <<status, due, gapped, nearing, warned, enabled, queued, claimedAs,
                 railSaid, aborts, toggles>>

EnqueueDelivery(s, ev) ==
  \E e \in sw[s].todo :
    /\ queued' = [queued EXCEPT ![<<sw[s].cur, e, ev>>] = @ + 1]
    /\ sw' = [sw EXCEPT ![s].todo = @ \ {e}, ![s].sent = TRUE]

Enqueue(s) ==
  /\ At(s, "enqueue")
  /\ EnqueueDelivery(s, sw[s].event)
  /\ UNCHANGED <<status, due, gapped, nearing, warned, enabled, audited, claimedAs,
                 railSaid, aborts, toggles>>

\* Mutant: the row is marked although nothing was queued.
EnqueuedOrNot(s) ==
  /\ At(s, "enqueue")
  /\ sw[s].todo = {}
  /\ sw' = [sw EXCEPT ![s].pc = IF sw[s].event = Reversal THEN "mark" ELSE "loop"]
  /\ UNCHANGED rowVars

Enqueued(s) ==
  /\ At(s, "enqueue")
  /\ sw[s].todo = {}
  /\ sw' = [sw EXCEPT ![s].pc =
              IF sw[s].sent /\ sw[s].event = Reversal THEN "mark" ELSE "loop"]
  /\ UNCHANGED rowVars

\* Only once something is queued.  A refused transition is swallowed: the
\* delivery is queued either way.
MarkPending(s) ==
  /\ At(s, "mark")
  /\ TryMark(s, "reversal_pending")
  /\ sw' = [sw EXCEPT ![s].pc = "loop"]
  /\ UNCHANGED <<due, gapped, nearing, warned, enabled, queued, audited, claimedAs,
                 railSaid, aborts, toggles>>

-----------------------------------------------------------------------------
(* warnAtRisk *)

SlaAtRisk(s) == s \in {"orphaned", "reversal_pending", "reversal_failed", "suspect"}

\* Mutant: sla_warned_at is not looked at.
WarnDueAgain == {t \in nearing \ Backfill : SlaAtRisk(status[t])}

WarnDue == {t \in nearing \ (warned \cup Backfill) : SlaAtRisk(status[t])}

\* Mark and return in one statement.
ClaimSLAAtRisk(s) ==
  /\ At(s, "loop")
  /\ sw[s].batch = {}
  /\ \E T \in SUBSET WarnDue :
       /\ Cardinality(T) <= Batch
       /\ warned' = warned \cup T
       /\ sw' = [sw EXCEPT ![s] = [Idle EXCEPT !.pc = "warnloop",
                                               !.batch = {<<t, status[t]>> : t \in T}]]
  /\ UNCHANGED <<status, due, gapped, nearing, enabled, queued, audited, claimedAs,
                 railSaid, aborts, toggles>>

WarnNext(s) ==
  /\ At(s, "warnloop")
  /\ \E row \in sw[s].batch :
       sw' = [sw EXCEPT ![s].pc = "warnqueue",
                        ![s].batch = @ \ {row},
                        ![s].cur = row[1],
                        ![s].read = TRUE,
                        ![s].eps = Endpoints(s),
                        ![s].todo = Targets(Endpoints(s), AtRisk)]
  /\ UNCHANGED rowVars

WarnQueue(s) ==
  /\ At(s, "warnqueue")
  /\ EnqueueDelivery(s, AtRisk)
  /\ UNCHANGED <<status, due, gapped, nearing, warned, enabled, audited, claimedAs,
                 railSaid, aborts, toggles>>

WarnQueued(s) ==
  /\ At(s, "warnqueue")
  /\ sw[s].todo = {}
  /\ sw' = [sw EXCEPT ![s].pc = "warnloop"]
  /\ UNCHANGED rowVars

SweepDone(s) ==
  /\ At(s, "warnloop")
  /\ sw[s].batch = {}
  /\ sw' = [sw EXCEPT ![s] = Idle]
  /\ UNCHANGED rowVars

\* A store call returns an error, or the process dies: Sweep returns and what
\* it had claimed and not processed is forgotten.
Abort(s) ==
  /\ ~At(s, "idle")
  /\ aborts < MaxAborts
  /\ aborts' = aborts + 1
  /\ sw' = [sw EXCEPT ![s] = Idle]
  /\ UNCHANGED <<status, due, gapped, nearing, warned, enabled, queued, audited,
                 claimedAs, railSaid, toggles>>

-----------------------------------------------------------------------------
(* Everyone else: ingest, the clock, operators, the dispatcher, customers *)

others == <<warned, queued, audited, claimedAs, railSaid, aborts, sw>>

Debit(t) ==
  /\ ~Stored(t)
  /\ InsertRows({t})
  /\ UNCHANGED <<due, gapped, nearing, enabled, toggles, others>>

CreditArrives(t, verdict) ==
  /\ UpdateRow(t, TargetStatus(verdict))
  /\ UNCHANGED <<due, gapped, nearing, enabled, toggles, others>>

\* A credit in another currency, or one that overshoots the expected amount.
CreditDisputed(t) ==
  /\ IsOpen(status[t])
  /\ UpdateRow(t, "suspect")
  /\ UNCHANGED <<due, gapped, nearing, enabled, toggles, others>>

WindowCloses(t) ==
  /\ Stored(t)
  /\ due' = due \cup {t}
  /\ UNCHANGED <<status, gapped, nearing, enabled, toggles, others>>

GapRecorded(t) ==
  /\ Stored(t)
  /\ gapped' = gapped \cup {t}
  /\ UNCHANGED <<status, due, nearing, enabled, toggles, others>>

DeadlineNears(t) ==
  /\ Stored(t)
  /\ nearing' = nearing \cup {t}
  /\ UNCHANGED <<status, due, gapped, enabled, toggles, others>>

ReversalEnds(t, target) ==
  /\ UpdateRow(t, target)
  /\ UNCHANGED <<due, gapped, nearing, enabled, toggles, others>>

Toggle(e) ==
  /\ toggles < MaxToggles
  /\ toggles' = toggles + 1
  /\ enabled' = IF e \in enabled THEN enabled \ {e} ELSE enabled \cup {e}
  /\ UNCHANGED <<status, due, gapped, nearing, others>>

-----------------------------------------------------------------------------

Step(s) ==
  \/ NextTxn(s) \/ Ask(s) \/ Settle(s) \/ Uncertain(s) \/ Judge(s) \/ ApplyFloor(s)
  \/ List(s) \/ Enqueue(s) \/ Enqueued(s) \/ MarkPending(s)
  \/ ClaimSLAAtRisk(s) \/ WarnNext(s) \/ WarnQueue(s) \/ WarnQueued(s) \/ SweepDone(s)

Environment ==
  \/ \E t \in Txn :
       \/ Debit(t) \/ WindowCloses(t) \/ GapRecorded(t) \/ DeadlineNears(t)
       \/ CreditDisputed(t)
       \/ \E v \in Verdicts : CreditArrives(t, v)
       \/ \E target \in {"reversal_completed", "reversal_failed"} : ReversalEnds(t, target)
  \/ \E e \in Endpoint : Toggle(e)

Next ==
  \/ \E s \in Sweeper : Claim(s) \/ Step(s) \/ Abort(s)
  \/ Environment

Spec == Init /\ [][Next]_vars

\* Run ticks for ever and a sweep that has begun goes on.  SKIP LOCKED and a
\* silence of the tenant may pass over a row at one tick, not at every tick.
FairSpec ==
  /\ Spec
  /\ \A s \in Sweeper :
       /\ WF_vars(Step(s))
       /\ \A t \in Txn : SF_vars(\E T \in SUBSET Expired : t \in T /\ ClaimBatch(s, T))

-----------------------------------------------------------------------------
(* Properties *)

Queued(t, ev) == \E e \in Endpoint : queued[<<t, e, ev>>] > 0

\* Without a leader, whatever replicas, aborted sweeps and late credits do: an
\* endpoint is told at most one verdict on a transaction, once - a reversal or
\* an investigation, never both - and nothing about a backfilled one.
SingleVerdict ==
  \A t \in Txn, e \in Endpoint :
    queued[<<t, e, Reversal>>] + queued[<<t, e, Suspect>>] <= (IF t \in Backfill THEN 0 ELSE 1)

\* An ambiguous transaction is never reversed: a reversal is only queued for a
\* debit that was claimed without a credit report and without an ingest gap.
NeverReverseDoubt ==
  \A t \in Txn : Queued(t, Reversal) => claimedAs[t] = "orphaned"

\* A floor above what silence alone reaches means that nothing is reversed
\* without a second signal.
SecondSignal ==
  Floor > WeightWindowExpired + WeightIngestIntact =>
    \A t \in Txn : Queued(t, Reversal) => railSaid[t] \in {"failed", "not_found"}

\* Who is told to reverse is told so on the evidence the configuration asks for,
\* whatever arrived while it was collected.
ReversalIsWarranted == NeverReverseDoubt /\ SecondSignal

\* A transaction waits for a reversal, or has been through one, only if somebody
\* was told to make it.
PendingHasDelivery ==
  \A t \in Txn :
    status[t] \in {"reversal_pending", "reversal_failed", "reversal_completed"}
      => Queued(t, Reversal)

\* The deadline warning reaches an endpoint at most once across replicas.
WarnedOnce ==
  \A t \in Txn, e \in Endpoint :
    queued[<<t, e, AtRisk>>] <= (IF t \in warned \ Backfill THEN 1 ELSE 0)

\* The audit chain and the queue never tell two stories about a verdict.
AuditAgrees ==
  \A t \in Txn, ev \in {Reversal, Suspect} : Queued(t, ev) => audited[t] \subseteq {ev}

\* The separate writes about one verdict - status, queue, audit chain and the
\* mark of the warning - agree whenever a sweep dies between them.
RecordsAgree == PendingHasDelivery /\ WarnedOnce /\ AuditAgrees

Resting == \A s \in Sweeper : At(s, "idle")

\* With every sweep through, an orphan with a live endpoint has had its reversal
\* queued, also behind a backfill in the same batch, which never notifies.
OrphanIsNotified ==
  /\ \A t \in Backfill : ~Queued(t, Reversal)
  /\ Resting =>
       \A t \in Txn \ Backfill :
         status[t] = "orphaned" /\ Targets(enabled, Reversal) # {} => Queued(t, Reversal)

\* What the rail says decides: a transaction it knows to have settled is sent to
\* nobody, and one it cannot answer for goes to a human instead.  The code asks
\* "before the queue, so a wrong verdict never reaches the customer", but a mark
\* that a late credit has made impossible is tolerated and the sweep goes on.
CorroborationDecides ==
  \A t \in Txn : railSaid[t] \in {"settled", "unknown"} => ~Queued(t, Reversal)

\* Every expired window is judged.
ExpiryIsJudged == \A t \in Txn : t \in Expired ~> ~IsOpen(status[t])

\* A claim ends in a webhook, unless the money turns out to have arrived or
\* the sweep that made it ended early.
VerdictIsDelivered ==
  \A t \in Txn \ Backfill :
    claimedAs[t] # Absent ~>
      (Queued(t, Reversal) \/ Queued(t, Suspect) \/ status[t] = "completed" \/ aborts > 0)
=============================================================================
