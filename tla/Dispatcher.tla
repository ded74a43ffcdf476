----------------------------- MODULE Dispatcher -----------------------------
(***************************************************************************)
(* The webhook queue (webhook_deliveries) and the dispatchers that empty   *)
(* it (internal/service/dispatcher.go): replicas claim due rows under a    *)
(* lease, POST them, write the outcome back and, when a reversal is dead-  *)
(* lettered, say so on the transaction.  The sweep that queues a reversal  *)
(* and only then marks it pending appears as two steps.                    *)
(*                                                                         *)
(* A lease is a future next_retry_at, so leased rows and rows waiting for  *)
(* a retry are the same thing: pending rows whose time has not come.       *)
(***************************************************************************)
EXTENDS TxnRows, Lists, FiniteSets, SequencesExt

CONSTANTS
  Delivery,      \* ids of webhook_deliveries rows
  DeliveryTxn,   \* [Delivery -> Txn]
  IsReversal,    \* [Delivery -> BOOLEAN]: reversal.triggered, or sla.at_risk
  Suspendable,   \* SUBSET Delivery: an operator may disable or delete their endpoint
  Replica,       \* dispatchers
  Results,       \* SUBSET {"ok", "retryable", "permanent"}: how endpoints answer
  MaxAttempts,   \* length of the retry schedule
  Limit,         \* rows a dispatch round claims
  Concurrency,   \* requests a dispatcher has outstanding at a time
  MaxFailures,   \* attempts that end in a store error or with their process
  MaxReplays,    \* dead letters an operator puts back on the queue
  MaxToggles     \* times an operator enables, disables or deletes an endpoint

ASSUME DispatcherAssumption ==
  /\ DeliveryTxn \in [Delivery -> Txn]
  /\ IsReversal \in [Delivery -> BOOLEAN]
  /\ Suspendable \subseteq Delivery
  /\ Results \subseteq {"ok", "retryable", "permanent"}
  /\ MaxAttempts \in Nat \ {0}
  /\ Limit \in Nat \ {0}
  /\ Concurrency \in Nat \ {0}
  /\ MaxFailures \in Nat
  /\ MaxReplays \in Nat
  /\ MaxToggles \in Nat

\* "deleted": the row went with its endpoint.
DeliveryStatuses == {"none", "pending", "delivered", "dead_letter", "deleted"}

VARIABLES
  st,         \* [Delivery -> DeliveryStatuses]: the status column
  attempts,   \* [Delivery -> Nat]: the attempt column
  ready,      \* the pending rows with next_retry_at <= now, oldest first
  flight,     \* [Replica -> [Delivery -> Flight]]: the goroutines of a round
  disabled,   \* SUBSET Delivery: the ones whose endpoint is disabled
  announced,  \* SUBSET Txn: transactions the sweep is about to mark pending
  received,   \* SUBSET Delivery: the endpoint has processed it, a history
  lettered,   \* SUBSET Delivery: it has been dead-lettered, a history
  failures, replays, toggles

queueVars == <<st, attempts, ready, lettered>>
others == <<disabled, announced, failures, replays, toggles>>
vars == <<status, queueVars, flight, received, others>>

\* A goroutine: it holds the attempt number it read with the claim, then what
\* Decide made of the answer.
Landed == [stage |-> "none", attempt |-> 0]
Flight == [stage : {"none", "claimed", "delivered", "pending", "dead_letter", "flag"},
           attempt : Nat]

TypeOK ==
  /\ status \in [Txn -> Statuses \cup {Absent}]
  /\ st \in [Delivery -> DeliveryStatuses]
  /\ attempts \in [Delivery -> Nat]
  /\ ready \in Seq(Delivery)
  /\ flight \in [Replica -> [Delivery -> Flight]]
  /\ disabled \subseteq Delivery
  /\ announced \subseteq Txn
  /\ received \subseteq Delivery
  /\ lettered \subseteq Delivery
  /\ failures \in Nat /\ replays \in Nat /\ toggles \in Nat

Init ==
  /\ status = [t \in Txn |-> "orphaned"]
  /\ st = [d \in Delivery |-> "none"]
  /\ attempts = [d \in Delivery |-> 0]
  /\ ready = <<>>
  /\ flight = [r \in Replica |-> [d \in Delivery |-> Landed]]
  /\ disabled = {}
  /\ announced = {}
  /\ received = {}
  /\ lettered = {}
  /\ failures = 0 /\ replays = 0 /\ toggles = 0

InFlight(d) == \E r \in Replica : flight[r][d].stage # "none"

\* The goroutines of a round that have a slot and are past their request.
Busy(r) == {d \in Delivery : flight[r][d].stage \notin {"none", "claimed"}}

\* d may be waiting for one of its round's slots.
Waits(r, d) ==
  /\ flight[r][d].stage = "claimed"
  /\ Cardinality({e \in Delivery \ {d} : flight[r][e].stage # "none"}) >= Concurrency

-----------------------------------------------------------------------------
(* The sweep: EnqueueDelivery for each endpoint, then MarkReversalPending *)

EnqueueDelivery(d) ==
  /\ st[d] = "none"
  /\ IsReversal[d] => status[DeliveryTxn[d]] = "orphaned"
  /\ st' = [st EXCEPT ![d] = "pending"]
  /\ ready' = Append(ready, d)
  /\ announced' = IF IsReversal[d] THEN announced \cup {DeliveryTxn[d]} ELSE announced
  /\ UNCHANGED <<status, attempts, lettered, flight, received, disabled, failures, replays, toggles>>

\* A refused transition is swallowed, here and in FlagReversal.
TryMark(t, target) ==
  IF UpdateMatches(t, target) THEN UpdateRow(t, target) ELSE UNCHANGED status

MarkReversalPending(t) ==
  /\ t \in announced
  /\ TryMark(t, "reversal_pending")
  /\ announced' = announced \ {t}
  /\ UNCHANGED <<queueVars, flight, received, disabled, failures, replays, toggles>>

-----------------------------------------------------------------------------
(* A dispatch round *)

Take(s, n) == SubSeq(s, 1, IF Len(s) < n THEN Len(s) ELSE n)

\* Mutant: rows are read without a lease.
ClaimWithoutLease(r) ==
  LET claimed == {Take(ready, Limit)[i] : i \in 1..Len(Take(ready, Limit))} \ disabled
  IN  /\ \A d \in Delivery : flight[r][d].stage = "none"
      /\ claimed # {}
      /\ flight' = [flight EXCEPT ![r] =
           [d \in Delivery |-> IF d \in claimed
                                 THEN [stage |-> "claimed", attempt |-> attempts[d]]
                                 ELSE Landed]]
      /\ UNCHANGED <<status, queueVars, received, others>>

\* The LIMIT is applied to the oldest due rows before the join drops the ones
\* whose endpoint is disabled.  A round starts when the last one has ended.
ClaimDueDeliveries(r) ==
  LET claimed == {Take(ready, Limit)[i] : i \in 1..Len(Take(ready, Limit))} \ disabled
  IN  /\ \A d \in Delivery : flight[r][d].stage = "none"
      /\ claimed # {}
      /\ ready' = Without(ready, claimed)
      /\ flight' = [flight EXCEPT ![r] =
           [d \in Delivery |-> IF d \in claimed
                                 THEN [stage |-> "claimed", attempt |-> attempts[d]]
                                 ELSE Landed]]
      /\ UNCHANGED <<status, st, attempts, lettered, received, others>>

\* Mutant: one attempt too many.
ShouldRetryOnceMore(attempt) == attempt < MaxAttempts

ShouldRetry(attempt) == attempt + 1 < MaxAttempts

Decide(attempt, result) ==
  CASE result = "ok" -> "delivered"
    [] result = "retryable" /\ ShouldRetry(attempt) -> "pending"
    [] OTHER -> "dead_letter"

\* The POST and its answer.  An endpoint that times out may have processed it.
Send(r, d) ==
  /\ flight[r][d].stage = "claimed"
  /\ Cardinality(Busy(r)) < Concurrency
  /\ \E result \in Results, processed \in BOOLEAN :
       /\ result = "ok" => processed
       /\ result = "permanent" => ~processed
       /\ received' = IF processed THEN received \cup {d} ELSE received
       /\ flight' = [flight EXCEPT ![r][d].stage = Decide(flight[r][d].attempt, result)]
  /\ UNCHANGED <<status, queueVars, others>>

\* The outcome is written by id alone, whatever the row says by now; a row that
\* is gone ends the attempt with ErrNotFound.
WriteOutcome(r, d, counted, flagged) ==
  LET outcome == flight[r][d].stage
  IN  /\ outcome \in {"delivered", "pending", "dead_letter"}
      /\ \/ /\ st[d] = "deleted"
            /\ UNCHANGED queueVars
            /\ flight' = [flight EXCEPT ![r][d] = Landed]
         \/ /\ st[d] # "deleted"
            /\ st' = [st EXCEPT ![d] = outcome]
            /\ attempts' = [attempts EXCEPT ![d] = IF outcome \in counted THEN @ + 1 ELSE @]
            /\ ready' = Without(ready, {d})
            /\ lettered' = IF outcome = "dead_letter" THEN lettered \cup {d} ELSE lettered
            /\ flight' = [flight EXCEPT ![r][d] =
                 IF outcome \in flagged /\ IsReversal[d] THEN [@ EXCEPT !.stage = "flag"]
                                                        ELSE Landed]
      /\ UNCHANGED <<status, received, others>>

\* Mutants: a reversal is flagged at its first failed attempt; only a final
\* outcome moves the attempt counter.
RecordAndFlag(r, d) == WriteOutcome(r, d, DeliveryStatuses, {"pending", "dead_letter"})
RecordFinal(r, d) == WriteOutcome(r, d, {"delivered", "dead_letter"}, {"dead_letter"})

\* Every attempt counts, and a dead-lettered reversal is flagged next.
RecordDeliveryOutcome(r, d) == WriteOutcome(r, d, DeliveryStatuses, {"dead_letter"})

\* MarkReversalFailed.
FlagReversal(r, d) ==
  /\ flight[r][d].stage = "flag"
  /\ TryMark(DeliveryTxn[d], "reversal_failed")
  /\ flight' = [flight EXCEPT ![r][d] = Landed]
  /\ UNCHANGED <<queueVars, received, others>>

\* Resolving the secret or a store call fails, or the process dies: the
\* goroutine ends where it is.
Fail(r, d) ==
  /\ flight[r][d].stage # "none"
  /\ failures < MaxFailures
  /\ failures' = failures + 1
  /\ flight' = [flight EXCEPT ![r][d] = Landed]
  /\ UNCHANGED <<status, queueVars, received, disabled, announced, replays, toggles>>

-----------------------------------------------------------------------------
(* Time, customers and operators *)

\* next_retry_at passes: the backoff is over or the lease lapses.  The lease
\* (60s) outlasts one request (10s), so it lapses on a running attempt only
\* if that attempt has to wait for one of the Concurrency slots.
Lapse(d) ==
  /\ st[d] = "pending"
  /\ ~Contains(ready, d)
  /\ \A r \in Replica : flight[r][d].stage # "none" => Waits(r, d)
  /\ ready' = Append(ready, d)
  /\ UNCHANGED <<status, st, attempts, lettered, flight, received, others>>

\* A late credit, before the transaction is marked.
CreditArrives(t) ==
  /\ UpdateRow(t, "completed")
  /\ UNCHANGED <<queueVars, flight, received, others>>

\* The customer was told to reverse, did, and says so.
MarkReversalCompleted(t) ==
  /\ \E d \in received : DeliveryTxn[d] = t /\ IsReversal[d]
  /\ UpdateRow(t, "reversal_completed")
  /\ UNCHANGED <<queueVars, flight, received, others>>

\* ReplayDelivery resets the row and nothing else.
ReplayDelivery(d) ==
  /\ st[d] = "dead_letter"
  /\ replays < MaxReplays
  /\ replays' = replays + 1
  /\ st' = [st EXCEPT ![d] = "pending"]
  /\ attempts' = [attempts EXCEPT ![d] = 0]
  /\ ready' = Append(ready, d)
  /\ UNCHANGED <<status, lettered, flight, received, disabled, announced, failures, toggles>>

\* The sweep reads the endpoints once, so a row may still be queued for an
\* endpoint that has just been disabled.
SetEndpointEnabled(d) ==
  /\ d \in Suspendable
  /\ toggles < MaxToggles
  /\ toggles' = toggles + 1
  /\ disabled' = IF d \in disabled THEN disabled \ {d} ELSE disabled \cup {d}
  /\ UNCHANGED <<status, queueVars, flight, received, announced, failures, replays>>

\* The rows of the endpoint's deliveries go with it, leased ones too.
DeleteEndpoint(d) ==
  /\ d \in Suspendable
  /\ st[d] # "deleted"
  /\ toggles < MaxToggles
  /\ toggles' = toggles + 1
  /\ st' = [st EXCEPT ![d] = "deleted"]
  /\ ready' = Without(ready, {d})
  /\ UNCHANGED <<status, attempts, lettered, flight, received, disabled, announced, failures, replays>>

-----------------------------------------------------------------------------

Work(r) ==
  \/ ClaimDueDeliveries(r)
  \/ \E d \in Delivery : Send(r, d) \/ RecordDeliveryOutcome(r, d) \/ FlagReversal(r, d)

Environment ==
  \/ \E d \in Delivery : EnqueueDelivery(d) \/ Lapse(d) \/ ReplayDelivery(d)
                        \/ SetEndpointEnabled(d) \/ DeleteEndpoint(d)
  \/ \E t \in Txn : MarkReversalPending(t) \/ MarkReversalCompleted(t) \/ CreditArrives(t)

Next ==
  \/ \E r \in Replica : Work(r) \/ \E d \in Delivery : Fail(r, d)
  \/ Environment

Spec == Init /\ [][Next]_vars

\* Dispatchers tick and finish what they started, time passes and the sweep
\* finishes.  Endpoints may fail for ever.
FairSpec ==
  /\ Spec
  /\ \A r \in Replica : WF_vars(Work(r))
  /\ \A d \in Delivery : WF_vars(Lapse(d))
  /\ \A t \in Txn : WF_vars(MarkReversalPending(t))

-----------------------------------------------------------------------------
(* Properties *)

\* The lease is "longer than the request timeout, so a slow endpoint is not
\* delivered to twice".  It is not longer than the wait for a slot and the
\* request: with more rows in a round than slots a replica may still be about to
\* send what another one has claimed.
OneAttemptAtATime ==
  \A d \in Delivery, r, q \in Replica :
    flight[r][d].stage \notin {"none", "flag"} /\ flight[q][d].stage \notin {"none", "flag"}
      => r = q

\* Retries end: no delivery is attempted more often than the schedule is long.
WithinSchedule == \A d \in Delivery : attempts[d] <= MaxAttempts

\* A transaction is said to have failed only if a reversal of it was
\* dead-lettered: not for a retry, a warning or an endpoint that is gone.
FailedHasDeadLetter ==
  \A t \in Txn : status[t] = "reversal_failed" =>
    \E d \in lettered : DeliveryTxn[d] = t /\ IsReversal[d]

\* Every delivery to an endpoint that stays enabled is confirmed or dead-lettered.
EveryDeliverySettles ==
  \A d \in Delivery \ Suspendable :
    st[d] = "pending" ~> st[d] \in {"delivered", "dead_letter"}
=============================================================================
