# A TLA+ development of ReconSync

ReconSync watches money that leaves one account (a *debit*) and should arrive in
another (a *credit*).  Customers report both legs; a debit whose credit does not
show up in its window is *orphaned*, the customer's endpoints are told to reverse
it, and the reversal is tracked to its end.  This directory models the parts of
the service that decide about money, about who may decide, and about what is said
afterwards; it checks them with TLC on small instances and proves the most
important results with TLAPS for every instance.

* [Inventory](#inventory): the parts of the system
* [Modules](#modules): which module models what, and how it corresponds to the code
* [Runs](#runs): what TLC checks, the bounds, the fairness
* [Proofs](#proofs): what TLAPS proves and along which argument
* [Disagreements](#disagreements-between-the-code-and-what-it-says): where the code
  does not do what a comment or a document says
* [Not modelled](#what-is-not-modelled-and-why) and [Plan](#plan)

`PROJECT.json` lists the components, the runs with their properties, mutants for
every property, the source lines of every definition, the findings, the hazards
and the theorems.

## Inventory

| Component | State it keeps | Operations | Talks to |
|---|---|---|---|
| State machine (`internal/domain`) | none; the table `allowedTransitions` | `CanTransition`, `SourcesFor`, `TargetStatus` | used by every writer of `transactions.status` |
| Store (`internal/store`) | tables `transactions`, `pending_credits`, `credit_applications` | `UpsertDebits`, `ApplyCredit`, `ApplyPartialCredit`, `Mark...`, `ClaimExpired`, `ParkCredit`, `PeekParkedCredits`, `DeleteParkedCredit` | shared by all replicas and workers |
| Correlation engine (`internal/correlate`) | none but the batch in hand | `Apply`, `applyCredit`, `drainParked`, `tryApply` | store |
| Ingest pipeline (`internal/pipeline`) | bounded queue, open batches, counters | `Submit`, the worker loop, `Close` | engine, health recorder |
| Health recorder (`internal/health`) | per-minute buckets of received and lost events | `Record`, `Flush` with restore | `ingest_health`, read by `ClaimExpired` and `SilentTenants` |
| Client library (`pkg/reconsync`) | the Reporter's bounded queue | `Report`, `Client.post` with its retries, `Close` | HTTP API |
| Detection sweep (`internal/service/detector.go`) | none but the sweep in progress | `Sweep`: claim, corroborate, floor, queue, mark, warn | store, rail adapters, audit chain, webhook queue |
| Silence detection | `tenant_silence` | `SilentTenants`, `SyncSilenceEpisodes` | sweep |
| Webhook queue and dispatcher (`internal/service/dispatcher.go`) | `webhook_deliveries`, `webhook_endpoints` | `EnqueueDelivery`, `ClaimDueDeliveries`, `Dispatch`, `RecordDeliveryOutcome`, `ReplayDelivery`, `DeleteEndpoint` | customers' endpoints, `MarkReversalFailed` |
| Reversal claim (`internal/ingest/handlers.go`) | `reversal_claims` | claim, confirm, release | customers' workers, operators |
| Audit chain and checkpoints | `audit_records`, `audit_checkpoints` | `AppendAudit`, `VerifyChain`, the checkpointer's round, `handleAuditVerify`, `reconsyncctl checkpoints` | sweep, operators |
| Rules (`internal/rules`) | cached rule sets | `Resolve`, `Provider.load` | engine |
| Settlement files (`internal/provider`) | parsed files, their modification times | `Query`, `Reload` | sweep |
| Accounts (`internal/account`) | `users`, `user_sessions`, `recovery_codes`, `password_resets` | login, second factor, password change and reset, administration | HTTP API, `reconsyncctl users` |
| API keys (`internal/auth`) | cache of verified keys | `Authenticate` | `api_keys` |
| Limits (`internal/ratelimit`, `loginLimiter`) | token buckets, failures of an address | `Allow`, `blocked`, `fail` | HTTP API |
| Reports, drill, licence, metrics, QR codes, dashboard, migrations | none that others read | | |

How they interact: HTTP handlers validate and hand events to the pipeline; its
workers run the engine, which writes the store one statement at a time.
Independently, every replica runs a detection sweep, a dispatcher, a checkpointer
and a recorder on timers.  There is no leader and no lock outside the database: row
locks (`FOR UPDATE SKIP LOCKED`), guarded `UPDATE`s, unique keys, one advisory lock
and leases (a future `next_retry_at`) are the only coordination.

What is hard about it:

* *interleavings between statements.*  A store method that issues two statements
  (the guarded `UPDATE`, then a `SELECT` to find out why it matched nothing) can be
  overtaken in between, and so can every multi-step protocol built on the store:
  park-then-drain, claim-then-judge, queue-then-mark, check-then-insert,
  verify-then-enable, set-password-then-end-sessions;
* *messages out of order and repeated.*  A credit may overtake its debit, clients
  retry, a bulk call is refused half way, the two halves of a split payment race;
* *partial failure.*  A batch, a sweep, a dispatch or a request may end after any
  statement, and a flush of the counters may fail again and again;
* *an orderly end.*  One context ends clients' requests, workers, recorder and loops;
* *leases against slow work*, *retries that must end*, *deliveries that must not
  starve*;
* *stale knowledge*: lists, caches and files that are read by one process and
  changed by another;
* *a verdict that must never be wrong in one direction*: telling a customer to
  reverse money that arrived is worse than saying nothing.

What makes the components correct: the status only moves along legal edges; an open
transaction has not received its whole amount, and no credit is counted twice or
forgotten; a parked credit always has somebody who is going to drain it; an accepted
event is applied or its loss is on record; one verdict per transaction and endpoint;
doubt is never reversed; a verdict, once made, is delivered; a tenant that has gone
silent is not judged, and is told so once; a delivery is retried a bounded number of
times and then settles; a transaction is reversed at most once; what verifies against
an old signature is what was appended; codes and links work once, sessions that must
end do; what is revoked, changed or rewritten takes effect in its time.

## Modules

```
TxnStatus            statuses and edges
  TxnLifecycle       abstract specification: the life of one status column
  TxnRows            the status column and the statements that write it
    TxnStore         + credited totals, parked credits, credit ledger
      Correlate      the engine: several workers        -> implements TxnLifecycle
    Detector         the sweep: several replicas
    Dispatcher       the webhook queue: several replicas
    ReversalClaim    the claim interlock: several customer workers
Custody              abstract specification: what ingestion promises
Reporter, Pipeline   the client library; queue, workers and recorder
  Ingest             client, handlers, pipeline, shutdown -> implements Custody
Silence              episodes and their alerts: several replicas
Audit                appends, checkpointers, verifiers, changed tables
Accounts             requests on the account tables, a step per statement
Lists                what is left of a list (Dispatcher, Pipeline, Rules)
Clock
  KeyCache, Rules, Settlement, Limits      what one process keeps in memory
```

`MC<Component>` instantiates a component for TLC: `MCLocal` the last four together, and
`MCDetector` the three parts of a verdict's way - `Silence`, which decides who is swept,
`Detector`, and `ReversalClaim`, which decides who acts on the verdict.  In these two a
behaviour runs one of the parts.  `<Component>Proofs` holds a component's theorems.  `DetectorProofs` extends `Silence` and
`ReversalClaim` as well, `LocalProofs` the four modules on one clock, so the definitions
of these have names of their own (`SilenceSpec`, `ClaimSpec`, `RuleSpec`, ...).

**TxnStatus** is `internal/domain/status.go` as data.  `Absent` stands for an id
without a row.

**TxnLifecycle** is the abstract promise: a transaction appears once, as
`pending_debit`, and then only moves along edges of the table.  Most writers derive
their guard from the table; `ClaimExpired` and `ApplyPartialCredit` have a
hand-written `CASE`, which is why the refinement is worth showing.

**TxnRows, TxnStore**: one operator per SQL statement; a statement, or an SQL
transaction, is one atomic step.  Where a method uses two statements, the using
module has two steps.  Events are model values; constant functions say which
transaction, key, verdict, amount and currency an event has, so a retry is the same
value again.  `parked` has one row per transaction, as the primary key of
`pending_credits` does, and does not keep the currency.

**Correlate**: each worker has a program counter that names the store call it is
about to make (`upsert`, `peek`, `drain`, `next`, `update`, `get`, `park`,
`delete`); `get` is the read with which a missed `UPDATE` is classified.
`FailBatch` ends a batch at any point, as an error of any store call or a crash
does; `batchFailed` remembers that it happened.  The sweep and the dispatcher
appear as the atomic statements with which they write rows (`Outside`).

**Detector**: `sw[s]` holds the local variables of one `Sweep` call.  Steps are the
claim, the answer of the rail, `MarkSettled`/`MarkSuspect`, the verdict, the floor,
listing the endpoints and the audit record, one `EnqueueDelivery` per endpoint, the
mark, then the warnings about deadlines.  Credits arrive, windows close, gaps are
recorded and endpoints are toggled at any moment.  The confidence weights are
those of `internal/evidence` in percent.  `claimedAs` and `railSaid` are histories
for the properties.  An aborted sweep forgets what it claimed.

**Dispatcher**: a delivery's row is its `status`, its `attempt` counter and whether
it is due (`ready`, oldest first, because the claim orders by time and applies its
`LIMIT` before the join with enabled endpoints).  `flight[r][d]` is the goroutine of
replica `r` for `d`.  Time is `Lapse`: a pending row becomes due again.  A lease
(60 s) outlasts a request (10 s), so `Lapse` hits a running attempt only where the
batch is larger than the concurrency and the attempt had to wait for a slot (`Waits`);
at most `Concurrency` goroutines of a replica are past their request (`Busy`).
`WriteOutcome` is the `UPDATE` by id and
what the attempt does next; a row that went with its endpoint (`DeleteEndpoint`, the
cascade of `webhook_deliveries`) ends the attempt with `ErrNotFound`.

**ReversalClaim**: callers check the status and insert the claim in two steps, as
`handleClaimReversal` does; the customer's worker reverses, reports, may die
anywhere; operators may release any unconfirmed claim.  `careless` records the
transactions for which a claim was released whose holder had not died before
reversing - what the API asks operators not to do and cannot prevent.

**Custody, Reporter, Pipeline, Ingest**: `Reporter` is the client's queue and the
workers that post from it, with `MaxAttempts` tries and the three counters (sent,
failed, dropped) as `rstat`.  `Pipeline` has one action per step of `Submit`, of the
worker's `select` loop (`Receive`, the batch that is full, the ticker, the context,
the closed channel), of a failed group (`FailGroup`, per tenant, as `handle` groups
a batch) and of `Flush`: the swap of the counters, the write, `Restore` when it
failed.  `Ingest` submits the events of a request one by one - a bulk call skips
what does not validate and stops at the first refusal with 503, and the client
repeats the whole call - and ends the process the way `run` does.  `Custody` knows
held, applied and gap only; `CustodySpec` maps queue and hands, store, and the
counters wherever they are to these.

**Silence**: minutes are the buckets of `ingest_health`; `IsSilent` is the SQL of
`SilentTenants`.  A sweep's steps are reading that list, `SyncSilenceEpisodes` (one
transaction: `INSERT ... ON CONFLICT DO NOTHING`, `DELETE ... RETURNING`), one
`EnqueueDelivery` per alert, and the claim, which is where `Detector` begins.
`opened` numbers the episodes, a history.

**Audit**: hashes and signatures are the tuples of what goes into them, so equality
is injectivity.  `AppendAudit` is four statements under `pg_advisory_xact_lock`; a
checkpointer reads the latest checkpoint, reads and verifies a page, saves; the
endpoint reads the records and then the checkpoint, `reconsyncctl` the other way
round.  A checkpoint carries its public key, as the row does.  The endpoint verifies with
that key; `reconsyncctl` does, or with the one that was published (`OurKey`) if it was
given.  `Tamper` changes tables behind the service: edits, removals, a rebuilt chain, an
adjusted checkpoint, and one signed anew with a key of somebody else.  `AsRead` is the
trip of an amount through a float64.

**Accounts**: a request is a process with a place (`at`) that names the statement it
is before; every handler and every `users` command is a path through these
statements.  A caller is a session, the command line (`Ctl`) or an API key (`Key`):
`requireAdmin` asks for a scope, so a key with `endpoints:write`, or without scopes,
administers as well, and is nobody's own account.  `spent`, `ended`, `proven`, `met` are histories; `met` knows which pairs
of requests overlapped, so that a property can say "unless they did".

**KeyCache, Rules, Settlement, Limits** share `Clock`.  A verification, a load and a
reload are two or more steps, so a revocation, a change or a rewrite may fall between
them; `Latency` bounds how long one takes.  `Resolve` is the code's pass
over the rows in scan order, compared with `BestOf`, which is defined by what "best" means.
A settlement file is a number, its place in path order.
A token is `Unit` parts, of which `Rate` accrue per tick; nothing relates the rate to the
time after which an idle bucket may be dropped, because in the code nothing does.

Every state module has a `TypeOK` that says what its variables hold; the runs spend
their properties on more, the proofs take what they need of it as a hypothesis and
prove it.

## Runs

There are eight passing runs and four in which TLC finds the code to disagree with what
it says (their properties are in [Disagreements](#disagreements-between-the-code-and-what-it-says)).
Every passing run is exhaustive for its constants.  `CHECK_DEADLOCK` is off
everywhere because all these systems may legitimately come to rest: clients stop
sending, every delivery is settled, every claim is decided.

| Run | Checks | Bounds |
|---|---|---|
| `Correlate_credits` | partial settlement: `OpenIsShort`, `TotalIsLedger`, `CountsOnce`; parking and retries: `NoStrandedPark`, `ParkedIsDrained`, `MoneyNotForgotten`; `LifecycleSpec` | 2 workers, batches of 2, 2 transition attempts; either 1 transaction of 2 with 3 credits (1; 2 in another currency; 2 under the first one's key), which arrive one to a batch, or 2 debits with one key, a success and a failure without amounts |
| `Detector_verdicts` | `SingleVerdict`, `ReversalIsWarranted`, `RecordsAgree`; `PaidOnce` | 2 replicas, 1 transaction, 2 endpoints, all verdicts, floor 80, 1 abort, 1 toggle; 3 callers |
| `Detector_live` | `ExpiryIsJudged`, `VerdictIsDelivered`, `OrphanIsNotified`; `AlertsMatchEpisodes`, `NoStorm`, `EpisodesConverge` | 1 replica, 2 transactions of which one is a backfill, no failure report, no abort; 1 tenant, 2 replicas, quiet 1, baseline 2, minimum 2, 4 minutes, 1 fault |
| `Detector_refused_mark` | violated: `CorroborationDecides` | 1 replica, 1 transaction, no floor |
| `Dispatcher_queue` | `WithinSchedule`, `FailedHasDeadLetter`, `EveryDeliverySettles` | 2 replicas, 2 reversals of one transaction, 2 attempts, batch = concurrency = 2, 1 failure, 1 replay, 1 endpoint disabled or deleted |
| `Dispatcher_lease` | violated: `OneAttemptAtATime` | 2 replicas, 2 deliveries, batch of 2, concurrency 1 |
| `Ingest_custody` | `CustodySpec`, `RefusalIsOnRecord`, `SentIsKept`, `SentIsSettled`, `ShutdownEnds` | 1 client worker, 1 pipeline worker, queues of 1, batch of 2, 2 attempts; either a bulk call of three events with a malformed one in the middle and a report of that event alone, or two events of two other tenants |
| `Audit_chain` | `AppendsNeverClash`, `ChainIsHistory`, `SignedIsReached`, `AnswersAreRight` | 5 scenes of 3 to 4 actors; amounts 1 to 3, of which a float64 changes the 3; pages of 2 and 3, 3 records, 2 changes |
| `Audit_page` | violated: `HeadIsSigned` | the same scenes, amounts 1 and 2 |
| `Accounts_access` | `CodeOpensOnce`, `EndedSessionsGo`, `OverlapAside`, `AdminStays` | 3 users, 21 operations: every pair of them, every triple of the 10 that race; with and without a second factor; 1 fault |
| `Accounts_last_admin` | violated: `NeverWithoutAdmin` | two requests with an API key, two administrators |
| `Local_bounds` | `RevocationTakesEffect`, `BestRuleWins`, `RulesTakeEffect`, `AnswersFromDisk`, `BudgetHolds`, `FailuresHold` | one component per behaviour; time 0..3, latency 1, 2 keys, 5 rules, 2 files, 2 buckets, 2 attempts |

`AlertsMatchEpisodes`, `ReversalIsWarranted`, `RecordsAgree`, `AnswersAreRight` and
`OverlapAside` are conjunctions of named parts, with a mutant for each part.

Why these bounds are enough to be interesting.  Every race in this code is between
two actors on one row, with a third writing in between; two workers plus `Outside`,
two replicas plus credits, three callers provide that.  Partial settlement needs a
half, a whole, an overpayment, a foreign credit and a repeated key, which the three
credits of `Correlate_credits` combine to.  `GiveUp` needs as many lost races as
`TransitionAttempts`: 2 instead of the code's 3 reaches it with fewer events.
A schedule of 2 attempts has a first, a last and no further attempt.  A second
transaction in one batch is what shows that the loop of `Sweep` goes on after a
backfill.  The counters `MaxSends`, `MaxAborts`, `MaxToggles`, `MaxFailures`,
`MaxReplays` bound what clients, crashes and operators do; none of them bounds the
service itself.

In `Ingest_custody` a queue of one is full after one event, and a bulk call of three
is refused in its middle, with events of the call before the refusal already in
custody; a batch of two has a first event of one tenant when the second tenant's
fails.  In `Detector_live` four minutes are a baseline, a quiet period, a resumption and
what it takes for stale lists of both; the floor of `Detector_verdicts` is met with the
rail's second signal only.  In `Audit_chain` the page is shorter than the chain, and two
changes are what it takes to rebuild the chain *and* adjust the checkpoint.  The races
of `Accounts` are between two requests; the triples add a third that profits from the
state the two leave behind.  In `Local_bounds` time exceeds every period by at least
one latency; a bucket takes three ticks to fill and is dropped after two, as that of the
fire drills is dropped (10 min) before it has filled (20 min, at 6 per hour).

**Fairness.**  `Correlate`: weak fairness of each worker's next step - goroutines
are scheduled and store calls return; none for clients, failures or other writers.
`Detector`: weak fairness of a sweep's next step, and for every transaction strong
fairness of the claims that include it: `Run` ticks for ever, and `SKIP LOCKED` or a
silent tenant may make one tick pass a row over, not all.  `Dispatcher`: weak
fairness of dispatchers, of time passing for a row (`Lapse`) and of the sweep's
mark.  Endpoints are never assumed to answer well.  `Ingest`: weak fairness of the
client's workers, of requests (an HTTP call ends with an answer or its timeout), of
workers, recorder and the steps of the shutdown, and strong fairness of a *successful*
write of the counters: the database does not refuse every one.  Nobody must report or
send a signal.  `Silence`: weak fairness of the clock, of the recorder's flush and of
each replica's sweep.  `Audit`: weak fairness of one checkpointer's round, strong
fairness of its comparison and its save, so not every round fails; nobody must append.

What a property excepts, or a bound leaves out, because the code does not keep it there:

* `MoneyNotForgotten` is checked where a transaction has one credit and no amounts are
  stated.
* `OrphanIsNotified` is checked where no provider reports a failure and no sweep is
  aborted; `VerdictIsDelivered` excepts sweeps that were.
* `WithinSchedule` is checked with a round no larger than the concurrency, and
  `EveryDeliverySettles` with a batch that is not filled by rows of disabled endpoints.
* `SentIsKept` and `SentIsSettled` speak of a running process: what a shutdown loses is
  below.  A refusal on record is no excuse for `SentIsKept`: a call that was refused half
  way is not counted as sent before a later attempt has handed in all of it.
* `AnswersAreRight` speaks of verification with the published key.
* `AdminStays` names who may take the last administrator away, which is not nobody.
* `AnswersFromDisk` speaks of directories without a malformed file, and of a query that is
  alone and later than the reloads begun before the last write.
* `EndedSessionsGo` and `OverlapAside` except a fault between two statements and requests
  that were under way together: they check the order of the statements in one request.
* `RulesTakeEffect` speaks of sets that are not served because a load failed.

## Proofs

`tlapm` checks eight modules completely: `CorrelateProofs`, `DetectorProofs` (with the
silence episodes and the reversal claim), `DispatcherProofs`, `IngestProofs`,
`AuditProofs`, `AccountsProofs`, `LocalProofs` (key cache, settlement files, limits,
rules) and `DataLemmas`, which holds what several of them need about least
counterexamples, sums and lists.  Every safety property a passing run checks, invariant
or action property, is stated by a theorem; two refinements are among them.  Where a
theorem has a hypothesis of its own, it is named below.

*Assumptions.*  They are the named `ASSUME`s of the component modules, which TLC
evaluates in every run: `StoreAssumption` (the constant functions have their types,
expected amounts are positive, `NoCredit` is not a credit), `CorrelateAssumption` (the
bounds are naturals, at least one transition attempt), `ClaimAssumption` (`NoCaller` is
not a caller), `DetectorAssumption` and `DispatcherAssumption` (the settings have their
types), `SilenceAssumption` (the settings are positive), `AuditAssumption` (they
are, and `Free` is not an appender), `AccountsAssumption`, `PlansAssumption`
(operations have their fields and start without a link), `RowsAssumption` (so do the
tables a behaviour may start from; what is told apart by random values differs, and what
earlier requests left behind is what they leave when they do not overlap),
`ReporterAssumption`, `PipelineAssumption`, `IngestAssumption` (a call has an event,
queues and batches have room), `ClockAssumption`, `KeyCacheAssumption`,
`SettlementAssumption`, `LimitsAssumption` (the settings are positive, there are finitely
many attempts; rate, burst and idle time are unrelated), `RulesAssumption` (ids are
positive and rules differ in them).  Nothing is assumed about how many workers,
transactions, credits, callers, tenants, replicas, users, requests, files, rules or keys
there are.

### The engine (`CorrelateProofs`)

* `TypeCorrect`: `Spec => []TypeOK`.
* `ImplementsLifecycle`: `Spec => Lifecycle!Spec`.  Every writer of the status
  column either leaves a row alone, inserts a new one or moves it along an edge.
  The argument goes statement by statement; for the two hand-written `CASE`s it
  needs that the row is open.
* `OpenIsShortHolds`: `OpenIsShort` says nothing about rows that are not there, and an
  insert opens a row whatever its total: `ShortInv` adds that an absent row has
  credited nothing.
* `CountsOnceHolds`: an action property, from type correctness and the guard on the
  ledger key.
* `TotalIsLedgerHolds`: the total is a sum over the ledger, a set.  `LedgerInv` adds that
  the ledger is finite and that no total exceeds its sum, also of a row that has left the
  open statuses (it is defined in `Correlate`, where TLC checks it, as is `KeptInv`
  below).  What a sum gains when an element joins comes from `DataLemmas`.
* `NoStrandedParkHolds`: why a parked credit beside its stored debit always has a
  worker that will drain it.  The invariant `DrainInv` adds that a parked credit
  belongs to the row it is parked on, that a worker holds read-back credits only
  inside `drainParked`, and that it deletes only what it read back.  The three
  interesting steps are `StoreDebits` (whoever stores the debit peeks next), `Park`
  (whoever parks peeks next, since the debit may have landed in between) and
  `Delete` (which removes the only credit the worker was responsible for).
* `LoneSuccessNotForgotten`: `KeptInv` follows each delivered success from the batch to
  the hand, to the parking table, to whoever reads it back, to the resolved row.  The
  theorem assumes that every success is `Solitary`, the only credit of its transaction and
  without an amount.  Without that it is false in the code: `pending_credits`
  keeps one credit of a transaction, and `ApplyPartialCredit` may classify a miss by a
  debit that landed after it (below).

### The sweep (`DetectorProofs`)

* `OneVerdict`: why replicas without a leader never tell an endpoint two verdicts.
  `SweepInv` says who may still speak about a row: a sweep *holds* the rows of its batch
  and the one in its hand, what is held is held once (`ClaimIsOwn`) and is decided, and
  no endpoint has been told about it until the sweep queues for it (`FreshIsUntold`).
  The claim takes open rows only, which nobody holds and about which nobody was told
  (`ToldIsDecided`); the state machine has no edge back to an open status
  (`DecidedStays`), so no row is claimed twice, also when the sweep that claimed it
  dies.  `LocalStep`, `HandStep` and `LetGo` do the steps that tell nobody anything.
* `WarrantedReversals`: `GroundsInv` carries the grounds of a verdict along the steps of
  a sweep - how the row was claimed, what the rail said, which score that makes - until it
  is queued, so what an endpoint is told rests on what was known when it was decided.
* `UnansweredOnlyIfArrived`: `GroundsInv` also says how far the sweep strays from a rail
  that did not answer (below): a transaction is reversed without an answer only where
  `MarkUncertain` was refused, which needs a credit that has completed it.
* `RecordsStayAgreed`: `WarnInv` orders the writes about one verdict; a sweep that ends
  between any two of them leaves a prefix, and each part of `RecordsAgree` says which
  write may be missing.
* `OrphansAreNotified`: `OrphanInv` says that an orphan is in a sweep's hands or has been
  told to every endpoint that wants it.  It assumes that no sweep is aborted, no endpoint
  toggled and no failure reported.  Each of the three, allowed, breaks it (below).
* `DetectorKeepsLifecycle`: this module, too, implements `TxnLifecycle`.

*Silence.*

* `EpisodeInterlock`: alerts carry the number of their episode, so an alert of a
  *later* opening would contradict the interlock before it exists.  `SilenceInv` adds
  `NumberedSoFar`: no alert is about an episode beyond the ones opened.  The step is
  `SyncSilenceEpisodes`: what it opens gets a fresh number, what it closes was open, so
  the resolution with that number is in nobody's hands (`ResolvedIsClosed`).
* `SteadySilenceIsSeen`: the active minutes of the baseline are counted; for a tenant that
  sent in every minute from 0 to its last they are an interval, and the arithmetic of the
  two bounds of `SilentTenants` leaves `MinActive` of them.  That the last minute is a
  greatest element, `Max` being a `CHOOSE`, comes from `DataLemmas`.

*The reversal claim.*

* `ClaimInvariant`, `PaidOnceHolds`, `ConfirmedStaysHolds` for the interlock.
  `PaidOnce` is not inductive: it needs `HolderOwns` (whoever was granted the claim
  and did not die before reversing still holds it) and `PaidIsHeld` (a reversal that
  was carried out is covered by the claim of whoever did it), both for transactions
  outside `careless`.

### The dispatcher (`DispatcherProofs`)

* `FailedIsDeadLettered`: a goroutine flags a reversal as failed after its dead letter
  was written (`FlagHasDeadLetter`), and every other writer of the status reaches some
  other status.
* `OneReplicaAtATime`, `RetriesEnd`: `LeaseInv` says that a row with a running attempt is
  not due, that the due rows are listed once, and that a row's counter is the number of its
  attempts since the last replay.  Claimed rows leave the due rows by `Without`, a
  recursive function over the list (`Lists`); that it leaves the other elements, each
  once, is proved from a least counterexample instead of by induction.  Both theorems
  assume that no lease lapses on a running attempt (`LeasesOutlast`): without that both
  are false, because the outcome is written by id alone (`postgres_webhook.go:160`).  The
  code meets the assumption for a round whose requests take less than the lease
  altogether; with 100 rows, 8 slots and requests of up to 10 s it need not
  (`Dispatcher_lease`).
* `DispatcherKeepsLifecycle`: flags that come late, twice or after the lease, the sweep
  that marks a reversal after queueing it, credits and answers move the status along the
  edges of `TxnLifecycle`: each is the guarded UPDATE, and a refused one writes nothing.
  The dispatcher meets transactions in mid-life, so its initial state is not the one of
  `TxnLifecycle` and the theorem is about the step.

### Ingestion (`IngestProofs`)

`IngestInv` carries the custody of an event through the whole call.  A client's worker is
`Safe` when the events its request is past are malformed, in custody, applied or lost in a
failed flush that is on record (`Kept`), and when a 503 has its loss on record;
`SentIsKept` is what is left of that once the answer was read.  That a refusal is no
excuse rests on `Again`: a call that was refused starts over from its first event.  `FlushIsOver` says that nothing is out for a write between flushes:
`FlushStart` overwrites `inflight`, so without it a loss that was being written would be
forgotten.

* `RefusalsAreRecorded`, `SentEventsAreKept`: the two invariants, however flushes fail,
  answers are lost and calls are repeated.
* `IngestKeepsCustody`: `Spec => CustodySpec`, the refinement.  Steps of the client and the
  recorder stutter or report a loss; `Submit` takes custody; `Receive` moves an event from
  the queue to a hand; a batch that was handled or failed leaves custody applied or on
  record.  What `Append`, `Tail` and `Without` do to the elements of a list comes from
  `DataLemmas`.

### The audit chain (`AuditProofs`)

* `AppendsAreSerial`, `ChainVerifies`: whoever is past `Lock` holds the lock, the tip
  it read is the chain's, and each record links to the one before.  Whether the chain
  read back verifies depends on the amounts alone: if all survive `AsRead` it does, and the
  first that does not is a record whose hash no longer fits.
* `SignedStaysReached`: `SignInv` adds what a checkpointer holds between its steps.  A page
  that verified ends in a head that the chain passes through, the chain only grows while
  nobody changes the tables, and saving keeps the later head.
* `VerifiedIsAppended`: the theorem the checkpoints exist for, without any hypothesis, for
  whoever verifies with the published key; the checkpoint may have been signed anew with
  another one.  A head contains, by injectivity of the hash, all that was hashed into it; a signature
  made before the first change was made over a head of the history; so records whose walk
  arrives at that head are the history up to it, whatever became of the table.
* `AnswersHold`: `AnswerInv` says what each verifier knows between its two reads.  It adds
  that `reconsyncctl` finds fault only with changed tables or with an amount that did not
  survive.  Of a key that comes out of the row it promises what follows when that key is
  the published one, and nothing otherwise, which is what the code gives.

A walk over the records is a recursive function of its length.  The walks are compared
without induction over data: a first position at which two of them differ, if any, is a
least one (`DataLemmas`, from the library's theorem that `<` on the naturals is
well-founded), and the step before it contradicts that.

### Accounts (`AccountsProofs`)

* `RecoveryCodeOnce`, `ResetLinkOnce`: a code that was spent, or a link that was
  redeemed, is in no table any more and in nobody's hands but the spender's.
* `DoomedSessionsEnd`: sessions whose user was disabled, whose password was set or whose
  second factor was turned off by the command are gone or their request is before its
  `purge`.  New sessions have the identity of their request, so none is born ended.
* `OverlapOnlyAside`: what its three exceptions have in common is `met`, the pairs of
  requests that were under way together.  `AcquaintedInv` says that requests under way have
  met.  On it, `FactorInv` follows an enrolment from the secret that was shown to the
  statement that enables it; `LinksInv` says that a link which is there when a request
  inserts its own was made beside it; `PasswordInv` says that a sign-in past its check had
  the password of the account, or has met whoever changed it.
* `AdminsStay`, an action property: in `AdminInv`, a signed-in administrator who is about to
  take away a role or an account is not about to take away their own (`NotOneself`), so if
  they still are an administrator, one is left.  The command line and API keys are nobody,
  so the argument does not reach them, and the code has none that would.

### Keys, files, limits and rules (`LocalProofs`)

* `RevocationBound`: a revoked key is accepted no later than a TTL and a latency after
  it was revoked.  `KeyInv` adds that a verification under way read its row at most a
  latency ago and before any revocation of the key it will accept, and that every cache
  entry of a revoked key ends within the bound.
* `DirectoryAnswers`: in `FileInv` every reload has read, of each file that still has the
  stamp it was read with, what is in it (`StampsMatch`), and one that began after the last
  write reads what is on the disk (`ReadsDisk`).  So once the directory was checked past
  the reloads that began before the write, the files are known or the query that found
  the change is about to read them (`Refreshed`); a query that was alone then answers what
  the directory says (`AnswerKnows`).
* `BudgetIsKept`: what was granted since any earlier moment is bounded by the burst and
  what was gained since.  `BudgetInv` (with `Covered`) adds the tokens still in the bucket to
  what was granted.  A bucket that eviction dropped had been idle for more than `Idle`; when
  it is made anew it gains at most a burst, and no more than once in `Idle + 1` instants.
  `Gain` is the larger of that and what the rate gives, so the theorem needs no relation
  between them: where an idle bucket fills up, the bound is the rate's; for the drill
  limiter it is a burst of 2 for every 10 minutes, twice the 6 per hour it is set to.
* `FailuresAreFew`: `SignInInv` counts the attempts under way that passed the check
  together with the failures of the window (`Counted`).
* `RulesAreFresh`: what a load holds was in the table when it asked, and what is cached was
  there a latency before it was stored (`LoadsAreRecent`, `EntryIsRecent`); changes of the
  table only make that longer ago.
* `BestRuleIsFound`: `better` is a strict total order on rules with different ids
  (`BeatsIsOrder`; no rule has more than five criteria, so they cannot outweigh a
  priority), and one pass keeps the best of the rules it has seen.

### What is only model-checked

* Liveness (`ParkedIsDrained`, `ExpiryIsJudged`, `VerdictIsDelivered`,
  `EveryDeliverySettles`, `SentIsSettled`, `ShutdownEnds`, `EpisodesConverge`): TLAPS
  does not do liveness under fairness.
* Outside the hypotheses of their theorems `MoneyNotForgotten`, `OrphanIsNotified` and
  `WithinSchedule` are not kept by the code, as the section below says.

## Disagreements between the code and what it says

Four runs end in a counterexample to something the code says of itself.

* `Detector_refused_mark`, `CorroborationDecides`.  The rail says settled, or it cannot be
  reached, but a late credit has completed the row already.  `MarkSettled` or
  `MarkUncertain` is refused, which `tolerateRace` makes no error, the claimed row in
  memory still says orphaned, and the sweep queues `reversal.triggered`
  (`detector.go:565`, 580-582).  `detector.go:243-245` says "so a wrong verdict never
  reaches the customer", and 575-576 of a rail that did not answer "it goes to a human
  instead".  In both cases the money has arrived (`UnansweredOnlyIfArrived`).
* `Dispatcher_lease`, `OneAttemptAtATime`.  A round claims up to 100 rows under one lease and
  sends 8 at a time (`dispatcher.go:139`; `main.go:365` keeps both).  A row that waits
  longer than the lease is delivered by another replica too, and the late outcome
  overwrites the confirmed one (`postgres_webhook.go:160`).  `dispatcher.go:23-25` says
  the lease is "Longer than the request timeout, so a slow endpoint is not delivered to
  twice."
* `Audit_page`, `HeadIsSigned`.  The checkpointer reads the first 1000 records of a chain
  (`checkpointer.go:120`, `postgres_audit.go:130-132`); beyond that, no round signs
  anything new.  `checkpointer.go:92` says it "signs every tenant's current chain head".
* `Accounts_last_admin`, `NeverWithoutAdmin`.  An API key with `endpoints:write`, or with no
  scopes, passes `requireAdmin`, and the guard against changing oneself
  (`auth_handlers.go:353`) compares the user with the key's id: one key takes away all
  administrators.  Lines 350-355 say that the guard is there "so a tenant is never left
  without one".

Further observations.  The models reproduce most of them, with the constants named or by
asking for the property without its exception.

*Engine.*

* `ApplyPartialCredit` misses because the debit is not there yet; the debit lands; the
  classifying `Get` finds it and the credit is taken for a refused transition, neither
  counted nor parked (`postgres.go:535`).  `applyTransition` retries in exactly this
  case, and `correlate.go:190` says the credit "cannot be lost by either side".
* Two credits with amounts that both overtake their debit: `pending_credits` has one row
  per transaction and the second credit is dropped.
* A foreign credit that overtakes its debit is counted at face value, because
  `pending_credits` has no currency column (`StatesForeign`).

*Ingest.*

* `toBulkEvent` drops a bulk credit's amount and currency (`handlers.go:1115-1121`).
* A shutdown loses queued events: workers leave on `ctx.Done` with the queue not empty,
  and `Close` says it "drains what is queued" (`pipeline.go:176`).  The recorder ends with
  the same signal, so a batch that fails in the last flush may be counted by nobody
  (`main.go:443`).  An error of the listener makes `run` return without draining at all
  (`main.go:426-428`).
* The Python Reporter checks `closed` under its lock and puts outside it, so a report may
  land behind the sentinels.

*Sweep.*

* A reported failure moves the row to `orphaned` in the engine.  Only `ClaimExpired`
  feeds the webhook queue, and it claims open rows only: no reversal is ever queued,
  although `README.md:104` of the repository draws the edge.
* A sweep that ends in an error forgets the rows it had claimed and not reached
  (`Detector`, `MaxAborts` = 1: `OrphanIsNotified` fails; `VerdictIsDelivered` therefore
  excepts aborted sweeps).
* Silence: when the baseline has expired the episode closes without traffic
  (`postgres_health.go:114-115`); an error of `SyncSilenceEpisodes` aborts the sweep,
  while the comment says "logged, never fatal" (`detector.go:412`, 421-424); the
  all-clear may be queued before the alert; a stale list opens an episode for a tenant
  that has resumed; an alert is lost if the process dies after the commit.

*Dispatcher.*

* A delivery is visible before the sweep marks the transaction.  A permanent failure in
  that gap finds the row `orphaned`, the refused flag is swallowed, and the sweep then
  marks it `reversal_pending`.
* Replaying a dead letter requeues the delivery and leaves the transaction
  `reversal_failed`, although the state machine has the edge for it.
* A dead letter of one endpoint marks the reversal failed although another has confirmed.
* Deleting the only endpoint leaves a `reversal_pending` transaction with no delivery.
* Due rows of a disabled endpoint count against the `LIMIT` of the claim, so enough of
  them stop everything behind them (`Limit` = 1, one suspendable delivery).

*Claims.*  The status that allows a claim is read before the claim is inserted, so one
may be granted for a reversal that has just failed or completed; `PaidOnce` holds all
the same.

*Audit.*

* `handleAuditVerify` reads the records before the checkpoint: an append and a signature
  in between make an untouched chain look rewritten (`AnswersAreRight` therefore speaks
  of `reconsyncctl` only where it says "broken").
* `handleAuditVerify` verifies with `latest.PublicKey`, the key in the row it checks
  (`handlers.go:483`).  A chain that was rebuilt, with its checkpoint signed anew and the new
  key stored beside it, is answered `verified`, although the comment calls the checkpoint
  "the part they cannot forge" (`handlers.go:470-473`); the answer is right only for
  rows with the published key.  `reconsyncctl` does the same without `--public-key` and
  warns of it (`checkpoints.go:104-113`).
* The checkpointers sign what they read: a chain rebuilt *and* lengthened is signed with
  the service's own key in the next round (`late` in `Audit`, which `AnswersAreRight`
  excepts).
* `amount_minor` comes back as a float64, so an untouched chain with an amount above 2^53
  that a float64 does not hold no longer verifies, is answered as broken and is no longer signed
  (`postgres_audit.go:148`).  `ChainIsHistory` says that exactly these amounts do it.
* Verification compares with the latest checkpoint only.

*Accounts.*

* Two admins who demote each other at the same time leave none: `AdminStays` excepts
  callers who have lost the role since the check.
* `BeginTOTP` racing `Confirm` enables a secret nobody has shown a code of; restarting an
  enrolment turns the second factor off; two concurrent `CreateReset` leave two live
  links; a sign-in in flight survives a password change (`OverlapAside` excepts all
  three overlaps); sessions revive when a user is enabled again after a failed purge.

*In memory.*

* A revoked key is accepted for the TTL *and* the verification under way.  `Invalidate`,
  of keys and of rules, has no caller, and `RevokeAPIKey` none outside tests.
* Rules are stale without bound while loads fail; an older load may overwrite a newer
  one; a rule's `Action` is never consulted (`rules.go:14`).
* A malformed settlement file ends the reload of the others, although the comment says it
  "must not blind the adapter to the others" (`settlement.go:192`).  `absent` never looks
  at the transaction's time.  The first file in path order wins even if a later one says
  settled.  A slow reload may publish an older listing.
* Above 1024 buckets an idle one is dropped after 10 minutes and comes back full.  The drill
  limiter has a burst of 2 and 6 per hour (`server.go:224`, `README.md:1684`), so it fills in
  20 minutes and eviction grants up to 12 per hour; the report limiter fills within a
  minute and grants its rate.  `BudgetHolds` bounds both.

## What is not modelled, and why

* Pure I/O and formatting: PDF and CSV layout, HTTP decoding, TLS, configuration,
  metrics, logging, the QR encoder, the fire drill, licence files, the dashboard, the
  migration runner.  They keep no state that another part reads.
* Reports: read-only aggregation.
* Cryptography: HMAC signatures, password and key hashing, the hash of the audit chain.
  `Audit` and `Accounts` take them to be injective; whose key made a signature is modelled.
* Validation of single events and the card-data screen: they reject an event before
  anything is stored.  `Ingest` knows malformed events as a set.
* Real time, where only the order matters.  Windows, leases and backoffs are steps that
  may happen at any moment their precondition allows; `Silence` counts minutes and the
  local caches count ticks because their rules compare times.
* Several tenants in one model, except in `Ingest` (a batch mixes tenants) and `Limits`:
  statements are keyed by tenant.
* The Node and Python libraries: `Reporter` translates the Go one only.

## Plan

Done: state machine, store, engine, sweep, queue with endpoint deletion, claim interlock,
ingest from client to store with its shutdown, silence, audit chain, accounts, key cache,
rules, settlement files, limits; a theorem for every safety property the passing runs check, and
the refinements of `TxnLifecycle` (by engine, sweep and, for its steps, dispatcher) and
`Custody`.

Left, in this order:

1. `Correlate`: what `MoneyNotForgotten` keeps when a transaction has several credits:
   which of them the single row of `pending_credits` can lose.
2. `Ingest`: that what a shutdown leaves behind is exactly the queue and the last flush, as
   a bound on what `SentIsKept` does not promise.
3. `Detector`, `Silence`: the sweep that is passed over, as a bound on ticks instead of a
   liveness property, which would be within the reach of a proof.
4. The classification of breaches in `internal/report`, as operators.
