----------------------------- MODULE Correlate -----------------------------
(***************************************************************************)
(* The correlation engine (internal/correlate) as the pipeline runs it:    *)
(* several workers apply batches of one tenant's events to a shared store. *)
(* Every store call is a step of its own, and so is the read a guarded     *)
(* UPDATE falls back on when it matches no row: between two steps of one   *)
(* worker the other workers, the detection sweep and the dispatcher run.   *)
(*                                                                         *)
(* Per-event rejections change no state and are left out: the events here  *)
(* are the ones Validate and the card-data screen let through.             *)
(***************************************************************************)
EXTENDS TxnStore, FiniteSets, Functions

CONSTANTS
  Worker,              \* pipeline workers
  MaxSends,            \* how often a client may send the same event
  BatchSize,           \* events in a batch
  TransitionAttempts   \* transitionAttempts of the store

ASSUME CorrelateAssumption ==
  /\ MaxSends \in Nat
  /\ BatchSize \in Nat
  /\ TransitionAttempts \in Nat \ {0}

VARIABLES
  pc,          \* [Worker -> PCs]: where the worker is in Apply
  debits,      \* debits of the batch in hand, not stored yet
  credits,     \* credits of the batch in hand, not handled yet
  draining,    \* transactions whose parked credits are about to be read
  peeked,      \* parked credits read and not handled yet
  cur,         \* the credit tryApply is working on
  curParked,   \* ... which was read back from pending_credits
  attempt,     \* applyTransition's loop counter
  sentDebit,   \* [Txn -> Nat]: times the debit was delivered
  sentCredit,  \* [Credit -> Nat]: times the credit was delivered
  batchFailed  \* some batch ended in an error or with its process

workVars == <<pc, debits, credits, draining, peeked, cur, curParked, attempt>>
sentVars == <<sentDebit, sentCredit>>
vars == <<storeVars, workVars, sentVars, batchFailed>>

PCs == {"idle", "upsert", "peek", "drain", "next", "update", "get", "park", "delete"}

TypeOK ==
  /\ StoreTypeOK
  /\ pc \in [Worker -> PCs]
  /\ debits \in [Worker -> SUBSET Txn]
  /\ credits \in [Worker -> SUBSET Credit]
  /\ draining \in [Worker -> SUBSET Txn]
  /\ peeked \in [Worker -> SUBSET Credit]
  /\ cur \in [Worker -> Credit \cup {NoCredit}]
  /\ \A w \in Worker : pc[w] \in {"update", "get", "park", "delete"} => cur[w] \in Credit
  /\ curParked \in [Worker -> BOOLEAN]
  /\ attempt \in [Worker -> 0..TransitionAttempts]
  /\ sentDebit \in [Txn -> 0..MaxSends]
  /\ sentCredit \in [Credit -> 0..MaxSends]
  /\ batchFailed \in BOOLEAN

Init ==
  /\ StoreInit
  /\ pc = [w \in Worker |-> "idle"]
  /\ debits = [w \in Worker |-> {}]
  /\ credits = [w \in Worker |-> {}]
  /\ draining = [w \in Worker |-> {}]
  /\ peeked = [w \in Worker |-> {}]
  /\ cur = [w \in Worker |-> NoCredit]
  /\ curParked = [w \in Worker |-> FALSE]
  /\ attempt = [w \in Worker |-> 0]
  /\ sentDebit = [t \in Txn |-> 0]
  /\ sentCredit = [c \in Credit |-> 0]
  /\ batchFailed = FALSE

Goto(w, label) == pc' = [pc EXCEPT ![w] = label]

-----------------------------------------------------------------------------
(* Apply *)

\* The pipeline hands the worker a batch.  Clients retry: the same event may
\* arrive again, in this batch's worker or in another.
TakeBatch(w, D, C) ==
  /\ pc[w] = "idle"
  /\ D # {} \/ C # {}
  /\ \A t \in D : sentDebit[t] < MaxSends
  /\ \A c \in C : sentCredit[c] < MaxSends
  /\ sentDebit' = [t \in Txn |-> sentDebit[t] + (IF t \in D THEN 1 ELSE 0)]
  /\ sentCredit' = [c \in Credit |-> sentCredit[c] + (IF c \in C THEN 1 ELSE 0)]
  /\ debits' = [debits EXCEPT ![w] = D]
  /\ credits' = [credits EXCEPT ![w] = C]
  /\ Goto(w, "upsert")
  /\ UNCHANGED <<storeVars, draining, peeked, cur, curParked, attempt, batchFailed>>

\* Debits first, in one statement; only the newly stored ones are drained.
StoreDebits(w) ==
  /\ pc[w] = "upsert"
  /\ \E I \in Insertable(debits[w]) :
       /\ UpsertDebits(I)
       /\ draining' = [draining EXCEPT ![w] = I]
       /\ Goto(w, IF I = {} THEN "next" ELSE "peek")
  /\ debits' = [debits EXCEPT ![w] = {}]
  /\ UNCHANGED <<credits, peeked, cur, curParked, attempt, sentVars, batchFailed>>

\* drainParked reads without removing.
Peek(w) ==
  /\ pc[w] = "peek"
  /\ peeked' = [peeked EXCEPT ![w] = PeekParkedCredits(draining[w])]
  /\ draining' = [draining EXCEPT ![w] = {}]
  /\ Goto(w, "drain")
  /\ UNCHANGED <<storeVars, debits, credits, cur, curParked, attempt, sentVars, batchFailed>>

\* The loop of drainParked takes the next parked credit ...
DrainNext(w) ==
  /\ pc[w] = "drain"
  /\ \E c \in peeked[w] :
       /\ peeked' = [peeked EXCEPT ![w] = @ \ {c}]
       /\ cur' = [cur EXCEPT ![w] = c]
  /\ curParked' = [curParked EXCEPT ![w] = TRUE]
  /\ attempt' = [attempt EXCEPT ![w] = 0]
  /\ Goto(w, "update")
  /\ UNCHANGED <<storeVars, debits, credits, draining, sentVars, batchFailed>>

\* ... or ends, and Apply goes on with the batch's own credits.
DrainDone(w) ==
  /\ pc[w] = "drain"
  /\ peeked[w] = {}
  /\ cur' = [cur EXCEPT ![w] = NoCredit]
  /\ curParked' = [curParked EXCEPT ![w] = FALSE]
  /\ Goto(w, "next")
  /\ UNCHANGED <<storeVars, debits, credits, draining, peeked, attempt, sentVars, batchFailed>>

NextCredit(w) ==
  /\ pc[w] = "next"
  /\ \E c \in credits[w] :
       /\ credits' = [credits EXCEPT ![w] = @ \ {c}]
       /\ cur' = [cur EXCEPT ![w] = c]
  /\ curParked' = [curParked EXCEPT ![w] = FALSE]
  /\ attempt' = [attempt EXCEPT ![w] = 0]
  /\ Goto(w, "update")
  /\ UNCHANGED <<storeVars, debits, draining, peeked, sentVars, batchFailed>>

BatchDone(w) ==
  /\ pc[w] = "next"
  /\ credits[w] = {}
  /\ cur' = [cur EXCEPT ![w] = NoCredit]
  /\ attempt' = [attempt EXCEPT ![w] = 0]
  /\ Goto(w, "idle")
  /\ UNCHANGED <<storeVars, debits, credits, draining, peeked, curParked, sentVars, batchFailed>>

-----------------------------------------------------------------------------
(* tryApply *)

\* Only a success that states its amount takes the accumulating path.
IsPartial(c) == Amount[c] > 0 /\ TargetStatus(Verdict[c]) = "completed"

\* pending_credits has no currency column: a credit read back from it states
\* none, whatever the event said.
StatesForeign(w) == Foreign[cur[w]] /\ ~curParked[w]

\* What the caller of tryApply does next: applyCredit parks a credit that
\* found no debit, drainParked leaves such a credit parked and deletes one
\* that was applied or refused.
AfterTry(w, found) ==
  CASE curParked[w] /\ found   -> "delete"
    [] curParked[w] /\ ~found  -> "drain"
    [] ~curParked[w] /\ found  -> "next"
    [] OTHER                   -> "park"

\* The guarded write matches a row.
WriteCredit(w) ==
  /\ pc[w] = "update"
  /\ IF IsPartial(cur[w])
       THEN ApplyPartialCredit(cur[w], StatesForeign(w))
       ELSE UpdateStatus(CreditTxn[cur[w]], TargetStatus(Verdict[cur[w]]))
  /\ Goto(w, AfterTry(w, TRUE))
  /\ UNCHANGED <<debits, credits, draining, peeked, cur, curParked, attempt, sentVars, batchFailed>>

\* It matches none: the row is absent, its status refuses, or the key has
\* been counted before.  Which of them, a second statement has to find out.
WriteMisses(w) ==
  /\ pc[w] = "update"
  /\ IF IsPartial(cur[w])
       THEN ~PartialMatches(cur[w])
       ELSE ~UpdateMatches(CreditTxn[cur[w]], TargetStatus(Verdict[cur[w]]))
  /\ Goto(w, "get")
  /\ UNCHANGED <<storeVars, debits, credits, draining, peeked, cur, curParked, attempt,
                 sentVars, batchFailed>>

\* ApplyPartialCredit's classification: any row that is there now means the
\* credit is resolved, as a replay or as a refused transition.
ClassifyPartial(w) ==
  /\ IsPartial(cur[w])
  /\ Goto(w, AfterTry(w, Stored(CreditTxn[cur[w]])))
  /\ UNCHANGED attempt

\* applyTransition's classification: a row the target is reachable from was
\* written in between, so the UPDATE is tried again.
RetryWrite(w) ==
  /\ CanTransition(status[CreditTxn[cur[w]]], TargetStatus(Verdict[cur[w]]))
  /\ attempt[w] + 1 < TransitionAttempts
  /\ attempt' = [attempt EXCEPT ![w] = @ + 1]
  /\ Goto(w, "update")

\* Mutant: a debit that lands between UPDATE and read counts as a refusal.
ClassifyTransitionOnce(w) ==
  /\ ~IsPartial(cur[w])
  /\ Goto(w, AfterTry(w, Stored(CreditTxn[cur[w]])))
  /\ UNCHANGED attempt

ClassifyTransition(w) ==
  /\ ~IsPartial(cur[w])
  /\ \/ RetryWrite(w)
     \/ /\ ~CanTransition(status[CreditTxn[cur[w]]], TargetStatus(Verdict[cur[w]]))
        /\ Goto(w, AfterTry(w, Stored(CreditTxn[cur[w]])))
        /\ UNCHANGED attempt

Classify(w) ==
  /\ pc[w] = "get"
  /\ ClassifyPartial(w) \/ ClassifyTransition(w)
  /\ UNCHANGED <<storeVars, debits, credits, draining, peeked, cur, curParked, sentVars,
                 batchFailed>>

-----------------------------------------------------------------------------
(* applyCredit parks, then drains its own park; drainParked deletes *)

\* Mutant: the credit is parked and left for the debit to find.
ParkOnly(w) ==
  /\ pc[w] = "park"
  /\ ParkCredit(cur[w])
  /\ Goto(w, "next")
  /\ UNCHANGED <<debits, credits, draining, peeked, cur, curParked, attempt, sentVars, batchFailed>>

Park(w) ==
  /\ pc[w] = "park"
  /\ ParkCredit(cur[w])
  /\ draining' = [draining EXCEPT ![w] = {CreditTxn[cur[w]]}]
  /\ Goto(w, "peek")
  /\ UNCHANGED <<debits, credits, peeked, cur, curParked, attempt, sentVars, batchFailed>>

Delete(w) ==
  /\ pc[w] = "delete"
  /\ DeleteParkedCredit(CreditTxn[cur[w]])
  /\ Goto(w, "drain")
  /\ UNCHANGED <<debits, credits, draining, peeked, cur, curParked, attempt, sentVars, batchFailed>>

\* Apply returns an error: the rest of the batch is gone.  The pipeline counts
\* the failure and goes on with the next batch.
Abandon(w) ==
  /\ Goto(w, "idle")
  /\ debits' = [debits EXCEPT ![w] = {}]
  /\ credits' = [credits EXCEPT ![w] = {}]
  /\ draining' = [draining EXCEPT ![w] = {}]
  /\ peeked' = [peeked EXCEPT ![w] = {}]
  /\ cur' = [cur EXCEPT ![w] = NoCredit]
  /\ curParked' = [curParked EXCEPT ![w] = FALSE]
  /\ batchFailed' = TRUE
  /\ attempt' = [attempt EXCEPT ![w] = 0]
  /\ UNCHANGED <<storeVars, sentVars>>

\* applyTransition lost the race TransitionAttempts times.
GiveUp(w) ==
  /\ pc[w] = "get"
  /\ ~IsPartial(cur[w])
  /\ CanTransition(status[CreditTxn[cur[w]]], TargetStatus(Verdict[cur[w]]))
  /\ attempt[w] + 1 >= TransitionAttempts
  /\ Abandon(w)

\* A store call fails (the rules and the salt are loaded by two of them), or
\* the process dies.
FailBatch(w) ==
  /\ pc[w] # "idle"
  /\ Abandon(w)

-----------------------------------------------------------------------------
(* The writers of transactions.status outside the engine *)

\* The sweep claims t, with or without a recorded ingest gap.
SweepClaims(t, gap) ==
  /\ ClaimExpired({t}, IF gap THEN {t} ELSE {})
  /\ UNCHANGED <<workVars, sentVars, batchFailed>>

\* The sweep, the dispatcher and the reversal API move a row along one edge.
MarkTargets == {"completed", "suspect", "reversal_pending", "reversal_completed",
                "reversal_failed"}

Mark(t, target) ==
  /\ NeedsReversal(status[t])
  /\ UpdateStatus(t, target)
  /\ UNCHANGED <<workVars, sentVars, batchFailed>>

-----------------------------------------------------------------------------

Step(w) ==
  \/ StoreDebits(w) \/ Peek(w) \/ DrainNext(w) \/ DrainDone(w)
  \/ NextCredit(w) \/ BatchDone(w)
  \/ WriteCredit(w) \/ WriteMisses(w) \/ Classify(w)
  \/ GiveUp(w) \/ Park(w) \/ Delete(w)

Take(w) ==
  \E D \in SUBSET Txn, C \in SUBSET Credit :
    Cardinality(D) + Cardinality(C) <= BatchSize /\ TakeBatch(w, D, C)

Outside ==
  \E t \in Txn :
    \/ \E gap \in BOOLEAN : SweepClaims(t, gap)
    \/ \E target \in MarkTargets : Mark(t, target)

Next ==
  \/ \E w \in Worker : Take(w) \/ Step(w) \/ FailBatch(w)
  \/ Outside

Spec == Init /\ [][Next]_vars

\* A worker that holds a batch goes on with it: goroutines are scheduled and
\* store calls return.  No fairness for clients, failures or other writers.
FairSpec == Spec /\ \A w \in Worker : WF_vars(Step(w))

-----------------------------------------------------------------------------
(* Properties *)

\* A transaction is never left open with the whole expected amount arrived:
\* the sweep would reverse it (the comment on ApplyPartialCredit).
OpenIsShort == \A t \in Txn : IsOpen(status[t]) => credited[t] < Expected[t]

\* What credit_applications holds for t.
KeysOf(t) == {k \in CreditKeys : ledger[k] # NoCredit /\ CreditTxn[ledger[k]] = t}
LedgerSum(t) == SumFunctionOnSet([k \in KeysOf(t) |-> Amount[ledger[k]]], KeysOf(t))

\* credited_minor of an open transaction is the sum of the amounts that
\* credit_applications holds for it; no transaction's exceeds it.
TotalIsLedger ==
  \A t \in Txn : /\ IsOpen(status[t]) => credited[t] = LedgerSum(t)
                 /\ credited[t] <= LedgerSum(t)

\* The inductive strengthening of TotalIsLedger: a transaction without a row has
\* no total and no claimed key, and finitely many keys are claimed.
LedgerInv ==
  /\ TypeOK
  /\ IsFiniteSet({k \in CreditKeys : ledger[k] # NoCredit})
  /\ \A t \in Txn : ~Stored(t) => credited[t] = LedgerSum(t)
  /\ TotalIsLedger

\* Whatever is retried, parked and drained again, or applied by two workers at
\* once: credited_minor moves only in the step that claims a fresh idempotency
\* key, by that credit's amount, and a claimed key is never released.
CountsOnce ==
  [][/\ \A k \in CreditKeys : ledger[k] # NoCredit => ledger'[k] = ledger[k]
     /\ \A t \in Txn : credited'[t] # credited[t] =>
          \E c \in Credit :
            /\ CreditTxn[c] = t
            /\ ledger[CreditKey[c]] = NoCredit
            /\ ledger' = [ledger EXCEPT ![CreditKey[c]] = c]
            /\ credited'[t] = credited[t] + Amount[c]]_vars

\* Worker w is going to read, or has read and not yet resolved, the parked
\* credit of t.
Responsible(w, t) ==
  \/ pc[w] = "peek" /\ t \in draining[w]
  \/ pc[w] \in {"drain", "update", "get", "delete"} /\ \E c \in peeked[w] : CreditTxn[c] = t
  \/ pc[w] \in {"update", "get", "delete"} /\ curParked[w] /\ CreditTxn[cur[w]] = t

\* The handshake between parking and draining: a parked credit sits beside its
\* stored debit only while some worker is about to drain it, so "it cannot be
\* lost by either side" (applyCredit) - unless a batch fails half way.
NoStrandedPark ==
  ~batchFailed => \A t \in Txn : parked[t] # NoCredit /\ Stored(t) =>
                    \E w \in Worker : Responsible(w, t)

\* The inductive strengthening of NoStrandedPark: what a worker holds of the
\* parked credits, by where it is in Apply.
ParkedIsOwn == \A t \in Txn : parked[t] # NoCredit => CreditTxn[parked[t]] = t

HoldsNothing(w) ==
  \/ pc[w] \in {"idle", "upsert", "peek", "next", "park"}
  \/ pc[w] \in {"update", "get"} /\ ~curParked[w]

WorkerInv(w) ==
  /\ HoldsNothing(w) => peeked[w] = {}
  /\ pc[w] = "delete" => curParked[w]

DrainInv ==
  /\ TypeOK
  /\ ParkedIsOwn
  /\ \A w \in Worker : WorkerInv(w)
  /\ NoStrandedPark

\* The inductive strengthening of OpenIsShort.
ShortInv ==
  /\ TypeOK
  /\ \A t \in Txn : ~Stored(t) => credited[t] = 0
  /\ OpenIsShort

\* A transaction has one credit, which states no amount: nothing else can be
\* parked in its place, and it does not settle a part.
Solitary(c) == Amount[c] = 0 /\ \A d \in Credit : CreditTxn[d] = CreditTxn[c] => d = c

\* Once every worker is through, a success that was delivered has closed its
\* transaction, however the debit and the credit crossed.
Quiet == \A w \in Worker : pc[w] = "idle"

MoneyNotForgotten ==
  Quiet /\ ~batchFailed =>
    \A c \in Credit :
      Solitary(c) /\ sentCredit[c] > 0 /\ Verdict[c] = "success"
        => ~IsOpen(status[CreditTxn[c]])

\* The inductive strengthening of MoneyNotForgotten for such credits: a success
\* that was delivered has resolved its transaction, is parked, or is in a
\* worker's hands.
Resolved(t) == Stored(t) /\ ~IsOpen(status[t])

Carries(w, c) ==
  \/ c \in credits[w]
  \/ pc[w] \in {"update", "get", "park"} /\ ~curParked[w] /\ cur[w] = c

Accounted(c) ==
  \/ Resolved(CreditTxn[c])
  \/ parked[CreditTxn[c]] = c
  \/ \E w \in Worker : Carries(w, c)

KeptInv ==
  /\ DrainInv
  /\ \A w \in Worker : pc[w] = "idle" => credits[w] = {}
  /\ \A c \in Credit : Verdict[c] = "success" /\ Solitary(c) =>
       /\ \A w \in Worker : pc[w] = "delete" /\ cur[w] = c => Resolved(CreditTxn[c])
       /\ sentCredit[c] > 0 /\ ~batchFailed => Accounted(c)

\* A parked credit whose debit is stored is drained.
ParkedIsDrained ==
  \A t \in Txn : (parked[t] # NoCredit /\ Stored(t)) ~> (parked[t] = NoCredit \/ batchFailed)

\* Every writer of the status column keeps to the state machine, the
\* hand-written CASE expressions of the two UPDATEs that do not use SourcesFor
\* included.
Lifecycle == INSTANCE TxnLifecycle
LifecycleSpec == Lifecycle!Spec
=============================================================================
