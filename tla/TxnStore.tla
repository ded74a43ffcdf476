------------------------------ MODULE TxnStore ------------------------------
(***************************************************************************)
(* The transaction tables of internal/store: transactions, pending_credits *)
(* and credit_applications, with one operator per statement that reads or  *)
(* writes them.  One SQL statement (or one SQL transaction) is one atomic  *)
(* step; a store method that issues two of them is two steps, and the      *)
(* modules that use this one keep them apart.                              *)
(*                                                                         *)
(* Events are model values described by constant functions, so that a      *)
(* retry of an event is the same value sent again.  Amounts are small      *)
(* naturals in minor units.                                                *)
(***************************************************************************)
EXTENDS TxnRows, Naturals

CONSTANTS
  Credit,       \* credit events
  CreditKeys,   \* idempotency keys of credit events
  DebitKeys,    \* idempotency keys of debit events
  NoCredit,     \* no credit event
  DebitKey,     \* [Txn -> DebitKeys]: the key the debit of t carries
  Expected,     \* [Txn -> Nat]: ExpectedCredit of t
  CreditTxn,    \* [Credit -> Txn]
  CreditKey,    \* [Credit -> CreditKeys]
  Verdict,      \* [Credit -> CreditStatuses]
  Amount,       \* [Credit -> Nat]: 0 when the client did not state it
  Foreign       \* [Credit -> BOOLEAN]: states another currency than the debit's

ASSUME StoreAssumption ==
  /\ NoCredit \notin Credit
  /\ DebitKey \in [Txn -> DebitKeys]
  /\ Expected \in [Txn -> Nat \ {0}]
  /\ CreditTxn \in [Credit -> Txn]
  /\ CreditKey \in [Credit -> CreditKeys]
  /\ Verdict \in [Credit -> CreditStatuses]
  /\ Amount \in [Credit -> Nat]
  /\ Foreign \in [Credit -> BOOLEAN]

VARIABLES
  credited,     \* transactions.credited_minor
  parked,       \* pending_credits: at most one row per transaction
  ledger        \* credit_applications: the credit counted under each key

storeVars == <<status, credited, parked, ledger>>

StoreTypeOK ==
  /\ status \in [Txn -> Statuses \cup {Absent}]
  /\ credited \in [Txn -> Nat]
  /\ parked \in [Txn -> Credit \cup {NoCredit}]
  /\ ledger \in [CreditKeys -> Credit \cup {NoCredit}]

StoreInit ==
  /\ status = [t \in Txn |-> Absent]
  /\ credited = [t \in Txn |-> 0]
  /\ parked = [t \in Txn |-> NoCredit]
  /\ ledger = [k \in CreditKeys |-> NoCredit]

-----------------------------------------------------------------------------
(* transactions *)

\* A debit of D is fresh when neither its id nor its key has a row.
Fresh(D) == {t \in D : /\ ~Stored(t)
                       /\ \A u \in Txn : Stored(u) => DebitKey[u] # DebitKey[t]}

\* Ids and keys are unique, so of the fresh debits of a batch one per key is
\* inserted (the first in the batch; the model leaves open which) and the
\* others are reported as duplicates.
Insertable(D) ==
  {I \in SUBSET Fresh(D) :
     /\ \A t, u \in I : DebitKey[t] = DebitKey[u] => t = u
     /\ \A t \in Fresh(D) : \E u \in I : DebitKey[u] = DebitKey[t]}

UpsertDebits(I) == InsertRows(I) /\ UNCHANGED <<credited, parked, ledger>>

\* ApplyCredit and the Mark... methods, on a row their guard accepts.
UpdateStatus(t, target) == UpdateRow(t, target) /\ UNCHANGED <<credited, parked, ledger>>

ClaimExpired(T, gapped) == ClaimRows(T, gapped) /\ UNCHANGED <<credited, parked, ledger>>

-----------------------------------------------------------------------------
(* credit_applications: a credit that states its amount *)

Counted(c) == ledger[CreditKey[c]] # NoCredit

\* Mutant: a credit is applied again although its key has been counted.
PartialMatchesAgain(c) == IsOpen(status[CreditTxn[c]])

PartialMatches(c) == ~Counted(c) /\ IsOpen(status[CreditTxn[c]])

\* Mutant: the total is only compared for overpayment.
SettledStatusNever(s, total, expected, foreign) ==
  IF foreign \/ total > expected THEN "suspect" ELSE s

\* What the CASE of the UPDATE makes of the running total.
SettledStatus(s, total, expected, foreign) ==
  IF foreign \/ total > expected THEN "suspect"
  ELSE IF total = expected THEN "completed"
  ELSE s

\* Claim the key, add the amount and decide, in one SQL transaction.
ApplyPartialCredit(c, foreign) ==
  LET t     == CreditTxn[c]
      total == credited[t] + Amount[c]
  IN  /\ PartialMatches(c)
      /\ ledger' = [ledger EXCEPT ![CreditKey[c]] = c]
      /\ credited' = [credited EXCEPT ![t] = IF foreign THEN @ ELSE total]
      /\ status' = [status EXCEPT ![t] = SettledStatus(@, total, Expected[t], foreign)]
      /\ UNCHANGED parked

-----------------------------------------------------------------------------
(* pending_credits: credits that arrived before their debit *)

\* ON CONFLICT (tenant, transaction) DO NOTHING: the first one parked stays.
ParkCredit(c) ==
  /\ parked' = [parked EXCEPT ![CreditTxn[c]] = IF @ = NoCredit THEN c ELSE @]
  /\ UNCHANGED <<status, credited, ledger>>

PeekParkedCredits(T) == {parked[t] : t \in T} \ {NoCredit}

DeleteParkedCredit(t) ==
  /\ parked' = [parked EXCEPT ![t] = NoCredit]
  /\ UNCHANGED <<status, credited, ledger>>
=============================================================================
