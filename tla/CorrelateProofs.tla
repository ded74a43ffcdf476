-------------------------- MODULE CorrelateProofs --------------------------
(***************************************************************************)
(* The correlation engine, for every number of workers, transactions,      *)
(* credits, retries and batch sizes: its type invariant, the arithmetic of *)
(* partial settlement, the park/drain handshake, and that it implements    *)
(* TxnLifecycle.                                                           *)
(***************************************************************************)
EXTENDS Correlate, DataLemmas

-----------------------------------------------------------------------------
(* The state machine *)

\* Edges join statuses.
LEMMA EdgeTypes ==
  ASSUME NEW from, NEW to, CanTransition(from, to)
  PROVE  from \in Statuses /\ to \in Statuses
BY DEF CanTransition, allowedTransitions, Statuses

\* The edges the hand-written CASE expressions rely on.
LEMMA OpenEdges ==
  ASSUME NEW s, IsOpen(s)
  PROVE  s \in Statuses /\ CanTransition(s, "completed") /\ CanTransition(s, "suspect")
BY DEF IsOpen, CanTransition, allowedTransitions, Statuses

\* The edge the claim statement takes for a debit nobody reported on.
LEMMA DebitEdge == CanTransition("pending_debit", "orphaned")
BY DEF CanTransition, allowedTransitions, Statuses

\* An open status is only ever reached from an open status.
LEMMA OpenSources ==
  ASSUME NEW from, NEW to, CanTransition(from, to), IsOpen(to)
  PROVE  IsOpen(from)
BY DEF IsOpen, CanTransition, allowedTransitions, Statuses

\* An id without a row has no status, and so is not open.
LEMMA AbsentFacts == Absent \notin Statuses /\ ~IsOpen(Absent)
BY DEF Absent, Statuses, IsOpen

-----------------------------------------------------------------------------
(* The statements of the store *)

StatusType == status \in [Txn -> Statuses \cup {Absent}]

\* What every statement does to the status column: a row stays, appears as
\* pending_debit, or moves along an edge.
Lawful ==
  /\ status' \in [Txn -> Statuses \cup {Absent}]
  /\ \A t \in Txn : \/ status'[t] = status[t]
                    \/ status[t] = Absent /\ status'[t] = "pending_debit"
                    \/ CanTransition(status[t], status'[t])

\* UpsertDebits only makes new rows appear, as pending_debit.
LEMMA InsertIsLawful ==
  ASSUME StatusType, NEW I \in SUBSET Txn, \A t \in I : ~Stored(t), InsertRows(I)
  PROVE  Lawful
BY DEF StatusType, Lawful, InsertRows, Stored, Statuses

\* The UPDATE guarded by SourcesFor (applyTransition) takes an edge.
LEMMA UpdateIsLawful ==
  ASSUME StatusType, NEW t \in Txn, NEW target, UpdateRow(t, target)
  PROVE  Lawful
<1>1. CanTransition(status[t], target)
  BY DEF UpdateRow, UpdateMatches, SourcesFor
<1>2. target \in Statuses
  BY <1>1, EdgeTypes
<1> QED BY <1>1, <1>2 DEF StatusType, Lawful, UpdateRow

\* The CASE of ClaimExpired takes an edge from every open status.
LEMMA ClaimIsLawful ==
  ASSUME StatusType, NEW T \in SUBSET Txn, NEW gapped, ClaimRows(T, gapped)
  PROVE  Lawful
<1>1. ASSUME NEW t \in T
      PROVE  /\ status'[t] \in Statuses
             /\ CanTransition(status[t], status'[t])
  <2>1. IsOpen(status[t]) /\ status'[t] = ExpiredStatus(status[t], t \in gapped)
    BY DEF ClaimRows
  <2>2. status'[t] = "suspect" \/ (status[t] = "pending_debit" /\ status'[t] = "orphaned")
    BY <2>1 DEF ExpiredStatus
  <2> QED BY <2>1, <2>2, OpenEdges, DebitEdge DEF Statuses
<1>2. ASSUME NEW t \in Txn \ T PROVE status'[t] = status[t]
  BY DEF ClaimRows
<1>3. DOMAIN status' = Txn /\ status' = [t \in Txn |-> status'[t]]
  BY DEF ClaimRows
<1> QED BY <1>1, <1>2, <1>3 DEF StatusType, Lawful

\* The CASE of ApplyPartialCredit stays, or takes an edge from an open status.
LEMMA PartialIsLawful ==
  ASSUME StatusType, NEW c \in Credit, NEW foreign, ApplyPartialCredit(c, foreign)
  PROVE  Lawful
<1> DEFINE t == CreditTxn[c]
           new == SettledStatus(status[t], credited[t] + Amount[c], Expected[t], foreign)
<1>1. t \in Txn /\ IsOpen(status[t])
  BY StoreAssumption DEF ApplyPartialCredit, PartialMatches
<1>2. new = status[t] \/ (new \in Statuses /\ CanTransition(status[t], new))
  BY <1>1, OpenEdges DEF SettledStatus, Statuses
<1>3. status' = [status EXCEPT ![t] = new]
  BY DEF ApplyPartialCredit
<1> QED BY <1>1, <1>2, <1>3 DEF StatusType, Lawful

-----------------------------------------------------------------------------
(* Type correctness, and the state machine *)

\* Every step of every process is lawful on the status column.
LEMMA StepIsLawful ==
  ASSUME TypeOK, Next
  PROVE  Lawful
<1> USE DEF TypeOK, StoreTypeOK, StatusType
<1>1. ASSUME UNCHANGED status PROVE Lawful
  BY <1>1 DEF Lawful
<1>2. ASSUME NEW w \in Worker, StoreDebits(w) PROVE Lawful
  <2>1. PICK I \in Insertable(debits[w]) : UpsertDebits(I)
    BY <1>2 DEF StoreDebits
  <2>2. I \in SUBSET Txn /\ \A t \in I : ~Stored(t)
    BY <2>1 DEF Insertable, Fresh
  <2> QED BY <2>1, <2>2, InsertIsLawful DEF UpsertDebits
<1>3. ASSUME NEW w \in Worker, WriteCredit(w) PROVE Lawful
  <2>1. cur[w] \in Credit /\ CreditTxn[cur[w]] \in Txn
    BY <1>3, StoreAssumption DEF WriteCredit
  <2> QED BY <1>3, <2>1, UpdateIsLawful, PartialIsLawful DEF WriteCredit, UpdateStatus
<1>4. ASSUME NEW t \in Txn, NEW gap \in BOOLEAN, SweepClaims(t, gap) PROVE Lawful
  BY <1>4, ClaimIsLawful DEF SweepClaims, ClaimExpired
<1>5. ASSUME NEW t \in Txn, NEW target, Mark(t, target) PROVE Lawful
  BY <1>5, UpdateIsLawful DEF Mark, UpdateStatus
<1>6. ASSUME NEW w \in Worker, Take(w) PROVE UNCHANGED status
  BY <1>6 DEF Take, TakeBatch, storeVars
<1>7. ASSUME NEW w \in Worker, Step(w), ~StoreDebits(w), ~WriteCredit(w)
      PROVE  UNCHANGED status
  BY <1>7 DEF Step, Peek, DrainNext, DrainDone, NextCredit, BatchDone, WriteMisses, Classify,
              GiveUp, Abandon, Park, ParkCredit, Delete, DeleteParkedCredit, storeVars
<1>8. ASSUME NEW w \in Worker, FailBatch(w) PROVE UNCHANGED status
  BY <1>8 DEF FailBatch, Abandon, storeVars
<1>9. ASSUME NEW w \in Worker, Take(w) \/ Step(w) \/ FailBatch(w) PROVE Lawful
  BY <1>1, <1>2, <1>3, <1>6, <1>7, <1>8, <1>9
<1>10. ASSUME Outside PROVE Lawful
  BY <1>4, <1>5, <1>10 DEF Outside
<1> QED BY <1>9, <1>10 DEF Next

\* The empty store and idle workers have their types.
LEMMA TypeOKInit == Init => TypeOK
<1> SUFFICES ASSUME Init PROVE TypeOK
  OBVIOUS
<1>1. StoreTypeOK
  BY StoreAssumption DEF Init, StoreInit, StoreTypeOK
<1>2. pc \in [Worker -> PCs] /\ \A w \in Worker : pc[w] = "idle"
  BY DEF Init, PCs
<1>3. curParked \in [Worker -> BOOLEAN] /\ batchFailed \in BOOLEAN
  BY Zenon DEF Init
<1>4. /\ debits \in [Worker -> SUBSET Txn] /\ credits \in [Worker -> SUBSET Credit]
      /\ draining \in [Worker -> SUBSET Txn] /\ peeked \in [Worker -> SUBSET Credit]
      /\ cur \in [Worker -> Credit \cup {NoCredit}]
  BY DEF Init
<1>5. /\ attempt \in [Worker -> 0..TransitionAttempts]
      /\ sentDebit \in [Txn -> 0..MaxSends] /\ sentCredit \in [Credit -> 0..MaxSends]
  BY CorrelateAssumption DEF Init
<1> QED BY <1>1, <1>2, <1>3, <1>4, <1>5 DEF TypeOK

\* Every step of a worker, a client, the sweep or a Mark keeps the types.
LEMMA TypeOKStep == TypeOK /\ [Next]_vars => TypeOK'
<1> SUFFICES ASSUME TypeOK, [Next]_vars PROVE TypeOK'
  OBVIOUS
<1>1. CASE UNCHANGED vars
  BY <1>1 DEF TypeOK, StoreTypeOK, vars, storeVars, workVars, sentVars
<1>2. CASE Next
  <2>1. status' \in [Txn -> Statuses \cup {Absent}]
    BY <1>2, StepIsLawful DEF Lawful
  <2> USE CorrelateAssumption, StoreAssumption
      DEF TypeOK, StoreTypeOK, storeVars, workVars, sentVars, PCs, Goto
  <2>2. ASSUME NEW w \in Worker, Take(w) PROVE TypeOK'
    <3>1. PICK D \in SUBSET Txn, C \in SUBSET Credit : TakeBatch(w, D, C)
      BY <2>2 DEF Take
    <3>2. sentDebit' \in [Txn -> 0..MaxSends] /\ sentCredit' \in [Credit -> 0..MaxSends]
      BY <3>1 DEF TakeBatch
    <3> QED BY <3>1, <3>2 DEF TakeBatch
  <2>3. ASSUME NEW w \in Worker, StoreDebits(w) PROVE TypeOK'
    BY <2>1, <2>3 DEF StoreDebits, UpsertDebits, Insertable, Fresh
  <2>4. ASSUME NEW w \in Worker, Peek(w) PROVE TypeOK'
    BY <2>4 DEF Peek, PeekParkedCredits
  <2>5. ASSUME NEW w \in Worker, DrainNext(w) PROVE TypeOK'
    BY <2>5 DEF DrainNext
  <2>6. ASSUME NEW w \in Worker, DrainDone(w) PROVE TypeOK'
    BY <2>6 DEF DrainDone
  <2>7. ASSUME NEW w \in Worker, NextCredit(w) PROVE TypeOK'
    BY <2>7 DEF NextCredit
  <2>8. ASSUME NEW w \in Worker, BatchDone(w) PROVE TypeOK'
    BY <2>8 DEF BatchDone
  <2>9. ASSUME NEW w \in Worker, WriteCredit(w) PROVE TypeOK'
    <3>1. cur[w] \in Credit
      BY <2>9 DEF WriteCredit
    <3>2. credited' \in [Txn -> Nat] /\ ledger' \in [CreditKeys -> Credit \cup {NoCredit}]
          /\ UNCHANGED parked
      <4>1. ASSUME NEW foreign, ApplyPartialCredit(cur[w], foreign)
            PROVE  /\ credited' \in [Txn -> Nat] /\ UNCHANGED parked
                   /\ ledger' \in [CreditKeys -> Credit \cup {NoCredit}]
        BY <3>1, <4>1 DEF ApplyPartialCredit
      <4>2. CASE IsPartial(cur[w])
        BY <2>9, <4>1, <4>2 DEF WriteCredit
      <4>3. CASE ~IsPartial(cur[w])
        BY <2>9, <4>3 DEF WriteCredit, UpdateStatus
      <4> QED BY <4>2, <4>3
    <3> QED BY <2>1, <2>9, <3>1, <3>2 DEF WriteCredit, AfterTry
  <2>10. ASSUME NEW w \in Worker, WriteMisses(w) PROVE TypeOK'
    BY <2>10 DEF WriteMisses
  <2>11. ASSUME NEW w \in Worker, Classify(w) PROVE TypeOK'
    BY <2>11, SMTT(30) DEF Classify, ClassifyPartial, ClassifyTransition, RetryWrite, AfterTry
  <2>12. ASSUME NEW w \in Worker, GiveUp(w) \/ FailBatch(w) PROVE TypeOK'
    <3>1. Abandon(w)
      BY <2>12 DEF GiveUp, FailBatch
    <3>2. curParked' \in [Worker -> BOOLEAN] /\ batchFailed' \in BOOLEAN
      BY <3>1, Zenon DEF Abandon
    <3>3. /\ pc' \in [Worker -> PCs] /\ cur' \in [Worker -> Credit \cup {NoCredit}]
          /\ \A v \in Worker : pc'[v] \in {"update", "get", "park", "delete"}
                                => cur'[v] \in Credit
      BY <3>1 DEF Abandon
    <3> QED BY <3>1, <3>2, <3>3 DEF Abandon
  <2>13. ASSUME NEW w \in Worker, Park(w) PROVE TypeOK'
    BY <2>13 DEF Park, ParkCredit
  <2>14. ASSUME NEW w \in Worker, Delete(w) PROVE TypeOK'
    BY <2>14 DEF Delete, DeleteParkedCredit
  <2>15. CASE Outside
    BY <2>1, <2>15 DEF Outside, SweepClaims, ClaimExpired, Mark, UpdateStatus
  <2> QED BY <1>2, <2>2, <2>3, <2>4, <2>5, <2>6, <2>7, <2>8, <2>9, <2>10, <2>11, <2>12,
             <2>13, <2>14, <2>15 DEF Next, Step
<1> QED BY <1>1, <1>2

\* Type correctness.
THEOREM TypeCorrect == Spec => []TypeOK
BY TypeOKInit, TypeOKStep, PTL DEF Spec

\* The engine and the writers beside it implement the abstract life cycle: no
\* interleaving of them moves a row off the edges of the state machine.
THEOREM ImplementsLifecycle == Spec => LifecycleSpec
<1>1. Init => Lifecycle!Init
  BY DEF Init, StoreInit, Lifecycle!Init, Absent, Lifecycle!Absent
<1>2. TypeOK /\ [Next]_vars => [Lifecycle!Next]_status
  <2> SUFFICES ASSUME TypeOK, Next PROVE Lifecycle!Next
    BY DEF vars, storeVars
  <2>1. \A from, to : CanTransition(from, to) <=> Lifecycle!CanTransition(from, to)
    BY DEF CanTransition, allowedTransitions, Statuses, Lifecycle!CanTransition,
           Lifecycle!allowedTransitions, Lifecycle!Statuses
  <2> QED BY <2>1, StepIsLawful
          DEF Statuses, Lifecycle!Statuses, Absent, Lifecycle!Absent,
              Lawful, Lifecycle!Next, Lifecycle!Record, Lifecycle!Move
<1> QED BY <1>1, <1>2, TypeCorrect, PTL DEF Spec, LifecycleSpec, Lifecycle!Spec

-----------------------------------------------------------------------------
(* Partial settlement *)

\* A step that leaves the totals alone keeps the invariant, because an open
\* status is only reached from an open one or by an insert.
LEMMA LawfulKeepsShort ==
  ASSUME ShortInv, TypeOK', Lawful, UNCHANGED credited
  PROVE  ShortInv'
<1> USE StoreAssumption DEF ShortInv, TypeOK, StoreTypeOK, OpenIsShort, Stored
<1>1. ASSUME NEW t \in Txn
      PROVE  /\ status'[t] = Absent => credited'[t] = 0
             /\ IsOpen(status'[t]) => credited'[t] < Expected[t]
  <2>1. CASE status'[t] = status[t]
    BY <2>1
  <2>2. CASE status[t] = Absent /\ status'[t] = "pending_debit"
    BY <2>2, AbsentFacts DEF Statuses
  <2>3. CASE CanTransition(status[t], status'[t])
    BY <2>3, EdgeTypes, OpenSources, AbsentFacts
  <2> QED BY <2>1, <2>2, <2>3 DEF Lawful
<1> QED BY <1>1

\* A total moves, and a key is claimed, only in the accumulating statement.
LEMMA LedgerWriters ==
  ASSUME Next, credited' # credited \/ ledger' # ledger
  PROVE  \E w \in Worker : WriteCredit(w) /\ IsPartial(cur[w])
BY ZenonT(60) DEF Next, Take, TakeBatch, Step, StoreDebits, UpsertDebits, Peek, DrainNext,
       DrainDone, NextCredit, BatchDone, WriteCredit, UpdateStatus, WriteMisses,
       Classify, GiveUp, FailBatch, Abandon, Park, ParkCredit, Delete,
       DeleteParkedCredit, Outside, SweepClaims, ClaimExpired, Mark, storeVars

\* What the two failed comparisons of the CASE leave.
LEMMA Below == \A a, b \in Nat : ~(a > b) /\ a # b => a < b
OBVIOUS

\* What the accumulating statement does to the total of its transaction.
LEMMA PartialKeepsShort ==
  ASSUME ShortInv, TypeOK', NEW c \in Credit, NEW foreign, ApplyPartialCredit(c, foreign)
  PROVE  ShortInv'
<1> USE StoreAssumption DEF ShortInv, TypeOK, StoreTypeOK, OpenIsShort, Stored
<1> DEFINE t == CreditTxn[c]
           total == credited[t] + Amount[c]
           new == SettledStatus(status[t], total, Expected[t], foreign)
<1>1. t \in Txn /\ IsOpen(status[t]) /\ status[t] # Absent
  BY AbsentFacts DEF ApplyPartialCredit, PartialMatches
<1>2. /\ status' = [status EXCEPT ![t] = new]
      /\ credited' = [credited EXCEPT ![t] = IF foreign THEN credited[t] ELSE total]
  BY DEF ApplyPartialCredit
<1>3. new # Absent
  BY <1>1 DEF SettledStatus, Absent
<1>4. IsOpen(new) => ~foreign /\ total < Expected[t]
  <2>1. total \in Nat /\ Expected[t] \in Nat
    BY <1>1
  <2>2. IsOpen(new) => ~foreign /\ ~(total > Expected[t]) /\ total # Expected[t]
    <3>1. ~IsOpen("suspect") /\ ~IsOpen("completed")
      BY DEF IsOpen
    <3> QED BY <3>1, Zenon DEF SettledStatus
  <2>3. ~(total > Expected[t]) /\ total # Expected[t] => total < Expected[t]
    BY <2>1, Below, Zenon
  <2> QED BY <2>2, <2>3, Zenon
<1> QED BY <1>1, <1>2, <1>3, <1>4

\* Every step keeps open transactions short of what they expect.
LEMMA ShortInvStep == ShortInv /\ [Next]_vars => ShortInv'
<1> SUFFICES ASSUME ShortInv, [Next]_vars PROVE ShortInv'
  OBVIOUS
<1>0. TypeOK /\ TypeOK'
  BY TypeOKStep DEF ShortInv
<1>1. CASE UNCHANGED vars
  BY <1>0, <1>1 DEF ShortInv, OpenIsShort, Stored, vars, storeVars
<1>2. CASE Next /\ UNCHANGED credited
  BY <1>0, <1>2, StepIsLawful, LawfulKeepsShort
<1>3. ASSUME NEW w \in Worker, WriteCredit(w), IsPartial(cur[w]) PROVE ShortInv'
  <2>1. cur[w] \in Credit
    BY <1>0, <1>3 DEF WriteCredit, TypeOK
  <2> QED BY <1>0, <1>3, <2>1, PartialKeepsShort DEF WriteCredit
<1> QED BY <1>1, <1>2, <1>3, LedgerWriters

\* What every writer of a total keeps, for any number of workers
\* (ApplyPartialCredit).
THEOREM ShortInvHolds == Spec => []ShortInv
<1>1. Init => ShortInv
  <2> SUFFICES ASSUME Init PROVE ShortInv
    OBVIOUS
  <2>1. TypeOK
    BY TypeOKInit
  <2> QED BY <2>1, AbsentFacts DEF Init, StoreInit, ShortInv, OpenIsShort
<1>2. ShortInv /\ [Next]_vars => ShortInv'
  BY ShortInvStep
<1> QED BY <1>1, <1>2, PTL DEF Spec

\* A transaction is never left open with its whole amount arrived
\* (ApplyPartialCredit): the sweep would reverse money that is there.
THEOREM OpenIsShortHolds == Spec => []OpenIsShort
<1>1. ShortInv => OpenIsShort
  BY DEF ShortInv
<1> QED BY <1>1, ShortInvHolds, PTL

-----------------------------------------------------------------------------
(* The total and the ledger *)

Ledgers == [CreditKeys -> Credit \cup {NoCredit}]

ClaimedKeys(l) == {k \in CreditKeys : l[k] # NoCredit}

KeysIn(l, t) == {k \in CreditKeys : l[k] # NoCredit /\ CreditTxn[l[k]] = t}

AmountsIn(l, t) == [k \in KeysIn(l, t) |-> Amount[l[k]]]

SumIn(l, t) == SumFunctionOnSet(AmountsIn(l, t), KeysIn(l, t))

\* The sum LedgerSum(t) is one of ledger.
LEMMA SumOfLedger ==
  /\ \A t : LedgerSum(t) = SumIn(ledger, t)
  /\ \A t : LedgerSum(t)' = SumIn(ledger', t)
BY DEF LedgerSum, KeysOf, SumIn, AmountsIn, KeysIn

\* What is summed, and that it is a number.
LEMMA SumInType ==
  ASSUME NEW l \in Ledgers, IsFiniteSet(ClaimedKeys(l)), NEW t \in Txn
  PROVE  /\ IsFiniteSet(KeysIn(l, t))
         /\ \A k \in KeysIn(l, t) : AmountsIn(l, t)[k] = Amount[l[k]] /\ Amount[l[k]] \in Nat
         /\ SumIn(l, t) \in Nat
<1>1. KeysIn(l, t) \subseteq ClaimedKeys(l)
  BY DEF KeysIn, ClaimedKeys
<1>2. IsFiniteSet(KeysIn(l, t))
  BY <1>1, FS_Subset
<1>3. \A k \in KeysIn(l, t) : AmountsIn(l, t)[k] = Amount[l[k]] /\ Amount[l[k]] \in Nat
  BY StoreAssumption DEF KeysIn, AmountsIn, Ledgers
<1>4. SumIn(l, t) \in Nat
  BY <1>2, <1>3, SumType DEF SumIn
<1> QED BY <1>2, <1>3, <1>4

\* Claiming a key leaves the sums of the other transactions as they are.
LEMMA ClaimLeaves ==
  ASSUME NEW l \in Ledgers, IsFiniteSet(ClaimedKeys(l)),
         NEW c \in Credit, l[CreditKey[c]] = NoCredit,
         NEW m, m = [l EXCEPT ![CreditKey[c]] = c],
         NEW t \in Txn, t # CreditTxn[c]
  PROVE  SumIn(m, t) = SumIn(l, t)
<1>1. \A k \in CreditKeys : k # CreditKey[c] => m[k] = l[k]
  BY StoreAssumption DEF Ledgers
<1>2. m[CreditKey[c]] = c /\ CreditKey[c] \in CreditKeys
  BY StoreAssumption DEF Ledgers
<1>3. PICK S : S = KeysIn(l, t)
  OBVIOUS
<1>4. KeysIn(m, t) = S
  BY <1>1, <1>2, <1>3 DEF KeysIn
<1>5. IsFiniteSet(S)
  BY <1>3, SumInType
<1>6. PICK f : f = AmountsIn(m, t)
  OBVIOUS
<1>7. PICK g : g = AmountsIn(l, t)
  OBVIOUS
<1>8. \A k \in S : f[k] = g[k]
  BY <1>1, <1>2, <1>3, <1>4, <1>6, <1>7 DEF AmountsIn, KeysIn
<1>9. SumFunctionOnSet(f, S) = SumFunctionOnSet(g, S)
  BY <1>5, <1>8, SumSame
<1> QED BY <1>3, <1>4, <1>6, <1>7, <1>9 DEF SumIn

\* Claiming a key adds that credit's amount to its transaction's sum.
LEMMA ClaimAdds ==
  ASSUME NEW l \in Ledgers, IsFiniteSet(ClaimedKeys(l)),
         NEW c \in Credit, l[CreditKey[c]] = NoCredit,
         NEW m, m = [l EXCEPT ![CreditKey[c]] = c]
  PROVE  /\ m \in Ledgers /\ IsFiniteSet(ClaimedKeys(m))
         /\ SumIn(m, CreditTxn[c]) = SumIn(l, CreditTxn[c]) + Amount[c]
<1>1. PICK key : key = CreditKey[c]
  OBVIOUS
<1>2. PICK own : own = CreditTxn[c]
  OBVIOUS
<1>3. /\ key \in CreditKeys /\ own \in Txn /\ c # NoCredit /\ Amount[c] \in Nat
      /\ l[key] = NoCredit /\ m[key] = c /\ m \in Ledgers
      /\ \A k \in CreditKeys \ {key} : m[k] = l[k]
  BY <1>1, <1>2, StoreAssumption DEF Ledgers
<1>4. ClaimedKeys(m) = ClaimedKeys(l) \cup {key}
  BY <1>3 DEF ClaimedKeys
<1>5. IsFiniteSet(ClaimedKeys(m))
  BY <1>4, FS_AddElement
<1>6. PICK S : S = KeysIn(l, own)
  OBVIOUS
<1>7. KeysIn(m, own) = S \cup {key} /\ key \notin S
  BY <1>2, <1>3, <1>6 DEF KeysIn
<1>8. IsFiniteSet(S) /\ SumIn(l, own) \in Nat
  BY <1>3, <1>6, SumInType
<1> DEFINE f == AmountsIn(m, own)
           g == AmountsIn(l, own)
<1>9. \A k \in S \cup {key} : f[k] \in Nat
  <2>1. \A k \in KeysIn(m, own) : AmountsIn(m, own)[k] \in Nat
    BY <1>3, <1>5, SumInType
  <2> QED BY <1>7, <2>1
<1>10. f[key] = Amount[c]
  BY <1>3, <1>7 DEF AmountsIn
<1>11. \A k \in S : f[k] = g[k]
  BY <1>3, <1>6, <1>7 DEF AmountsIn, KeysIn
<1>12. SumIn(m, own) = SumFunctionOnSet(f, S \cup {key}) /\ SumIn(l, own) = SumFunctionOnSet(g, S)
  BY <1>6, <1>7 DEF SumIn
<1> HIDE DEF f, g
<1>13. SumFunctionOnSet(f, S \cup {key}) = f[key] + SumFunctionOnSet(f, S)
  BY <1>7, <1>8, <1>9, SumAdd
<1>14. SumFunctionOnSet(f, S) = SumFunctionOnSet(g, S)
  BY <1>8, <1>11, SumSame
<1>15. SumIn(m, own) = SumIn(l, own) + Amount[c]
  BY <1>3, <1>8, <1>10, <1>12, <1>13, <1>14
<1> QED BY <1>2, <1>3, <1>5, <1>15

\* At first nothing is counted.
LEMMA LedgerInvInit == Init => LedgerInv
<1> SUFFICES ASSUME Init PROVE LedgerInv
  OBVIOUS
<1>1. TypeOK
  BY TypeOKInit
<1>2. {k \in CreditKeys : ledger[k] # NoCredit} = {}
  BY DEF Init, StoreInit
<1>3. ASSUME NEW t \in Txn PROVE credited[t] = 0 /\ LedgerSum(t) = 0 /\ status[t] = Absent
  <2>1. KeysOf(t) = {}
    BY DEF Init, StoreInit, KeysOf
  <2>2. LedgerSum(t) = 0
    BY <2>1, SumEmpty DEF LedgerSum
  <2> QED BY <2>2 DEF Init, StoreInit
<1> QED BY <1>1, <1>2, <1>3, FS_EmptySet DEF LedgerInv, TotalIsLedger

\* A step that leaves totals and keys alone keeps the sums: a row is open only if it
\* was, or was not there.
LEMMA LawfulKeepsLedger ==
  ASSUME LedgerInv, TypeOK', Lawful, UNCHANGED <<credited, ledger>>
  PROVE  LedgerInv'
<1>1. \A t : LedgerSum(t)' = LedgerSum(t)
  BY SumOfLedger
<1>2. ASSUME NEW t \in Txn
      PROVE  /\ status'[t] = Absent \/ IsOpen(status'[t]) => status[t] = Absent \/ IsOpen(status[t])
  <2>1. CASE CanTransition(status[t], status'[t])
    BY <2>1, EdgeTypes, OpenSources, AbsentFacts
  <2> QED BY <2>1 DEF Lawful
<1>3. \A t \in Txn : status[t] = Absent \/ IsOpen(status[t]) => credited[t] = LedgerSum(t)
  BY DEF LedgerInv, TotalIsLedger, Stored
<1>4. \A t \in Txn : status'[t] = Absent \/ IsOpen(status'[t]) => credited'[t] = LedgerSum(t)'
  BY <1>1, <1>2, <1>3
<1> QED BY <1>1, <1>4 DEF LedgerInv, TotalIsLedger, Stored

\* The accumulating statement adds to the total what it enters in the ledger, or
\* closes the row.
LEMMA PartialKeepsLedger ==
  ASSUME LedgerInv, TypeOK', NEW c \in Credit, NEW foreign, ApplyPartialCredit(c, foreign)
  PROVE  LedgerInv'
<1>1. PICK t : t = CreditTxn[c]
  OBVIOUS
<1>2. /\ t \in Txn /\ Amount[c] \in Nat /\ IsOpen(status[t]) /\ ledger[CreditKey[c]] = NoCredit
      /\ ledger' = [ledger EXCEPT ![CreditKey[c]] = c]
      /\ status' = [status EXCEPT ![t] = SettledStatus(@, credited[t] + Amount[c], Expected[t], foreign)]
      /\ credited' = [credited EXCEPT ![t] = IF foreign THEN @ ELSE credited[t] + Amount[c]]
      /\ ledger \in Ledgers /\ credited \in [Txn -> Nat]
  BY <1>1, StoreAssumption
     DEF ApplyPartialCredit, PartialMatches, Counted, LedgerInv, TypeOK, StoreTypeOK, Ledgers
<1>3. IsFiniteSet(ClaimedKeys(ledger))
  BY DEF LedgerInv, ClaimedKeys
<1>4. /\ IsFiniteSet(ClaimedKeys(ledger'))
      /\ LedgerSum(t)' = LedgerSum(t) + Amount[c]
      /\ \A u \in Txn \ {t} : LedgerSum(u)' = LedgerSum(u)
  <2>1. PICK m : m = ledger'
    OBVIOUS
  <2>2. PICK l : l = ledger
    OBVIOUS
  <2>3. /\ IsFiniteSet(ClaimedKeys(m))
        /\ SumIn(m, CreditTxn[c]) = SumIn(l, CreditTxn[c]) + Amount[c]
        /\ \A u \in Txn : u # CreditTxn[c] => SumIn(m, u) = SumIn(l, u)
    <3>1. l \in Ledgers /\ IsFiniteSet(ClaimedKeys(l)) /\ l[CreditKey[c]] = NoCredit
      BY <1>2, <1>3, <2>2
    <3>2. m = [l EXCEPT ![CreditKey[c]] = c]
      BY <1>2, <2>1, <2>2
    <3>3. /\ IsFiniteSet(ClaimedKeys(m))
          /\ SumIn(m, CreditTxn[c]) = SumIn(l, CreditTxn[c]) + Amount[c]
      BY <3>1, <3>2, ClaimAdds
    <3>4. ASSUME NEW u \in Txn, u # CreditTxn[c] PROVE SumIn(m, u) = SumIn(l, u)
      BY <3>1, <3>2, <3>4, ClaimLeaves
    <3> QED BY <3>3, <3>4
  <2>4. \A u : LedgerSum(u) = SumIn(l, u) /\ LedgerSum(u)' = SumIn(m, u)
    <3>1. \A u : LedgerSum(u) = SumIn(ledger, u) /\ LedgerSum(u)' = SumIn(ledger', u)
      BY SumOfLedger
    <3>2. \A u : SumIn(ledger, u) = SumIn(l, u)
      BY <2>2
    <3>3. \A u : SumIn(ledger', u) = SumIn(m, u)
      BY <2>1
    <3> QED BY <3>1, <3>2, <3>3
  <2> HIDE <2>1, <2>2
  <2>5. IsFiniteSet(ClaimedKeys(m)) /\ LedgerSum(t)' = LedgerSum(t) + Amount[c]
        /\ \A u \in Txn \ {t} : LedgerSum(u)' = LedgerSum(u)
    BY <1>1, <2>3, <2>4
  <2> QED BY <2>1, <2>5
<1>5. \A u \in Txn : LedgerSum(u) \in Nat
  BY <1>2, <1>3, SumInType, SumOfLedger
<1>6. \A u \in Txn \ {t} : status'[u] = status[u] /\ credited'[u] = credited[u]
  BY <1>2 DEF LedgerInv, TypeOK, StoreTypeOK
<1>7. credited[t] = LedgerSum(t)
  BY <1>2 DEF LedgerInv, TotalIsLedger
<1>8. /\ credited'[t] = IF foreign THEN credited[t] ELSE credited[t] + Amount[c]
      /\ status'[t] = SettledStatus(status[t], credited[t] + Amount[c], Expected[t], foreign)
  BY <1>2 DEF LedgerInv, TypeOK, StoreTypeOK
<1>9. status'[t] # Absent /\ credited'[t] <= LedgerSum(t)'
      /\ (IsOpen(status'[t]) => credited'[t] = LedgerSum(t)')
  <2>1. status'[t] # Absent
    BY <1>2, <1>8, AbsentFacts DEF SettledStatus, Absent
  <2>2. CASE foreign
    <3>1. status'[t] = "suspect"
      BY <1>8, <2>2 DEF SettledStatus
    <3>2. credited'[t] = credited[t]
      BY <1>8, <2>2
    <3> QED BY <1>2, <1>4, <1>5, <1>7, <2>1, <3>1, <3>2 DEF IsOpen
  <2>3. CASE ~foreign
    <3>1. credited'[t] = credited[t] + Amount[c]
      BY <1>8, <2>3
    <3>2. credited'[t] = LedgerSum(t)' /\ LedgerSum(t)' \in Nat
      BY <1>2, <1>4, <1>5, <1>7, <3>1
    <3> QED BY <2>1, <3>2
  <2> QED BY <2>2, <2>3
<1>10. \A u \in Txn \ {t} : /\ ~Stored(u)' => credited'[u] = LedgerSum(u)'
                            /\ IsOpen(status'[u]) => credited'[u] = LedgerSum(u)'
                            /\ credited'[u] <= LedgerSum(u)'
  BY <1>4, <1>6 DEF LedgerInv, TotalIsLedger, Stored
<1> QED BY <1>4, <1>9, <1>10 DEF LedgerInv, TotalIsLedger, Stored, ClaimedKeys

\* Every step keeps totals and ledger together.
LEMMA LedgerInvStep == LedgerInv /\ [Next]_vars => LedgerInv'
<1> SUFFICES ASSUME LedgerInv, [Next]_vars PROVE LedgerInv'
  OBVIOUS
<1>0. TypeOK /\ TypeOK'
  BY TypeOKStep DEF LedgerInv
<1>1. CASE UNCHANGED vars
  <2>1. UNCHANGED <<status, credited, ledger>>
    BY <1>1 DEF vars, storeVars
  <2>2. Lawful
    BY <1>0, <2>1 DEF Lawful, TypeOK, StoreTypeOK
  <2> QED BY <1>0, <2>1, <2>2, LawfulKeepsLedger
<1>2. CASE Next /\ UNCHANGED <<credited, ledger>>
  BY <1>0, <1>2, StepIsLawful, LawfulKeepsLedger
<1>3. ASSUME NEW w \in Worker, WriteCredit(w), IsPartial(cur[w]) PROVE LedgerInv'
  <2>1. cur[w] \in Credit
    BY <1>0, <1>3 DEF WriteCredit, TypeOK
  <2> QED BY <1>0, <1>3, <2>1, PartialKeepsLedger DEF WriteCredit
<1> QED BY <1>1, <1>2, <1>3, LedgerWriters

\* However credits are retried, parked and drained by several workers at once,
\* credited_minor of an open transaction is what credit_applications holds for it
\* and no transaction's exceeds it (ApplyPartialCredit).
THEOREM TotalIsLedgerHolds == Spec => []TotalIsLedger
<1>1. LedgerInv => TotalIsLedger
  BY DEF LedgerInv
<1> QED BY <1>1, LedgerInvInit, LedgerInvStep, PTL DEF Spec

-----------------------------------------------------------------------------
(* Idempotency *)

\* A credit counts once, however often it is sent, parked or drained, and
\* whichever workers apply it at the same time (ApplyPartialCredit).
THEOREM CountsOnceHolds == Spec => CountsOnce
<1> DEFINE Once ==
      /\ \A k \in CreditKeys : ledger[k] # NoCredit => ledger'[k] = ledger[k]
      /\ \A t \in Txn : credited'[t] # credited[t] =>
           \E c \in Credit :
             /\ CreditTxn[c] = t
             /\ ledger[CreditKey[c]] = NoCredit
             /\ ledger' = [ledger EXCEPT ![CreditKey[c]] = c]
             /\ credited'[t] = credited[t] + Amount[c]
<1>1. TypeOK /\ [Next]_vars => [Once]_vars
  <2> SUFFICES ASSUME TypeOK, Next PROVE Once
    OBVIOUS
  <2>1. CASE credited' = credited /\ ledger' = ledger
    BY <2>1
  <2>2. ASSUME NEW w \in Worker, WriteCredit(w), IsPartial(cur[w]) PROVE Once
    <3> DEFINE c == cur[w]
    <3>1. c \in Credit /\ CreditTxn[c] \in Txn /\ CreditKey[c] \in CreditKeys
      BY <2>2, StoreAssumption DEF WriteCredit, TypeOK
    <3>2. PICK foreign : ApplyPartialCredit(c, foreign)
      BY <2>2 DEF WriteCredit
    <3>3. /\ ledger[CreditKey[c]] = NoCredit
          /\ ledger' = [ledger EXCEPT ![CreditKey[c]] = c]
          /\ credited' = [credited EXCEPT ![CreditTxn[c]] =
                            IF foreign THEN @ ELSE credited[CreditTxn[c]] + Amount[c]]
      BY <3>2 DEF ApplyPartialCredit, PartialMatches, Counted
    <3> QED BY <3>1, <3>3 DEF TypeOK, StoreTypeOK
  <2> QED BY <2>1, <2>2, LedgerWriters
<1> QED BY <1>1, TypeCorrect, PTL DEF Spec, CountsOnce

-----------------------------------------------------------------------------
(* The park/drain handshake *)

\* A step of w leaves the local variables of the other workers alone ...
OthersKeep(w) ==
  \A v \in Worker \ {w} :
    /\ pc'[v] = pc[v] /\ draining'[v] = draining[v] /\ peeked'[v] = peeked[v]
    /\ cur'[v] = cur[v] /\ curParked'[v] = curParked[v]

\* ... and w is responsible for whatever it leaves parked beside a debit, or
\* it was not its business before either.
HandsOver(w) ==
  \A t \in Txn : parked'[t] # NoCredit /\ Stored(t)' =>
    Responsible(w, t)' \/ (parked[t] # NoCredit /\ Stored(t) /\ ~Responsible(w, t))

\* Together they keep the invariant.
LEMMA Handshake ==
  ASSUME DrainInv, TypeOK', NEW w \in Worker, OthersKeep(w), HandsOver(w), WorkerInv(w)',
         ParkedIsOwn', UNCHANGED batchFailed
  PROVE  DrainInv'
<1>1. ASSUME NEW v \in Worker PROVE WorkerInv(v)'
  <2>1. CASE v = w
    BY <2>1
  <2>2. CASE v # w
    BY <2>2 DEF DrainInv, WorkerInv, HoldsNothing, OthersKeep
  <2> QED BY <2>1, <2>2
<1>2. NoStrandedPark'
  <2> SUFFICES ASSUME ~batchFailed', NEW t \in Txn, parked'[t] # NoCredit, Stored(t)'
               PROVE  \E v \in Worker : Responsible(v, t)'
    BY DEF NoStrandedPark
  <2>1. CASE Responsible(w, t)'
    BY <2>1
  <2>2. CASE parked[t] # NoCredit /\ Stored(t) /\ ~Responsible(w, t)
    <3>1. PICK v \in Worker : Responsible(v, t)
      BY <2>2 DEF DrainInv, NoStrandedPark
    <3>2. Responsible(v, t)'
      BY <2>2, <3>1 DEF OthersKeep, Responsible
    <3> QED BY <3>2
  <2> QED BY <2>1, <2>2 DEF HandsOver
<1> QED BY <1>1, <1>2 DEF DrainInv

\* Only an insert makes a row appear.
LEMMA WriteKeepsStored ==
  ASSUME TypeOK, NEW w \in Worker, WriteCredit(w)
  PROVE  \A t \in Txn : Stored(t)' <=> Stored(t)
<1> USE DEF TypeOK, StoreTypeOK, Stored
<1>1. cur[w] \in Credit /\ CreditTxn[cur[w]] \in Txn
  BY StoreAssumption DEF WriteCredit
<1>2. ASSUME NEW t \in Txn, NEW target, UpdateRow(t, target)
      PROVE  \A u \in Txn : Stored(u)' <=> Stored(u)
  <2>1. CanTransition(status[t], target)
    BY <1>2 DEF UpdateRow, UpdateMatches, SourcesFor
  <2> QED BY <1>2, <2>1, EdgeTypes, AbsentFacts DEF UpdateRow
<1>3. ASSUME NEW c \in Credit, NEW foreign, ApplyPartialCredit(c, foreign)
      PROVE  \A u \in Txn : Stored(u)' <=> Stored(u)
  <2>1. CreditTxn[c] \in Txn /\ IsOpen(status[CreditTxn[c]])
    BY <1>3, StoreAssumption DEF ApplyPartialCredit, PartialMatches
  <2>2. PICK new : /\ status' = [status EXCEPT ![CreditTxn[c]] = new]
                   /\ new \in {"suspect", "completed", status[CreditTxn[c]]}
    BY <1>3 DEF ApplyPartialCredit, SettledStatus
  <2> QED BY <2>1, <2>2, AbsentFacts, OpenEdges DEF Absent
<1> QED BY <1>1, <1>2, <1>3 DEF WriteCredit, UpdateStatus

\* The writers outside the engine touch no parked credit and make no row appear.
LEMMA OutsideKeepsDrainInv ==
  ASSUME DrainInv, TypeOK', Outside
  PROVE  DrainInv'
<1> USE DEF TypeOK, StoreTypeOK
<1>1. UNCHANGED <<parked, workVars, batchFailed>>
  BY DEF Outside, SweepClaims, ClaimExpired, Mark, UpdateStatus
<1>2. \A t \in Txn : Stored(t)' => Stored(t)
  <2>1. ASSUME NEW u \in Txn, status[u] = Absent PROVE status'[u] = Absent
    <3>1. ASSUME NEW t \in Txn, NEW gap, SweepClaims(t, gap) PROVE status'[u] = Absent
      BY <2>1, <3>1, AbsentFacts DEF SweepClaims, ClaimExpired, ClaimRows, DrainInv
    <3>2. ASSUME NEW t \in Txn, NEW target, Mark(t, target) PROVE status'[u] = Absent
      <4>1. NeedsReversal(status[t]) /\ status' = [status EXCEPT ![t] = target]
        BY <3>2 DEF Mark, UpdateStatus, UpdateRow
      <4> QED BY <2>1, <4>1 DEF NeedsReversal, Absent, DrainInv
    <3> QED BY <3>1, <3>2 DEF Outside
  <2> QED BY <2>1 DEF Stored
<1> QED BY <1>1, <1>2 DEF DrainInv, ParkedIsOwn, WorkerInv, HoldsNothing, NoStrandedPark,
                          Responsible, workVars

\* Every step keeps a worker responsible for each parked credit whose debit is
\* stored.
LEMMA DrainInvStep == DrainInv /\ [Next]_vars => DrainInv'
<1> SUFFICES ASSUME DrainInv, [Next]_vars PROVE DrainInv'
  OBVIOUS
<1>0. TypeOK /\ TypeOK'
  BY TypeOKStep DEF DrainInv
<1> USE <1>0
<1>1. CASE UNCHANGED vars
  BY <1>1 DEF DrainInv, ParkedIsOwn, WorkerInv, HoldsNothing, NoStrandedPark, Responsible,
              Stored, vars, storeVars, workVars
<1>2. CASE Outside
  BY <1>2, OutsideKeepsDrainInv
<1>3. ASSUME NEW w \in Worker, Take(w) PROVE DrainInv'
  <2>1. OthersKeep(w) /\ WorkerInv(w)' /\ ParkedIsOwn' /\ UNCHANGED batchFailed
    BY <1>3 DEF Take, TakeBatch, Goto, OthersKeep, WorkerInv, HoldsNothing, ParkedIsOwn,
                DrainInv, TypeOK, storeVars
  <2>2. HandsOver(w)
    BY <1>3 DEF Take, TakeBatch, HandsOver, Responsible, Stored, storeVars
  <2> QED BY <2>1, <2>2, Handshake
<1>4. ASSUME NEW w \in Worker, StoreDebits(w) PROVE DrainInv'
  <2>1. PICK I \in Insertable(debits[w]) :
          /\ UpsertDebits(I)
          /\ draining' = [draining EXCEPT ![w] = I]
          /\ Goto(w, IF I = {} THEN "next" ELSE "peek")
    BY <1>4 DEF StoreDebits
  <2>2. OthersKeep(w) /\ WorkerInv(w)' /\ ParkedIsOwn' /\ UNCHANGED batchFailed
    BY <1>4, <2>1 DEF StoreDebits, UpsertDebits, Goto, OthersKeep, WorkerInv, HoldsNothing,
                      ParkedIsOwn, DrainInv, TypeOK
  <2>3. HandsOver(w)
    <3> SUFFICES ASSUME NEW t \in Txn, parked'[t] # NoCredit, Stored(t)'
                 PROVE  Responsible(w, t)'
                        \/ (parked[t] # NoCredit /\ Stored(t) /\ ~Responsible(w, t))
      BY DEF HandsOver
    <3>1. CASE t \in I
      BY <2>1, <3>1 DEF Responsible, Goto, TypeOK
    <3>2. CASE t \notin I
      BY <1>4, <2>1, <3>2
         DEF StoreDebits, UpsertDebits, InsertRows, Stored, Responsible, TypeOK, StoreTypeOK
    <3> QED BY <3>1, <3>2
  <2> QED BY <2>2, <2>3, Handshake
<1>5. ASSUME NEW w \in Worker, Peek(w) PROVE DrainInv'
  <2>1. OthersKeep(w) /\ WorkerInv(w)' /\ ParkedIsOwn' /\ UNCHANGED batchFailed
    BY <1>5 DEF Peek, Goto, OthersKeep, WorkerInv, HoldsNothing, ParkedIsOwn, DrainInv,
                TypeOK, storeVars
  <2>2. HandsOver(w)
    <3> SUFFICES ASSUME NEW t \in Txn, parked'[t] # NoCredit, Stored(t)'
                 PROVE  Responsible(w, t)'
                        \/ (parked[t] # NoCredit /\ Stored(t) /\ ~Responsible(w, t))
      BY DEF HandsOver
    <3>0. parked' = parked /\ status' = status /\ pc'[w] = "drain"
      BY <1>5 DEF Peek, Goto, TypeOK, storeVars
    <3>1. CASE t \in draining[w]
      <4>1. parked[t] \in peeked'[w] /\ CreditTxn[parked[t]] = t
        BY <1>5, <3>0, <3>1 DEF Peek, PeekParkedCredits, DrainInv, ParkedIsOwn, TypeOK
      <4> QED BY <3>0, <4>1 DEF Responsible
    <3>2. CASE t \notin draining[w]
      BY <1>5, <3>0, <3>2 DEF Peek, Responsible, Stored
    <3> QED BY <3>1, <3>2
  <2> QED BY <2>1, <2>2, Handshake
<1>6. ASSUME NEW w \in Worker, DrainNext(w) PROVE DrainInv'
  <2>1. OthersKeep(w) /\ WorkerInv(w)' /\ ParkedIsOwn' /\ UNCHANGED batchFailed
    BY <1>6 DEF DrainNext, Goto, OthersKeep, WorkerInv, HoldsNothing, ParkedIsOwn, DrainInv,
                TypeOK, storeVars
  <2>2. HandsOver(w)
    BY <1>6 DEF DrainNext, Goto, HandsOver, Responsible, Stored, TypeOK, storeVars
  <2> QED BY <2>1, <2>2, Handshake
<1>7. ASSUME NEW w \in Worker, DrainDone(w) \/ BatchDone(w) PROVE DrainInv'
  <2>1. OthersKeep(w) /\ WorkerInv(w)' /\ ParkedIsOwn' /\ UNCHANGED batchFailed
    BY <1>7 DEF DrainDone, BatchDone, Goto, OthersKeep, WorkerInv, HoldsNothing,
                ParkedIsOwn, DrainInv, TypeOK, storeVars
  <2>2. HandsOver(w)
    BY <1>7 DEF DrainDone, BatchDone, HandsOver, Responsible, Stored, storeVars
  <2> QED BY <2>1, <2>2, Handshake
<1>8. ASSUME NEW w \in Worker, NextCredit(w) PROVE DrainInv'
  <2>1. OthersKeep(w) /\ WorkerInv(w)' /\ ParkedIsOwn' /\ UNCHANGED batchFailed
    BY <1>8 DEF NextCredit, Goto, OthersKeep, WorkerInv, HoldsNothing, ParkedIsOwn,
                DrainInv, TypeOK, storeVars
  <2>2. HandsOver(w)
    BY <1>8 DEF NextCredit, HandsOver, Responsible, Stored, storeVars
  <2> QED BY <2>1, <2>2, Handshake
<1>9. ASSUME NEW w \in Worker, WriteCredit(w) PROVE DrainInv'
  <2>0. UNCHANGED parked /\ \A t \in Txn : Stored(t)' <=> Stored(t)
    BY <1>9, WriteKeepsStored DEF WriteCredit, ApplyPartialCredit, UpdateStatus
  <2>1. OthersKeep(w) /\ WorkerInv(w)' /\ ParkedIsOwn' /\ UNCHANGED batchFailed
    BY <1>9, <2>0 DEF WriteCredit, AfterTry, Goto, OthersKeep, WorkerInv, HoldsNothing,
                      ParkedIsOwn, DrainInv, TypeOK
  <2>2. HandsOver(w)
    BY <1>9, <2>0 DEF WriteCredit, AfterTry, Goto, HandsOver, Responsible, WorkerInv,
                      HoldsNothing, DrainInv, TypeOK
  <2> QED BY <2>1, <2>2, Handshake
<1>10. ASSUME NEW w \in Worker, WriteMisses(w) PROVE DrainInv'
  <2>1. OthersKeep(w) /\ WorkerInv(w)' /\ ParkedIsOwn' /\ UNCHANGED batchFailed
    BY <1>10 DEF WriteMisses, Goto, OthersKeep, WorkerInv, HoldsNothing, ParkedIsOwn,
                 DrainInv, TypeOK, storeVars
  <2>2. HandsOver(w)
    BY <1>10 DEF WriteMisses, Goto, HandsOver, Responsible, Stored, TypeOK, storeVars
  <2> QED BY <2>1, <2>2, Handshake
<1>11. ASSUME NEW w \in Worker, Classify(w) PROVE DrainInv'
  <2>0. /\ pc[w] = "get" /\ UNCHANGED <<parked, status, draining, peeked, cur, curParked>>
        /\ \/ pc' = [pc EXCEPT ![w] = "update"]
           \/ pc' = [pc EXCEPT ![w] = AfterTry(w, Stored(CreditTxn[cur[w]]))]
    BY <1>11 DEF Classify, ClassifyPartial, ClassifyTransition, RetryWrite, Goto, storeVars
  <2>1. OthersKeep(w) /\ WorkerInv(w)' /\ ParkedIsOwn' /\ UNCHANGED batchFailed
    BY <1>11, <2>0 DEF Classify, AfterTry, OthersKeep, WorkerInv, HoldsNothing, ParkedIsOwn,
                       DrainInv, TypeOK
  <2>2. HandsOver(w)
    <3>1. CASE pc' = [pc EXCEPT ![w] = "update"]
      BY <2>0, <3>1 DEF HandsOver, Responsible, Stored, TypeOK
    <3>2. CASE pc' = [pc EXCEPT ![w] = AfterTry(w, Stored(CreditTxn[cur[w]]))]
      BY <2>0, <3>2 DEF AfterTry, HandsOver, Responsible, Stored, WorkerInv, HoldsNothing,
                        DrainInv, TypeOK
    <3> QED BY <2>0, <3>1, <3>2
  <2> QED BY <2>1, <2>2, Handshake
<1>12. ASSUME NEW w \in Worker, GiveUp(w) \/ FailBatch(w) PROVE DrainInv'
  <2>1. Abandon(w)
    BY <1>12 DEF GiveUp, FailBatch
  <2>2. OthersKeep(w) /\ WorkerInv(w)' /\ ParkedIsOwn'
    BY <2>1 DEF Abandon, Goto, OthersKeep, WorkerInv, HoldsNothing, ParkedIsOwn, DrainInv,
                TypeOK, storeVars
  <2>3. \A v \in Worker : WorkerInv(v)'
    BY <2>2 DEF OthersKeep, WorkerInv, HoldsNothing, DrainInv
  <2>4. NoStrandedPark'
    BY <2>1 DEF Abandon, NoStrandedPark
  <2> QED BY <2>2, <2>3, <2>4 DEF DrainInv
<1>13. ASSUME NEW w \in Worker, Park(w) PROVE DrainInv'
  <2>0. cur[w] \in Credit /\ CreditTxn[cur[w]] \in Txn
    BY <1>13, StoreAssumption DEF Park, TypeOK
  <2>1. OthersKeep(w) /\ WorkerInv(w)' /\ ParkedIsOwn' /\ UNCHANGED batchFailed
    BY <1>13, <2>0 DEF Park, ParkCredit, Goto, OthersKeep, WorkerInv, HoldsNothing,
                       ParkedIsOwn, DrainInv, TypeOK, StoreTypeOK
  <2>2. HandsOver(w)
    BY <1>13, <2>0 DEF Park, ParkCredit, Goto, HandsOver, Responsible, Stored, TypeOK,
                       StoreTypeOK
  <2> QED BY <2>1, <2>2, Handshake
<1>14. ASSUME NEW w \in Worker, Delete(w) PROVE DrainInv'
  <2>0. cur[w] \in Credit /\ CreditTxn[cur[w]] \in Txn
    BY <1>14, StoreAssumption DEF Delete, TypeOK
  <2>1. OthersKeep(w) /\ WorkerInv(w)' /\ ParkedIsOwn' /\ UNCHANGED batchFailed
    BY <1>14, <2>0 DEF Delete, DeleteParkedCredit, Goto, OthersKeep, WorkerInv,
                       HoldsNothing, ParkedIsOwn, DrainInv, TypeOK, StoreTypeOK
  <2>2. HandsOver(w)
    BY <1>14, <2>0 DEF Delete, DeleteParkedCredit, Goto, HandsOver, Responsible, Stored,
                       TypeOK, StoreTypeOK
  <2> QED BY <2>1, <2>2, Handshake
<1> QED BY <1>1, <1>2, <1>3, <1>4, <1>5, <1>6, <1>7, <1>8, <1>9, <1>10, <1>11, <1>12,
           <1>13, <1>14 DEF Next, Step

\* The invariant that carries the handshake between parking and draining holds
\* for any number of workers.
THEOREM DrainInvHolds == Spec => []DrainInv
<1>1. Init => DrainInv
  <2> SUFFICES ASSUME Init PROVE DrainInv
    OBVIOUS
  <2>1. TypeOK
    BY TypeOKInit
  <2> QED BY <2>1 DEF Init, StoreInit, DrainInv, ParkedIsOwn, WorkerInv, NoStrandedPark
<1>2. DrainInv /\ [Next]_vars => DrainInv'
  BY DrainInvStep
<1> QED BY <1>1, <1>2, PTL DEF Spec

\* A parked credit sits beside its stored debit only while some worker is about
\* to drain it (applyCredit, drainParked), for any number of workers.
THEOREM NoStrandedParkHolds == Spec => []NoStrandedPark
<1>1. DrainInv => NoStrandedPark
  BY DEF DrainInv
<1> QED BY <1>1, DrainInvHolds, PTL

-----------------------------------------------------------------------------
(* Successes are not forgotten *)

\* A row that has left the open statuses stays out of them.
LEMMA ResolvedStays ==
  ASSUME TypeOK, Lawful, NEW t \in Txn, Resolved(t)
  PROVE  Resolved(t)'
<1>1. status[t] # Absent /\ ~IsOpen(status[t])
  BY DEF Resolved, Stored
<1>2. CASE status'[t] = status[t]
  BY <1>1, <1>2 DEF Resolved, Stored
<1>3. CASE CanTransition(status[t], status'[t])
  BY <1>1, <1>3, EdgeTypes, OpenSources, AbsentFacts DEF Resolved, Stored
<1> QED BY <1>1, <1>2, <1>3 DEF Lawful

\* The successes the invariant is about.
Watched(c) == Verdict[c] = "success" /\ Solitary(c)

\* What it says of one of them, besides who accounts for it, and what is known of
\* the worker in whose hands it is.
LEMMA WatchedFacts ==
  ASSUME TypeOK, NEW c \in Credit, Watched(c)
  PROVE  /\ CreditTxn[c] \in Txn /\ ~IsPartial(c) /\ TargetStatus(Verdict[c]) = "completed"
         /\ c # NoCredit
         /\ \A d \in Credit : CreditTxn[d] = CreditTxn[c] => d = c
<1>1. CreditTxn[c] \in Txn /\ c # NoCredit
  BY StoreAssumption
<1>2. ~(Amount[c] > 0) /\ \A d \in Credit : CreditTxn[d] = CreditTxn[c] => d = c
  BY DEF Watched, Solitary
<1>3. TargetStatus(Verdict[c]) = "completed"
  BY DEF Watched, TargetStatus
<1> QED BY <1>1, <1>2, <1>3 DEF IsPartial

\* A step of worker w leaves the hands of the others alone ...
HandsKept(w) ==
  \A v \in Worker \ {w} :
    pc'[v] = pc[v] /\ credits'[v] = credits[v] /\ cur'[v] = cur[v] /\ curParked'[v] = curParked[v]

\* ... and what w lets go of is resolved, parked or in its hands, or was never its.
PassesOn(w, c) ==
  sentCredit'[c] > 0 /\ ~batchFailed' =>
    \/ Resolved(CreditTxn[c])'
    \/ parked'[CreditTxn[c]] = c
    \/ Carries(w, c)'
    \/ /\ sentCredit[c] > 0 /\ ~batchFailed
       /\ parked[CreditTxn[c]] # c /\ ~Carries(w, c)

DeletesResolved(w, c) == pc[w] = "delete" /\ cur[w] = c => Resolved(CreditTxn[c])

\* Together they keep the invariant.
LEMMA KeptByStep ==
  ASSUME KeptInv, DrainInv', Lawful, NEW w \in Worker, HandsKept(w),
         pc'[w] = "idle" => credits'[w] = {},
         \A c \in Credit : Watched(c) => PassesOn(w, c) /\ DeletesResolved(w, c)'
  PROVE  KeptInv'
<1>0. TypeOK
  BY DEF KeptInv, DrainInv
<1>1. \A v \in Worker : pc'[v] = "idle" => credits'[v] = {}
  BY DEF KeptInv, HandsKept
<1>2. ASSUME NEW c \in Credit, Watched(c)
      PROVE  /\ \A v \in Worker : DeletesResolved(v, c)'
             /\ sentCredit'[c] > 0 /\ ~batchFailed' => Accounted(c)'
  <2>1. CreditTxn[c] \in Txn
    BY <1>0, <1>2, WatchedFacts
  <2>2. Resolved(CreditTxn[c]) => Resolved(CreditTxn[c])'
    BY <1>0, <2>1, ResolvedStays
  <2>3. ASSUME NEW v \in Worker \ {w} PROVE DeletesResolved(v, c)'
    <3>1. DeletesResolved(v, c)
      BY <1>2 DEF KeptInv, Watched, DeletesResolved
    <3> QED BY <2>2, <3>1 DEF HandsKept, DeletesResolved
  <2>4. ASSUME sentCredit'[c] > 0, ~batchFailed' PROVE Accounted(c)'
    <3>1. CASE sentCredit[c] > 0 /\ ~batchFailed /\ parked[CreditTxn[c]] # c /\ ~Carries(w, c)
      <4>1. Accounted(c)
        BY <1>2, <3>1 DEF KeptInv, Watched
      <4>2. CASE Resolved(CreditTxn[c])
        BY <2>2, <4>2 DEF Accounted
      <4>3. ASSUME NEW v \in Worker, Carries(v, c) PROVE Carries(v, c)'
        BY <3>1, <4>3 DEF HandsKept, Carries
      <4> QED BY <3>1, <4>1, <4>2, <4>3 DEF Accounted
    <3> QED BY <1>2, <2>4, <3>1 DEF PassesOn, Accounted
  <2> QED BY <1>2, <2>3, <2>4
<1>3. ASSUME NEW c \in Credit, Verdict[c] = "success" /\ Solitary(c)
      PROVE  /\ \A v \in Worker : pc'[v] = "delete" /\ cur'[v] = c => Resolved(CreditTxn[c])'
             /\ sentCredit'[c] > 0 /\ ~batchFailed' => Accounted(c)'
  BY <1>2, <1>3 DEF Watched, DeletesResolved
<1> QED BY <1>1, <1>3 DEF KeptInv, Solitary

\* The steps by which a worker moves through its batch.
LEMMA MovesKeepKept ==
  ASSUME KeptInv, DrainInv', Lawful, NEW w \in Worker,
         Take(w) \/ StoreDebits(w) \/ Peek(w) \/ DrainNext(w) \/ DrainDone(w) \/ NextCredit(w)
           \/ BatchDone(w) \/ WriteMisses(w)
  PROVE  KeptInv'
<1> USE DEF TypeOK, Goto, HandsKept, PassesOn, DeletesResolved, Carries, storeVars, sentVars
<1>0. TypeOK
  BY DEF KeptInv, DrainInv
<1>1. CASE Take(w)
  <2>1. PICK D \in SUBSET Txn, C \in SUBSET Credit : TakeBatch(w, D, C)
    BY <1>1 DEF Take
  <2>2. credits[w] = {} /\ pc[w] = "idle"
    BY <2>1 DEF TakeBatch, KeptInv
  <2>3. /\ HandsKept(w) /\ pc'[w] = "upsert" /\ credits'[w] = C
        /\ \A c \in Credit \ C : sentCredit'[c] = sentCredit[c]
        /\ parked' = parked /\ batchFailed' = batchFailed
    BY <1>0, <2>1 DEF TakeBatch
  <2>4. \A c \in Credit : PassesOn(w, c) /\ DeletesResolved(w, c)'
    BY <2>2, <2>3
  <2> QED BY <2>3, <2>4, KeptByStep
<1>2. CASE StoreDebits(w)
  <2>1. /\ HandsKept(w) /\ pc'[w] \in {"next", "peek"} /\ pc[w] = "upsert" /\ credits' = credits
        /\ parked' = parked /\ batchFailed' = batchFailed /\ sentCredit' = sentCredit
    BY <1>0, <1>2 DEF StoreDebits, UpsertDebits
  <2>2. \A c \in Credit : PassesOn(w, c) /\ DeletesResolved(w, c)'
    BY <2>1
  <2> QED BY <2>1, <2>2, KeptByStep
<1>3. CASE Peek(w) \/ DrainDone(w)
  <2>1. /\ HandsKept(w) /\ pc'[w] \in {"drain", "next"} /\ pc[w] \in {"peek", "drain"}
        /\ credits' = credits /\ parked' = parked /\ batchFailed' = batchFailed
        /\ sentCredit' = sentCredit
    BY <1>0, <1>3 DEF Peek, DrainDone
  <2>2. \A c \in Credit : PassesOn(w, c) /\ DeletesResolved(w, c)'
    BY <2>1
  <2> QED BY <2>1, <2>2, KeptByStep
<1>4. CASE DrainNext(w)
  <2>1. /\ HandsKept(w) /\ pc'[w] = "update" /\ pc[w] = "drain"
        /\ credits' = credits /\ parked' = parked /\ batchFailed' = batchFailed
        /\ sentCredit' = sentCredit
    BY <1>0, <1>4 DEF DrainNext
  <2>2. \A c \in Credit : PassesOn(w, c) /\ DeletesResolved(w, c)'
    BY <2>1
  <2> QED BY <2>1, <2>2, KeptByStep
<1>5. CASE NextCredit(w)
  <2>1. PICK d \in credits[w] : credits' = [credits EXCEPT ![w] = @ \ {d}]
                                /\ cur' = [cur EXCEPT ![w] = d]
    BY <1>5 DEF NextCredit
  <2>2. /\ HandsKept(w) /\ pc'[w] = "update" /\ pc[w] = "next" /\ ~curParked'[w]
        /\ credits'[w] = credits[w] \ {d} /\ cur'[w] = d
        /\ parked' = parked /\ batchFailed' = batchFailed /\ sentCredit' = sentCredit
    BY <1>0, <1>5, <2>1 DEF NextCredit
  <2>3. \A c \in Credit : PassesOn(w, c) /\ DeletesResolved(w, c)'
    BY <2>2
  <2> QED BY <2>2, <2>3, KeptByStep
<1>6. CASE BatchDone(w)
  <2>1. /\ HandsKept(w) /\ pc'[w] = "idle" /\ pc[w] = "next" /\ credits[w] = {}
        /\ credits' = credits /\ parked' = parked /\ batchFailed' = batchFailed
        /\ sentCredit' = sentCredit
    BY <1>0, <1>6 DEF BatchDone
  <2>2. \A c \in Credit : PassesOn(w, c) /\ DeletesResolved(w, c)'
    BY <2>1
  <2> QED BY <2>1, <2>2, KeptByStep
<1>7. CASE WriteMisses(w)
  <2>1. /\ HandsKept(w) /\ pc'[w] = "get" /\ pc[w] = "update"
        /\ credits' = credits /\ parked' = parked /\ batchFailed' = batchFailed
        /\ sentCredit' = sentCredit /\ cur' = cur /\ curParked' = curParked
    BY <1>0, <1>7 DEF WriteMisses
  <2>2. \A c \in Credit : PassesOn(w, c) /\ DeletesResolved(w, c)'
    BY <2>1
  <2> QED BY <2>1, <2>2, KeptByStep
<1> QED BY <1>1, <1>2, <1>3, <1>4, <1>5, <1>6, <1>7

\* The write that completes the transaction of a watched success.
LEMMA WriteKeepsKept ==
  ASSUME KeptInv, DrainInv', Lawful, NEW w \in Worker, WriteCredit(w)
  PROVE  KeptInv'
<1>0. TypeOK
  BY DEF KeptInv, DrainInv
<1>1. /\ HandsKept(w) /\ pc[w] = "update" /\ pc'[w] \in {"delete", "next"}
      /\ credits' = credits /\ cur' = cur /\ curParked' = curParked
      /\ batchFailed' = batchFailed /\ sentCredit' = sentCredit /\ parked' = parked
  BY <1>0 DEF WriteCredit, AfterTry, Goto, TypeOK, HandsKept, sentVars, ApplyPartialCredit,
              UpdateStatus
<1>2. ASSUME NEW c \in Credit, Watched(c), cur[w] = c PROVE Resolved(CreditTxn[c])'
  <2>1. UpdateRow(CreditTxn[c], "completed") /\ CreditTxn[c] \in Txn
    BY <1>0, <1>2, WatchedFacts DEF WriteCredit, UpdateStatus
  <2>2. status'[CreditTxn[c]] = "completed"
    BY <1>0, <2>1 DEF UpdateRow, TypeOK, StoreTypeOK
  <2> QED BY <2>2 DEF Resolved, Stored, Absent, IsOpen
<1>3. \A c \in Credit : Watched(c) => PassesOn(w, c) /\ DeletesResolved(w, c)'
  BY <1>1, <1>2 DEF PassesOn, DeletesResolved, Carries
<1> QED BY <1>1, <1>3, KeptByStep

\* A watched success whose write found nothing is tried again, was resolved by
\* another writer, or goes to be parked.
LEMMA ClassifyKeepsKept ==
  ASSUME KeptInv, DrainInv', Lawful, NEW w \in Worker, Classify(w)
  PROVE  KeptInv'
<1>0. TypeOK
  BY DEF KeptInv, DrainInv
<1>1. /\ HandsKept(w) /\ pc[w] = "get" /\ pc'[w] \in {"update", "delete", "next", "drain", "park"}
      /\ credits' = credits /\ cur' = cur /\ curParked' = curParked /\ status' = status
      /\ batchFailed' = batchFailed /\ sentCredit' = sentCredit /\ parked' = parked
  BY <1>0 DEF Classify, ClassifyPartial, ClassifyTransition, RetryWrite, AfterTry, Goto, TypeOK,
              HandsKept, sentVars, storeVars
<1>2. ASSUME NEW c \in Credit, Watched(c), cur[w] = c
      PROVE  Resolved(CreditTxn[c])' \/ pc'[w] = "update"
             \/ pc'[w] = "park" \/ (curParked[w] /\ pc'[w] = "drain")
  <2>1. ClassifyTransition(w) /\ TargetStatus(Verdict[cur[w]]) = "completed" /\ CreditTxn[c] \in Txn
    BY <1>0, <1>2, WatchedFacts DEF Classify, ClassifyPartial
  <2>2. CASE RetryWrite(w)
    BY <1>0, <2>2 DEF RetryWrite, Goto, TypeOK
  <2>3. CASE ~CanTransition(status[CreditTxn[c]], "completed")
             /\ Goto(w, AfterTry(w, Stored(CreditTxn[c])))
    <3>1. pc'[w] = AfterTry(w, Stored(CreditTxn[c]))
      BY <1>0, <2>3 DEF Goto, TypeOK
    <3>2. CASE Stored(CreditTxn[c])
      BY <1>1, <2>3, <3>2, OpenEdges DEF Resolved, Stored
    <3>3. CASE ~Stored(CreditTxn[c])
      BY <3>1, <3>3 DEF AfterTry
    <3> QED BY <3>2, <3>3
  <2> QED BY <1>2, <2>1, <2>2, <2>3 DEF ClassifyTransition
<1>3. \A c \in Credit : Watched(c) => PassesOn(w, c) /\ DeletesResolved(w, c)'
  BY <1>1, <1>2 DEF PassesOn, DeletesResolved, Carries
<1> QED BY <1>1, <1>3, KeptByStep

\* Nothing else can be in a watched success's place in pending_credits, and it is
\* deleted from there once it is resolved.
LEMMA ParkKeepsKept ==
  ASSUME KeptInv, DrainInv', Lawful, NEW w \in Worker, Park(w) \/ Delete(w)
  PROVE  KeptInv'
<1>0. TypeOK
  BY DEF KeptInv, DrainInv
<1>1. /\ HandsKept(w) /\ pc'[w] \in {"peek", "drain"} /\ pc[w] \in {"park", "delete"}
      /\ credits' = credits /\ cur' = cur /\ curParked' = curParked /\ status' = status
      /\ batchFailed' = batchFailed /\ sentCredit' = sentCredit
      /\ cur[w] \in Credit /\ CreditTxn[cur[w]] \in Txn
  BY <1>0, StoreAssumption DEF Park, Delete, ParkCredit, DeleteParkedCredit, Goto, TypeOK,
                               HandsKept, sentVars
<1>2. CASE Park(w)
  <2>1. /\ pc[w] = "park"
        /\ parked' = [parked EXCEPT ![CreditTxn[cur[w]]] = IF @ = NoCredit THEN cur[w] ELSE @]
    BY <1>2 DEF Park, ParkCredit
  <2>2. ASSUME NEW c \in Credit, Watched(c), cur[w] = c \/ parked[CreditTxn[c]] = c
        PROVE  parked'[CreditTxn[c]] = c
    <3>1. /\ c # NoCredit /\ CreditTxn[c] \in Txn
          /\ \A d \in Credit : CreditTxn[d] = CreditTxn[c] => d = c
      BY <1>0, <2>2, WatchedFacts
    <3>2. parked[CreditTxn[c]] # NoCredit => parked[CreditTxn[c]] = c
      <4>1. \A t \in Txn : parked[t] # NoCredit => CreditTxn[parked[t]] = t
        BY DEF KeptInv, DrainInv, ParkedIsOwn
      <4>2. parked \in [Txn -> Credit \cup {NoCredit}]
        BY <1>0 DEF TypeOK, StoreTypeOK
      <4> QED BY <3>1, <4>1, <4>2
    <3>3. cur[w] = c => parked'[CreditTxn[c]] = c
      BY <1>0, <2>1, <3>1, <3>2 DEF TypeOK, StoreTypeOK
    <3>4. parked[CreditTxn[c]] = c => parked'[CreditTxn[c]] = c
      BY <1>0, <1>1, <2>1, <3>1 DEF TypeOK, StoreTypeOK
    <3> QED BY <2>2, <3>3, <3>4
  <2>3. \A c \in Credit : Watched(c) => PassesOn(w, c) /\ DeletesResolved(w, c)'
    BY <1>1, <2>1, <2>2 DEF PassesOn, DeletesResolved, Carries
  <2> QED BY <1>1, <2>3, KeptByStep
<1>3. CASE Delete(w)
  <2>1. pc[w] = "delete" /\ parked' = [parked EXCEPT ![CreditTxn[cur[w]]] = NoCredit]
    BY <1>3 DEF Delete, DeleteParkedCredit
  <2>2. ASSUME NEW c \in Credit, Watched(c), parked[CreditTxn[c]] = c
        PROVE  parked'[CreditTxn[c]] = c \/ Resolved(CreditTxn[c])'
    <3>1. /\ CreditTxn[c] \in Txn
          /\ \A d \in Credit : CreditTxn[d] = CreditTxn[c] => d = c
      BY <1>0, <2>2, WatchedFacts
    <3>2. CASE CreditTxn[cur[w]] = CreditTxn[c]
      <4>1. cur[w] = c
        BY <1>1, <3>1, <3>2
      <4>2. Resolved(CreditTxn[c])
        BY <2>1, <2>2, <4>1 DEF KeptInv, Watched
      <4> QED BY <1>1, <4>2 DEF Resolved, Stored
    <3>3. CASE CreditTxn[cur[w]] # CreditTxn[c]
      BY <1>0, <2>1, <2>2, <3>1, <3>3 DEF TypeOK, StoreTypeOK
    <3> QED BY <3>2, <3>3
  <2>3. \A c \in Credit : Watched(c) => PassesOn(w, c) /\ DeletesResolved(w, c)'
    BY <1>1, <2>1, <2>2 DEF PassesOn, DeletesResolved, Carries
  <2> QED BY <1>1, <2>3, KeptByStep
<1> QED BY <1>2, <1>3

\* Every step keeps account of the watched successes.
LEMMA KeptInvStep == KeptInv /\ [Next]_vars => KeptInv'
<1> SUFFICES ASSUME KeptInv, [Next]_vars PROVE KeptInv'
  OBVIOUS
<1>0. TypeOK /\ TypeOK' /\ DrainInv'
  BY TypeOKStep, DrainInvStep DEF KeptInv, DrainInv
<1>1. CASE UNCHANGED vars
  <2>1. DrainInv'
    BY <1>0
  <2> QED BY <1>1, <2>1 DEF KeptInv, Solitary, Accounted, Carries, Resolved, Stored, vars,
                            storeVars, workVars, sentVars
<1>2. CASE Next
  <2>1. Lawful
    BY <1>0, <1>2, StepIsLawful
  <2>2. ASSUME NEW w \in Worker, GiveUp(w) \/ FailBatch(w) PROVE KeptInv'
    <3>1. Abandon(w)
      BY <2>2 DEF GiveUp, FailBatch
    <3>2. HandsKept(w) /\ pc'[w] = "idle" /\ credits'[w] = {} /\ batchFailed'
      BY <1>0, <3>1 DEF Abandon, Goto, HandsKept, TypeOK
    <3>3. \A c \in Credit : Watched(c) => PassesOn(w, c) /\ DeletesResolved(w, c)'
      BY <3>2 DEF PassesOn, DeletesResolved
    <3> QED BY <1>0, <2>1, <3>2, <3>3, KeptByStep
  <2>3. ASSUME NEW w \in Worker, Take(w) \/ Step(w) \/ FailBatch(w) PROVE KeptInv'
    BY <1>0, <2>1, <2>2, <2>3, MovesKeepKept, WriteKeepsKept, ClassifyKeepsKept, ParkKeepsKept
       DEF Step
  <2>4. CASE Outside
    <3>1. UNCHANGED <<parked, workVars, sentVars, batchFailed>>
      BY <2>4 DEF Outside, SweepClaims, ClaimExpired, Mark, UpdateStatus
    <3>2. \A w \in Worker, c \in Credit : Carries(w, c)' <=> Carries(w, c)
      BY <3>1 DEF Carries, workVars
    <3>3. \A c \in Credit : Watched(c) /\ Resolved(CreditTxn[c]) => Resolved(CreditTxn[c])'
      BY <1>0, <2>1, WatchedFacts, ResolvedStays
    <3>4. \A c \in Credit : Watched(c) /\ Accounted(c) => Accounted(c)'
      BY <3>1, <3>2, <3>3 DEF Accounted
    <3>5. \A w \in Worker : pc'[w] = "idle" => credits'[w] = {}
      BY <3>1 DEF KeptInv, workVars
    <3>6. ASSUME NEW c \in Credit, Verdict[c] = "success" /\ Solitary(c)
          PROVE  /\ \A w \in Worker : pc'[w] = "delete" /\ cur'[w] = c => Resolved(CreditTxn[c])'
                 /\ sentCredit'[c] > 0 /\ ~batchFailed' => Accounted(c)'
      BY <3>1, <3>3, <3>4, <3>6 DEF KeptInv, Watched, workVars, sentVars
    <3> QED BY <1>0, <3>5, <3>6 DEF KeptInv, Solitary
  <2> QED BY <1>2, <2>3, <2>4 DEF Next
<1> QED BY <1>1, <1>2

\* Where a success is its transaction's only credit and states no amount, it is not
\* forgotten: once every worker is through with its batches and none has failed, each
\* delivered one has resolved its transaction, however it was retried, parked and
\* drained (Apply, tryApply, drainParked).
THEOREM LoneSuccessNotForgotten == Spec => []MoneyNotForgotten
<1>1. Init => KeptInv
  <2> SUFFICES ASSUME Init PROVE KeptInv
    OBVIOUS
  <2>1. DrainInv
    BY TypeOKInit DEF Init, StoreInit, DrainInv, ParkedIsOwn, WorkerInv, NoStrandedPark
  <2> QED BY <2>1 DEF Init, KeptInv
<1>2. KeptInv => MoneyNotForgotten
  <2> SUFFICES ASSUME KeptInv, Quiet, ~batchFailed,
                      NEW c \in Credit, Solitary(c), sentCredit[c] > 0, Verdict[c] = "success",
                      IsOpen(status[CreditTxn[c]])
               PROVE  FALSE
    BY DEF MoneyNotForgotten
  <2>1. Accounted(c) /\ CreditTxn[c] \in Txn
    BY StoreAssumption DEF KeptInv
  <2>2. ~Resolved(CreditTxn[c]) /\ Stored(CreditTxn[c])
    BY AbsentFacts DEF Resolved, Stored
  <2>3. \A w \in Worker : ~Carries(w, c)
    BY DEF Quiet, Carries, KeptInv
  <2>4. parked[CreditTxn[c]] # NoCredit
    BY <2>1, <2>2, <2>3, StoreAssumption DEF Accounted
  <2>5. \E w \in Worker : Responsible(w, CreditTxn[c])
    BY <2>1, <2>2, <2>4 DEF KeptInv, DrainInv, NoStrandedPark
  <2> QED BY <2>5 DEF Responsible, Quiet
<1> QED BY <1>1, <1>2, KeptInvStep, PTL DEF Spec
=============================================================================
