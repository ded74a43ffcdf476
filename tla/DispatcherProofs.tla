-------------------------- MODULE DispatcherProofs --------------------------
(***************************************************************************)
(* What the dispatcher says of a transaction, who attempts a delivery and  *)
(* how often, and how the transaction's status moves meanwhile, for every  *)
(* number of deliveries, transactions and replicas, every retry schedule   *)
(* and every batch size.                                                   *)
(***************************************************************************)
EXTENDS Dispatcher, DataLemmas

\* A goroutine flags a reversal only after it has written the dead letter.
FlagHasDeadLetter ==
  \A r \in Replica, d \in Delivery :
    flight[r][d].stage = "flag" => d \in lettered /\ IsReversal[d]

FlightType ==
  /\ flight \in [Replica -> [Delivery -> Flight]]
  /\ attempts \in [Delivery -> Nat]

StatusType == DOMAIN status = Txn

FailedInv == FlightType /\ StatusType /\ FlagHasDeadLetter /\ FailedHasDeadLetter

\* Where nothing newly failed, what is said of transactions stays true.
LEMMA NothingNewFails ==
  ASSUME FailedInv, DOMAIN status' = Txn, lettered \subseteq lettered',
         \A t \in Txn : status'[t] = "reversal_failed" => status[t] = "reversal_failed"
  PROVE  StatusType' /\ FailedHasDeadLetter'
BY DEF FailedInv, StatusType, FailedHasDeadLetter

\* A guarded UPDATE to another status fails no transaction, whether it matches
\* or is refused.
LEMMA MarkFailsNothing ==
  ASSUME StatusType, NEW t \in Txn, NEW target, target # "reversal_failed",
         UpdateRow(t, target) \/ TryMark(t, target)
  PROVE  /\ DOMAIN status' = Txn
         /\ \A u \in Txn : status'[u] = "reversal_failed" => status[u] = "reversal_failed"
BY DEF StatusType, UpdateRow, TryMark

LEMMA FailedInvInit == Init => FailedInv
BY DEF Init, FailedInv, FlightType, StatusType, FlagHasDeadLetter, FailedHasDeadLetter,
       Flight, Landed

\* Steps that leave the goroutines alone.
LEMMA NoFlightMoves ==
  ASSUME FailedInv, UNCHANGED <<flight, lettered>>, attempts' \in [Delivery -> Nat],
         DOMAIN status' = Txn,
         \A t \in Txn : status'[t] = "reversal_failed" => status[t] = "reversal_failed"
  PROVE  FailedInv'
<1>1. StatusType' /\ FailedHasDeadLetter'
  BY NothingNewFails DEF FailedInv
<1> QED BY <1>1 DEF FailedInv, FlightType, FlagHasDeadLetter

\* A round starts with every goroutine holding a row it is about to attempt.
LEMMA ClaimKeepsFailedInv ==
  ASSUME FailedInv, NEW r \in Replica, ClaimDueDeliveries(r)
  PROVE  FailedInv'
<1>1. FlightType'
  BY DEF ClaimDueDeliveries, FailedInv, FlightType, Flight, Landed
<1>2. FlagHasDeadLetter'
  BY DEF ClaimDueDeliveries, FailedInv, FlightType, FlagHasDeadLetter, Landed
<1>3. StatusType' /\ FailedHasDeadLetter'
  BY DEF ClaimDueDeliveries, FailedInv, StatusType, FailedHasDeadLetter
<1> QED BY <1>1, <1>2, <1>3 DEF FailedInv

\* An answer is decided on, not flagged.
LEMMA SendKeepsFailedInv ==
  ASSUME FailedInv, NEW r \in Replica, NEW d \in Delivery, Send(r, d)
  PROVE  FailedInv'
<1>1. PICK result \in Results :
        flight' = [flight EXCEPT ![r][d].stage = Decide(flight[r][d].attempt, result)]
  BY DEF Send
<1>2. Decide(flight[r][d].attempt, result) \in {"delivered", "pending", "dead_letter"}
  BY DEF Decide
<1>3. FlightType'
  BY <1>1, <1>2 DEF Send, queueVars, FailedInv, FlightType, Flight
<1>4. FlagHasDeadLetter'
  BY <1>1, <1>2 DEF Send, queueVars, FailedInv, FlightType, FlagHasDeadLetter, Flight
<1>5. StatusType' /\ FailedHasDeadLetter'
  BY DEF Send, queueVars, FailedInv, StatusType, FailedHasDeadLetter
<1> QED BY <1>3, <1>4, <1>5 DEF FailedInv

\* The dead letter is written by the step that makes the goroutine flag; where
\* the row is gone, neither happens.
LEMMA OutcomeKeepsFailedInv ==
  ASSUME FailedInv, NEW r \in Replica, NEW d \in Delivery, RecordDeliveryOutcome(r, d)
  PROVE  FailedInv'
<1>1. CASE st[d] = "deleted"
  <2>1. flight' = [flight EXCEPT ![r][d] = Landed] /\ UNCHANGED <<status, attempts, lettered>>
    BY <1>1 DEF RecordDeliveryOutcome, WriteOutcome, queueVars
  <2>2. FlightType' /\ FlagHasDeadLetter'
    BY <2>1 DEF FailedInv, FlightType, FlagHasDeadLetter, Flight, Landed
  <2> QED BY <2>1, <2>2 DEF FailedInv, StatusType, FailedHasDeadLetter
<1>2. CASE st[d] # "deleted"
  <2> DEFINE outcome == flight[r][d].stage
  <2>1. /\ lettered' = IF outcome = "dead_letter" THEN lettered \cup {d} ELSE lettered
        /\ flight' = [flight EXCEPT ![r][d] =
             IF outcome = "dead_letter" /\ IsReversal[d] THEN [@ EXCEPT !.stage = "flag"]
                                                       ELSE Landed]
        /\ UNCHANGED status
    BY <1>2 DEF RecordDeliveryOutcome, WriteOutcome
  <2>2. attempts' \in [Delivery -> Nat]
    BY <1>2 DEF RecordDeliveryOutcome, WriteOutcome, FailedInv, FlightType
  <2> DEFINE next == IF outcome = "dead_letter" /\ IsReversal[d]
                       THEN [flight[r][d] EXCEPT !.stage = "flag"] ELSE Landed
  <2>3. flight' = [flight EXCEPT ![r][d] = next]
    BY <2>1
  <2>4. next \in Flight
    <3>1. flight[r][d] \in Flight
      BY DEF FailedInv, FlightType
    <3> QED BY <3>1 DEF Flight, Landed
  <2>5. FlightType'
    <3> HIDE DEF next
    <3> QED BY <2>3, <2>4, <2>2 DEF FailedInv, FlightType
  <2>6. FlagHasDeadLetter'
    BY <2>1 DEF FailedInv, FlightType, FlagHasDeadLetter, Flight, Landed
  <2>7. StatusType' /\ FailedHasDeadLetter'
    BY <2>1, NothingNewFails DEF FailedInv, StatusType
  <2> QED BY <2>5, <2>6, <2>7 DEF FailedInv
<1> QED BY <1>1, <1>2

\* The only step after which a transaction has newly failed.
LEMMA FlagKeepsFailedInv ==
  ASSUME FailedInv, NEW r \in Replica, NEW d \in Delivery, FlagReversal(r, d),
         DispatcherAssumption
  PROVE  FailedInv'
<1>1. d \in lettered /\ IsReversal[d] /\ DeliveryTxn[d] \in Txn
  BY DEF FlagReversal, FailedInv, FlagHasDeadLetter, DispatcherAssumption
<1>2. FlightType' /\ FlagHasDeadLetter'
  BY DEF FlagReversal, queueVars, FailedInv, FlightType, FlagHasDeadLetter, Flight, Landed
<1>3. /\ DOMAIN status' = Txn
      /\ \A t \in Txn : t # DeliveryTxn[d] => status'[t] = status[t]
  BY <1>1 DEF FlagReversal, TryMark, UpdateRow, FailedInv, StatusType
<1>4. FailedHasDeadLetter'
  <2> SUFFICES ASSUME NEW t \in Txn, status'[t] = "reversal_failed"
               PROVE  \E x \in lettered : DeliveryTxn[x] = t /\ IsReversal[x]
    BY DEF FailedHasDeadLetter, FlagReversal, queueVars
  <2>1. CASE t = DeliveryTxn[d]
    BY <1>1, <2>1
  <2>2. CASE t # DeliveryTxn[d]
    BY <1>3, <2>2 DEF FailedInv, FailedHasDeadLetter
  <2> QED BY <2>1, <2>2
<1> QED BY <1>2, <1>3, <1>4 DEF FailedInv, StatusType

\* A goroutine that ends where it is has nothing left to flag.
LEMMA FailKeepsFailedInv ==
  ASSUME FailedInv, NEW r \in Replica, NEW d \in Delivery, Fail(r, d)
  PROVE  FailedInv'
<1>1. FlightType' /\ FlagHasDeadLetter'
  BY DEF Fail, queueVars, FailedInv, FlightType, FlagHasDeadLetter, Flight, Landed
<1> QED
  BY <1>1 DEF Fail, queueVars, FailedInv, StatusType, FailedHasDeadLetter

\* The sweep, customers, operators and time.
LEMMA EnvironmentKeepsFailedInv ==
  ASSUME FailedInv, Environment
  PROVE  FailedInv'
<1>0. StatusType /\ attempts \in [Delivery -> Nat]
  BY DEF FailedInv, FlightType
<1>1. ASSUME NEW d \in Delivery,
             EnqueueDelivery(d) \/ Lapse(d) \/ SetEndpointEnabled(d) \/ DeleteEndpoint(d)
      PROVE  FailedInv'
  BY <1>0, <1>1, NoFlightMoves
     DEF EnqueueDelivery, Lapse, SetEndpointEnabled, DeleteEndpoint, queueVars, StatusType
<1>2. ASSUME NEW d \in Delivery, ReplayDelivery(d) PROVE FailedInv'
  BY <1>0, <1>2, NoFlightMoves DEF ReplayDelivery, StatusType
<1>3. ASSUME NEW t \in Txn, MarkReversalPending(t) PROVE FailedInv'
  BY <1>0, <1>3, NoFlightMoves, MarkFailsNothing DEF MarkReversalPending, queueVars
<1>4. ASSUME NEW t \in Txn, MarkReversalCompleted(t) PROVE FailedInv'
  BY <1>0, <1>4, NoFlightMoves, MarkFailsNothing DEF MarkReversalCompleted, queueVars
<1>5. ASSUME NEW t \in Txn, CreditArrives(t) PROVE FailedInv'
  BY <1>0, <1>5, NoFlightMoves, MarkFailsNothing DEF CreditArrives, queueVars
<1> QED BY <1>1, <1>2, <1>3, <1>4, <1>5 DEF Environment

LEMMA FailedInvStep == FailedInv /\ [Next]_vars => FailedInv'
<1> SUFFICES ASSUME FailedInv, [Next]_vars PROVE FailedInv'
  OBVIOUS
<1>1. ASSUME NEW r \in Replica, Work(r) PROVE FailedInv'
  BY <1>1, ClaimKeepsFailedInv, SendKeepsFailedInv, OutcomeKeepsFailedInv,
     FlagKeepsFailedInv, DispatcherAssumption DEF Work
<1>2. ASSUME NEW r \in Replica, NEW d \in Delivery, Fail(r, d) PROVE FailedInv'
  BY <1>2, FailKeepsFailedInv
<1>3. CASE Environment
  BY <1>3, EnvironmentKeepsFailedInv
<1>4. CASE UNCHANGED vars
  BY <1>4 DEF vars, queueVars, FailedInv, FlightType, StatusType, FlagHasDeadLetter,
              FailedHasDeadLetter
<1> QED BY <1>1, <1>2, <1>3, <1>4 DEF Next

\* A transaction is said to have failed only if a reversal of it was
\* dead-lettered, also with leases that lapse under a running attempt, with
\* replays, lost goroutines and endpoints that are deleted.
THEOREM FailedIsDeadLettered == Spec => []FailedHasDeadLetter
<1>1. FailedInv => FailedHasDeadLetter
  BY DEF FailedInv
<1> QED BY <1>1, FailedInvInit, FailedInvStep, PTL DEF Spec

-----------------------------------------------------------------------------
(* Rows left in order *)

\* Without keeps rows of the sequence only, and none of those it is without.
LEMMA WithoutRows ==
  ASSUME NEW R, NEW s \in Seq(R), NEW D
  PROVE  /\ Without(s, D) \in Seq(R)
         /\ \A i \in 1..Len(Without(s, D)) :
              Without(s, D)[i] \notin D /\ Contains(s, Without(s, D)[i])
<1> DEFINE w == Without(s, D)
<1>1. w \in Seq(R) /\ Elements(w) = Elements(s) \ D
  BY WithoutIs
<1> HIDE DEF w
<1>2. ASSUME NEW i \in 1..Len(w) PROVE w[i] \notin D /\ Contains(s, w[i])
  <2>1. w[i] \in Elements(s) \ D
    BY <1>1, <1>2 DEF Elements
  <2> QED BY <2>1 DEF Elements, Contains
<1> QED BY <1>1, <1>2 DEF w

\* A row that becomes due is the last of the due rows.
LEMMA AppendRows ==
  ASSUME NEW R, NEW s \in Seq(R), NEW x \in R
  PROVE  /\ Append(s, x) \in Seq(R)
         /\ \A i \in 1..Len(Append(s, x)) : Append(s, x)[i] = x \/ Contains(s, Append(s, x)[i])
BY DEF Contains

-----------------------------------------------------------------------------
(* Leases *)

\* An attempt is running, or its outcome is not yet written.
Holds(r, d) == flight[r][d].stage \notin {"none", "flag"}

LeaseTypes ==
  /\ FlightType
  /\ st \in [Delivery -> DeliveryStatuses]
  /\ ready \in Seq(Delivery)

\* What an attempt holds is leased, and the attempt it counts is the row's, but
\* for a row that has been deleted under it.
HeldIsLeased ==
  \A d \in Delivery, r \in Replica : Holds(r, d) =>
    /\ st[d] \in {"pending", "deleted"} /\ ~Contains(ready, d)
    /\ st[d] = "pending" => flight[r][d].attempt = attempts[d]
    /\ flight[r][d].stage = "pending" => flight[r][d].attempt + 1 < MaxAttempts

DueIsPending == \A i \in 1..Len(ready) : st[ready[i]] = "pending"

\* A pending row has an attempt left.
AttemptLeft ==
  \A d \in Delivery :
    /\ attempts[d] <= MaxAttempts
    /\ st[d] = "none" => attempts[d] = 0
    /\ st[d] = "pending" => attempts[d] < MaxAttempts

LeaseInv ==
  LeaseTypes /\ OneAttemptAtATime /\ HeldIsLeased /\ DueIsPending /\ AttemptLeft

LEMMA LeaseInvInit == Init => LeaseInv
<1> SUFFICES ASSUME Init PROVE LeaseInv
  OBVIOUS
<1>1. LeaseTypes
  BY DEF Init, LeaseTypes, FlightType, Flight, Landed, DeliveryStatuses
<1>2. OneAttemptAtATime /\ HeldIsLeased
  BY DEF Init, OneAttemptAtATime, HeldIsLeased, Holds, Landed
<1>3. DueIsPending
  BY DEF Init, DueIsPending
<1>4. AttemptLeft
  BY DispatcherAssumption DEF Init, AttemptLeft, DispatcherAssumption
<1> QED BY <1>1, <1>2, <1>3, <1>4 DEF LeaseInv

\* Nothing of the queue moves.
LEMMA QueueRests ==
  ASSUME LeaseInv, UNCHANGED <<queueVars, flight>>
  PROVE  LeaseInv'
BY DEF LeaseInv, LeaseTypes, FlightType, OneAttemptAtATime, HeldIsLeased, Holds, DueIsPending,
       AttemptLeft, queueVars

\* A row that nobody holds becomes due: it is new, its time has come, or an
\* operator replays it.
LEMMA BecomesDue ==
  ASSUME LeaseInv, NEW d \in Delivery, \A r \in Replica : ~Holds(r, d),
         ready' = Append(ready, d), st' = [st EXCEPT ![d] = "pending"],
         NEW n \in Nat, n < MaxAttempts, attempts' = [attempts EXCEPT ![d] = n],
         UNCHANGED flight
  PROVE  LeaseInv'
<1> DispatcherAssumption
  BY DispatcherAssumption
<1>1. LeaseTypes'
  BY AppendRows DEF LeaseInv, LeaseTypes, FlightType, DeliveryStatuses
<1>2. OneAttemptAtATime'
  BY DEF LeaseInv, OneAttemptAtATime
<1>3. \A i \in 1..Len(ready') : ready'[i] = d \/ Contains(ready, ready'[i])
  BY AppendRows DEF LeaseInv, LeaseTypes
<1>4. HeldIsLeased'
  <2> SUFFICES ASSUME NEW x \in Delivery, NEW r \in Replica, Holds(r, x)'
               PROVE  /\ st'[x] \in {"pending", "deleted"} /\ ~Contains(ready', x)
                      /\ st'[x] = "pending" => flight[r][x].attempt = attempts'[x]
                      /\ flight[r][x].stage = "pending"
                           => flight[r][x].attempt + 1 < MaxAttempts
    BY DEF HeldIsLeased
  <2>1. Holds(r, x) /\ x # d
    BY DEF Holds
  <2>2. ~Contains(ready', x)
    BY <2>1, <1>3 DEF LeaseInv, HeldIsLeased, Contains
  <2> QED BY <2>1, <2>2 DEF LeaseInv, LeaseTypes, FlightType, HeldIsLeased
<1>5. DueIsPending'
  BY <1>1, <1>3 DEF LeaseInv, LeaseTypes, DueIsPending, Contains
<1>6. AttemptLeft'
  BY DEF LeaseInv, LeaseTypes, FlightType, AttemptLeft, DispatcherAssumption
<1> QED BY <1>1, <1>2, <1>4, <1>5, <1>6 DEF LeaseInv

\* Each of the due rows that a round takes is held by nobody, and leased with the
\* attempt that is next.
LEMMA ClaimLeases ==
  ASSUME LeaseInv, NEW r \in Replica, ClaimDueDeliveries(r)
  PROVE  LeaseInv'
<1> DispatcherAssumption
  BY DispatcherAssumption
<1> DEFINE T == Take(ready, Limit)
           claimed == {T[i] : i \in 1..Len(T)} \ disabled
<1>1. /\ \A d \in Delivery : flight[r][d].stage = "none"
      /\ ready' = Without(ready, claimed)
      /\ flight' = [flight EXCEPT ![r] =
           [d \in Delivery |-> IF d \in claimed
                                 THEN [stage |-> "claimed", attempt |-> attempts[d]]
                                 ELSE Landed]]
      /\ UNCHANGED <<st, attempts>>
  BY DEF ClaimDueDeliveries
<1>2. \A d \in claimed : d \in Delivery /\ Contains(ready, d)
  <2>1. ready \in Seq(Delivery) /\ Limit \in Nat \ {0}
    BY DEF LeaseInv, LeaseTypes, DispatcherAssumption
  <2>2. Len(T) <= Len(ready) /\ \A i \in 1..Len(T) : T[i] = ready[i]
    BY <2>1 DEF Take
  <2> QED BY <2>1, <2>2 DEF Contains
<1> HIDE DEF T, claimed
<1>3. \A d \in claimed : st[d] = "pending" /\ \A q \in Replica : ~Holds(q, d)
  BY <1>2 DEF LeaseInv, HeldIsLeased, DueIsPending, Contains
<1>4. /\ ready' \in Seq(Delivery)
      /\ \A i \in 1..Len(ready') : ready'[i] \notin claimed /\ Contains(ready, ready'[i])
  BY <1>1, WithoutRows DEF LeaseInv, LeaseTypes
<1>5. LeaseTypes'
  BY <1>1, <1>4 DEF LeaseInv, LeaseTypes, FlightType, Flight, Landed
<1>6. \A q \in Replica, d \in Delivery : Holds(q, d)' =>
        IF q = r
          THEN d \in claimed /\ flight'[q][d] = [stage |-> "claimed", attempt |-> attempts[d]]
          ELSE Holds(q, d) /\ flight'[q][d] = flight[q][d]
  <2>1. \A d \in Delivery :
          flight'[r][d] = IF d \in claimed THEN [stage |-> "claimed", attempt |-> attempts[d]]
                                           ELSE Landed
    BY <1>1 DEF LeaseInv, LeaseTypes, FlightType
  <2>2. \A q \in Replica : q # r => flight'[q] = flight[q]
    BY <1>1 DEF LeaseInv, LeaseTypes, FlightType
  <2> QED BY <2>1, <2>2 DEF Holds, Landed
<1>7. OneAttemptAtATime'
  <2>1. \A q, p \in Replica, d \in Delivery : Holds(q, d) /\ Holds(p, d) => q = p
    BY DEF LeaseInv, OneAttemptAtATime, Holds
  <2>2. \A q, p \in Replica, d \in Delivery : Holds(q, d)' /\ Holds(p, d)' => q = p
    <3> SUFFICES ASSUME NEW q \in Replica, NEW p \in Replica, NEW d \in Delivery,
                        Holds(q, d)', Holds(p, d)'
                 PROVE  q = p
      OBVIOUS
    <3>1. CASE d \in claimed
      BY <3>1, <1>3, <1>6
    <3>2. CASE d \notin claimed
      BY <3>2, <1>6, <2>1
    <3> QED BY <3>1, <3>2
  <2> QED BY <2>2 DEF OneAttemptAtATime, Holds
<1>8. HeldIsLeased'
  <2> SUFFICES ASSUME NEW d \in Delivery, NEW q \in Replica, Holds(q, d)'
               PROVE  /\ st[d] \in {"pending", "deleted"} /\ ~Contains(ready', d)
                      /\ st[d] = "pending" => flight'[q][d].attempt = attempts[d]
                      /\ flight'[q][d].stage = "pending"
                           => flight'[q][d].attempt + 1 < MaxAttempts
    BY <1>1 DEF HeldIsLeased
  <2>1. CASE q = r
    <3>1. d \in claimed
      BY <2>1, <1>6
    <3>2. ~Contains(ready', d)
      BY <3>1, <1>4 DEF Contains
    <3>3. flight'[q][d] = [stage |-> "claimed", attempt |-> attempts[d]]
      BY <2>1, <1>6
    <3> QED BY <3>1, <3>2, <3>3, <1>3
  <2>2. CASE q # r
    <3>1. Holds(q, d) /\ flight'[q][d] = flight[q][d]
      BY <2>2, <1>6
    <3>2. ~Contains(ready, d)
      BY <3>1 DEF LeaseInv, HeldIsLeased
    <3>3. ~Contains(ready', d)
      BY <3>2, <1>4 DEF Contains
    <3> QED BY <3>1, <3>3 DEF LeaseInv, HeldIsLeased
  <2> QED BY <2>1, <2>2
<1>9. DueIsPending'
  BY <1>1, <1>4 DEF LeaseInv, DueIsPending, Contains
<1>10. AttemptLeft'
  BY <1>1 DEF LeaseInv, AttemptLeft
<1> QED BY <1>5, <1>7, <1>8, <1>9, <1>10 DEF LeaseInv

\* An answer is retried only while the schedule has an attempt left.
LEMMA SendKeepsLease ==
  ASSUME LeaseInv, NEW r \in Replica, NEW d \in Delivery, Send(r, d)
  PROVE  LeaseInv'
<1> DispatcherAssumption
  BY DispatcherAssumption
<1>1. PICK result \in Results :
        flight' = [flight EXCEPT ![r][d].stage = Decide(flight[r][d].attempt, result)]
  BY DEF Send
<1> DEFINE stage == Decide(flight[r][d].attempt, result)
<1>2. /\ stage \in {"delivered", "pending", "dead_letter"}
      /\ stage = "pending" => flight[r][d].attempt + 1 < MaxAttempts
  BY DEF Decide, ShouldRetry
<1>3. flight' = [flight EXCEPT ![r][d].stage = stage]
  BY <1>1
<1> HIDE DEF stage
<1>4. UNCHANGED <<st, attempts, ready>> /\ flight[r][d].stage = "claimed"
  BY DEF Send, queueVars
<1>5. LeaseTypes'
  <2> DEFINE next == [flight[r][d] EXCEPT !.stage = stage]
  <2>0. flight[r][d] \in Flight
    BY DEF LeaseInv, LeaseTypes, FlightType
  <2>1. next \in Flight
    BY <2>0, <1>2 DEF Flight
  <2>2. flight' = [flight EXCEPT ![r][d] = next]
    BY <1>3 DEF LeaseInv, LeaseTypes, FlightType
  <2> HIDE DEF next
  <2> QED BY <2>1, <2>2, <1>4 DEF LeaseInv, LeaseTypes, FlightType
<1>6. \A q \in Replica, x \in Delivery :
        /\ Holds(q, x)' <=> Holds(q, x)
        /\ flight'[q][x].attempt = flight[q][x].attempt
        /\ flight'[q][x].stage = IF q = r /\ x = d THEN stage ELSE flight[q][x].stage
  BY <1>2, <1>3, <1>4 DEF LeaseInv, LeaseTypes, FlightType, Flight, Holds
<1>7. OneAttemptAtATime'
  BY <1>6 DEF LeaseInv, OneAttemptAtATime, Holds
<1>8. HeldIsLeased'
  BY <1>2, <1>4, <1>6 DEF LeaseInv, HeldIsLeased
<1>9. DueIsPending' /\ AttemptLeft'
  BY <1>4 DEF LeaseInv, DueIsPending, AttemptLeft
<1> QED BY <1>5, <1>7, <1>8, <1>9 DEF LeaseInv

\* An attempt lets go of its row.
LEMMA LetsGo ==
  ASSUME LeaseInv, NEW r \in Replica, NEW d \in Delivery, NEW next \in Flight,
         next.stage \in {"none", "flag"}, flight' = [flight EXCEPT ![r][d] = next],
         UNCHANGED <<st, attempts, ready>>
  PROVE  LeaseInv'
<1>1. LeaseTypes'
  BY DEF LeaseInv, LeaseTypes, FlightType
<1>2. \A q \in Replica, x \in Delivery :
        Holds(q, x)' => Holds(q, x) /\ flight'[q][x] = flight[q][x]
  BY DEF LeaseInv, LeaseTypes, FlightType, Holds
<1>3. OneAttemptAtATime'
  BY <1>2 DEF LeaseInv, OneAttemptAtATime, Holds
<1>4. HeldIsLeased'
  BY <1>2 DEF LeaseInv, HeldIsLeased
<1>5. DueIsPending' /\ AttemptLeft'
  BY DEF LeaseInv, DueIsPending, AttemptLeft
<1> QED BY <1>1, <1>3, <1>4, <1>5 DEF LeaseInv

\* The outcome of a row that is still there: it is written once, for the attempt
\* that the row has counted, and the row is due no more.
LEMMA OutcomeIsWritten ==
  ASSUME LeaseInv, NEW r \in Replica, NEW d \in Delivery, Holds(r, d), st[d] # "deleted",
         NEW outcome \in {"delivered", "pending", "dead_letter"},
         flight[r][d].stage = outcome,
         NEW next \in Flight, next.stage \in {"none", "flag"},
         flight' = [flight EXCEPT ![r][d] = next],
         st' = [st EXCEPT ![d] = outcome],
         attempts' = [attempts EXCEPT ![d] = attempts[d] + 1],
         ready' = Without(ready, {d})
  PROVE  LeaseInv'
<1> DispatcherAssumption
  BY DispatcherAssumption
<1>1. /\ ready' \in Seq(Delivery)
      /\ \A i \in 1..Len(ready') : ready'[i] # d /\ Contains(ready, ready'[i])
  BY WithoutRows DEF LeaseInv, LeaseTypes
<1>2. LeaseTypes'
  BY <1>1 DEF LeaseInv, LeaseTypes, FlightType, DeliveryStatuses
<1>3. /\ st[d] = "pending" /\ attempts[d] < MaxAttempts
      /\ outcome = "pending" => attempts[d] + 1 < MaxAttempts
  BY DEF LeaseInv, HeldIsLeased, AttemptLeft
<1>4. \A q \in Replica, x \in Delivery :
        Holds(q, x)' => x # d /\ Holds(q, x) /\ flight'[q][x] = flight[q][x]
  <2> SUFFICES ASSUME NEW q \in Replica, NEW x \in Delivery, Holds(q, x)'
               PROVE  x # d /\ Holds(q, x) /\ flight'[q][x] = flight[q][x]
    OBVIOUS
  <2>1. ~(q = r /\ x = d)
    BY DEF LeaseInv, LeaseTypes, FlightType, Holds
  <2>2. flight'[q][x] = flight[q][x]
    BY <2>1 DEF LeaseInv, LeaseTypes, FlightType
  <2>3. Holds(q, x)
    BY <2>2 DEF Holds
  <2>4. x = d => q = r
    BY <2>3 DEF LeaseInv, OneAttemptAtATime, Holds
  <2> QED BY <2>1, <2>2, <2>3, <2>4
<1>5. OneAttemptAtATime'
  BY <1>4 DEF LeaseInv, OneAttemptAtATime, Holds
<1>6. HeldIsLeased'
  <2> SUFFICES ASSUME NEW x \in Delivery, NEW q \in Replica, Holds(q, x)'
               PROVE  /\ st'[x] \in {"pending", "deleted"} /\ ~Contains(ready', x)
                      /\ st'[x] = "pending" => flight'[q][x].attempt = attempts'[x]
                      /\ flight'[q][x].stage = "pending"
                           => flight'[q][x].attempt + 1 < MaxAttempts
    BY DEF HeldIsLeased
  <2>1. x # d /\ Holds(q, x) /\ flight'[q][x] = flight[q][x]
    BY <1>4
  <2>2. ~Contains(ready, x)
    BY <2>1 DEF LeaseInv, HeldIsLeased
  <2>3. ~Contains(ready', x)
    <3> SUFFICES ASSUME NEW i \in 1..Len(ready'), ready'[i] = x PROVE FALSE
      BY DEF Contains
    <3> QED BY <2>2, <1>1
  <2>4. st'[x] = st[x] /\ attempts'[x] = attempts[x]
    BY <2>1 DEF LeaseInv, LeaseTypes, FlightType
  <2> QED BY <2>1, <2>3, <2>4 DEF LeaseInv, HeldIsLeased
<1>7. DueIsPending'
  <2> SUFFICES ASSUME NEW i \in 1..Len(ready') PROVE st'[ready'[i]] = "pending"
    BY DEF DueIsPending
  <2>0. ready'[i] \in Delivery
    <3>1. ready' \in Seq(Delivery)
      BY <1>1
    <3> QED BY <3>1
  <2>1. ready'[i] # d /\ Contains(ready, ready'[i])
    BY <1>1
  <2>2. st[ready'[i]] = "pending"
    BY <2>1 DEF LeaseInv, DueIsPending, Contains
  <2> QED BY <2>0, <2>1, <2>2 DEF LeaseInv, LeaseTypes
<1>8. AttemptLeft'
  <2> SUFFICES ASSUME NEW x \in Delivery
               PROVE  /\ attempts'[x] <= MaxAttempts
                      /\ st'[x] = "none" => attempts'[x] = 0
                      /\ st'[x] = "pending" => attempts'[x] < MaxAttempts
    BY DEF AttemptLeft
  <2>1. attempts[d] \in Nat /\ MaxAttempts \in Nat
    BY DEF LeaseInv, LeaseTypes, FlightType, DispatcherAssumption
  <2>2. CASE x = d
    <3>1. attempts'[x] = attempts[d] + 1 /\ st'[x] = outcome
      BY <2>2 DEF LeaseInv, LeaseTypes, FlightType
    <3> QED BY <3>1, <2>1, <1>3
  <2>3. CASE x # d
    BY <2>3 DEF LeaseInv, LeaseTypes, FlightType, AttemptLeft
  <2> QED BY <2>2, <2>3
<1> QED BY <1>2, <1>5, <1>6, <1>7, <1>8 DEF LeaseInv

LEMMA OutcomeKeepsLease ==
  ASSUME LeaseInv, NEW r \in Replica, NEW d \in Delivery, RecordDeliveryOutcome(r, d)
  PROVE  LeaseInv'
<1> DEFINE outcome == flight[r][d].stage
<1>0. flight[r][d] \in Flight /\ Landed \in Flight
  BY DEF LeaseInv, LeaseTypes, FlightType, Flight, Landed
<1>1. outcome \in {"delivered", "pending", "dead_letter"}
  BY DEF RecordDeliveryOutcome, WriteOutcome
<1>2. Holds(r, d)
  BY <1>1 DEF Holds
<1>3. CASE st[d] = "deleted"
  <2>1. UNCHANGED <<st, attempts, ready>> /\ flight' = [flight EXCEPT ![r][d] = Landed]
    BY <1>3 DEF RecordDeliveryOutcome, WriteOutcome, queueVars
  <2> QED BY <1>0, <2>1, LetsGo DEF Landed
<1>4. CASE st[d] # "deleted"
  <2> DEFINE next == IF outcome \in {"dead_letter"} /\ IsReversal[d]
                       THEN [flight[r][d] EXCEPT !.stage = "flag"] ELSE Landed
  <2>1. next \in Flight /\ next.stage \in {"none", "flag"}
    BY <1>0 DEF Flight, Landed
  <2>2. /\ st' = [st EXCEPT ![d] = outcome]
        /\ ready' = Without(ready, {d})
    BY <1>4 DEF RecordDeliveryOutcome, WriteOutcome
  <2>3. attempts' = [attempts EXCEPT ![d] = attempts[d] + 1]
    BY <1>1, <1>4 DEF RecordDeliveryOutcome, WriteOutcome, DeliveryStatuses
  <2>4. flight' = [flight EXCEPT ![r][d] = next]
    BY <1>4 DEF RecordDeliveryOutcome, WriteOutcome
  <2> HIDE DEF next, outcome
  <2> QED BY <1>1, <1>2, <1>4, <2>1, <2>2, <2>3, <2>4, OutcomeIsWritten DEF outcome
<1> QED BY <1>3, <1>4

\* A row that goes with its endpoint may be held: the attempt will not find it.
LEMMA DeleteKeepsLease ==
  ASSUME LeaseInv, NEW d \in Delivery, DeleteEndpoint(d)
  PROVE  LeaseInv'
<1>1. /\ st' = [st EXCEPT ![d] = "deleted"] /\ UNCHANGED <<attempts, flight>>
      /\ ready' = Without(ready, {d})
  BY DEF DeleteEndpoint
<1>2. /\ ready' \in Seq(Delivery)
      /\ \A i \in 1..Len(ready') : ready'[i] # d /\ Contains(ready, ready'[i])
  BY <1>1, WithoutRows DEF LeaseInv, LeaseTypes
<1>3. LeaseTypes'
  BY <1>1, <1>2 DEF LeaseInv, LeaseTypes, FlightType, DeliveryStatuses
<1>4. OneAttemptAtATime' /\ AttemptLeft'
  BY <1>1 DEF LeaseInv, LeaseTypes, FlightType, OneAttemptAtATime, AttemptLeft
<1>5. HeldIsLeased'
  <2> SUFFICES ASSUME NEW x \in Delivery, NEW q \in Replica, Holds(q, x)
               PROVE  /\ st'[x] \in {"pending", "deleted"} /\ ~Contains(ready', x)
                      /\ st'[x] = "pending" => flight[q][x].attempt = attempts[x]
                      /\ flight[q][x].stage = "pending"
                           => flight[q][x].attempt + 1 < MaxAttempts
    BY <1>1 DEF HeldIsLeased, Holds
  <2>1. ~Contains(ready, x)
    BY DEF LeaseInv, HeldIsLeased
  <2>2. ~Contains(ready', x)
    BY <2>1, <1>2 DEF Contains
  <2>3. st'[x] = IF x = d THEN "deleted" ELSE st[x]
    BY <1>1 DEF LeaseInv, LeaseTypes
  <2> QED BY <2>2, <2>3 DEF LeaseInv, HeldIsLeased
<1>6. DueIsPending'
  <2> SUFFICES ASSUME NEW i \in 1..Len(ready') PROVE st'[ready'[i]] = "pending"
    BY DEF DueIsPending
  <2>1. ready'[i] \in Delivery /\ ready'[i] # d /\ Contains(ready, ready'[i])
    BY <1>2
  <2>2. st[ready'[i]] = "pending"
    BY <2>1 DEF LeaseInv, DueIsPending, Contains
  <2> QED BY <1>1, <2>1, <2>2 DEF LeaseInv, LeaseTypes
<1> QED BY <1>3, <1>4, <1>5, <1>6 DEF LeaseInv

\* No lease lapses on a running attempt: what the requests before it in its round
\* take, and its own, is less than the lease.
LeasesOutlast == \A d \in Delivery : Lapse(d) => ~InFlight(d)

LEMMA LapseKeepsLease ==
  ASSUME LeaseInv, LeasesOutlast, NEW d \in Delivery, Lapse(d)
  PROVE  LeaseInv'
<1>1. \A r \in Replica : ~Holds(r, d)
  BY DEF LeasesOutlast, InFlight, Holds
<1>2. /\ ready' = Append(ready, d) /\ UNCHANGED flight
      /\ st[d] = "pending" /\ UNCHANGED <<st, attempts>>
  BY DEF Lapse
<1>3. attempts[d] \in Nat /\ attempts[d] < MaxAttempts
  BY <1>2 DEF LeaseInv, LeaseTypes, FlightType, AttemptLeft
<1>4. /\ st' = [st EXCEPT ![d] = "pending"]
      /\ attempts' = [attempts EXCEPT ![d] = attempts[d]]
  BY <1>2 DEF LeaseInv, LeaseTypes, FlightType
<1> QED BY <1>1, <1>2, <1>3, <1>4, BecomesDue

LEMMA LeaseInvStep == LeaseInv /\ [Next]_vars /\ [LeasesOutlast]_vars => LeaseInv'
<1> SUFFICES ASSUME LeaseInv, [Next]_vars, [LeasesOutlast]_vars PROVE LeaseInv'
  OBVIOUS
<1> USE DispatcherAssumption
<1>0. Landed \in Flight /\ Landed.stage = "none"
  BY DEF Landed, Flight
<1>1. CASE UNCHANGED vars
  BY <1>1, QueueRests DEF vars
<1>2. CASE ~UNCHANGED vars
  <2>1. LeasesOutlast /\ Next
    BY <1>2
  <2>2. ASSUME NEW r \in Replica, ClaimDueDeliveries(r) PROVE LeaseInv'
    BY <2>2, ClaimLeases
  <2>3. ASSUME NEW r \in Replica, NEW d \in Delivery,
               Send(r, d) \/ RecordDeliveryOutcome(r, d)
        PROVE  LeaseInv'
    BY <2>3, SendKeepsLease, OutcomeKeepsLease
  <2>4. ASSUME NEW r \in Replica, NEW d \in Delivery, FlagReversal(r, d) \/ Fail(r, d)
        PROVE  LeaseInv'
    <3>1. flight' = [flight EXCEPT ![r][d] = Landed] /\ UNCHANGED <<st, attempts, ready>>
      BY <2>4 DEF FlagReversal, Fail, queueVars
    <3> QED BY <1>0, <3>1, LetsGo
  <2>5. ASSUME NEW d \in Delivery, EnqueueDelivery(d) PROVE LeaseInv'
    <3>1. st[d] = "none" /\ attempts[d] = 0
      BY <2>5 DEF EnqueueDelivery, LeaseInv, AttemptLeft
    <3>2. \A r \in Replica : ~Holds(r, d)
      BY <3>1 DEF LeaseInv, HeldIsLeased
    <3>3. attempts' = [attempts EXCEPT ![d] = 0]
      BY <2>5, <3>1 DEF EnqueueDelivery, LeaseInv, LeaseTypes, FlightType
    <3>4. 0 \in Nat /\ 0 < MaxAttempts
      BY DEF DispatcherAssumption
    <3> QED BY <2>5, <3>2, <3>3, <3>4, BecomesDue DEF EnqueueDelivery
  <2>6. ASSUME NEW d \in Delivery, ReplayDelivery(d) PROVE LeaseInv'
    <3>1. st[d] = "dead_letter"
      BY <2>6 DEF ReplayDelivery
    <3>2. \A r \in Replica : ~Holds(r, d)
      BY <3>1 DEF LeaseInv, HeldIsLeased
    <3>3. 0 \in Nat /\ 0 < MaxAttempts
      BY DEF DispatcherAssumption
    <3> QED BY <2>6, <3>2, <3>3, BecomesDue DEF ReplayDelivery
  <2>7. ASSUME NEW d \in Delivery, Lapse(d) \/ DeleteEndpoint(d) PROVE LeaseInv'
    BY <2>1, <2>7, LapseKeepsLease, DeleteKeepsLease
  <2>8. ASSUME NEW d \in Delivery, SetEndpointEnabled(d) PROVE LeaseInv'
    BY <2>8, QueueRests DEF SetEndpointEnabled
  <2>9. ASSUME NEW t \in Txn,
               MarkReversalPending(t) \/ MarkReversalCompleted(t) \/ CreditArrives(t)
        PROVE  LeaseInv'
    BY <2>9, QueueRests DEF MarkReversalPending, MarkReversalCompleted, CreditArrives
  <2> QED BY <2>1, <2>2, <2>3, <2>4, <2>5, <2>6, <2>7, <2>8, <2>9
          DEF Next, Work, Environment
<1> QED BY <1>1, <1>2

\* A delivery is with one replica at a time, as long as no lease lapses on a running
\* attempt: not after a replay, an enable, a deletion or a crash either.
THEOREM OneReplicaAtATime == Spec /\ [][LeasesOutlast]_vars => []OneAttemptAtATime
<1>1. LeaseInv => OneAttemptAtATime
  BY DEF LeaseInv
<1> QED BY LeaseInvInit, LeaseInvStep, <1>1, PTL DEF Spec

\* And no delivery is attempted more often than the schedule is long.
THEOREM RetriesEnd == Spec /\ [][LeasesOutlast]_vars => []WithinSchedule
<1>1. LeaseInv => WithinSchedule
  BY DEF LeaseInv, AttemptLeft, WithinSchedule
<1> QED BY LeaseInvInit, LeaseInvStep, <1>1, PTL DEF Spec

-----------------------------------------------------------------------------
(* The status of a transaction *)

Lifecycle == INSTANCE TxnLifecycle

StatusesOnly == status \in [Txn -> Statuses \cup {Absent}]

\* The guarded UPDATE moves one row along an edge, or misses.
LEMMA MarkIsLegal ==
  ASSUME StatusesOnly, NEW t \in Txn, NEW target \in Statuses, TryMark(t, target)
  PROVE  StatusesOnly' /\ Lifecycle!Next
<1>1. StatusesOnly' /\ \A u \in Txn : status'[u] = status[u] \/ CanTransition(status[u], status'[u])
  BY DEF StatusesOnly, TryMark, UpdateRow, UpdateMatches, SourcesFor
<1>2. \A from, to : CanTransition(from, to) <=> Lifecycle!CanTransition(from, to)
  BY DEF CanTransition, allowedTransitions, Statuses, Lifecycle!CanTransition,
         Lifecycle!allowedTransitions, Lifecycle!Statuses
<1> QED
  BY <1>1, <1>2 DEF StatusesOnly, Statuses, Absent, Lifecycle!Statuses, Lifecycle!Absent,
                    Lifecycle!Next, Lifecycle!Move

\* Every other statement leaves the status column alone.
LEMMA WritesNoOther ==
  ASSUME Next
  PROVE  \/ UNCHANGED status
         \/ \E t \in Txn, target \in Statuses : TryMark(t, target)
<1>1. ASSUME NEW r \in Replica, NEW d \in Delivery, FlagReversal(r, d)
      PROVE  \E t \in Txn, target \in Statuses : TryMark(t, target)
  BY <1>1, DispatcherAssumption DEF FlagReversal, Statuses
<1>2. ASSUME NEW t \in Txn, MarkReversalPending(t) \/ MarkReversalCompleted(t) \/ CreditArrives(t)
      PROVE  \E u \in Txn, target \in Statuses : TryMark(u, target)
  <2>1. CASE MarkReversalPending(t)
    BY <2>1 DEF MarkReversalPending, Statuses
  <2>2. CASE MarkReversalCompleted(t)
    BY <2>2 DEF MarkReversalCompleted, TryMark, UpdateRow, Statuses
  <2>3. CASE CreditArrives(t)
    BY <2>3 DEF CreditArrives, TryMark, UpdateRow, Statuses
  <2> QED BY <1>2, <2>1, <2>2, <2>3
<1>3. ASSUME NEW r \in Replica, Work(r)
      PROVE  UNCHANGED status \/ \E d \in Delivery : FlagReversal(r, d)
  BY <1>3 DEF Work, ClaimDueDeliveries, Send, RecordDeliveryOutcome, WriteOutcome
<1>4. ASSUME NEW r \in Replica, NEW d \in Delivery, Fail(r, d) PROVE UNCHANGED status
  BY <1>4 DEF Fail
<1>5. ASSUME NEW d \in Delivery,
             EnqueueDelivery(d) \/ Lapse(d) \/ ReplayDelivery(d) \/ SetEndpointEnabled(d)
               \/ DeleteEndpoint(d)
      PROVE  UNCHANGED status
  BY <1>5 DEF EnqueueDelivery, Lapse, ReplayDelivery, SetEndpointEnabled, DeleteEndpoint
<1> QED BY <1>1, <1>2, <1>3, <1>4, <1>5 DEF Next, Environment

\* Dispatchers that flag dead letters late, twice or after the lease, the sweep
\* that marks a reversal after queueing it, late credits and the customers'
\* answers move a transaction only along the edges of the state machine.  The
\* dispatcher meets transactions in mid-life, so this is the step of
\* TxnLifecycle without its initial state.
THEOREM DispatcherKeepsLifecycle == Spec => [][Lifecycle!Next]_status
<1>1. Init => StatusesOnly
  BY DEF Init, StatusesOnly, Statuses
<1>2. StatusesOnly /\ [Next]_vars => StatusesOnly' /\ [Lifecycle!Next]_status
  <2> SUFFICES ASSUME StatusesOnly, [Next]_vars PROVE StatusesOnly' /\ [Lifecycle!Next]_status
    OBVIOUS
  <2>1. CASE UNCHANGED status
    BY <2>1 DEF StatusesOnly
  <2>2. CASE \E t \in Txn, target \in Statuses : TryMark(t, target)
    BY <2>2, MarkIsLegal
  <2> QED BY <2>1, <2>2, WritesNoOther DEF vars
<1> QED BY <1>1, <1>2, PTL DEF Spec
=============================================================================
