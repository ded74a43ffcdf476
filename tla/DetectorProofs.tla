--------------------------- MODULE DetectorProofs ---------------------------
(***************************************************************************)
(* The advice to reverse, and who acts on it.  One verdict a transaction   *)
(* and endpoint, for every number of replicas, transactions and endpoints, *)
(* and every setting of the sweep; one payment a transaction, for every    *)
(* set of callers; a silence alert and its resolution, and the tenants     *)
(* that are left alone, for every setting of the silence parameters.       *)
(***************************************************************************)
EXTENDS Detector, ReversalClaim, Silence, DataLemmas

Judging == {"ask", "settle", "uncertain", "verdict", "floor", "list"}
Warning == {"idle", "warnloop", "warnqueue"}

Verdict(t, e) == queued[<<t, e, Reversal>>] + queued[<<t, e, Suspect>>]

Decided(t) == status[t] \notin {Absent, "pending_debit", "pending_unknown"}

\* What a sweep has claimed and said nothing about yet, and what it has claimed
\* and may still say something about.
Claimed(s, t) == sw[s].pc \notin Warning /\ \E row \in sw[s].batch : row[1] = t
Fresh(s, t) == Claimed(s, t) \/ (sw[s].pc \in Judging /\ sw[s].cur = t)
Holds(s, t) == Fresh(s, t) \/ (sw[s].pc \in {"enqueue", "mark"} /\ sw[s].cur = t)

SweepTypes ==
  /\ DOMAIN status = Txn
  /\ due \subseteq Txn /\ nearing \subseteq Txn
  /\ enabled \subseteq Endpoint
  /\ queued \in [Txn \X Endpoint \X Events -> Nat]
  /\ sw \in [Sweeper -> SweepState]

\* A sweep takes each claimed row once, decides on a verdict before it lists the
\* endpoints, never for a backfilled row, and is about to tell an endpoint a
\* verdict that it has not been told.
Orderly(s) ==
  /\ sw[s].pc \notin Warning =>
       \A row, other \in sw[s].batch : row[1] = other[1] => row = other
  /\ sw[s].pc \in Judging \cup {"enqueue", "mark"} =>
       /\ sw[s].cur \in Txn
       /\ \A row \in sw[s].batch : row[1] # sw[s].cur
  /\ sw[s].pc \in {"list", "enqueue"} =>
       sw[s].event \in {Reversal, Suspect} /\ sw[s].cur \notin Backfill
  /\ sw[s].pc = "warnqueue" => sw[s].cur \in Txn
  /\ sw[s].pc = "enqueue" => \A e \in sw[s].todo : Verdict(sw[s].cur, e) = 0

\* A claimed row is one sweep's, and no sweep can claim it again.
ClaimIsOwn ==
  \A t \in Txn :
    /\ \A s \in Sweeper : Holds(s, t) => Decided(t)
    /\ \A s, r \in Sweeper : Holds(s, t) /\ Holds(r, t) => s = r

FreshIsUntold ==
  \A t \in Txn, s \in Sweeper, e \in Endpoint : Fresh(s, t) => Verdict(t, e) = 0

ToldIsDecided == \A t \in Txn, e \in Endpoint : Verdict(t, e) > 0 => Decided(t)

SweepInv ==
  /\ SweepTypes
  /\ \A s \in Sweeper : Orderly(s)
  /\ ClaimIsOwn
  /\ FreshIsUntold
  /\ ToldIsDecided
  /\ SingleVerdict

-----------------------------------------------------------------------------
(* Steps *)

\* The state machine has no way back to an open status.
LEMMA DecidedStays ==
  ASSUME DOMAIN status = Txn, NEW t \in Txn, NEW u \in Txn, NEW target \in Statuses,
         UpdateRow(u, target), Decided(t)
  PROVE  Decided(t)'
BY DEF UpdateRow, UpdateMatches, SourcesFor, CanTransition, allowedTransitions, Decided,
       Statuses, Absent

\* A step of one sweep that queues nothing, and after which it holds no more
\* than before.
LEMMA QuietStep ==
  ASSUME SweepInv, NEW s \in Sweeper, UNCHANGED queued, SweepTypes', Orderly(s)',
         \A r \in Sweeper : r # s => sw'[r] = sw[r],
         \A t \in Txn : Decided(t) => Decided(t)',
         \A t \in Txn : (Fresh(s, t)' => Fresh(s, t)) /\ (Holds(s, t)' => Holds(s, t))
  PROVE  SweepInv'
<1>1. \A r \in Sweeper, t \in Txn :
        (Fresh(r, t)' => Fresh(r, t)) /\ (Holds(r, t)' => Holds(r, t))
  BY DEF Fresh, Holds, Claimed
<1>2. \A t, e : Verdict(t, e)' = Verdict(t, e)
  BY DEF Verdict
<1>3. \A r \in Sweeper : Orderly(r)'
  BY DEF SweepInv, Orderly, Verdict
<1>4. ClaimIsOwn'
  BY <1>1 DEF SweepInv, ClaimIsOwn
<1>5. FreshIsUntold'
  BY <1>1, <1>2 DEF SweepInv, FreshIsUntold
<1>6. ToldIsDecided'
  BY <1>2 DEF SweepInv, ToldIsDecided
<1>7. SingleVerdict'
  BY DEF SweepInv, SingleVerdict
<1> QED BY <1>3, <1>4, <1>5, <1>6, <1>7 DEF SweepInv

\* What a sweep claims was open, so nobody held it and nobody had been told.
LEMMA ClaimStep ==
  ASSUME SweepInv, NEW s \in Sweeper, Claim(s)
  PROVE  SweepInv'
<1>1. PICK T \in SUBSET Expired : ClaimBatch(s, T)
  BY DEF Claim
<1>2. T \subseteq Txn /\ \A t \in T : ~Decided(t) /\ Decided(t)' /\ status'[t] \in Statuses
  BY <1>1 DEF ClaimBatch, ClaimRows, ExpiredStatus, Expired, IsOpen, Decided, Absent,
              Statuses, SweepInv, SweepTypes
<1>3. \A t \in Txn : Decided(t) => Decided(t)'
  BY <1>1, <1>2 DEF ClaimBatch, ClaimRows, Decided
<1>4. SweepTypes'
  <2> DEFINE rows == {<<t, status'[t]>> : t \in T}
  <2>1. rows \in SUBSET (Txn \X Statuses)
    BY <1>2
  <2>2. sw' = [sw EXCEPT ![s].pc = "loop", ![s].batch = rows]
    BY <1>1 DEF ClaimBatch
  <2> HIDE DEF rows
  <2>3. sw' \in [Sweeper -> SweepState]
    <3> DEFINE next == [sw[s] EXCEPT !.pc = "loop", !.batch = rows]
    <3>1. sw[s] \in SweepState
      BY DEF SweepInv, SweepTypes
    <3>2. next \in SweepState
      BY <2>1, <3>1, ZenonT(60) DEF SweepState, PCs
    <3>3. sw' = [sw EXCEPT ![s] = next]
      BY <2>2, <3>1 DEF SweepInv, SweepTypes
    <3> HIDE DEF next
    <3> QED BY <3>2, <3>3 DEF SweepInv, SweepTypes
  <2>4. DOMAIN status' = Txn /\ UNCHANGED <<due, nearing, enabled, queued>>
    BY <1>1 DEF ClaimBatch, ClaimRows
  <2> QED BY <2>3, <2>4 DEF SweepInv, SweepTypes
<1>5. sw'[s].pc = "loop" /\ sw'[s].batch = {<<t, status'[t]>> : t \in T}
  BY <1>1 DEF ClaimBatch, SweepInv, SweepTypes, SweepState
<1>6. \A r \in Sweeper : r # s => sw'[r] = sw[r]
  BY <1>1 DEF ClaimBatch, SweepInv, SweepTypes
<1>7. \A t \in Txn : (Fresh(s, t)' => t \in T) /\ (Holds(s, t)' => t \in T)
  BY <1>5 DEF Fresh, Holds, Claimed, Judging
<1>8. \A r \in Sweeper, t \in Txn :
        r # s => (Fresh(r, t)' <=> Fresh(r, t)) /\ (Holds(r, t)' <=> Holds(r, t))
  BY <1>6 DEF Fresh, Holds, Claimed
<1>9. \A t, e : Verdict(t, e)' = Verdict(t, e)
  BY <1>1 DEF ClaimBatch, Verdict
<1>10. \A r \in Sweeper : Orderly(r)'
  <2>1. Orderly(s)'
    BY <1>5 DEF Orderly, Judging
  <2>2. ASSUME NEW r \in Sweeper, r # s PROVE Orderly(r)'
    BY <2>2, <1>6, <1>9 DEF SweepInv, Orderly
  <2> QED BY <2>1, <2>2
<1>11. ClaimIsOwn'
  <2>1. \A r \in Sweeper, t \in Txn : Holds(r, t)' => Decided(t)'
    BY <1>2, <1>3, <1>7, <1>8 DEF SweepInv, ClaimIsOwn
  <2>2. \A r \in Sweeper, t \in Txn : r # s /\ Holds(r, t)' => t \notin T
    BY <1>2, <1>8 DEF SweepInv, ClaimIsOwn
  <2> QED BY <2>1, <2>2, <1>7, <1>8 DEF SweepInv, ClaimIsOwn
<1>12. FreshIsUntold'
  <2>1. \A t \in T, e \in Endpoint : Verdict(t, e) = 0
    <3> SUFFICES ASSUME NEW t \in T, NEW e \in Endpoint PROVE Verdict(t, e) = 0
      OBVIOUS
    <3>1. Verdict(t, e) \in Nat
      BY <1>2 DEF Verdict, SweepInv, SweepTypes, Events, Reversal, Suspect
    <3>2. ~(Verdict(t, e) > 0)
      BY <1>2 DEF SweepInv, ToldIsDecided
    <3> QED BY <3>1, <3>2
  <2> QED BY <2>1, <1>7, <1>8, <1>9 DEF SweepInv, FreshIsUntold
<1>13. ToldIsDecided'
  BY <1>3, <1>9 DEF SweepInv, ToldIsDecided
<1>14. SingleVerdict'
  BY <1>1 DEF ClaimBatch, SweepInv, SingleVerdict
<1> QED BY <1>4, <1>10, <1>11, <1>12, <1>13, <1>14 DEF SweepInv

\* A guarded UPDATE of the row in hand reopens nothing, matched or refused.
LEMMA TryKeepsDecided ==
  ASSUME SweepTypes, NEW s \in Sweeper, NEW target \in Statuses, TryMark(s, target),
         sw[s].cur \in Txn
  PROVE  DOMAIN status' = Txn /\ \A t \in Txn : Decided(t) => Decided(t)'
<1>1. CASE UpdateMatches(sw[s].cur, target)
  <2>1. UpdateRow(sw[s].cur, target)
    BY <1>1 DEF TryMark
  <2> QED BY <2>1, DecidedStays DEF SweepTypes, UpdateRow
<1>2. CASE ~UpdateMatches(sw[s].cur, target)
  BY <1>2 DEF TryMark, SweepTypes, Decided
<1> QED BY <1>1, <1>2

\* A sweep that goes on, or forgets, with what it holds: only its own variables
\* and the row in hand move.
LEMMA LocalStep ==
  ASSUME SweepInv, NEW s \in Sweeper, NEW next \in SweepState,
         sw' = [sw EXCEPT ![s] = next],
         UNCHANGED <<due, nearing, enabled, queued>>,
         DOMAIN status' = Txn, \A t \in Txn : Decided(t) => Decided(t)',
         Orderly(s)',
         \A t \in Txn : (Fresh(s, t)' => Fresh(s, t)) /\ (Holds(s, t)' => Holds(s, t))
  PROVE  SweepInv'
<1>1. SweepTypes'
  BY DEF SweepInv, SweepTypes
<1>2. \A r \in Sweeper : r # s => sw'[r] = sw[r]
  BY DEF SweepInv, SweepTypes
<1> QED BY <1>1, <1>2, QuietStep

\* The next row is taken out of the batch into the hand.
LEMMA NextTxnStep ==
  ASSUME SweepInv, NEW s \in Sweeper, NextTxn(s)
  PROVE  SweepInv'
<1>1. PICK row \in sw[s].batch, intact \in BOOLEAN :
        sw' = [sw EXCEPT
          ![s].pc = IF Corroborate /\ row[2] = "orphaned" THEN "ask" ELSE "verdict",
          ![s].batch = @ \ {row},
          ![s].cur = row[1],
          ![s].local = row[2],
          ![s].conf = Confidence(WeightWindowExpired
                                 + (IF intact THEN WeightIngestIntact ELSE 0))]
  BY ZenonT(60) DEF NextTxn
<1> DEFINE label == IF Corroborate /\ row[2] = "orphaned" THEN "ask" ELSE "verdict"
           conf == Confidence(WeightWindowExpired + (IF intact THEN WeightIngestIntact ELSE 0))
           next == [sw[s] EXCEPT !.pc = label, !.batch = @ \ {row}, !.cur = row[1],
                                 !.local = row[2], !.conf = conf]
<1>2. sw[s] \in SweepState /\ sw[s].pc = "loop"
  BY DEF SweepInv, SweepTypes, NextTxn, At
<1>3. row \in Txn \X Statuses
  BY <1>2 DEF SweepState
<1>4. conf \in 0..100 /\ label \in {"ask", "verdict"}
  BY DEF Confidence, WeightWindowExpired, WeightIngestIntact
<1>5. next \in SweepState
  <2> HIDE DEF label, conf
  <2> QED BY <1>2, <1>3, <1>4, ZenonT(60) DEF SweepState, PCs
<1>6. sw' = [sw EXCEPT ![s] = next]
  BY <1>1, <1>2 DEF SweepInv, SweepTypes
<1>7. /\ sw'[s].pc = label /\ sw'[s].batch = sw[s].batch \ {row}
      /\ sw'[s].cur = row[1] /\ sw'[s].local = row[2]
  <2> HIDE DEF label, conf
  <2> QED BY <1>2, <1>6 DEF SweepInv, SweepTypes, SweepState
<1> HIDE DEF label, conf, next
<1>8. Orderly(s)'
  BY <1>2, <1>3, <1>4, <1>7 DEF SweepInv, Orderly, Judging, Warning
<1>9. \A t \in Txn : (Fresh(s, t)' => Fresh(s, t)) /\ (Holds(s, t)' => Holds(s, t))
  BY <1>2, <1>4, <1>7 DEF Fresh, Holds, Claimed, Judging, Warning
<1>10. UNCHANGED rowVars /\ DOMAIN status' = Txn
  BY DEF NextTxn, rowVars, SweepInv, SweepTypes
<1> QED BY <1>5, <1>6, <1>8, <1>9, <1>10, LocalStep DEF rowVars, Decided

\* With the row in hand: it stays in hand until the sweep is through with it,
\* and a reversal or an investigation is decided on for what may notify.
LEMMA HandStep ==
  ASSUME SweepInv, NEW s \in Sweeper, sw[s].pc \in Judging,
         NEW next \in SweepState, sw' = [sw EXCEPT ![s] = next],
         next.pc \in Judging \cup {"loop"},
         next.batch = sw[s].batch, next.cur = sw[s].cur,
         next.pc = "list" => next.event \in {Reversal, Suspect} /\ next.cur \notin Backfill,
         UNCHANGED <<due, nearing, enabled, queued>>,
         UNCHANGED status \/ \E target \in Statuses : TryMark(s, target)
  PROVE  SweepInv'
<1>1. sw[s].cur \in Txn
  BY DEF SweepInv, Orderly
<1>2. DOMAIN status' = Txn /\ \A t \in Txn : Decided(t) => Decided(t)'
  BY <1>1, TryKeepsDecided DEF SweepInv, SweepTypes, Decided
<1>3. sw'[s] = next
  BY DEF SweepInv, SweepTypes
<1>4. Orderly(s)'
  BY <1>3 DEF SweepInv, Orderly, Judging, Warning
<1>5. \A t \in Txn : (Fresh(s, t)' => Fresh(s, t)) /\ (Holds(s, t)' => Holds(s, t))
  BY <1>3 DEF Fresh, Holds, Claimed, Judging, Warning
<1> QED BY <1>2, <1>4, <1>5, LocalStep

\* Asking the rail keeps the row in hand.
LEMMA AskStep ==
  ASSUME SweepInv, NEW s \in Sweeper, Ask(s)
  PROVE  SweepInv'
<1>1. PICK o \in Outcomes :
        sw' = [sw EXCEPT
          ![s].pc = CASE o = "settled" -> "settle"
                      [] o = "unknown" -> "uncertain"
                      [] OTHER         -> "verdict",
          ![s].conf = CASE o = "failed"    -> Confidence(@ + WeightProviderFailed)
                        [] o = "not_found" -> Confidence(@ + WeightProviderNotFound)
                        [] OTHER           -> @]
  BY DEF Ask
<1> DEFINE label == CASE o = "settled" -> "settle"
                      [] o = "unknown" -> "uncertain"
                      [] OTHER         -> "verdict"
           conf == CASE o = "failed"    -> Confidence(sw[s].conf + WeightProviderFailed)
                     [] o = "not_found" -> Confidence(sw[s].conf + WeightProviderNotFound)
                     [] OTHER           -> sw[s].conf
           next == [sw[s] EXCEPT !.pc = label, !.conf = conf]
<1>2. sw[s] \in SweepState /\ sw[s].pc = "ask"
  BY DEF SweepInv, SweepTypes, Ask, At
<1>3. label \in {"settle", "uncertain", "verdict"}
  OBVIOUS
<1>4. conf \in 0..100
  BY <1>2 DEF SweepState, Confidence, WeightProviderFailed, WeightProviderNotFound
<1>5. sw' = [sw EXCEPT ![s] = next]
  BY <1>1, <1>2 DEF SweepInv, SweepTypes
<1> HIDE DEF label, conf
<1>6. /\ next \in SweepState /\ next.pc = label
      /\ next.batch = sw[s].batch /\ next.cur = sw[s].cur
  BY <1>2, <1>3, <1>4, ZenonT(60) DEF SweepState, PCs
<1> HIDE DEF next
<1>7. UNCHANGED <<status, due, nearing, enabled, queued>>
  BY DEF Ask
<1> QED BY <1>2, <1>3, <1>5, <1>6, <1>7, HandStep DEF Judging

\* So does learning that the money arrived, unless the row is then let go.
LEMMA SettleStep ==
  ASSUME SweepInv, NEW s \in Sweeper, Settle(s)
  PROVE  SweepInv'
<1> DEFINE label == IF UpdateMatches(sw[s].cur, "completed") THEN "loop" ELSE "verdict"
           next == [sw[s] EXCEPT !.pc = label]
<1>1. sw[s] \in SweepState /\ sw[s].pc = "settle"
  BY DEF SweepInv, SweepTypes, Settle, At
<1>2. label \in {"loop", "verdict"}
  OBVIOUS
<1>3. sw' = [sw EXCEPT ![s] = next]
  BY <1>1 DEF Settle, SweepInv, SweepTypes
<1> HIDE DEF label
<1>4. /\ next \in SweepState /\ next.pc = label
      /\ next.batch = sw[s].batch /\ next.cur = sw[s].cur
  BY <1>1, <1>2 DEF SweepState, PCs
<1> HIDE DEF next
<1>5. TryMark(s, "completed") /\ UNCHANGED <<due, nearing, enabled, queued>>
  BY DEF Settle
<1> QED BY <1>1, <1>2, <1>3, <1>4, <1>5, HandStep DEF Judging, Statuses

\* So does handing the row to a human.
LEMMA UncertainStep ==
  ASSUME SweepInv, NEW s \in Sweeper, Uncertain(s)
  PROVE  SweepInv'
<1> DEFINE mine == IF UpdateMatches(sw[s].cur, "suspect") THEN "suspect" ELSE sw[s].local
           next == [sw[s] EXCEPT !.pc = "verdict", !.local = mine]
<1>1. sw[s] \in SweepState /\ sw[s].pc = "uncertain"
  BY DEF SweepInv, SweepTypes, Uncertain, At
<1>2. mine \in Statuses \cup {None}
  BY <1>1 DEF SweepState, Statuses
<1>3. sw' = [sw EXCEPT ![s] = next]
  BY <1>1 DEF Uncertain, SweepInv, SweepTypes
<1> HIDE DEF mine
<1>4. /\ next \in SweepState /\ next.pc = "verdict"
      /\ next.batch = sw[s].batch /\ next.cur = sw[s].cur
  BY <1>1, <1>2, ZenonT(60) DEF SweepState, PCs
<1> HIDE DEF next
<1>5. TryMark(s, "suspect") /\ UNCHANGED <<due, nearing, enabled, queued>>
  BY DEF Uncertain
<1> QED BY <1>1, <1>3, <1>4, <1>5, HandStep DEF Judging, Statuses

\* Backfilled transactions leave the hand without a word.
LEMMA JudgeStep ==
  ASSUME SweepInv, NEW s \in Sweeper, Judge(s)
  PROVE  SweepInv'
<1> DEFINE ev == IF sw[s].local = "suspect" THEN Suspect ELSE Reversal
           label == IF sw[s].local # "suspect" /\ BelowFloor(s) THEN "floor" ELSE Notify(s)
           next == [sw[s] EXCEPT !.event = ev, !.pc = label]
<1>1. sw[s] \in SweepState /\ sw[s].pc = "verdict"
  BY DEF SweepInv, SweepTypes, Judge, At
<1>2. /\ label \in {"floor", "loop", "list"} /\ ev \in {Reversal, Suspect}
      /\ label = "list" => sw[s].cur \notin Backfill
  BY DEF Notify
<1>3. sw' = [sw EXCEPT ![s] = next]
  BY <1>1 DEF Judge, SweepInv, SweepTypes
<1> HIDE DEF ev, label
<1>4. /\ next \in SweepState /\ next.pc = label /\ next.event = ev
      /\ next.batch = sw[s].batch /\ next.cur = sw[s].cur
  BY <1>1, <1>2, ZenonT(60) DEF SweepState, PCs, Events
<1> HIDE DEF next
<1>5. UNCHANGED <<status, due, nearing, enabled, queued>>
  BY DEF Judge, rowVars
<1> QED BY <1>1, <1>2, <1>3, <1>4, <1>5, HandStep DEF Judging

\* The floor turns a reversal into an investigation and keeps the row in hand.
LEMMA ApplyFloorStep ==
  ASSUME SweepInv, NEW s \in Sweeper, ApplyFloor(s)
  PROVE  SweepInv'
<1> DEFINE label == Notify(s)
           next == [sw[s] EXCEPT !.local = "suspect", !.event = Suspect, !.pc = label]
<1>1. sw[s] \in SweepState /\ sw[s].pc = "floor"
  BY DEF SweepInv, SweepTypes, ApplyFloor, At
<1>2. label \in {"loop", "list"} /\ (label = "list" => sw[s].cur \notin Backfill)
  BY DEF Notify
<1>3. sw' = [sw EXCEPT ![s] = next]
  BY <1>1 DEF ApplyFloor, SweepInv, SweepTypes
<1> HIDE DEF label
<1>4. /\ next \in SweepState /\ next.pc = label /\ next.event = Suspect
      /\ next.batch = sw[s].batch /\ next.cur = sw[s].cur
  BY <1>1, <1>2, ZenonT(60) DEF SweepState, PCs, Events, Statuses
<1> HIDE DEF next
<1>5. TryMark(s, "suspect") /\ UNCHANGED <<due, nearing, enabled, queued>>
  BY DEF ApplyFloor
<1> QED BY <1>1, <1>2, <1>3, <1>4, <1>5, HandStep DEF Judging, Statuses

\* The endpoints about to be told have not been told.
LEMMA ListStep ==
  ASSUME SweepInv, NEW s \in Sweeper, List(s)
  PROVE  SweepInv'
<1> DEFINE E == Endpoints(s)
           T == Targets(E, sw[s].event)
           next == [sw[s] EXCEPT !.pc = "enqueue", !.read = TRUE, !.eps = E, !.todo = T,
                                 !.sent = FALSE]
<1>1. sw[s] \in SweepState /\ sw[s].pc = "list"
  BY DEF SweepInv, SweepTypes, List, At
<1>2. E \subseteq Endpoint /\ T \subseteq Endpoint
  BY <1>1 DEF Endpoints, Targets, SweepInv, SweepTypes, SweepState
<1>3. sw' = [sw EXCEPT ![s] = next]
  BY <1>1 DEF List, SweepInv, SweepTypes
<1> HIDE DEF E, T
<1>4. /\ next \in SweepState /\ next.pc = "enqueue" /\ next.event = sw[s].event
      /\ next.batch = sw[s].batch /\ next.cur = sw[s].cur /\ next.todo = T
  BY <1>1, <1>2, ZenonT(60) DEF SweepState, PCs
<1> HIDE DEF next
<1>5. UNCHANGED <<status, due, nearing, enabled, queued>>
  BY DEF List
<1>6. sw'[s] = next
  BY <1>3 DEF SweepInv, SweepTypes
<1>7. \A e \in Endpoint : Verdict(sw[s].cur, e) = 0
  BY <1>1 DEF SweepInv, FreshIsUntold, Fresh, Judging, Orderly
<1>8. Orderly(s)'
  BY <1>1, <1>2, <1>4, <1>5, <1>6, <1>7
     DEF SweepInv, Orderly, Judging, Warning, Verdict
<1>9. \A t \in Txn : (Fresh(s, t)' => Fresh(s, t)) /\ (Holds(s, t)' => Holds(s, t))
  BY <1>1, <1>4, <1>6 DEF Fresh, Holds, Claimed, Judging, Warning
<1> QED BY <1>3, <1>4, <1>5, <1>8, <1>9, LocalStep DEF SweepInv, SweepTypes, Decided

\* A sweep that says nothing more of the row in hand, or that forgets its batch
\* and warns.
LEMMA LetGo ==
  ASSUME SweepInv, NEW s \in Sweeper,
         NEW next \in SweepState, sw' = [sw EXCEPT ![s] = next],
         \/ next.pc \in Warning /\ (next.pc = "warnqueue" => next.cur \in Txn)
         \/ /\ sw[s].pc \in {"enqueue", "mark"} /\ next.pc \in {"mark", "loop"}
            /\ next.batch = sw[s].batch /\ next.cur = sw[s].cur,
         UNCHANGED <<due, nearing, enabled, queued>>,
         DOMAIN status' = Txn, \A t \in Txn : Decided(t) => Decided(t)'
  PROVE  SweepInv'
<1>1. sw'[s] = next
  BY DEF SweepInv, SweepTypes
<1>2. Orderly(s)'
  BY <1>1 DEF SweepInv, Orderly, Judging, Warning
<1>3. \A t \in Txn : (Fresh(s, t)' => Fresh(s, t)) /\ (Holds(s, t)' => Holds(s, t))
  BY <1>1 DEF Fresh, Holds, Claimed, Judging, Warning
<1> QED BY <1>2, <1>3, LocalStep

\* Everybody has been told.
LEMMA EnqueuedStep ==
  ASSUME SweepInv, NEW s \in Sweeper, Enqueued(s)
  PROVE  SweepInv'
<1> DEFINE label == IF sw[s].sent /\ sw[s].event = Reversal THEN "mark" ELSE "loop"
           next == [sw[s] EXCEPT !.pc = label]
<1>1. sw[s] \in SweepState /\ sw[s].pc = "enqueue"
  BY DEF SweepInv, SweepTypes, Enqueued, At
<1>2. label \in {"mark", "loop"}
  OBVIOUS
<1>3. sw' = [sw EXCEPT ![s] = next]
  BY <1>1 DEF Enqueued, SweepInv, SweepTypes
<1> HIDE DEF label
<1>4. /\ next \in SweepState /\ next.pc = label /\ next.batch = sw[s].batch
      /\ next.cur = sw[s].cur
  BY <1>1, <1>2 DEF SweepState, PCs
<1> HIDE DEF next
<1>5. UNCHANGED <<status, due, nearing, enabled, queued>>
  BY DEF Enqueued, rowVars
<1> QED BY <1>1, <1>2, <1>3, <1>4, <1>5, LetGo DEF SweepInv, SweepTypes, Decided

\* The mark reopens nothing, also when it is refused.
LEMMA MarkPendingStep ==
  ASSUME SweepInv, NEW s \in Sweeper, MarkPending(s)
  PROVE  SweepInv'
<1> DEFINE next == [sw[s] EXCEPT !.pc = "loop"]
<1>1. sw[s] \in SweepState /\ sw[s].pc = "mark"
  BY DEF SweepInv, SweepTypes, MarkPending, At
<1>2. sw' = [sw EXCEPT ![s] = next]
  BY <1>1 DEF MarkPending, SweepInv, SweepTypes
<1>3. /\ next \in SweepState /\ next.pc = "loop" /\ next.batch = sw[s].batch
      /\ next.cur = sw[s].cur
  BY <1>1 DEF SweepState, PCs
<1> HIDE DEF next
<1>4. TryMark(s, "reversal_pending") /\ UNCHANGED <<due, nearing, enabled, queued>>
  BY DEF MarkPending
<1>5. DOMAIN status' = Txn /\ \A t \in Txn : Decided(t) => Decided(t)'
  BY <1>1, <1>4, TryKeepsDecided DEF SweepInv, Orderly, Statuses
<1> QED BY <1>1, <1>2, <1>3, <1>4, <1>5, LetGo

\* The sweep turns to the warnings with nothing left to say.
LEMMA ClaimSLAAtRiskStep ==
  ASSUME SweepInv, NEW s \in Sweeper, ClaimSLAAtRisk(s)
  PROVE  SweepInv'
<1>1. PICK T \in SUBSET WarnDue :
        sw' = [sw EXCEPT ![s] = [Idle EXCEPT !.pc = "warnloop",
                                             !.batch = {<<t, status[t]>> : t \in T}]]
  BY DEF ClaimSLAAtRisk
<1> DEFINE rows == {<<t, status[t]>> : t \in T}
           next == [Idle EXCEPT !.pc = "warnloop", !.batch = rows]
<1>2. rows \in SUBSET (Txn \X Statuses)
  <2>1. \A t \in T : t \in Txn /\ status[t] \in Statuses
    BY DEF WarnDue, SlaAtRisk, Statuses, SweepInv, SweepTypes
  <2> QED BY <2>1
<1>3. sw' = [sw EXCEPT ![s] = next]
  BY <1>1
<1> HIDE DEF rows
<1>4. next \in SweepState /\ next.pc = "warnloop"
  <2>1. Idle \in SweepState
    BY DEF Idle, SweepState, PCs
  <2> QED BY <2>1, <1>2, ZenonT(60) DEF SweepState, PCs
<1> HIDE DEF next
<1>5. UNCHANGED <<status, due, nearing, enabled, queued>>
  BY DEF ClaimSLAAtRisk
<1> QED BY <1>3, <1>4, <1>5, LetGo DEF SweepInv, SweepTypes, Decided, Warning

\* A warned row is taken into the hand of the warning, which tells no verdict.
LEMMA WarnNextStep ==
  ASSUME SweepInv, NEW s \in Sweeper, WarnNext(s)
  PROVE  SweepInv'
<1>1. PICK row \in sw[s].batch :
        sw' = [sw EXCEPT ![s].pc = "warnqueue",
                         ![s].batch = @ \ {row},
                         ![s].cur = row[1],
                         ![s].read = TRUE,
                         ![s].eps = Endpoints(s),
                         ![s].todo = Targets(Endpoints(s), AtRisk)]
  BY DEF WarnNext
<1> DEFINE E == Endpoints(s)
           T == Targets(E, AtRisk)
           next == [sw[s] EXCEPT !.pc = "warnqueue", !.batch = @ \ {row}, !.cur = row[1],
                                 !.read = TRUE, !.eps = E, !.todo = T]
<1>2. sw[s] \in SweepState /\ row \in Txn \X Statuses
  BY DEF SweepInv, SweepTypes, SweepState
<1>3. E \subseteq Endpoint /\ T \subseteq Endpoint
  BY <1>2 DEF Endpoints, Targets, SweepInv, SweepTypes, SweepState
<1>4. sw' = [sw EXCEPT ![s] = next]
  BY <1>1, <1>2 DEF SweepInv, SweepTypes
<1> HIDE DEF E, T
<1>5. next \in SweepState /\ next.pc = "warnqueue" /\ next.cur \in Txn
  BY <1>2, <1>3 DEF SweepState, PCs
<1> HIDE DEF next
<1>6. UNCHANGED <<status, due, nearing, enabled, queued>>
  BY DEF WarnNext, rowVars
<1> QED BY <1>4, <1>5, <1>6, LetGo DEF SweepInv, SweepTypes, Decided, Warning

\* The warning of a row ends.
LEMMA WarnQueuedStep ==
  ASSUME SweepInv, NEW s \in Sweeper, WarnQueued(s)
  PROVE  SweepInv'
<1> DEFINE next == [sw[s] EXCEPT !.pc = "warnloop"]
<1>1. sw[s] \in SweepState
  BY DEF SweepInv, SweepTypes
<1>2. next \in SweepState /\ next.pc = "warnloop"
  BY <1>1 DEF SweepState, PCs
<1>3. sw' = [sw EXCEPT ![s] = next]
  BY <1>1 DEF WarnQueued, SweepInv, SweepTypes
<1> HIDE DEF next
<1>4. UNCHANGED <<status, due, nearing, enabled, queued>>
  BY DEF WarnQueued, rowVars
<1> QED BY <1>2, <1>3, <1>4, LetGo DEF SweepInv, SweepTypes, Decided, Warning

\* A sweep ends, at its end or before it: the rows it had claimed stay decided,
\* and nobody is told.
LEMMA EndStep ==
  ASSUME SweepInv, NEW s \in Sweeper, SweepDone(s) \/ Abort(s)
  PROVE  SweepInv'
<1>1. sw' = [sw EXCEPT ![s] = Idle] /\ UNCHANGED <<status, due, nearing, enabled, queued>>
  BY DEF SweepDone, Abort, rowVars
<1>2. Idle \in SweepState /\ Idle.pc = "idle"
  BY DEF Idle, SweepState, PCs
<1> QED BY <1>1, <1>2, LetGo DEF SweepInv, SweepTypes, Decided, Warning

\* Telling an endpoint, of anything.
LEMMA DeliveryTypes ==
  ASSUME SweepTypes, NEW s \in Sweeper, NEW ev \in Events, NEW t \in Txn, NEW e \in Endpoint,
         queued' = [queued EXCEPT ![<<t, e, ev>>] = @ + 1],
         sw' = [sw EXCEPT ![s].todo = @ \ {e}, ![s].sent = TRUE],
         UNCHANGED <<status, due, nearing, enabled>>
  PROVE  /\ SweepTypes'
         /\ \A r \in Sweeper : r # s => sw'[r] = sw[r]
         /\ sw'[s].pc = sw[s].pc /\ sw'[s].batch = sw[s].batch /\ sw'[s].cur = sw[s].cur
         /\ sw'[s].event = sw[s].event /\ sw'[s].todo = sw[s].todo \ {e}
<1> DEFINE next == [sw[s] EXCEPT !.todo = @ \ {e}, !.sent = TRUE]
<1>1. sw[s] \in SweepState
  BY DEF SweepTypes
<1>2. sw' = [sw EXCEPT ![s] = next]
  BY <1>1 DEF SweepTypes
<1>3. /\ next \in SweepState /\ next.pc = sw[s].pc /\ next.batch = sw[s].batch
      /\ next.cur = sw[s].cur /\ next.event = sw[s].event /\ next.todo = sw[s].todo \ {e}
  BY <1>1 DEF SweepState
<1> HIDE DEF next
<1>4. queued' \in [Txn \X Endpoint \X Events -> Nat]
  BY DEF SweepTypes
<1> QED BY <1>2, <1>3, <1>4, ZenonT(60) DEF SweepTypes

\* A verdict is told to an endpoint that has not heard one, about a transaction
\* that no other sweep holds.
LEMMA EnqueueStep ==
  ASSUME SweepInv, NEW s \in Sweeper, Enqueue(s)
  PROVE  SweepInv'
<1> DEFINE t == sw[s].cur
           ev == sw[s].event
<1>1. PICK e \in sw[s].todo :
        /\ queued' = [queued EXCEPT ![<<t, e, ev>>] = @ + 1]
        /\ sw' = [sw EXCEPT ![s].todo = @ \ {e}, ![s].sent = TRUE]
  BY DEF Enqueue, EnqueueDelivery
<1>2. sw[s] \in SweepState /\ sw[s].pc = "enqueue" /\ e \in Endpoint
  BY <1>1 DEF SweepInv, SweepTypes, SweepState, Enqueue, At
<1>3. /\ t \in Txn /\ t \notin Backfill /\ ev \in {Reversal, Suspect}
      /\ Verdict(t, e) = 0 /\ \A row \in sw[s].batch : row[1] # t
  BY <1>1, <1>2 DEF SweepInv, Orderly
<1>4. Holds(s, t) /\ Decided(t)
  BY <1>2, <1>3 DEF Holds, SweepInv, ClaimIsOwn
<1>5. /\ SweepTypes'
      /\ \A r \in Sweeper : r # s => sw'[r] = sw[r]
      /\ sw'[s].pc = sw[s].pc /\ sw'[s].batch = sw[s].batch /\ sw'[s].cur = sw[s].cur
      /\ sw'[s].event = sw[s].event /\ sw'[s].todo = sw[s].todo \ {e}
  BY <1>1, <1>2, <1>3, DeliveryTypes DEF Enqueue, SweepInv, Events
<1>6. \A u \in Txn, f \in Endpoint :
        IF u = t /\ f = e THEN Verdict(u, f)' = 1 ELSE Verdict(u, f)' = Verdict(u, f)
  BY <1>1, <1>2, <1>3, SMTT(30) DEF Verdict, SweepInv, SweepTypes, Events, Reversal, Suspect, AtRisk
<1>7. \A r \in Sweeper, u \in Txn : /\ Fresh(r, u)' <=> Fresh(r, u)
                                    /\ Holds(r, u)' <=> Holds(r, u)
  BY <1>5 DEF Fresh, Holds, Claimed
<1>8. \A r \in Sweeper : ~Fresh(r, t)
  <2>1. ~Fresh(s, t)
    BY <1>2, <1>3 DEF Fresh, Claimed, Judging
  <2> QED BY <2>1, <1>3, <1>4 DEF Holds, SweepInv, ClaimIsOwn
<1>9. \A r \in Sweeper : Orderly(r)'
  <2>1. Orderly(s)'
    BY <1>2, <1>3, <1>5, <1>6 DEF SweepInv, SweepTypes, SweepState, Orderly, Judging, Warning
  <2>2. ASSUME NEW r \in Sweeper, r # s PROVE Orderly(r)'
    <3>1. sw[r].pc = "enqueue" => sw[r].cur # t
      BY <2>2, <1>3, <1>4 DEF Holds, SweepInv, ClaimIsOwn
    <3>2. sw'[r] = sw[r] /\ sw[r] \in SweepState
      BY <2>2, <1>5 DEF SweepInv, SweepTypes
    <3> QED BY <3>1, <3>2, <1>6 DEF SweepInv, SweepState, Orderly, Judging, Warning
  <2> QED BY <2>1, <2>2
<1>10. ClaimIsOwn'
  BY <1>7 DEF Enqueue, SweepInv, ClaimIsOwn, Decided
<1>11. FreshIsUntold'
  BY <1>6, <1>7, <1>8 DEF SweepInv, FreshIsUntold
<1>12. ToldIsDecided'
  BY <1>4, <1>6 DEF Enqueue, SweepInv, ToldIsDecided, Decided
<1>13. SingleVerdict'
  BY <1>3, <1>6 DEF SweepInv, SingleVerdict, Verdict
<1> QED BY <1>5, <1>9, <1>10, <1>11, <1>12, <1>13 DEF SweepInv

\* A warning is no verdict.
LEMMA WarnQueueStep ==
  ASSUME SweepInv, NEW s \in Sweeper, WarnQueue(s)
  PROVE  SweepInv'
<1>1. PICK e \in sw[s].todo :
        /\ queued' = [queued EXCEPT ![<<sw[s].cur, e, AtRisk>>] = @ + 1]
        /\ sw' = [sw EXCEPT ![s].todo = @ \ {e}, ![s].sent = TRUE]
  BY DEF WarnQueue, EnqueueDelivery
<1>2. /\ sw[s] \in SweepState /\ sw[s].pc = "warnqueue" /\ e \in Endpoint
      /\ sw[s].cur \in Txn
  BY <1>1 DEF SweepInv, SweepTypes, SweepState, WarnQueue, At, Orderly
<1>3. /\ SweepTypes'
      /\ \A r \in Sweeper : r # s => sw'[r] = sw[r]
      /\ sw'[s].pc = sw[s].pc /\ sw'[s].batch = sw[s].batch /\ sw'[s].cur = sw[s].cur
  BY <1>1, <1>2, DeliveryTypes DEF WarnQueue, SweepInv, Events
<1>4. \A u \in Txn, f \in Endpoint, ev \in {Reversal, Suspect} :
        queued'[<<u, f, ev>>] = queued[<<u, f, ev>>]
  BY <1>1, <1>2 DEF SweepInv, SweepTypes, Events, Reversal, Suspect, AtRisk
<1>5. \A u \in Txn, f \in Endpoint : Verdict(u, f)' = Verdict(u, f)
  BY <1>4 DEF Verdict
<1>6. \A r \in Sweeper, u \in Txn : /\ Fresh(r, u)' <=> Fresh(r, u)
                                    /\ Holds(r, u)' <=> Holds(r, u)
  BY <1>3 DEF Fresh, Holds, Claimed
<1>7. \A r \in Sweeper : Orderly(r)'
  <2>1. Orderly(s)'
    BY <1>2, <1>3 DEF Orderly, Judging, Warning
  <2>2. ASSUME NEW r \in Sweeper, r # s PROVE Orderly(r)'
    <3>1. sw'[r] = sw[r] /\ sw[r] \in SweepState
      BY <2>2, <1>3 DEF SweepInv, SweepTypes
    <3> QED BY <3>1, <1>5 DEF SweepInv, SweepState, Orderly, Judging, Warning
  <2> QED BY <2>1, <2>2
<1>8. ClaimIsOwn' /\ FreshIsUntold' /\ ToldIsDecided'
  BY <1>5, <1>6 DEF WarnQueue, SweepInv, ClaimIsOwn, FreshIsUntold, ToldIsDecided, Decided
<1>9. SingleVerdict'
  BY <1>4 DEF SweepInv, SingleVerdict
<1> QED BY <1>3, <1>7, <1>8, <1>9 DEF SweepInv

-----------------------------------------------------------------------------
(* The theorem *)

\* Before anything is claimed nobody holds a row and nobody has been told.
LEMMA SweepInvInit == Init => SweepInv
<1> SUFFICES ASSUME Init PROVE SweepInv
  OBVIOUS
<1>1. Idle \in SweepState /\ Idle.pc = "idle"
  BY DEF Idle, SweepState, PCs
<1>2. SweepTypes
  BY <1>1 DEF Init, SweepTypes
<1>3. \A s \in Sweeper : sw[s].pc = "idle"
  BY <1>1 DEF Init
<1>4. \A t \in Txn, e \in Endpoint :
        queued[<<t, e, Reversal>>] = 0 /\ queued[<<t, e, Suspect>>] = 0
  BY DEF Init, Events
<1>5. \A s \in Sweeper, t \in Txn : ~Fresh(s, t) /\ ~Holds(s, t)
  BY <1>3 DEF Fresh, Holds, Claimed, Judging, Warning
<1>6. \A s \in Sweeper : Orderly(s)
  BY <1>3 DEF Orderly, Judging, Warning
<1>7. ClaimIsOwn /\ FreshIsUntold
  BY <1>5 DEF ClaimIsOwn, FreshIsUntold
<1>8. ToldIsDecided /\ SingleVerdict
  BY <1>4 DEF ToldIsDecided, SingleVerdict, Verdict
<1> QED BY <1>2, <1>6, <1>7, <1>8 DEF SweepInv

\* Where no sweep moves and nobody is told, it is enough that nothing reopens.
LEMMA NobodySweeps ==
  ASSUME SweepInv, UNCHANGED <<sw, queued>>, DOMAIN status' = Txn,
         due' \subseteq Txn, nearing' \subseteq Txn, enabled' \subseteq Endpoint,
         \A t \in Txn : Decided(t) => Decided(t)'
  PROVE  SweepInv'
<1>1. SweepTypes'
  BY DEF SweepInv, SweepTypes
<1>2. \A t, e : Verdict(t, e)' = Verdict(t, e)
  BY DEF Verdict
<1>3. \A r \in Sweeper : Orderly(r)'
  BY DEF SweepInv, Orderly, Verdict
<1>4. \A r \in Sweeper, t \in Txn : /\ Fresh(r, t)' <=> Fresh(r, t)
                                    /\ Holds(r, t)' <=> Holds(r, t)
  BY DEF Fresh, Holds, Claimed
<1>5. ClaimIsOwn' /\ FreshIsUntold' /\ ToldIsDecided'
  BY <1>2, <1>4 DEF SweepInv, ClaimIsOwn, FreshIsUntold, ToldIsDecided
<1>6. SingleVerdict'
  BY DEF SweepInv, SingleVerdict
<1> QED BY <1>1, <1>3, <1>5, <1>6 DEF SweepInv

\* Ingest, the clock, operators, the dispatcher and customers.
LEMMA EnvironmentStep ==
  ASSUME SweepInv, Environment
  PROVE  SweepInv'
<1> USE DEF others
<1>1. ASSUME NEW t \in Txn, Debit(t) PROVE SweepInv'
  <2>1. DOMAIN status' = Txn /\ \A u \in Txn : Decided(u) => Decided(u)'
    BY <1>1 DEF Debit, InsertRows, Stored, Decided
  <2> QED BY <1>1, <2>1, NobodySweeps DEF Debit, SweepInv, SweepTypes
<1>2. ASSUME NEW t \in Txn, NEW target \in Statuses, UpdateRow(t, target),
             UNCHANGED <<due, nearing, enabled, sw, queued>>
      PROVE  SweepInv'
  <2>1. DOMAIN status' = Txn /\ \A u \in Txn : Decided(u) => Decided(u)'
    BY <1>2, DecidedStays DEF UpdateRow, SweepInv, SweepTypes
  <2> QED BY <1>2, <2>1, NobodySweeps DEF SweepInv, SweepTypes
<1>3. ASSUME NEW t \in Txn, CreditDisputed(t) PROVE SweepInv'
  BY <1>3, <1>2 DEF CreditDisputed, Statuses
<1>4. ASSUME NEW t \in Txn, NEW v \in Verdicts, CreditArrives(t, v) PROVE SweepInv'
  <2>1. TargetStatus(v) \in Statuses
    BY DetectorAssumption DEF CreditStatuses, TargetStatus, Statuses
  <2> QED BY <1>4, <2>1, <1>2 DEF CreditArrives
<1>5. ASSUME NEW t \in Txn, NEW target \in {"reversal_completed", "reversal_failed"},
             ReversalEnds(t, target)
      PROVE  SweepInv'
  BY <1>5, <1>2 DEF ReversalEnds, Statuses
<1>6. ASSUME NEW t \in Txn, WindowCloses(t) \/ GapRecorded(t) \/ DeadlineNears(t)
      PROVE  SweepInv'
  <2>1. /\ UNCHANGED <<status, enabled, sw, queued>>
        /\ due' \subseteq Txn /\ nearing' \subseteq Txn
    BY <1>6 DEF WindowCloses, GapRecorded, DeadlineNears, SweepInv, SweepTypes
  <2> QED BY <2>1, NobodySweeps DEF SweepInv, SweepTypes, Decided
<1>7. ASSUME NEW e \in Endpoint, Toggle(e) PROVE SweepInv'
  <2>1. UNCHANGED <<status, due, nearing, sw, queued>> /\ enabled' \subseteq Endpoint
    BY <1>7 DEF Toggle, SweepInv, SweepTypes
  <2> QED BY <2>1, NobodySweeps DEF SweepInv, SweepTypes, Decided
<1> QED BY <1>1, <1>3, <1>4, <1>5, <1>6, <1>7 DEF Environment

\* Every step preserves the invariant.
LEMMA SweepInvStep == SweepInv /\ [Next]_vars => SweepInv'
<1> SUFFICES ASSUME SweepInv, [Next]_vars PROVE SweepInv'
  OBVIOUS
<1>1. ASSUME NEW s \in Sweeper, Step(s) PROVE SweepInv'
  BY <1>1, NextTxnStep, AskStep, SettleStep, UncertainStep, JudgeStep, ApplyFloorStep,
     ListStep, EnqueueStep, EnqueuedStep, MarkPendingStep, ClaimSLAAtRiskStep,
     WarnNextStep, WarnQueueStep, WarnQueuedStep, EndStep DEF Step
<1>2. ASSUME NEW s \in Sweeper, Claim(s) \/ Abort(s) PROVE SweepInv'
  BY <1>2, ClaimStep, EndStep
<1>3. CASE Environment
  BY <1>3, EnvironmentStep
<1>4. CASE UNCHANGED vars
  BY <1>4, NobodySweeps DEF vars, rowVars, SweepInv, SweepTypes, Decided
<1> QED BY <1>1, <1>2, <1>3, <1>4 DEF Next

\* Any number of replicas, with no leader, aborted sweeps, late credits and
\* endpoints switched on and off under them: an endpoint is told at most one
\* verdict on a transaction, once, and none about a backfilled one.
THEOREM OneVerdict == Spec => []SingleVerdict
<1>1. SweepInv => SingleVerdict
  BY DEF SweepInv
<1> QED BY <1>1, SweepInvInit, SweepInvStep, PTL DEF Spec

-----------------------------------------------------------------------------
(* What a verdict rests on, and the records that are kept of it *)

\* The confidence that silence alone reaches.
Alone == WeightWindowExpired + WeightIngestIntact

Seconded(t) == Floor > Alone => railSaid[t] \in {"failed", "not_found"}

\* Where the rail did not answer, a row that is reversed all the same is one
\* that a late credit had completed.
Answered(t) == railSaid[t] = "unknown" => status[t] = "completed"

\* The rows of a batch: as they were claimed, but for a late credit.
BatchGrounds(s) ==
  sw[s].pc \notin Warning => \A row \in sw[s].batch :
    /\ row[2] \in {"orphaned", "suspect"} /\ claimedAs[row[1]] = row[2]
    /\ row[2] = "orphaned" => status[row[1]] \in {"orphaned", "completed"}
    /\ railSaid[row[1]] = "unasked" /\ audited[row[1]] = {}

\* The row in hand, until its verdict is listed.
HandGrounds(s) ==
  sw[s].pc \in Judging =>
    /\ audited[sw[s].cur] = {}
    /\ sw[s].local \in {"orphaned", "suspect"}
    /\ sw[s].local = "orphaned" =>
         /\ claimedAs[sw[s].cur] = "orphaned"
         /\ status[sw[s].cur] \in {"orphaned", "completed"}
    /\ sw[s].pc \in {"ask", "settle", "uncertain"} =>
         sw[s].local = "orphaned" /\ sw[s].conf <= Alone
    /\ sw[s].pc \in {"settle", "verdict", "floor", "list"} =>
         Answered(sw[s].cur) \/ sw[s].local = "suspect"
    /\ sw[s].pc = "verdict" =>
         sw[s].conf <= Alone \/ railSaid[sw[s].cur] \in {"failed", "not_found"}
    /\ sw[s].pc = "list" /\ sw[s].event = Reversal =>
         sw[s].local = "orphaned" /\ Seconded(sw[s].cur)

\* The row in hand, while its endpoints are told and after.
TellGrounds(s) ==
  /\ sw[s].pc = "enqueue" =>
       /\ audited[sw[s].cur] \subseteq {sw[s].event}
       /\ \A ev \in {Reversal, Suspect} : ev # sw[s].event => ~Queued(sw[s].cur, ev)
       /\ sw[s].event = Reversal =>
            claimedAs[sw[s].cur] = "orphaned" /\ Answered(sw[s].cur) /\ Seconded(sw[s].cur)
       /\ sw[s].sent => Queued(sw[s].cur, sw[s].event)
  /\ sw[s].pc = "mark" => Queued(sw[s].cur, Reversal)

Grounds(s) == BatchGrounds(s) /\ HandGrounds(s) /\ TellGrounds(s)

\* What is on record of one transaction.
OnRecord(t) ==
  /\ Queued(t, Reversal) => claimedAs[t] = "orphaned" /\ Answered(t) /\ Seconded(t)
  /\ ~Decided(t) => audited[t] = {} /\ railSaid[t] = "unasked"
  /\ status[t] \in {"reversal_pending", "reversal_failed", "reversal_completed"}
       => Queued(t, Reversal)
  /\ \A ev \in {Reversal, Suspect} : Queued(t, ev) => audited[t] \subseteq {ev}

Histories == DOMAIN claimedAs = Txn /\ DOMAIN railSaid = Txn /\ DOMAIN audited = Txn

GroundsInv ==
  /\ Histories
  /\ \A s \in Sweeper : Grounds(s)
  /\ \A t \in Txn : OnRecord(t)

\* Nothing is written about a transaction.
Untouched(t) ==
  /\ status'[t] = status[t] /\ claimedAs'[t] = claimedAs[t]
  /\ railSaid'[t] = railSaid[t] /\ audited'[t] = audited[t]
  /\ \A ev \in {Reversal, Suspect} : Queued(t, ev)' <=> Queued(t, ev)

\* Nothing is written about a transaction, but for a credit that completes it.
AtMostCompleted(t) ==
  /\ claimedAs'[t] = claimedAs[t] /\ railSaid'[t] = railSaid[t] /\ audited'[t] = audited[t]
  /\ status[t] \in {"orphaned", "completed"} => status'[t] \in {status[t], "completed"}
  /\ \A ev \in {Reversal, Suspect} : Queued(t, ev)' <=> Queued(t, ev)

\* A sweep's grounds stand while nobody writes about what it holds.
LEMMA GroundsStand ==
  ASSUME SweepInv, NEW r \in Sweeper, Grounds(r), sw'[r] = sw[r],
         \A t \in Txn : Holds(r, t) => AtMostCompleted(t)
  PROVE  Grounds(r)'
<1>1. sw[r] \in SweepState
  BY DEF SweepInv, SweepTypes
<1>2. BatchGrounds(r)'
  <2> SUFFICES ASSUME sw[r].pc \notin Warning, NEW row \in sw[r].batch
               PROVE  /\ row[2] \in {"orphaned", "suspect"} /\ claimedAs'[row[1]] = row[2]
                      /\ row[2] = "orphaned" => status'[row[1]] \in {"orphaned", "completed"}
                      /\ railSaid'[row[1]] = "unasked" /\ audited'[row[1]] = {}
    BY DEF BatchGrounds
  <2>1. row[1] \in Txn /\ Holds(r, row[1])
    BY <1>1 DEF SweepState, Holds, Fresh, Claimed
  <2>2. AtMostCompleted(row[1])
    BY <2>1
  <2> QED BY <2>2 DEF Grounds, BatchGrounds, AtMostCompleted
<1>3. HandGrounds(r)'
  <2> SUFFICES ASSUME sw[r].pc \in Judging PROVE HandGrounds(r)'
    BY DEF HandGrounds
  <2>1. sw[r].cur \in Txn /\ AtMostCompleted(sw[r].cur)
    BY DEF SweepInv, Orderly, Holds, Fresh
  <2> QED BY <2>1 DEF Grounds, HandGrounds, AtMostCompleted, Answered, Seconded
<1>4. TellGrounds(r)'
  <2> SUFFICES ASSUME sw[r].pc \in {"enqueue", "mark"} PROVE TellGrounds(r)'
    BY DEF TellGrounds
  <2>1. sw[r].cur \in Txn /\ AtMostCompleted(sw[r].cur)
    BY DEF SweepInv, Orderly, Holds
  <2>2. sw[r].pc = "enqueue" => sw[r].event \in {Reversal, Suspect}
    BY DEF SweepInv, Orderly
  <2> QED BY <2>1, <2>2 DEF Grounds, TellGrounds, AtMostCompleted, Answered, Seconded
<1> QED BY <1>2, <1>3, <1>4 DEF Grounds

\* So does the record of a transaction.
LEMMA RecordStands ==
  ASSUME NEW t \in Txn, OnRecord(t), Untouched(t)
  PROVE  OnRecord(t)'
BY DEF OnRecord, Untouched, Answered, Seconded, Decided

\* A sweep that writes about nothing but the row in hand.
LEMMA InHandStep ==
  ASSUME SweepInv, GroundsInv, NEW s \in Sweeper,
         NEW u \in Txn, Holds(s, u),
         \A r \in Sweeper : r # s => sw'[r] = sw[r],
         \A t \in Txn : t # u => Untouched(t),
         Histories', Grounds(s)', OnRecord(u)'
  PROVE  GroundsInv'
<1>1. ASSUME NEW r \in Sweeper, r # s PROVE Grounds(r)'
  <2>1. \A t \in Txn : Holds(r, t) => AtMostCompleted(t)
    BY <1>1 DEF SweepInv, ClaimIsOwn, Untouched, AtMostCompleted
  <2> QED BY <1>1, <2>1, GroundsStand DEF GroundsInv
<1>2. ASSUME NEW t \in Txn, t # u PROVE OnRecord(t)'
  BY <1>2, RecordStands DEF GroundsInv
<1> QED BY <1>1, <1>2 DEF GroundsInv

\* A sweep that writes about nothing.
LEMMA SilentStep ==
  ASSUME SweepInv, GroundsInv, NEW s \in Sweeper,
         \A r \in Sweeper : r # s => sw'[r] = sw[r],
         UNCHANGED <<status, claimedAs, railSaid, audited>>,
         \A t \in Txn, ev \in {Reversal, Suspect} : Queued(t, ev)' <=> Queued(t, ev),
         Grounds(s)'
  PROVE  GroundsInv'
<1>1. \A t \in Txn : Untouched(t)
  BY DEF Untouched
<1>2. \A t \in Txn : AtMostCompleted(t)
  BY DEF AtMostCompleted
<1>3. \A r \in Sweeper : r # s => Grounds(r)'
  BY <1>2, GroundsStand DEF GroundsInv
<1>4. \A t \in Txn : OnRecord(t)'
  BY <1>1, RecordStands DEF GroundsInv
<1> QED BY <1>3, <1>4 DEF GroundsInv, Histories

\* Whoever has heard no verdict has neither delivery queued.
LEMMA UntoldIsUnqueued ==
  ASSUME SweepTypes, NEW t \in Txn, \A e \in Endpoint : ~(Verdict(t, e) > 0)
  PROVE  \A ev \in {Reversal, Suspect} : ~Queued(t, ev)
<1>1. \A e \in Endpoint : queued[<<t, e, Reversal>>] \in Nat /\ queued[<<t, e, Suspect>>] \in Nat
  BY DEF SweepTypes, Events
<1>2. \A e \in Endpoint : ~(queued[<<t, e, Reversal>>] > 0) /\ ~(queued[<<t, e, Suspect>>] > 0)
  BY <1>1 DEF Verdict
<1>3. ~Queued(t, Reversal) /\ ~Queued(t, Suspect)
  BY <1>2 DEF Queued
<1> QED BY <1>3

\* A batch is claimed: its rows have a verdict and no more.
LEMMA ClaimGrounds ==
  ASSUME SweepInv, SweepInv', GroundsInv, NEW s \in Sweeper, Claim(s)
  PROVE  GroundsInv'
<1>1. PICK T \in SUBSET Expired : ClaimBatch(s, T)
  BY DEF Claim
<1>2. /\ T \subseteq Txn
      /\ \A t \in T : ~Decided(t) /\ status'[t] \in {"orphaned", "suspect"} /\ claimedAs'[t] = status'[t]
      /\ \A t \in Txn \ T : status'[t] = status[t] /\ claimedAs'[t] = claimedAs[t]
      /\ UNCHANGED <<railSaid, audited, queued>>
  BY <1>1 DEF ClaimBatch, ClaimRows, ExpiredStatus, Expired, IsOpen, Decided, Absent,
              SweepInv, SweepTypes
<1>3. sw'[s].pc = "loop" /\ sw'[s].batch = {<<t, status'[t]>> : t \in T}
  BY <1>1, ZenonT(60) DEF ClaimBatch, SweepInv, SweepTypes, SweepState
<1>4. \A r \in Sweeper : r # s => sw'[r] = sw[r]
  BY <1>1 DEF ClaimBatch, SweepInv, SweepTypes
<1>5. \A t \in Txn, ev \in {Reversal, Suspect} : Queued(t, ev)' <=> Queued(t, ev)
  BY <1>2 DEF Queued
<1>6. ASSUME NEW t \in T
      PROVE  /\ railSaid[t] = "unasked" /\ audited[t] = {}
             /\ \A ev \in {Reversal, Suspect} : ~Queued(t, ev)
  <2>1. railSaid[t] = "unasked" /\ audited[t] = {}
    BY <1>2 DEF GroundsInv, OnRecord
  <2>2. \A e \in Endpoint : ~(Verdict(t, e) > 0)
    BY <1>2 DEF SweepInv, ToldIsDecided
  <2> QED BY <2>1, <2>2, <1>2, UntoldIsUnqueued DEF SweepInv
<1>7. Grounds(s)'
  <2>1. \A row \in sw'[s].batch : \E t \in T : row[1] = t /\ row[2] = status'[t]
    BY <1>3
  <2>2. BatchGrounds(s)'
    BY <2>1, <1>2, <1>3, <1>6 DEF BatchGrounds, Warning
  <2> QED BY <2>2, <1>3 DEF Grounds, HandGrounds, TellGrounds, Judging
<1>8. ASSUME NEW r \in Sweeper, r # s PROVE Grounds(r)'
  <2>1. \A t \in Txn : Holds(r, t) => t \notin T
    BY <1>2 DEF SweepInv, ClaimIsOwn
  <2>2. \A t \in Txn : Holds(r, t) => AtMostCompleted(t)
    BY <2>1, <1>2, <1>5 DEF AtMostCompleted
  <2> QED BY <2>2, <1>4, <1>8, GroundsStand DEF GroundsInv
<1>9. ASSUME NEW t \in Txn PROVE OnRecord(t)'
  <2>1. CASE t \in T
    BY <2>1, <1>2, <1>5, <1>6 DEF OnRecord, Decided, Absent
  <2>2. CASE t \notin T
    BY <2>2, <1>2, <1>5, RecordStands DEF Untouched, GroundsInv
  <2> QED BY <2>1, <2>2
<1>10. Histories'
  BY <1>1, <1>2 DEF ClaimBatch, GroundsInv, Histories
<1> QED BY <1>7, <1>8, <1>9, <1>10 DEF GroundsInv

\* The row in hand is one of the batch, and silence is all that speaks yet.
LEMMA NextTxnGrounds ==
  ASSUME SweepInv, GroundsInv, NEW s \in Sweeper, NextTxn(s)
  PROVE  GroundsInv'
<1>1. PICK row \in sw[s].batch, intact \in BOOLEAN :
        sw' = [sw EXCEPT
          ![s].pc = IF Corroborate /\ row[2] = "orphaned" THEN "ask" ELSE "verdict",
          ![s].batch = @ \ {row},
          ![s].cur = row[1],
          ![s].local = row[2],
          ![s].conf = Confidence(WeightWindowExpired
                                 + (IF intact THEN WeightIngestIntact ELSE 0))]
  BY ZenonT(60) DEF NextTxn
<1>2. sw[s] \in SweepState /\ sw[s].pc = "loop"
  BY DEF SweepInv, SweepTypes, NextTxn, At
<1>3. /\ sw'[s].pc \in {"ask", "verdict"}
      /\ sw'[s].pc = "ask" => row[2] = "orphaned"
      /\ sw'[s].batch = sw[s].batch \ {row} /\ sw'[s].cur = row[1] /\ sw'[s].local = row[2]
      /\ sw'[s].conf <= Alone
  BY <1>1, <1>2
     DEF SweepInv, SweepTypes, SweepState, Confidence, Alone, WeightWindowExpired,
         WeightIngestIntact
<1>4. \A r \in Sweeper : r # s => sw'[r] = sw[r]
  BY <1>1 DEF SweepInv, SweepTypes
<1>5. UNCHANGED <<status, claimedAs, railSaid, audited, queued>>
  BY DEF NextTxn, rowVars
<1>6. BatchGrounds(s)
  BY DEF GroundsInv, Grounds
<1>7. Grounds(s)'
  BY <1>2, <1>3, <1>5, <1>6
     DEF Grounds, BatchGrounds, HandGrounds, TellGrounds, Warning, Judging, Answered
<1>8. \A t \in Txn, ev \in {Reversal, Suspect} : Queued(t, ev)' <=> Queued(t, ev)
  BY <1>5 DEF Queued
<1> QED BY <1>4, <1>5, <1>7, <1>8, SilentStep

\* An answer that speaks for a reversal is what lifts the confidence.
LEMMA AskGrounds ==
  ASSUME SweepInv, GroundsInv, NEW s \in Sweeper, Ask(s)
  PROVE  GroundsInv'
<1>1. PICK o \in Outcomes :
        /\ railSaid' = [railSaid EXCEPT ![sw[s].cur] = o]
        /\ sw' = [sw EXCEPT
             ![s].pc = CASE o = "settled" -> "settle"
                         [] o = "unknown" -> "uncertain"
                         [] OTHER         -> "verdict",
             ![s].conf = CASE o = "failed"    -> Confidence(@ + WeightProviderFailed)
                           [] o = "not_found" -> Confidence(@ + WeightProviderNotFound)
                           [] OTHER           -> @]
  BY DEF Ask
<1>2. sw[s] \in SweepState /\ sw[s].pc = "ask"
  BY DEF SweepInv, SweepTypes, Ask, At
<1> PICK t \in Txn : t = sw[s].cur
  BY <1>2 DEF SweepInv, Orderly, Judging
<1>3. Holds(s, t) /\ Fresh(s, t) /\ Decided(t)
  BY <1>2 DEF SweepInv, ClaimIsOwn, Holds, Fresh, Judging
<1>4. /\ sw'[s].pc = CASE o = "settled" -> "settle" [] o = "unknown" -> "uncertain"
                       [] OTHER -> "verdict"
      /\ sw'[s].batch = sw[s].batch /\ sw'[s].cur = t /\ sw'[s].local = sw[s].local
      /\ o \in {"settled", "unknown"} => sw'[s].conf = sw[s].conf
      /\ railSaid'[t] = o
  BY <1>1, <1>2, <1>3 DEF SweepInv, SweepTypes, SweepState, GroundsInv, Histories
<1>5. \A r \in Sweeper : r # s => sw'[r] = sw[r]
  BY <1>1 DEF SweepInv, SweepTypes
<1>6. UNCHANGED <<status, claimedAs, audited, queued>>
  BY DEF Ask
<1>7. \A u \in Txn : u # t => railSaid'[u] = railSaid[u]
  BY <1>1 DEF GroundsInv, Histories
<1>8. \A u \in Txn, ev \in {Reversal, Suspect} : Queued(u, ev)' <=> Queued(u, ev)
  BY <1>6 DEF Queued
<1>9. \A ev \in {Reversal, Suspect} : ~Queued(t, ev)
  <2>1. \A e \in Endpoint : Verdict(t, e) = 0
    BY <1>3 DEF SweepInv, FreshIsUntold
  <2> QED BY <2>1, <1>3, UntoldIsUnqueued DEF SweepInv
<1>10. Grounds(s)'
  <2>1. BatchGrounds(s)'
    <3>1. \A row \in sw[s].batch : row[1] \in Txn /\ row[1] # t
      BY <1>2 DEF SweepInv, Orderly, Judging, SweepState
    <3> QED BY <3>1, <1>2, <1>4, <1>6, <1>7 DEF GroundsInv, Grounds, BatchGrounds, Warning
  <2>2. HandGrounds(s)'
    <3>1. HandGrounds(s)
      BY DEF GroundsInv, Grounds
    <3>2. o \in {"settled", "unknown", "failed", "not_found"}
      BY DEF Outcomes
    <3> QED BY <3>1, <3>2, <1>2, <1>4, <1>6 DEF HandGrounds, Judging, Answered
  <2>3. TellGrounds(s)'
    BY <1>4 DEF TellGrounds
  <2> QED BY <2>1, <2>2, <2>3 DEF Grounds
<1>11. OnRecord(t)'
  <2>1. OnRecord(t)
    BY <1>3 DEF GroundsInv
  <2> QED BY <2>1, <1>3, <1>6, <1>8, <1>9 DEF OnRecord, Decided
<1>12. \A u \in Txn : u # t => Untouched(u)
  BY <1>6, <1>7, <1>8 DEF Untouched
<1>13. Histories'
  BY <1>1, <1>6 DEF GroundsInv, Histories
<1> QED BY <1>3, <1>5, <1>10, <1>11, <1>12, <1>13, InHandStep

\* The row in hand is judged: only its status and the sweep's own variables move.
LEMMA JudgingGrounds ==
  ASSUME SweepInv, GroundsInv, NEW s \in Sweeper, sw[s].pc \in Judging,
         NEW next \in SweepState, sw' = [sw EXCEPT ![s] = next],
         next.pc \in Judging \cup {"loop"},
         next.batch = sw[s].batch, next.cur = sw[s].cur,
         UNCHANGED <<claimedAs, railSaid, audited, queued>>,
         UNCHANGED status \/ \E target \in {"completed", "suspect"} : TryMark(s, target),
         HandGrounds(s)'
  PROVE  GroundsInv'
<1>1. sw[s] \in SweepState /\ sw'[s] = next /\ \A r \in Sweeper : r # s => sw'[r] = sw[r]
  BY DEF SweepInv, SweepTypes
<1> PICK t \in Txn : t = sw[s].cur
  BY DEF SweepInv, Orderly
<1>2. Holds(s, t) /\ Fresh(s, t) /\ Decided(t)
  BY DEF SweepInv, ClaimIsOwn, Holds, Fresh
<1>3. \A ev \in {Reversal, Suspect} : ~Queued(t, ev)
  <2>1. \A e \in Endpoint : Verdict(t, e) = 0
    BY <1>2 DEF SweepInv, FreshIsUntold
  <2> QED BY <2>1, UntoldIsUnqueued DEF SweepInv
<1>4. \A u \in Txn, ev \in {Reversal, Suspect} : Queued(u, ev)' <=> Queued(u, ev)
  BY DEF Queued
<1>5. /\ \A u \in Txn : u # t => status'[u] = status[u]
      /\ status'[t] \in {status[t], "completed", "suspect"}
  BY DEF TryMark, UpdateRow, SweepInv, SweepTypes
<1>6. BatchGrounds(s)'
  <2>1. \A row \in sw[s].batch : row[1] \in Txn /\ row[1] # t
    BY <1>1 DEF SweepInv, Orderly, SweepState
  <2> QED BY <2>1, <1>1, <1>5 DEF GroundsInv, Grounds, BatchGrounds, Judging, Warning
<1>7. TellGrounds(s)'
  BY <1>1 DEF TellGrounds, Judging
<1>8. OnRecord(t)'
  <2>1. OnRecord(t)
    BY DEF GroundsInv
  <2> QED BY <2>1, <1>2, <1>3, <1>4, <1>5 DEF OnRecord, Decided, Absent
<1>9. \A u \in Txn : u # t => Untouched(u)
  BY <1>4, <1>5 DEF Untouched
<1> QED BY <1>1, <1>2, <1>6, <1>7, <1>8, <1>9, InHandStep DEF Grounds, GroundsInv, Histories

\* A settled orphan is let go; one that a credit completed first is judged on.
LEMMA SettleGrounds ==
  ASSUME SweepInv, GroundsInv, NEW s \in Sweeper, Settle(s)
  PROVE  GroundsInv'
<1> DEFINE label == IF UpdateMatches(sw[s].cur, "completed") THEN "loop" ELSE "verdict"
           next == [sw[s] EXCEPT !.pc = label]
<1>1. sw[s] \in SweepState /\ sw[s].pc = "settle"
  BY DEF SweepInv, SweepTypes, Settle, At
<1>2. label \in {"loop", "verdict"} /\ (label = "verdict" => ~UpdateMatches(sw[s].cur, "completed"))
  OBVIOUS
<1>3. sw' = [sw EXCEPT ![s] = next]
  BY <1>1 DEF Settle, SweepInv, SweepTypes
<1> HIDE DEF label
<1>4. /\ next \in SweepState /\ next.pc = label /\ next.batch = sw[s].batch
      /\ next.cur = sw[s].cur /\ next.local = sw[s].local /\ next.conf = sw[s].conf
  BY <1>1, <1>2 DEF SweepState, PCs
<1> HIDE DEF next
<1>5. TryMark(s, "completed") /\ UNCHANGED <<claimedAs, railSaid, audited, queued>>
  BY DEF Settle
<1>6. sw'[s] = next
  BY <1>3 DEF SweepInv, SweepTypes
<1>7. HandGrounds(s)'
  <2>1. HandGrounds(s)
    BY DEF GroundsInv, Grounds
  <2>2. status[sw[s].cur] \in {"orphaned", "completed"} /\ sw[s].local = "orphaned"
    BY <2>1, <1>1 DEF HandGrounds, Judging
  <2>3. label = "verdict" => UNCHANGED status /\ status[sw[s].cur] = "completed"
    BY <2>2, <1>2, <1>5
       DEF TryMark, UpdateMatches, SourcesFor, CanTransition, allowedTransitions, Statuses
  <2> QED BY <2>1, <2>2, <2>3, <1>1, <1>2, <1>4, <1>5, <1>6
          DEF HandGrounds, Judging, Answered
<1> QED BY <1>1, <1>2, <1>3, <1>4, <1>5, <1>7, JudgingGrounds DEF Judging

\* Where the rail did not answer the row goes to a human, unless a credit
\* completed it first.
LEMMA UncertainGrounds ==
  ASSUME SweepInv, GroundsInv, NEW s \in Sweeper, Uncertain(s)
  PROVE  GroundsInv'
<1> DEFINE mine == IF UpdateMatches(sw[s].cur, "suspect") THEN "suspect" ELSE sw[s].local
           next == [sw[s] EXCEPT !.pc = "verdict", !.local = mine]
<1>1. sw[s] \in SweepState /\ sw[s].pc = "uncertain"
  BY DEF SweepInv, SweepTypes, Uncertain, At
<1>2. /\ mine \in Statuses \cup {None}
      /\ mine = "suspect" \/ (mine = sw[s].local /\ ~UpdateMatches(sw[s].cur, "suspect"))
  BY <1>1 DEF SweepState, Statuses
<1>3. sw' = [sw EXCEPT ![s] = next]
  BY <1>1 DEF Uncertain, SweepInv, SweepTypes
<1> HIDE DEF mine
<1>4. /\ next \in SweepState /\ next.pc = "verdict" /\ next.batch = sw[s].batch
      /\ next.cur = sw[s].cur /\ next.local = mine /\ next.conf = sw[s].conf
  BY <1>1, <1>2, ZenonT(60) DEF SweepState, PCs
<1> HIDE DEF next
<1>5. TryMark(s, "suspect") /\ UNCHANGED <<claimedAs, railSaid, audited, queued>>
  BY DEF Uncertain
<1>6. sw'[s] = next
  BY <1>3 DEF SweepInv, SweepTypes
<1>7. HandGrounds(s)'
  <2>1. HandGrounds(s)
    BY DEF GroundsInv, Grounds
  <2>2. status[sw[s].cur] \in {"orphaned", "completed"} /\ sw[s].local = "orphaned"
    BY <2>1, <1>1 DEF HandGrounds, Judging
  <2>3. mine # "suspect" => UNCHANGED status /\ status[sw[s].cur] = "completed"
    BY <2>2, <1>2, <1>5
       DEF TryMark, UpdateMatches, SourcesFor, CanTransition, allowedTransitions, Statuses
  <2> QED BY <2>1, <2>2, <2>3, <1>1, <1>2, <1>4, <1>5, <1>6
          DEF HandGrounds, Judging, Answered
<1> QED BY <1>1, <1>3, <1>4, <1>5, <1>7, JudgingGrounds DEF Judging

\* A reversal is decided on for an orphan, and above the floor.
LEMMA JudgeGrounds ==
  ASSUME SweepInv, GroundsInv, NEW s \in Sweeper, Judge(s)
  PROVE  GroundsInv'
<1> DEFINE ev == IF sw[s].local = "suspect" THEN Suspect ELSE Reversal
           label == IF sw[s].local # "suspect" /\ BelowFloor(s) THEN "floor" ELSE Notify(s)
           next == [sw[s] EXCEPT !.event = ev, !.pc = label]
<1>1. sw[s] \in SweepState /\ sw[s].pc = "verdict"
  BY DEF SweepInv, SweepTypes, Judge, At
<1>2. /\ label \in {"floor", "loop", "list"} /\ ev \in {Reversal, Suspect}
      /\ ev = Reversal /\ label = "list" => sw[s].local # "suspect" /\ ~BelowFloor(s)
  BY DEF Notify, Reversal, Suspect
<1>3. sw' = [sw EXCEPT ![s] = next]
  BY <1>1 DEF Judge, SweepInv, SweepTypes
<1> HIDE DEF ev, label
<1>4. /\ next \in SweepState /\ next.pc = label /\ next.event = ev /\ next.batch = sw[s].batch
      /\ next.cur = sw[s].cur /\ next.local = sw[s].local /\ next.conf = sw[s].conf
  BY <1>1, <1>2, ZenonT(60) DEF SweepState, PCs, Events
<1> HIDE DEF next
<1>5. UNCHANGED <<status, claimedAs, railSaid, audited, queued>>
  BY DEF Judge, rowVars
<1>6. sw'[s] = next
  BY <1>3 DEF SweepInv, SweepTypes
<1>7. HandGrounds(s)
  BY DEF GroundsInv, Grounds
<1>8. ~BelowFloor(s) => Seconded(sw[s].cur)
  <2>1. sw[s].conf \in 0..100 /\ Floor \in 0..100
    BY <1>1, DetectorAssumption DEF SweepState
  <2>2. sw[s].conf <= Alone \/ railSaid[sw[s].cur] \in {"failed", "not_found"}
    BY <1>1, <1>7 DEF HandGrounds, Judging
  <2> QED BY <2>1, <2>2
          DEF BelowFloor, Seconded, Alone, WeightWindowExpired, WeightIngestIntact
<1>9. HandGrounds(s)'
  BY <1>1, <1>2, <1>4, <1>5, <1>6, <1>7, <1>8 DEF HandGrounds, Judging, Answered, Seconded
<1> QED BY <1>1, <1>2, <1>3, <1>4, <1>5, <1>9, JudgingGrounds DEF Judging

\* Below the floor it is an investigation.
LEMMA ApplyFloorGrounds ==
  ASSUME SweepInv, GroundsInv, NEW s \in Sweeper, ApplyFloor(s)
  PROVE  GroundsInv'
<1> DEFINE label == Notify(s)
           next == [sw[s] EXCEPT !.local = "suspect", !.event = Suspect, !.pc = label]
<1>1. sw[s] \in SweepState /\ sw[s].pc = "floor"
  BY DEF SweepInv, SweepTypes, ApplyFloor, At
<1>2. label \in {"loop", "list"}
  BY DEF Notify
<1>3. sw' = [sw EXCEPT ![s] = next]
  BY <1>1 DEF ApplyFloor, SweepInv, SweepTypes
<1> HIDE DEF label
<1>4. /\ next \in SweepState /\ next.pc = label /\ next.event = Suspect
      /\ next.local = "suspect" /\ next.batch = sw[s].batch /\ next.cur = sw[s].cur
  BY <1>1, <1>2, ZenonT(60) DEF SweepState, PCs, Events, Statuses
<1> HIDE DEF next
<1>5. TryMark(s, "suspect") /\ UNCHANGED <<claimedAs, railSaid, audited, queued>>
  BY DEF ApplyFloor
<1>6. sw'[s] = next
  BY <1>3 DEF SweepInv, SweepTypes
<1>7. HandGrounds(s)'
  BY <1>1, <1>2, <1>4, <1>5, <1>6
     DEF GroundsInv, Grounds, HandGrounds, Judging, Reversal, Suspect
<1> QED BY <1>1, <1>2, <1>3, <1>4, <1>5, <1>7, JudgingGrounds DEF Judging

\* Whoever is to be told is told on the grounds of the verdict, which is recorded
\* before anybody hears another.
LEMMA ListGrounds ==
  ASSUME SweepInv, GroundsInv, NEW s \in Sweeper, List(s)
  PROVE  GroundsInv'
<1>1. sw[s] \in SweepState /\ sw[s].pc = "list"
  BY DEF SweepInv, SweepTypes, List, At
<1> PICK t \in Txn : t = sw[s].cur
  BY <1>1 DEF SweepInv, Orderly, Judging
<1>2. /\ sw'[s].pc = "enqueue" /\ sw'[s].batch = sw[s].batch /\ sw'[s].cur = t
      /\ sw'[s].event = sw[s].event /\ sw'[s].sent = FALSE
      /\ \A r \in Sweeper : r # s => sw'[r] = sw[r]
  BY <1>1 DEF List, SweepInv, SweepTypes, SweepState
<1>3. Holds(s, t) /\ Fresh(s, t) /\ Decided(t) /\ sw[s].event \in {Reversal, Suspect}
  BY <1>1 DEF SweepInv, ClaimIsOwn, Holds, Fresh, Judging, Orderly
<1>4. \A ev \in {Reversal, Suspect} : ~Queued(t, ev)
  <2>1. \A e \in Endpoint : Verdict(t, e) = 0
    BY <1>3 DEF SweepInv, FreshIsUntold
  <2> QED BY <2>1, UntoldIsUnqueued DEF SweepInv
<1>5. UNCHANGED <<status, claimedAs, railSaid, queued>>
  BY DEF List
<1>6. \A u \in Txn, ev \in {Reversal, Suspect} : Queued(u, ev)' <=> Queued(u, ev)
  BY <1>5 DEF Queued
<1>7. HandGrounds(s)
  BY DEF GroundsInv, Grounds
<1>8. /\ DOMAIN audited' = Txn /\ \A u \in Txn : u # t => audited'[u] = audited[u]
      /\ audited'[t] \subseteq {sw[s].event}
  <2>1. audited[t] = {}
    BY <1>1, <1>7 DEF HandGrounds, Judging
  <2> QED BY <2>1, <1>1 DEF List, GroundsInv, Histories
<1>9. BatchGrounds(s)'
  <2>1. \A row \in sw[s].batch : row[1] \in Txn /\ row[1] # t
    BY <1>1 DEF SweepInv, Orderly, Judging, SweepState
  <2> QED BY <2>1, <1>1, <1>2, <1>5, <1>8 DEF GroundsInv, Grounds, BatchGrounds, Warning
<1>10. TellGrounds(s)'
  BY <1>1, <1>2, <1>3, <1>4, <1>5, <1>6, <1>7, <1>8
     DEF TellGrounds, HandGrounds, Judging, Answered, Seconded, Reversal, Suspect
<1>11. HandGrounds(s)'
  BY <1>2 DEF HandGrounds, Judging
<1>12. OnRecord(t)'
  <2>1. OnRecord(t)
    BY DEF GroundsInv
  <2> QED BY <2>1, <1>3, <1>4, <1>5, <1>6 DEF OnRecord, Decided
<1>13. \A u \in Txn : u # t => Untouched(u)
  BY <1>5, <1>6, <1>8 DEF Untouched
<1> QED BY <1>2, <1>3, <1>5, <1>8, <1>9, <1>10, <1>11, <1>12, <1>13, InHandStep
        DEF Grounds, GroundsInv, Histories

\* A delivery is queued for the verdict of the row in hand.
LEMMA EnqueueGrounds ==
  ASSUME SweepInv, GroundsInv, NEW s \in Sweeper, Enqueue(s)
  PROVE  GroundsInv'
<1>1. sw[s] \in SweepState /\ sw[s].pc = "enqueue"
  BY DEF SweepInv, SweepTypes, Enqueue, At
<1> PICK t \in Txn : t = sw[s].cur
  BY <1>1 DEF SweepInv, Orderly
<1> PICK ev \in {Reversal, Suspect} : ev = sw[s].event
  BY <1>1 DEF SweepInv, Orderly
<1>2. PICK e \in sw[s].todo :
        /\ queued' = [queued EXCEPT ![<<t, e, ev>>] = @ + 1]
        /\ sw' = [sw EXCEPT ![s].todo = @ \ {e}, ![s].sent = TRUE]
  BY DEF Enqueue, EnqueueDelivery
<1>3. /\ e \in Endpoint /\ ev \in Events
      /\ sw'[s].pc = "enqueue" /\ sw'[s].batch = sw[s].batch /\ sw'[s].cur = t
      /\ sw'[s].event = ev
      /\ \A r \in Sweeper : r # s => sw'[r] = sw[r]
  BY <1>1, <1>2 DEF SweepInv, SweepTypes, SweepState, Events
<1>4. Holds(s, t) /\ Decided(t)
  BY <1>1 DEF SweepInv, ClaimIsOwn, Holds
<1>5. /\ queued'[<<t, e, ev>>] > 0
      /\ \A u \in Txn, f \in Endpoint, v \in {Reversal, Suspect} :
           <<u, f, v>> # <<t, e, ev>> => queued'[<<u, f, v>>] = queued[<<u, f, v>>]
  <2>1. queued \in [Txn \X Endpoint \X Events -> Nat] /\ <<t, e, ev>> \in Txn \X Endpoint \X Events
    BY <1>3 DEF SweepInv, SweepTypes
  <2>2. queued[<<t, e, ev>>] \in Nat
    BY <2>1
  <2>3. \A u \in Txn, f \in Endpoint, v \in {Reversal, Suspect} :
          <<u, f, v>> \in Txn \X Endpoint \X Events
    BY DEF Events
  <2> QED BY <2>1, <2>2, <2>3, <1>2
<1>6. /\ Queued(t, ev)'
      /\ \A u \in Txn, v \in {Reversal, Suspect} :
           (u # t \/ v # ev) => (Queued(u, v)' <=> Queued(u, v))
  BY <1>3, <1>5 DEF Queued
<1>7. UNCHANGED <<status, claimedAs, railSaid, audited>>
  BY DEF Enqueue
<1>8. TellGrounds(s) /\ OnRecord(t)
  BY DEF GroundsInv, Grounds
<1>9. BatchGrounds(s)'
  BY <1>1, <1>3, <1>7 DEF GroundsInv, Grounds, BatchGrounds, Warning
<1>10. TellGrounds(s)'
  BY <1>1, <1>3, <1>6, <1>7, <1>8 DEF TellGrounds, Answered, Seconded
<1>11. OnRecord(t)'
  <2>1. /\ audited[t] \subseteq {ev}
        /\ \A v \in {Reversal, Suspect} : v # ev => ~Queued(t, v)
        /\ ev = Reversal => claimedAs[t] = "orphaned" /\ Answered(t) /\ Seconded(t)
    BY <1>1, <1>8 DEF TellGrounds
  <2>2. \A v \in {Reversal, Suspect} : Queued(t, v)' => v = ev
    BY <2>1, <1>6
  <2>3. Queued(t, Reversal) => Queued(t, Reversal)'
    BY <1>6
  <2> QED BY <2>1, <2>2, <2>3, <1>4, <1>7, <1>8 DEF OnRecord, Decided, Answered, Seconded
<1>12. \A u \in Txn : u # t => Untouched(u)
  BY <1>6, <1>7 DEF Untouched
<1>13. HandGrounds(s)'
  BY <1>3 DEF HandGrounds, Judging
<1> QED BY <1>3, <1>4, <1>7, <1>9, <1>10, <1>11, <1>12, <1>13, InHandStep
        DEF Grounds, GroundsInv, Histories

\* What is to be marked has been queued for.
LEMMA EnqueuedGrounds ==
  ASSUME SweepInv, GroundsInv, NEW s \in Sweeper, Enqueued(s)
  PROVE  GroundsInv'
<1>1. sw[s] \in SweepState /\ sw[s].pc = "enqueue"
  BY DEF SweepInv, SweepTypes, Enqueued, At
<1>2. /\ sw'[s].pc \in {"mark", "loop"} /\ sw'[s].batch = sw[s].batch /\ sw'[s].cur = sw[s].cur
      /\ sw'[s].pc = "mark" => sw[s].sent /\ sw[s].event = Reversal
      /\ \A r \in Sweeper : r # s => sw'[r] = sw[r]
  BY <1>1 DEF Enqueued, SweepInv, SweepTypes, SweepState
<1>3. UNCHANGED <<status, claimedAs, railSaid, audited, queued>>
  BY DEF Enqueued, rowVars
<1>4. \A t \in Txn, ev \in {Reversal, Suspect} : Queued(t, ev)' <=> Queued(t, ev)
  BY <1>3 DEF Queued
<1>5. sw[s].cur \in Txn
  BY <1>1 DEF SweepInv, Orderly
<1>6. BatchGrounds(s)'
  BY <1>1, <1>2, <1>3 DEF GroundsInv, Grounds, BatchGrounds, Warning
<1>7. TellGrounds(s)'
  BY <1>1, <1>2, <1>4, <1>5 DEF GroundsInv, Grounds, TellGrounds
<1>8. HandGrounds(s)'
  BY <1>2 DEF HandGrounds, Judging
<1> QED BY <1>2, <1>3, <1>4, <1>6, <1>7, <1>8, SilentStep DEF Grounds

\* The mark follows the delivery, and leaves alone what a credit completed.
LEMMA MarkPendingGrounds ==
  ASSUME SweepInv, GroundsInv, NEW s \in Sweeper, MarkPending(s)
  PROVE  GroundsInv'
<1>1. sw[s] \in SweepState /\ sw[s].pc = "mark"
  BY DEF SweepInv, SweepTypes, MarkPending, At
<1> PICK t \in Txn : t = sw[s].cur
  BY <1>1 DEF SweepInv, Orderly
<1>2. /\ sw'[s].pc = "loop" /\ sw'[s].batch = sw[s].batch /\ sw'[s].cur = t
      /\ \A r \in Sweeper : r # s => sw'[r] = sw[r]
  BY <1>1 DEF MarkPending, SweepInv, SweepTypes, SweepState
<1>3. Holds(s, t) /\ Decided(t)
  BY <1>1 DEF SweepInv, ClaimIsOwn, Holds
<1>4. UNCHANGED <<claimedAs, railSaid, audited, queued>>
  BY DEF MarkPending
<1>5. \A u \in Txn, ev \in {Reversal, Suspect} : Queued(u, ev)' <=> Queued(u, ev)
  BY <1>4 DEF Queued
<1>6. Queued(t, Reversal)
  BY <1>1 DEF GroundsInv, Grounds, TellGrounds
<1>7. /\ \A u \in Txn : u # t => status'[u] = status[u]
      /\ status'[t] = status[t] \/ (status[t] # "completed" /\ status'[t] = "reversal_pending")
  BY DEF MarkPending, TryMark, UpdateRow, UpdateMatches, SourcesFor, CanTransition,
         allowedTransitions, SweepInv, SweepTypes
<1>8. BatchGrounds(s)'
  <2>1. \A row \in sw[s].batch : row[1] \in Txn /\ row[1] # t
    BY <1>1 DEF SweepInv, Orderly, SweepState
  <2> QED BY <2>1, <1>1, <1>2, <1>4, <1>7 DEF GroundsInv, Grounds, BatchGrounds, Warning
<1>9. HandGrounds(s)' /\ TellGrounds(s)'
  BY <1>2 DEF HandGrounds, TellGrounds, Judging
<1>10. OnRecord(t)'
  <2>1. OnRecord(t)
    BY DEF GroundsInv
  <2> QED BY <2>1, <1>3, <1>4, <1>5, <1>6, <1>7
          DEF OnRecord, Decided, Answered, Seconded, Absent
<1>11. \A u \in Txn : u # t => Untouched(u)
  BY <1>4, <1>5, <1>7 DEF Untouched
<1> QED BY <1>2, <1>3, <1>4, <1>8, <1>9, <1>10, <1>11, InHandStep
        DEF Grounds, GroundsInv, Histories

\* The warnings, and the end of a sweep, rest on nothing and record nothing.
LEMMA WarningGrounds ==
  ASSUME SweepInv, GroundsInv, NEW s \in Sweeper,
         \/ ClaimSLAAtRisk(s) \/ WarnNext(s) \/ WarnQueue(s) \/ WarnQueued(s)
         \/ SweepDone(s) \/ Abort(s)
  PROVE  GroundsInv'
<1>1. sw \in [Sweeper -> SweepState]
  BY DEF SweepInv, SweepTypes
<1>2. ASSUME sw'[s].pc \in Warning, \A r \in Sweeper : r # s => sw'[r] = sw[r],
             UNCHANGED <<status, claimedAs, railSaid, audited>>,
             \A t \in Txn, ev \in {Reversal, Suspect} : Queued(t, ev)' <=> Queued(t, ev)
      PROVE  GroundsInv'
  <2>1. Grounds(s)'
    BY <1>2 DEF Grounds, BatchGrounds, HandGrounds, TellGrounds, Warning, Judging
  <2> QED BY <2>1, <1>2, SilentStep
<1>3. CASE ClaimSLAAtRisk(s)
  <2>1. PICK T \in SUBSET WarnDue :
          sw' = [sw EXCEPT ![s] = [Idle EXCEPT !.pc = "warnloop",
                                               !.batch = {<<t, status[t]>> : t \in T}]]
    BY <1>3 DEF ClaimSLAAtRisk
  <2> DEFINE rows == {<<t, status[t]>> : t \in T}
  <2>2. sw' = [sw EXCEPT ![s] = [Idle EXCEPT !.pc = "warnloop", !.batch = rows]]
    BY <2>1
  <2> HIDE DEF rows
  <2>3. sw'[s].pc \in Warning /\ \A r \in Sweeper : r # s => sw'[r] = sw[r]
    BY <1>1, <2>2, SMTT(30) DEF Idle, Warning
  <2>4. UNCHANGED <<status, claimedAs, railSaid, audited, queued>>
    BY <1>3 DEF ClaimSLAAtRisk
  <2> QED BY <2>3, <2>4, <1>2, SMTT(30) DEF Queued
<1>6. CASE SweepDone(s) \/ Abort(s)
  <2>1. sw'[s].pc \in Warning /\ \A r \in Sweeper : r # s => sw'[r] = sw[r]
    BY <1>1, <1>6 DEF SweepDone, Abort, Idle, Warning
  <2>2. UNCHANGED <<status, claimedAs, railSaid, audited, queued>>
    BY <1>6 DEF SweepDone, Abort, rowVars
  <2> QED BY <2>1, <2>2, <1>2 DEF Queued
<1>4. CASE WarnNext(s) \/ WarnQueued(s)
  <2>1. \A r \in Sweeper : r # s => sw'[r] = sw[r]
    BY <1>1, <1>4, ZenonT(60) DEF WarnNext, WarnQueued
  <2>2. CASE WarnNext(s)
    <3>1. sw'[s].pc = "warnqueue"
      <4>1. PICK row \in sw[s].batch :
              sw' = [sw EXCEPT ![s].pc = "warnqueue",
                               ![s].batch = @ \ {row},
                               ![s].cur = row[1],
                               ![s].read = TRUE,
                               ![s].eps = Endpoints(s),
                               ![s].todo = Targets(Endpoints(s), AtRisk)]
        BY <2>2 DEF WarnNext
      <4> QED BY <1>1, <4>1, SMTT(30) DEF SweepState
    <3> QED BY <3>1, <2>1, <2>2, <1>2 DEF WarnNext, rowVars, Warning, Queued
  <2>3. CASE WarnQueued(s)
    <3>1. sw'[s].pc = "warnloop"
      BY <1>1, <2>3 DEF WarnQueued, SweepState
    <3> QED BY <3>1, <2>1, <2>3, <1>2 DEF WarnQueued, rowVars, Warning, Queued
  <2> QED BY <1>4, <2>2, <2>3
<1>5. CASE WarnQueue(s)
  <2>1. PICK e \in sw[s].todo :
          /\ queued' = [queued EXCEPT ![<<sw[s].cur, e, AtRisk>>] = @ + 1]
          /\ sw' = [sw EXCEPT ![s].todo = @ \ {e}, ![s].sent = TRUE]
    BY <1>5 DEF WarnQueue, EnqueueDelivery
  <2>2. sw[s].pc = "warnqueue" /\ sw[s].cur \in Txn /\ e \in Endpoint
    BY <1>1, <1>5, <2>1 DEF WarnQueue, At, SweepInv, Orderly, SweepState
  <2>3. sw'[s].pc \in Warning /\ \A r \in Sweeper : r # s => sw'[r] = sw[r]
    BY <1>1, <2>1, <2>2 DEF SweepState, Warning
  <2>4. \A u \in Txn, f \in Endpoint, ev \in {Reversal, Suspect} :
          queued'[<<u, f, ev>>] = queued[<<u, f, ev>>]
    BY <2>1, <2>2 DEF SweepInv, SweepTypes, Events, Reversal, Suspect, AtRisk
  <2>5. UNCHANGED <<status, claimedAs, railSaid, audited>>
    BY <1>5 DEF WarnQueue
  <2> QED BY <2>3, <2>4, <2>5, <1>2 DEF Queued
<1> QED BY <1>3, <1>4, <1>5, <1>6

\* Who else writes the row of a transaction completes it, or leaves alone what a
\* sweep may have claimed.
LEMMA OthersGrounds ==
  ASSUME SweepInv, GroundsInv, NEW u \in Txn, NEW target \in Statuses,
         status'[u] = target, \A t \in Txn : t # u => status'[t] = status[t],
         UNCHANGED <<claimedAs, railSaid, audited, queued, sw>>,
         Decided(u) => Decided(u)', status[u] # "completed",
         status[u] = "orphaned" => target = "completed",
         target \in {"reversal_pending", "reversal_failed", "reversal_completed"}
           => Queued(u, Reversal)
  PROVE  GroundsInv'
<1>1. \A t \in Txn, ev \in {Reversal, Suspect} : Queued(t, ev)' <=> Queued(t, ev)
  BY DEF Queued
<1>2. \A t \in Txn : AtMostCompleted(t)
  BY <1>1 DEF AtMostCompleted
<1>3. \A r \in Sweeper : Grounds(r)'
  BY <1>2, GroundsStand DEF GroundsInv
<1>4. \A t \in Txn : t # u => OnRecord(t)'
  BY <1>1, RecordStands DEF GroundsInv, Untouched
<1>5. OnRecord(u)'
  <2>1. OnRecord(u)
    BY DEF GroundsInv
  <2>2. Decided(u)' \/ ~Decided(u)
    OBVIOUS
  <2> QED BY <2>1, <1>1 DEF OnRecord, Decided, Answered, Seconded
<1> QED BY <1>3, <1>4, <1>5 DEF GroundsInv, Histories

\* Ingest, the clock, operators, the dispatcher and customers.
LEMMA EnvironmentGrounds ==
  ASSUME SweepInv, GroundsInv, Environment
  PROVE  GroundsInv'
<1> USE DEF others
<1>1. ASSUME NEW t \in Txn, Debit(t) PROVE GroundsInv'
  <2>1. /\ status'[t] = "pending_debit" /\ status[t] = "absent"
        /\ \A u \in Txn : u # t => status'[u] = status[u]
        /\ UNCHANGED <<claimedAs, railSaid, audited, queued, sw>>
    BY <1>1 DEF Debit, InsertRows, Stored, Absent
  <2> QED BY <2>1, OthersGrounds DEF Decided, Statuses, Absent
<1>2. ASSUME NEW t \in Txn, NEW target \in Statuses, UpdateRow(t, target),
             UNCHANGED <<claimedAs, railSaid, audited, queued, sw>>,
             status[t] = "orphaned" => target = "completed",
             target # "reversal_pending"
      PROVE  GroundsInv'
  <2>1. /\ status'[t] = target /\ \A u \in Txn : u # t => status'[u] = status[u]
        /\ status[t] # "completed"
    BY <1>2 DEF UpdateRow, UpdateMatches, SourcesFor, CanTransition, allowedTransitions,
               SweepInv, SweepTypes
  <2>2. Decided(t) => Decided(t)'
    BY <1>2, DecidedStays DEF SweepInv, SweepTypes
  <2>3. target \in {"reversal_failed", "reversal_completed"} => status[t] = "reversal_pending"
    BY <1>2 DEF UpdateRow, UpdateMatches, SourcesFor, CanTransition, allowedTransitions,
               Statuses
  <2>4. target \in {"reversal_failed", "reversal_completed"} => Queued(t, Reversal)
    BY <2>3 DEF GroundsInv, OnRecord
  <2> QED BY <2>1, <2>2, <2>4, <1>2, OthersGrounds
<1>3. ASSUME NEW t \in Txn, CreditDisputed(t) PROVE GroundsInv'
  BY <1>3, <1>2 DEF CreditDisputed, IsOpen, Statuses
<1>4. ASSUME NEW t \in Txn, NEW v \in Verdicts, CreditArrives(t, v) PROVE GroundsInv'
  <2>1. TargetStatus(v) \in {"completed", "orphaned", "pending_unknown"}
    BY DetectorAssumption DEF CreditStatuses, TargetStatus
  <2>2. status[t] = "orphaned" => TargetStatus(v) = "completed"
    BY <1>4, <2>1 DEF CreditArrives, UpdateRow, UpdateMatches, SourcesFor, CanTransition,
                      allowedTransitions
  <2> QED BY <1>4, <2>1, <2>2, <1>2 DEF CreditArrives, Statuses
<1>5. ASSUME NEW t \in Txn, NEW target \in {"reversal_completed", "reversal_failed"},
             ReversalEnds(t, target)
      PROVE  GroundsInv'
  <2>1. status[t] # "orphaned"
    BY <1>5 DEF ReversalEnds, UpdateRow, UpdateMatches, SourcesFor, CanTransition,
                allowedTransitions
  <2> QED BY <1>5, <2>1, <1>2 DEF ReversalEnds, Statuses
<1>6. ASSUME UNCHANGED <<status, claimedAs, railSaid, audited, queued, sw>> PROVE GroundsInv'
  <2>1. \A t \in Txn, ev \in {Reversal, Suspect} : Queued(t, ev)' <=> Queued(t, ev)
    BY <1>6 DEF Queued
  <2>2. \A t \in Txn : Untouched(t) /\ AtMostCompleted(t)
    BY <1>6, <2>1 DEF Untouched, AtMostCompleted
  <2> QED BY <1>6, <2>2, GroundsStand, RecordStands DEF GroundsInv, Histories
<1>7. ASSUME NEW t \in Txn, WindowCloses(t) \/ GapRecorded(t) \/ DeadlineNears(t)
      PROVE  GroundsInv'
  BY <1>7, <1>6 DEF WindowCloses, GapRecorded, DeadlineNears
<1>8. ASSUME NEW e \in Endpoint, Toggle(e) PROVE GroundsInv'
  BY <1>8, <1>6 DEF Toggle
<1> QED BY <1>1, <1>3, <1>4, <1>5, <1>7, <1>8 DEF Environment

\* Before anything is claimed nothing is on record.
LEMMA GroundsInit == Init => GroundsInv
<1> SUFFICES ASSUME Init PROVE GroundsInv
  OBVIOUS
<1>1. \A s \in Sweeper : sw[s].pc = "idle"
  BY DEF Init, Idle
<1>2. ASSUME NEW s \in Sweeper PROVE Grounds(s)
  <2>1. BatchGrounds(s)
    BY <1>1 DEF BatchGrounds, Warning
  <2>2. HandGrounds(s) /\ TellGrounds(s)
    BY <1>1 DEF HandGrounds, TellGrounds, Judging
  <2> QED BY <2>1, <2>2 DEF Grounds
<1>3. \A t \in Txn, ev \in {Reversal, Suspect} : ~Queued(t, ev)
  <2>1. \A t \in Txn, e \in Endpoint, ev \in {Reversal, Suspect} : queued[<<t, e, ev>>] = 0
    BY DEF Init, Events
  <2>2. ASSUME NEW t \in Txn PROVE ~Queued(t, Reversal) /\ ~Queued(t, Suspect)
    <3>1. \A e \in Endpoint : ~(queued[<<t, e, Reversal>>] > 0) /\ ~(queued[<<t, e, Suspect>>] > 0)
      BY <2>1
    <3> QED BY <3>1 DEF Queued
  <2> QED BY <2>2
<1>4. \A t \in Txn : OnRecord(t)
  BY <1>3 DEF Init, OnRecord, Absent
<1> QED BY <1>2, <1>4 DEF GroundsInv, Histories, Init

\* Every step keeps the grounds and the records.
LEMMA GroundsStep == SweepInv /\ SweepInv' /\ GroundsInv /\ [Next]_vars => GroundsInv'
<1> SUFFICES ASSUME SweepInv, SweepInv', GroundsInv, [Next]_vars PROVE GroundsInv'
  OBVIOUS
<1>1. ASSUME NEW s \in Sweeper, Step(s) PROVE GroundsInv'
  BY <1>1, NextTxnGrounds, AskGrounds, SettleGrounds, UncertainGrounds, JudgeGrounds,
     ApplyFloorGrounds, ListGrounds, EnqueueGrounds, EnqueuedGrounds, MarkPendingGrounds,
     WarningGrounds DEF Step
<1>2. ASSUME NEW s \in Sweeper, Claim(s) \/ Abort(s) PROVE GroundsInv'
  BY <1>2, ClaimGrounds, WarningGrounds
<1>3. CASE Environment
  BY <1>3, EnvironmentGrounds
<1>4. CASE UNCHANGED vars
  <2>1. \A t \in Txn, ev \in {Reversal, Suspect} : Queued(t, ev)' <=> Queued(t, ev)
    BY <1>4 DEF vars, rowVars, Queued
  <2>2. \A t \in Txn : Untouched(t) /\ AtMostCompleted(t)
    BY <1>4, <2>1 DEF vars, rowVars, Untouched, AtMostCompleted
  <2> QED BY <1>4, <2>2, GroundsStand, RecordStands
          DEF vars, rowVars, GroundsInv, Histories
<1> QED BY <1>1, <1>2, <1>3, <1>4 DEF Next

\* Who is told to reverse is told so about a debit claimed without a credit
\* report and without an ingest gap, and with the second signal a high floor asks
\* for (Sweep, belowConfidenceFloor): whatever credits, replicas and aborted
\* sweeps did while the evidence was collected.
THEOREM WarrantedReversals == Spec => []ReversalIsWarranted
<1>1. GroundsInv => ReversalIsWarranted
  BY DEF GroundsInv, OnRecord, Seconded, Alone, ReversalIsWarranted,
         NeverReverseDoubt, SecondSignal
<1>2. SweepInv /\ GroundsInv /\ [Next]_vars => (SweepInv /\ GroundsInv)'
  BY SweepInvStep, GroundsStep
<1> QED BY <1>1, <1>2, SweepInvInit, GroundsInit, PTL DEF Spec

\* How far the sweep can stray from what the rail did not say (corroborate,
\* tolerateRace): a transaction nobody could answer for is reversed only if a
\* late credit had completed it when MarkUncertain was refused.
THEOREM UnansweredOnlyIfArrived ==
  Spec => [](\A t \in Txn : Queued(t, Reversal) /\ railSaid[t] = "unknown"
               => status[t] = "completed")
<1>1. GroundsInv => \A t \in Txn : Queued(t, Reversal) /\ railSaid[t] = "unknown"
                      => status[t] = "completed"
  BY DEF GroundsInv, OnRecord, Answered
<1>2. SweepInv /\ GroundsInv /\ [Next]_vars => (SweepInv /\ GroundsInv)'
  BY SweepInvStep, GroundsStep
<1> QED BY <1>1, <1>2, SweepInvInit, GroundsInit, PTL DEF Spec

-----------------------------------------------------------------------------
(* The warnings *)

InWarnings(s) == sw[s].pc \in {"warnloop", "warnqueue"}

\* What a sweep has marked as warned and not yet warned about everywhere.
Warns(s, t) ==
  /\ InWarnings(s)
  /\ (\E row \in sw[s].batch : row[1] = t) \/ (sw[s].pc = "warnqueue" /\ sw[s].cur = t)

\* A sweep takes each row it warns about once, and warns who was not warned.
WarnOrderly(s) ==
  InWarnings(s) =>
    /\ \A row, other \in sw[s].batch : row[1] = other[1] => row = other
    /\ \A row \in sw[s].batch, e \in Endpoint : queued[<<row[1], e, AtRisk>>] = 0
    /\ sw[s].pc = "warnqueue" =>
         /\ \A row \in sw[s].batch : row[1] # sw[s].cur
         /\ \A e \in sw[s].todo : queued[<<sw[s].cur, e, AtRisk>>] = 0

\* The mark of the warning is one sweep's.
WarnIsOwn ==
  \A t \in Txn :
    /\ \A s \in Sweeper : Warns(s, t) => t \in warned \ Backfill
    /\ \A s, r \in Sweeper : Warns(s, t) /\ Warns(r, t) => s = r

WarnInv == (\A s \in Sweeper : WarnOrderly(s)) /\ WarnIsOwn /\ WarnedOnce

\* A step of one sweep that warns nobody, and after which it has no more to warn
\* about than before.
LEMMA CalmStep ==
  ASSUME SweepInv, WarnInv, NEW s \in Sweeper, UNCHANGED warned,
         \A t \in Txn, e \in Endpoint : queued'[<<t, e, AtRisk>>] = queued[<<t, e, AtRisk>>],
         \A r \in Sweeper : r # s => sw'[r] = sw[r],
         WarnOrderly(s)', \A t \in Txn : Warns(s, t)' => Warns(s, t)
  PROVE  WarnInv'
<1>1. ASSUME NEW r \in Sweeper PROVE WarnOrderly(r)'
  <2> SUFFICES ASSUME r # s PROVE WarnOrderly(r)'
    OBVIOUS
  <2>1. sw'[r] = sw[r] /\ WarnOrderly(r)
    BY DEF WarnInv
  <2>2. \A row \in sw[r].batch : row[1] \in Txn
    BY DEF SweepInv, SweepTypes, SweepState
  <2>3. sw[r].pc = "warnqueue" => sw[r].cur \in Txn /\ sw[r].todo \subseteq Endpoint
    BY DEF SweepInv, SweepTypes, SweepState, Orderly
  <2> QED BY <2>1, <2>2, <2>3 DEF WarnOrderly, InWarnings
<1>2. \A r \in Sweeper, t \in Txn : Warns(r, t)' => Warns(r, t)
  BY DEF Warns, InWarnings
<1>3. WarnIsOwn'
  BY <1>2 DEF WarnInv, WarnIsOwn
<1>4. WarnedOnce'
  BY DEF WarnInv, WarnedOnce
<1> QED BY <1>1, <1>3, <1>4 DEF WarnInv

\* So is every step before the warnings.
LEMMA VerdictCalm ==
  ASSUME SweepInv, WarnInv, NEW s \in Sweeper,
         \/ Claim(s) \/ NextTxn(s) \/ Ask(s) \/ Settle(s) \/ Uncertain(s) \/ Judge(s)
         \/ ApplyFloor(s) \/ List(s) \/ Enqueue(s) \/ Enqueued(s) \/ MarkPending(s)
         \/ SweepDone(s) \/ Abort(s)
  PROVE  WarnInv'
<1>1. sw \in [Sweeper -> SweepState]
  BY DEF SweepInv, SweepTypes
<1>2. ASSUME sw'[s].pc \in Judging \cup {"idle", "loop", "enqueue", "mark"}, UNCHANGED warned,
             \A r \in Sweeper : r # s => sw'[r] = sw[r],
             \A t \in Txn, e \in Endpoint : queued'[<<t, e, AtRisk>>] = queued[<<t, e, AtRisk>>]
      PROVE  WarnInv'
  <2>1. WarnOrderly(s)' /\ \A t \in Txn : ~Warns(s, t)'
    BY <1>2 DEF WarnOrderly, Warns, InWarnings, Judging
  <2> QED BY <1>2, <2>1, CalmStep
<1>3. CASE Claim(s)
  <2>1. PICK T \in SUBSET Expired : ClaimBatch(s, T)
    BY <1>3 DEF Claim
  <2> DEFINE rows == {<<t, status'[t]>> : t \in T}
  <2>2. sw' = [sw EXCEPT ![s].pc = "loop", ![s].batch = rows] /\ UNCHANGED <<warned, queued>>
    BY <2>1 DEF ClaimBatch
  <2> HIDE DEF rows
  <2>3. sw'[s].pc = "loop" /\ \A r \in Sweeper : r # s => sw'[r] = sw[r]
    BY <1>1, <2>2 DEF SweepState
  <2> QED BY <2>2, <2>3, <1>2
<1>4. CASE NextTxn(s)
  <2>1. PICK row \in sw[s].batch, intact \in BOOLEAN :
          sw' = [sw EXCEPT
            ![s].pc = IF Corroborate /\ row[2] = "orphaned" THEN "ask" ELSE "verdict",
            ![s].batch = @ \ {row},
            ![s].cur = row[1],
            ![s].local = row[2],
            ![s].conf = Confidence(WeightWindowExpired
                                   + (IF intact THEN WeightIngestIntact ELSE 0))]
    BY <1>4, ZenonT(60) DEF NextTxn
  <2>2. sw'[s].pc \in Judging /\ \A r \in Sweeper : r # s => sw'[r] = sw[r]
    BY <1>1, <2>1 DEF SweepState, Judging
  <2> QED BY <1>4, <2>2, <1>2 DEF NextTxn, rowVars
<1>5. CASE Ask(s)
  <2>1. PICK o \in Outcomes :
          sw' = [sw EXCEPT
            ![s].pc = CASE o = "settled" -> "settle"
                        [] o = "unknown" -> "uncertain"
                        [] OTHER         -> "verdict",
            ![s].conf = CASE o = "failed"    -> Confidence(@ + WeightProviderFailed)
                          [] o = "not_found" -> Confidence(@ + WeightProviderNotFound)
                          [] OTHER           -> @]
    BY <1>5 DEF Ask
  <2>2. sw'[s].pc \in Judging /\ \A r \in Sweeper : r # s => sw'[r] = sw[r]
    BY <1>1, <2>1 DEF SweepState, Judging
  <2> QED BY <1>5, <2>2, <1>2 DEF Ask
<1>6. CASE Settle(s) \/ Uncertain(s) \/ Judge(s) \/ ApplyFloor(s)
  <2>1. \A r \in Sweeper : r # s => sw'[r] = sw[r]
    BY <1>1, <1>6 DEF Settle, Uncertain, Judge, ApplyFloor
  <2>2. sw'[s].pc \in Judging \cup {"loop"}
    BY <1>1, <1>6 DEF Settle, Uncertain, Judge, ApplyFloor, Notify, SweepState, Judging
  <2>3. UNCHANGED <<warned, queued>>
    BY <1>6 DEF Settle, Uncertain, Judge, ApplyFloor, rowVars
  <2> QED BY <2>1, <2>2, <2>3, <1>2
<1>7. CASE List(s) \/ Enqueued(s) \/ MarkPending(s) \/ SweepDone(s) \/ Abort(s)
  <2>1. \A r \in Sweeper : r # s => sw'[r] = sw[r]
    BY <1>1, <1>7 DEF List, Enqueued, MarkPending, SweepDone, Abort
  <2>2. sw'[s].pc \in {"idle", "loop", "enqueue", "mark"}
    BY <1>1, <1>7 DEF List, Enqueued, MarkPending, SweepDone, Abort, Idle, SweepState
  <2>3. UNCHANGED <<warned, queued>>
    BY <1>7 DEF List, Enqueued, MarkPending, SweepDone, Abort, rowVars
  <2> QED BY <2>1, <2>2, <2>3, <1>2
<1>8. CASE Enqueue(s)
  <2>1. sw[s].pc = "enqueue" /\ sw[s].event \in {Reversal, Suspect} /\ UNCHANGED warned
    BY <1>8 DEF Enqueue, At, SweepInv, Orderly
  <2>2. PICK e \in sw[s].todo :
          /\ queued' = [queued EXCEPT ![<<sw[s].cur, e, sw[s].event>>] = @ + 1]
          /\ sw' = [sw EXCEPT ![s].todo = @ \ {e}, ![s].sent = TRUE]
    BY <1>8 DEF Enqueue, EnqueueDelivery
  <2>3. sw'[s].pc = "enqueue" /\ \A r \in Sweeper : r # s => sw'[r] = sw[r]
    BY <1>1, <2>1, <2>2 DEF SweepState
  <2>4. \A t \in Txn, f \in Endpoint : queued'[<<t, f, AtRisk>>] = queued[<<t, f, AtRisk>>]
    BY <2>1, <2>2 DEF SweepInv, SweepTypes, Events, Reversal, Suspect, AtRisk
  <2> QED BY <2>1, <2>3, <2>4, <1>2
<1> QED BY <1>3, <1>4, <1>5, <1>6, <1>7, <1>8

\* A row is marked as warned by one sweep, and only if nobody has been warned of it.
LEMMA MarkWarned ==
  ASSUME SweepInv, WarnInv, NEW s \in Sweeper, ClaimSLAAtRisk(s)
  PROVE  WarnInv'
<1>1. PICK T \in SUBSET WarnDue :
        /\ warned' = warned \cup T
        /\ sw' = [sw EXCEPT ![s] = [Idle EXCEPT !.pc = "warnloop",
                                                !.batch = {<<t, status[t]>> : t \in T}]]
  BY DEF ClaimSLAAtRisk
<1> DEFINE rows == {<<t, status[t]>> : t \in T}
<1>2. T \subseteq Txn \ (warned \cup Backfill)
  BY DEF WarnDue, SweepInv, SweepTypes
<1>3. \A row \in rows : \E t \in T : row = <<t, status[t]>>
  OBVIOUS
<1>4. sw' = [sw EXCEPT ![s] = [Idle EXCEPT !.pc = "warnloop", !.batch = rows]]
  BY <1>1
<1> HIDE DEF rows
<1>5. /\ sw'[s].pc = "warnloop" /\ sw'[s].batch = rows
      /\ \A r \in Sweeper : r # s => sw'[r] = sw[r]
  BY <1>4 DEF Idle, SweepInv, SweepTypes
<1>6. UNCHANGED queued
  BY DEF ClaimSLAAtRisk
<1>7. \A t \in T, e \in Endpoint : queued[<<t, e, AtRisk>>] = 0
  <2> SUFFICES ASSUME NEW t \in T, NEW e \in Endpoint PROVE queued[<<t, e, AtRisk>>] = 0
    OBVIOUS
  <2>1. queued[<<t, e, AtRisk>>] \in Nat
    BY <1>2 DEF SweepInv, SweepTypes, Events
  <2>2. queued[<<t, e, AtRisk>>] <= 0
    BY <1>2 DEF WarnInv, WarnedOnce
  <2> QED BY <2>1, <2>2
<1>8. \A t \in Txn : Warns(s, t)' => t \in T
  BY <1>3, <1>5 DEF Warns
<1>9. \A r \in Sweeper, t \in Txn : r # s => (Warns(r, t)' <=> Warns(r, t))
  BY <1>5 DEF Warns, InWarnings
<1>10. WarnOrderly(s)'
  <2>1. \A row, other \in rows : row[1] = other[1] => row = other
    BY <1>3
  <2>2. \A row \in rows, e \in Endpoint : queued[<<row[1], e, AtRisk>>] = 0
    BY <1>3, <1>7
  <2> QED BY <2>1, <2>2, <1>5, <1>6 DEF WarnOrderly
<1>11. ASSUME NEW r \in Sweeper PROVE WarnOrderly(r)'
  <2>1. CASE r = s
    BY <2>1, <1>10
  <2>2. CASE r # s
    BY <2>2, <1>5, <1>6 DEF WarnInv, WarnOrderly, InWarnings
  <2> QED BY <2>1, <2>2
<1>12. WarnIsOwn'
  BY <1>1, <1>2, <1>8, <1>9 DEF WarnInv, WarnIsOwn
<1>13. WarnedOnce'
  <2> SUFFICES ASSUME NEW t \in Txn, NEW e \in Endpoint
               PROVE  queued[<<t, e, AtRisk>>] <= (IF t \in warned' \ Backfill THEN 1 ELSE 0)
    BY <1>6 DEF WarnedOnce
  <2>1. CASE t \in T
    BY <2>1, <1>1, <1>2, <1>7
  <2>2. CASE t \notin T
    BY <2>2, <1>1 DEF WarnInv, WarnedOnce
  <2> QED BY <2>1, <2>2
<1> QED BY <1>11, <1>12, <1>13 DEF WarnInv

\* The next row to warn about is one of those marked.
LEMMA WarnNextCalm ==
  ASSUME SweepInv, WarnInv, NEW s \in Sweeper, WarnNext(s)
  PROVE  WarnInv'
<1>1. PICK row \in sw[s].batch :
        sw' = [sw EXCEPT ![s].pc = "warnqueue",
                         ![s].batch = @ \ {row},
                         ![s].cur = row[1],
                         ![s].read = TRUE,
                         ![s].eps = Endpoints(s),
                         ![s].todo = Targets(Endpoints(s), AtRisk)]
  BY DEF WarnNext
<1>2. sw[s] \in SweepState /\ row \in Txn \X Statuses /\ sw[s].pc = "warnloop"
  BY DEF SweepInv, SweepTypes, SweepState, WarnNext, At
<1>3. /\ sw'[s].pc = "warnqueue" /\ sw'[s].batch = sw[s].batch \ {row} /\ sw'[s].cur = row[1]
      /\ sw'[s].todo = Targets(Endpoints(s), AtRisk)
      /\ \A r \in Sweeper : r # s => sw'[r] = sw[r]
  BY <1>1, <1>2 DEF SweepInv, SweepTypes, SweepState
<1>4. Targets(Endpoints(s), AtRisk) \subseteq Endpoint
  BY <1>2 DEF Endpoints, Targets, SweepInv, SweepTypes, SweepState
<1>5. UNCHANGED <<warned, queued>>
  BY DEF WarnNext, rowVars
<1>6. WarnOrderly(s)'
  BY <1>2, <1>3, <1>4, <1>5 DEF WarnInv, WarnOrderly, InWarnings
<1>7. \A t \in Txn : Warns(s, t)' => Warns(s, t)
  BY <1>2, <1>3 DEF Warns, InWarnings
<1> QED BY <1>3, <1>5, <1>6, <1>7, CalmStep

\* The warning of a row ends.
LEMMA WarnQueuedCalm ==
  ASSUME SweepInv, WarnInv, NEW s \in Sweeper, WarnQueued(s)
  PROVE  WarnInv'
<1>1. /\ sw[s].pc = "warnqueue" /\ sw'[s].pc = "warnloop" /\ sw'[s].batch = sw[s].batch
      /\ \A r \in Sweeper : r # s => sw'[r] = sw[r]
  BY DEF WarnQueued, At, SweepInv, SweepTypes, SweepState
<1>2. UNCHANGED <<warned, queued>>
  BY DEF WarnQueued, rowVars
<1>3. WarnOrderly(s)' /\ \A t \in Txn : Warns(s, t)' => Warns(s, t)
  BY <1>1, <1>2 DEF WarnInv, WarnOrderly, InWarnings, Warns
<1> QED BY <1>1, <1>2, <1>3, CalmStep

\* An endpoint is warned that was not, of a row that no other sweep has marked.
LEMMA WarnQueueWarns ==
  ASSUME SweepInv, WarnInv, NEW s \in Sweeper, WarnQueue(s)
  PROVE  WarnInv'
<1>1. sw[s] \in SweepState /\ sw[s].pc = "warnqueue"
  BY DEF SweepInv, SweepTypes, WarnQueue, At
<1> PICK t \in Txn : t = sw[s].cur
  BY <1>1 DEF SweepInv, Orderly
<1>2. PICK e \in sw[s].todo :
        /\ queued' = [queued EXCEPT ![<<t, e, AtRisk>>] = @ + 1]
        /\ sw' = [sw EXCEPT ![s].todo = @ \ {e}, ![s].sent = TRUE]
  BY DEF WarnQueue, EnqueueDelivery
<1>3. /\ e \in Endpoint /\ UNCHANGED warned
      /\ sw'[s].pc = "warnqueue" /\ sw'[s].batch = sw[s].batch /\ sw'[s].cur = t
      /\ sw'[s].todo = sw[s].todo \ {e}
      /\ \A r \in Sweeper : r # s => sw'[r] = sw[r]
  BY <1>1, <1>2 DEF SweepInv, SweepTypes, SweepState, WarnQueue
<1>4. Warns(s, t) /\ t \in warned \ Backfill /\ queued[<<t, e, AtRisk>>] = 0
  BY <1>1, <1>2 DEF WarnInv, WarnOrderly, WarnIsOwn, Warns, InWarnings
<1>5. \A u \in Txn, f \in Endpoint :
        queued'[<<u, f, AtRisk>>] = IF u = t /\ f = e THEN 1 ELSE queued[<<u, f, AtRisk>>]
  BY <1>2, <1>3, <1>4 DEF SweepInv, SweepTypes, Events
<1>6. \A r \in Sweeper, u \in Txn : Warns(r, u)' <=> Warns(r, u)
  BY <1>1, <1>3 DEF Warns, InWarnings
<1>7. ASSUME NEW r \in Sweeper PROVE WarnOrderly(r)'
  <2>1. /\ \A row \in sw[r].batch : row[1] \in Txn
        /\ sw[r].pc = "warnqueue" => sw[r].cur \in Txn /\ sw[r].todo \subseteq Endpoint
    BY DEF SweepInv, SweepTypes, SweepState, Orderly
  <2>2. CASE r = s
    BY <2>1, <2>2, <1>1, <1>3, <1>5 DEF WarnInv, WarnOrderly, InWarnings
  <2>3. CASE r # s
    <3>1. ~Warns(r, t)
      BY <2>3, <1>4 DEF WarnInv, WarnIsOwn
    <3> QED BY <3>1, <2>1, <2>3, <1>3, <1>5 DEF WarnInv, WarnOrderly, InWarnings, Warns
  <2> QED BY <2>2, <2>3
<1>8. WarnIsOwn'
  BY <1>3, <1>6 DEF WarnInv, WarnIsOwn
<1>9. WarnedOnce'
  BY <1>3, <1>4, <1>5 DEF WarnInv, WarnedOnce
<1> QED BY <1>7, <1>8, <1>9 DEF WarnInv

\* Every step keeps the warnings single.
LEMMA WarnStep == SweepInv /\ WarnInv /\ [Next]_vars => WarnInv'
<1> SUFFICES ASSUME SweepInv, WarnInv, [Next]_vars PROVE WarnInv'
  OBVIOUS
<1>1. ASSUME NEW s \in Sweeper, Claim(s) \/ Step(s) \/ Abort(s) PROVE WarnInv'
  BY <1>1, VerdictCalm, MarkWarned, WarnNextCalm, WarnQueuedCalm, WarnQueueWarns DEF Step
<1>2. ASSUME UNCHANGED <<warned, queued, sw>> PROVE WarnInv'
  BY <1>2 DEF WarnInv, WarnOrderly, WarnIsOwn, WarnedOnce, Warns, InWarnings
<1>3. CASE Environment
  <2>1. UNCHANGED <<warned, queued, sw>>
    BY <1>3 DEF Environment, others, Debit, WindowCloses, GapRecorded, DeadlineNears,
                CreditDisputed, CreditArrives, ReversalEnds, Toggle
  <2> QED BY <2>1, <1>2
<1>4. CASE UNCHANGED vars
  BY <1>4, <1>2 DEF vars, rowVars
<1> QED BY <1>1, <1>3, <1>4 DEF Next

\* Before anything is claimed nobody has been warned.
LEMMA WarnInit == Init => WarnInv
<1> SUFFICES ASSUME Init PROVE WarnInv
  OBVIOUS
<1>1. \A s \in Sweeper : sw[s].pc = "idle"
  BY DEF Init, Idle
<1>2. \A t \in Txn, e \in Endpoint : queued[<<t, e, AtRisk>>] = 0
  BY DEF Init, Events
<1>3. (\A s \in Sweeper : WarnOrderly(s)) /\ WarnIsOwn
  BY <1>1 DEF WarnOrderly, WarnIsOwn, Warns, InWarnings
<1>4. WarnedOnce
  BY <1>2 DEF WarnedOnce
<1> QED BY <1>3, <1>4 DEF WarnInv

\* The separate writes about one verdict agree, wherever a sweep ends or dies
\* between them: a transaction awaits a reversal only if somebody was told to
\* make it, the audit chain records no other verdict than the one in the queue,
\* and an endpoint is warned at most once, of what is marked as warned.
THEOREM RecordsStayAgreed == Spec => []RecordsAgree
<1>1. GroundsInv /\ WarnInv => RecordsAgree
  BY DEF GroundsInv, OnRecord, WarnInv, RecordsAgree, PendingHasDelivery, AuditAgrees
<1>2. /\ Init => SweepInv /\ GroundsInv /\ WarnInv
      /\ SweepInv /\ GroundsInv /\ WarnInv /\ [Next]_vars => (SweepInv /\ GroundsInv /\ WarnInv)'
  BY SweepInvInit, GroundsInit, WarnInit, SweepInvStep, GroundsStep, WarnStep
<1> QED BY <1>1, <1>2, PTL DEF Spec

-----------------------------------------------------------------------------
(* Orphans *)

\* A sweep has an orphan on its way to its endpoints: claimed, in hand and not
\* turned into an investigation, or listed and nobody told yet.
Carried(s, t) ==
  \/ sw[s].pc \notin Warning /\ <<t, "orphaned">> \in sw[s].batch
  \/ /\ sw[s].pc \in Judging /\ sw[s].cur = t /\ sw[s].local = "orphaned"
     /\ sw[s].pc = "list" => sw[s].event = Reversal
  \/ /\ sw[s].pc = "enqueue" /\ sw[s].cur = t /\ sw[s].event = Reversal
     /\ sw[s].todo = Targets(Endpoint, Reversal)

\* While no sweep dies and no endpoint is switched off.
OrphanInv ==
  /\ aborts = 0 /\ toggles = 0 /\ enabled = Endpoint
  /\ \A s \in Sweeper : sw[s].read => sw[s].eps = Endpoint
  /\ \A t \in Txn \ Backfill : status[t] = "orphaned" /\ Targets(Endpoint, Reversal) # {}
       => Queued(t, Reversal) \/ \E s \in Sweeper : Carried(s, t)

\* A step of one sweep that makes no orphan and loses none.
LEMMA CarryOn ==
  ASSUME SweepInv, OrphanInv, NEW s \in Sweeper, NEW next \in SweepState,
         sw' = [sw EXCEPT ![s] = next], next.read => next.eps = Endpoint,
         UNCHANGED <<aborts, toggles, enabled>>,
         \A t \in Txn : status'[t] = "orphaned" => status[t] = "orphaned",
         \A t \in Txn : Queued(t, Reversal) => Queued(t, Reversal)',
         \A t \in Txn \ Backfill :
           Carried(s, t) /\ status'[t] = "orphaned" /\ Targets(Endpoint, Reversal) # {}
             => Queued(t, Reversal)' \/ Carried(s, t)'
  PROVE  OrphanInv'
<1>1. sw'[s] = next /\ \A r \in Sweeper : r # s => sw'[r] = sw[r]
  BY DEF SweepInv, SweepTypes
<1>2. \A r \in Sweeper : sw'[r].read => sw'[r].eps = Endpoint
  BY <1>1 DEF OrphanInv
<1>3. \A r \in Sweeper, t \in Txn : r # s => (Carried(r, t) <=> Carried(r, t)')
  BY <1>1 DEF Carried, Targets
<1>4. ASSUME NEW t \in Txn \ Backfill, status'[t] = "orphaned", Targets(Endpoint, Reversal) # {}
      PROVE  Queued(t, Reversal)' \/ \E r \in Sweeper : Carried(r, t)'
  <2>1. Queued(t, Reversal) \/ \E r \in Sweeper : Carried(r, t)
    BY <1>4 DEF OrphanInv
  <2>2. CASE Queued(t, Reversal)
    BY <2>2
  <2>3. ASSUME NEW r \in Sweeper, Carried(r, t)
        PROVE  Queued(t, Reversal)' \/ \E q \in Sweeper : Carried(q, t)'
    BY <2>3, <1>3, <1>4
  <2> QED BY <2>1, <2>2, <2>3
<1>5. Targets(Endpoint, Reversal)' = Targets(Endpoint, Reversal)
  BY DEF Targets
<1> QED BY <1>2, <1>4, <1>5 DEF OrphanInv

\* What is claimed as an orphan is carried.
LEMMA ClaimCarries ==
  ASSUME SweepInv, OrphanInv, NEW s \in Sweeper, Claim(s)
  PROVE  OrphanInv'
<1>1. PICK T \in SUBSET Expired : ClaimBatch(s, T)
  BY DEF Claim
<1> DEFINE rows == {<<t, status'[t]>> : t \in T}
<1>2. \A t \in T : <<t, status'[t]>> \in rows
  OBVIOUS
<1>3. /\ sw' = [sw EXCEPT ![s].pc = "loop", ![s].batch = rows] /\ sw[s].pc = "idle"
      /\ UNCHANGED <<aborts, toggles, enabled, queued>>
      /\ \A t \in Txn : t \notin T => status'[t] = status[t]
  BY <1>1 DEF ClaimBatch, ClaimRows, At
<1> HIDE DEF rows
<1>4. /\ sw'[s].pc = "loop" /\ sw'[s].batch = rows
      /\ sw'[s].read = sw[s].read /\ sw'[s].eps = sw[s].eps
      /\ \A r \in Sweeper : r # s => sw'[r] = sw[r]
  BY <1>3 DEF SweepInv, SweepTypes, SweepState
<1>5. \A r \in Sweeper : sw'[r].read => sw'[r].eps = Endpoint
  BY <1>4 DEF OrphanInv
<1>6. \A r \in Sweeper, t \in Txn : Carried(r, t) => Carried(r, t)'
  <2>1. \A t \in Txn : ~Carried(s, t)
    BY <1>3 DEF Carried, Warning, Judging
  <2> QED BY <2>1, <1>4 DEF Carried, Targets
<1>7. ASSUME NEW t \in Txn \ Backfill, status'[t] = "orphaned", Targets(Endpoint, Reversal) # {}
      PROVE  Queued(t, Reversal)' \/ \E r \in Sweeper : Carried(r, t)'
  <2>1. CASE t \in T
    <3>1. <<t, "orphaned">> \in rows
      BY <2>1, <1>2, <1>7
    <3> QED BY <3>1, <1>4 DEF Carried, Warning
  <2>2. CASE t \notin T
    <3>1. status[t] = "orphaned"
      BY <2>2, <1>3, <1>7
    <3>2. Queued(t, Reversal) => Queued(t, Reversal)'
      BY <1>3 DEF Queued
    <3> QED BY <3>1, <3>2, <1>6, <1>7 DEF OrphanInv
  <2> QED BY <2>1, <2>2
<1>8. Targets(Endpoint, Reversal)' = Targets(Endpoint, Reversal)
  BY DEF Targets
<1> QED BY <1>3, <1>5, <1>7, <1>8 DEF OrphanInv

\* Out of the batch, into the hand.
LEMMA NextTxnCarries ==
  ASSUME SweepInv, OrphanInv, NEW s \in Sweeper, NextTxn(s)
  PROVE  OrphanInv'
<1>1. PICK row \in sw[s].batch, intact \in BOOLEAN :
        sw' = [sw EXCEPT
          ![s].pc = IF Corroborate /\ row[2] = "orphaned" THEN "ask" ELSE "verdict",
          ![s].batch = @ \ {row},
          ![s].cur = row[1],
          ![s].local = row[2],
          ![s].conf = Confidence(WeightWindowExpired
                                 + (IF intact THEN WeightIngestIntact ELSE 0))]
  BY ZenonT(60) DEF NextTxn
<1> DEFINE label == IF Corroborate /\ row[2] = "orphaned" THEN "ask" ELSE "verdict"
           conf == Confidence(WeightWindowExpired + (IF intact THEN WeightIngestIntact ELSE 0))
           next == [sw[s] EXCEPT !.pc = label, !.batch = @ \ {row}, !.cur = row[1],
                                 !.local = row[2], !.conf = conf]
<1>2. sw[s] \in SweepState /\ sw[s].pc = "loop" /\ row \in Txn \X Statuses
  BY DEF SweepInv, SweepTypes, SweepState, NextTxn, At
<1>3. conf \in 0..100 /\ label \in {"ask", "verdict"}
  BY DEF Confidence, WeightWindowExpired, WeightIngestIntact
<1>4. sw' = [sw EXCEPT ![s] = next]
  BY <1>1, <1>2 DEF SweepInv, SweepTypes
<1> HIDE DEF label, conf
<1>5. /\ next \in SweepState /\ next.pc = label /\ next.batch = sw[s].batch \ {row}
      /\ next.cur = row[1] /\ next.local = row[2]
      /\ next.read = sw[s].read /\ next.eps = sw[s].eps
  BY <1>2, <1>3, ZenonT(60) DEF SweepState, PCs
<1> HIDE DEF next
<1>6. UNCHANGED <<status, aborts, toggles, enabled, queued>>
  BY DEF NextTxn, rowVars
<1>7. sw'[s] = next
  BY <1>4 DEF SweepInv, SweepTypes
<1>8. \A t \in Txn : Carried(s, t) => Carried(s, t)'
  <2>1. \A t \in Txn : <<t, "orphaned">> = row => row[1] = t /\ row[2] = "orphaned"
    OBVIOUS
  <2> QED BY <2>1, <1>2, <1>3, <1>5, <1>7 DEF Carried, Warning, Judging
<1>9. \A t \in Txn : Queued(t, Reversal) => Queued(t, Reversal)'
  BY <1>6 DEF Queued
<1> QED BY <1>4, <1>5, <1>6, <1>8, <1>9, CarryOn DEF OrphanInv

\* A row in hand stays carried until it is no orphan any more.
LEMMA JudgingCarries ==
  ASSUME SweepInv, OrphanInv, NEW s \in Sweeper, sw[s].pc \in Judging,
         NEW next \in SweepState, sw' = [sw EXCEPT ![s] = next],
         next.pc \in Judging \cup {"loop"},
         next.batch = sw[s].batch, next.cur = sw[s].cur,
         next.read = sw[s].read, next.eps = sw[s].eps,
         UNCHANGED <<aborts, toggles, enabled, queued>>,
         UNCHANGED status \/ \E target \in {"completed", "suspect"} : TryMark(s, target),
         sw[s].local = "orphaned" /\ status'[sw[s].cur] = "orphaned" /\ sw[s].cur \notin Backfill
           => /\ next.pc \in Judging /\ next.local = "orphaned"
              /\ next.pc = "list" => next.event = Reversal
  PROVE  OrphanInv'
<1>1. sw'[s] = next /\ sw[s].cur \in Txn
  BY DEF SweepInv, SweepTypes, Orderly
<1>2. \A t \in Txn : status'[t] = "orphaned" => status[t] = "orphaned"
  BY <1>1 DEF TryMark, UpdateRow, SweepInv, SweepTypes
<1>3. \A t \in Txn \ Backfill : Carried(s, t) /\ status'[t] = "orphaned" => Carried(s, t)'
  <2> SUFFICES ASSUME NEW t \in Txn \ Backfill, Carried(s, t), status'[t] = "orphaned"
               PROVE  Carried(s, t)'
    OBVIOUS
  <2>1. CASE <<t, "orphaned">> \in sw[s].batch
    BY <2>1, <1>1 DEF Carried, Warning, Judging
  <2>2. CASE sw[s].cur = t /\ sw[s].local = "orphaned"
    BY <2>2, <1>1 DEF Carried
  <2> QED BY <2>1, <2>2 DEF Carried, Judging
<1>4. \A t \in Txn : Queued(t, Reversal) => Queued(t, Reversal)'
  BY DEF Queued
<1> QED BY <1>2, <1>3, <1>4, CarryOn DEF OrphanInv

\* Whatever the rail answers.
LEMMA AskCarries ==
  ASSUME SweepInv, OrphanInv, NEW s \in Sweeper, Ask(s)
  PROVE  OrphanInv'
<1>1. PICK o \in Outcomes :
        sw' = [sw EXCEPT
          ![s].pc = CASE o = "settled" -> "settle"
                      [] o = "unknown" -> "uncertain"
                      [] OTHER         -> "verdict",
          ![s].conf = CASE o = "failed"    -> Confidence(@ + WeightProviderFailed)
                        [] o = "not_found" -> Confidence(@ + WeightProviderNotFound)
                        [] OTHER           -> @]
  BY DEF Ask
<1> DEFINE label == CASE o = "settled" -> "settle"
                      [] o = "unknown" -> "uncertain"
                      [] OTHER         -> "verdict"
           conf == CASE o = "failed"    -> Confidence(sw[s].conf + WeightProviderFailed)
                     [] o = "not_found" -> Confidence(sw[s].conf + WeightProviderNotFound)
                     [] OTHER           -> sw[s].conf
           next == [sw[s] EXCEPT !.pc = label, !.conf = conf]
<1>2. sw[s] \in SweepState /\ sw[s].pc = "ask"
  BY DEF SweepInv, SweepTypes, Ask, At
<1>3. label \in {"settle", "uncertain", "verdict"}
  OBVIOUS
<1>4. conf \in 0..100
  BY <1>2 DEF SweepState, Confidence, WeightProviderFailed, WeightProviderNotFound
<1>5. sw' = [sw EXCEPT ![s] = next]
  BY <1>1, <1>2 DEF SweepInv, SweepTypes
<1> HIDE DEF label, conf
<1>6. /\ next \in SweepState /\ next.pc = label /\ next.local = sw[s].local
      /\ next.batch = sw[s].batch /\ next.cur = sw[s].cur
      /\ next.read = sw[s].read /\ next.eps = sw[s].eps
  BY <1>2, <1>3, <1>4, ZenonT(60) DEF SweepState, PCs
<1> HIDE DEF next
<1>7. UNCHANGED <<status, aborts, toggles, enabled, queued>>
  BY DEF Ask
<1> QED BY <1>2, <1>3, <1>5, <1>6, <1>7, JudgingCarries DEF Judging

\* An orphan is not let go of as settled, or handed to a human, and still an orphan.
LEMMA AnswerCarries ==
  ASSUME SweepInv, OrphanInv, NEW s \in Sweeper, Settle(s) \/ Uncertain(s)
  PROVE  OrphanInv'
<1>1. sw[s] \in SweepState /\ sw[s].cur \in Txn
  BY DEF SweepInv, SweepTypes, Orderly, Settle, Uncertain, At, Judging
<1>2. CASE Settle(s)
  <2> DEFINE label == IF UpdateMatches(sw[s].cur, "completed") THEN "loop" ELSE "verdict"
             next == [sw[s] EXCEPT !.pc = label]
  <2>1. label \in {"loop", "verdict"}
    OBVIOUS
  <2>2. sw' = [sw EXCEPT ![s] = next] /\ sw[s].pc = "settle"
    BY <1>2, <1>1 DEF Settle, At, SweepInv, SweepTypes
  <2>3. TryMark(s, "completed") /\ UNCHANGED <<aborts, toggles, enabled, queued>>
    BY <1>2 DEF Settle
  <2>4. status'[sw[s].cur] # "orphaned"
    BY <2>3, <1>1 DEF TryMark, UpdateRow, UpdateMatches, SourcesFor, CanTransition,
                      allowedTransitions, Statuses, SweepInv, SweepTypes
  <2> HIDE DEF label
  <2>5. /\ next \in SweepState /\ next.pc = label
        /\ next.batch = sw[s].batch /\ next.cur = sw[s].cur
        /\ next.read = sw[s].read /\ next.eps = sw[s].eps
    BY <1>1, <2>1 DEF SweepState, PCs
  <2> HIDE DEF next
  <2> QED BY <2>1, <2>2, <2>3, <2>4, <2>5, JudgingCarries DEF Judging
<1>3. CASE Uncertain(s)
  <2> DEFINE mine == IF UpdateMatches(sw[s].cur, "suspect") THEN "suspect" ELSE sw[s].local
             next == [sw[s] EXCEPT !.pc = "verdict", !.local = mine]
  <2>1. mine \in Statuses \cup {None}
    BY <1>1 DEF SweepState, Statuses
  <2>2. sw' = [sw EXCEPT ![s] = next] /\ sw[s].pc = "uncertain"
    BY <1>3, <1>1 DEF Uncertain, At, SweepInv, SweepTypes
  <2>3. TryMark(s, "suspect") /\ UNCHANGED <<aborts, toggles, enabled, queued>>
    BY <1>3 DEF Uncertain
  <2>4. status'[sw[s].cur] # "orphaned"
    BY <2>3, <1>1 DEF TryMark, UpdateRow, UpdateMatches, SourcesFor, CanTransition,
                      allowedTransitions, Statuses, SweepInv, SweepTypes
  <2> HIDE DEF mine
  <2>5. /\ next \in SweepState /\ next.pc = "verdict"
        /\ next.batch = sw[s].batch /\ next.cur = sw[s].cur
        /\ next.read = sw[s].read /\ next.eps = sw[s].eps
    BY <1>1, <2>1, ZenonT(60) DEF SweepState, PCs
  <2> HIDE DEF next
  <2> QED BY <2>2, <2>3, <2>4, <2>5, JudgingCarries DEF Judging
<1> QED BY <1>2, <1>3

\* An orphan is judged to be reversed, or is an orphan no more.
LEMMA JudgeCarries ==
  ASSUME SweepInv, OrphanInv, NEW s \in Sweeper, Judge(s) \/ ApplyFloor(s)
  PROVE  OrphanInv'
<1>1. sw[s] \in SweepState /\ sw[s].cur \in Txn
  BY DEF SweepInv, SweepTypes, Orderly, Judge, ApplyFloor, At, Judging
<1>2. CASE Judge(s)
  <2> DEFINE ev == IF sw[s].local = "suspect" THEN Suspect ELSE Reversal
             label == IF sw[s].local # "suspect" /\ BelowFloor(s) THEN "floor" ELSE Notify(s)
             next == [sw[s] EXCEPT !.event = ev, !.pc = label]
  <2>1. /\ label \in {"floor", "loop", "list"} /\ ev \in Events
        /\ sw[s].cur \notin Backfill => label # "loop"
        /\ sw[s].local = "orphaned" => ev = Reversal
    BY DEF Notify, Events
  <2>2. sw' = [sw EXCEPT ![s] = next] /\ sw[s].pc = "verdict"
    BY <1>2, <1>1 DEF Judge, At, SweepInv, SweepTypes
  <2> HIDE DEF ev, label
  <2>3. /\ next \in SweepState /\ next.pc = label /\ next.event = ev
        /\ next.local = sw[s].local /\ next.batch = sw[s].batch /\ next.cur = sw[s].cur
        /\ next.read = sw[s].read /\ next.eps = sw[s].eps
    BY <1>1, <2>1, ZenonT(60) DEF SweepState, PCs
  <2> HIDE DEF next
  <2>4. UNCHANGED <<status, aborts, toggles, enabled, queued>>
    BY <1>2 DEF Judge, rowVars
  <2> QED BY <2>1, <2>2, <2>3, <2>4, JudgingCarries DEF Judging
<1>3. CASE ApplyFloor(s)
  <2> DEFINE label == Notify(s)
             next == [sw[s] EXCEPT !.local = "suspect", !.event = Suspect, !.pc = label]
  <2>1. label \in {"loop", "list"}
    BY DEF Notify
  <2>2. sw' = [sw EXCEPT ![s] = next] /\ sw[s].pc = "floor"
    BY <1>3, <1>1 DEF ApplyFloor, At, SweepInv, SweepTypes
  <2>3. TryMark(s, "suspect") /\ UNCHANGED <<aborts, toggles, enabled, queued>>
    BY <1>3 DEF ApplyFloor
  <2>4. status'[sw[s].cur] # "orphaned"
    BY <2>3, <1>1 DEF TryMark, UpdateRow, UpdateMatches, SourcesFor, CanTransition,
                      allowedTransitions, Statuses, SweepInv, SweepTypes
  <2> HIDE DEF label
  <2>5. /\ next \in SweepState /\ next.pc = label
        /\ next.batch = sw[s].batch /\ next.cur = sw[s].cur
        /\ next.read = sw[s].read /\ next.eps = sw[s].eps
    BY <1>1, <2>1, ZenonT(60) DEF SweepState, PCs, Events, Statuses
  <2> HIDE DEF next
  <2> QED BY <2>1, <2>2, <2>3, <2>4, <2>5, JudgingCarries DEF Judging
<1> QED BY <1>2, <1>3

\* Listed: everybody who wants to hear of a reversal is to be told.
LEMMA ListCarries ==
  ASSUME SweepInv, OrphanInv, NEW s \in Sweeper, List(s)
  PROVE  OrphanInv'
<1> DEFINE E == Endpoints(s)
           T == Targets(E, sw[s].event)
           next == [sw[s] EXCEPT !.pc = "enqueue", !.read = TRUE, !.eps = E, !.todo = T,
                                 !.sent = FALSE]
<1>1. sw[s] \in SweepState /\ sw[s].pc = "list"
  BY DEF SweepInv, SweepTypes, List, At
<1>2. E = Endpoint /\ T = Targets(Endpoint, sw[s].event) /\ T \subseteq Endpoint
  BY DEF Endpoints, OrphanInv, Targets
<1>3. sw' = [sw EXCEPT ![s] = next]
  BY <1>1 DEF List, SweepInv, SweepTypes
<1> HIDE DEF E, T
<1>4. /\ next \in SweepState /\ next.pc = "enqueue" /\ next.event = sw[s].event
      /\ next.batch = sw[s].batch /\ next.cur = sw[s].cur /\ next.todo = T
      /\ next.eps = Endpoint
  BY <1>1, <1>2, ZenonT(60) DEF SweepState, PCs
<1> HIDE DEF next
<1>5. UNCHANGED <<status, aborts, toggles, enabled, queued>>
  BY DEF List
<1>6. sw'[s] = next
  BY <1>3 DEF SweepInv, SweepTypes
<1>7. \A t \in Txn : Carried(s, t) => Carried(s, t)'
  BY <1>1, <1>2, <1>4, <1>6 DEF Carried, Warning, Judging, Targets
<1>8. \A t \in Txn : Queued(t, Reversal) => Queued(t, Reversal)'
  BY <1>5 DEF Queued
<1> QED BY <1>3, <1>4, <1>5, <1>7, <1>8, CarryOn

\* The first endpoint told is a delivery queued.
LEMMA EnqueueCarries ==
  ASSUME SweepInv, OrphanInv, NEW s \in Sweeper, Enqueue(s)
  PROVE  OrphanInv'
<1>1. sw[s] \in SweepState /\ sw[s].pc = "enqueue"
  BY DEF SweepInv, SweepTypes, Enqueue, At
<1> PICK u \in Txn : u = sw[s].cur
  BY <1>1 DEF SweepInv, Orderly
<1> PICK ev \in {Reversal, Suspect} : ev = sw[s].event
  BY <1>1 DEF SweepInv, Orderly
<1>2. PICK e \in sw[s].todo :
        /\ queued' = [queued EXCEPT ![<<u, e, ev>>] = @ + 1]
        /\ sw' = [sw EXCEPT ![s].todo = @ \ {e}, ![s].sent = TRUE]
  BY DEF Enqueue, EnqueueDelivery
<1> DEFINE next == [sw[s] EXCEPT !.todo = @ \ {e}, !.sent = TRUE]
<1>3. sw' = [sw EXCEPT ![s] = next]
  BY <1>1, <1>2 DEF SweepInv, SweepTypes
<1>4. /\ next \in SweepState /\ next.pc = "enqueue" /\ next.event = ev
      /\ next.batch = sw[s].batch /\ next.cur = u
      /\ next.read = sw[s].read /\ next.eps = sw[s].eps
  BY <1>1 DEF SweepState
<1> HIDE DEF next
<1>5. UNCHANGED <<status, aborts, toggles, enabled>>
  BY DEF Enqueue
<1>6. e \in Endpoint /\ ev \in Events
  BY <1>1, <1>2 DEF SweepState, Events
<1>7. queued'[<<u, e, ev>>] > 0
  <2>1. <<u, e, ev>> \in Txn \X Endpoint \X Events
    BY <1>6
  <2>2. queued[<<u, e, ev>>] \in Nat
    BY <2>1 DEF SweepInv, SweepTypes
  <2> QED BY <2>1, <2>2, <1>2 DEF SweepInv, SweepTypes
<1>8. ASSUME NEW t \in Txn, Queued(t, Reversal) PROVE Queued(t, Reversal)'
  <2>1. PICK f \in Endpoint : queued[<<t, f, Reversal>>] > 0
    BY <1>8 DEF Queued
  <2>2. CASE <<t, f, Reversal>> = <<u, e, ev>>
    BY <2>2, <1>7 DEF Queued
  <2>3. CASE <<t, f, Reversal>> # <<u, e, ev>>
    <3>1. queued'[<<t, f, Reversal>>] = queued[<<t, f, Reversal>>]
      BY <2>3, <1>2 DEF SweepInv, SweepTypes, Events
    <3> QED BY <3>1, <2>1 DEF Queued
  <2> QED BY <2>2, <2>3
<1>9. sw'[s] = next
  BY <1>3 DEF SweepInv, SweepTypes
<1>10. ASSUME NEW t \in Txn, Carried(s, t) PROVE Queued(t, Reversal)' \/ Carried(s, t)'
  <2>1. CASE <<t, "orphaned">> \in sw[s].batch
    BY <2>1, <1>4, <1>9 DEF Carried, Warning
  <2>2. CASE u = t /\ ev = Reversal
    BY <2>2, <1>6, <1>7 DEF Queued
  <2> QED BY <2>1, <2>2, <1>1, <1>10 DEF Carried, Judging
<1> QED BY <1>3, <1>4, <1>5, <1>8, <1>10, CarryOn DEF OrphanInv

\* The row in hand is through.
LEMMA ThroughCarries ==
  ASSUME SweepInv, OrphanInv, NEW s \in Sweeper, Enqueued(s) \/ MarkPending(s)
  PROVE  OrphanInv'
<1>1. sw[s] \in SweepState
  BY DEF SweepInv, SweepTypes
<1>2. ASSUME NEW label \in {"mark", "loop"}, sw[s].pc \in {"enqueue", "mark"},
             sw[s].pc = "enqueue" => sw[s].todo = {},
             sw' = [sw EXCEPT ![s].pc = label],
             UNCHANGED <<aborts, toggles, enabled, queued>>,
             \A t \in Txn : status'[t] = "orphaned" => status[t] = "orphaned"
      PROVE  OrphanInv'
  <2> DEFINE next == [sw[s] EXCEPT !.pc = label]
  <2>1. sw' = [sw EXCEPT ![s] = next]
    BY <1>1, <1>2 DEF SweepInv, SweepTypes
  <2>2. /\ next \in SweepState /\ next.pc = label /\ next.batch = sw[s].batch
        /\ next.read = sw[s].read /\ next.eps = sw[s].eps
    BY <1>1, <1>2 DEF SweepState, PCs
  <2> HIDE DEF next
  <2>3. sw'[s] = next
    BY <2>1 DEF SweepInv, SweepTypes
  <2>4. \A t \in Txn : Carried(s, t) /\ Targets(Endpoint, Reversal) # {} => Carried(s, t)'
    BY <1>2, <2>2, <2>3 DEF Carried, Warning, Judging
  <2>5. \A t \in Txn : Queued(t, Reversal) => Queued(t, Reversal)'
    BY <1>2 DEF Queued
  <2> QED BY <1>2, <2>1, <2>2, <2>4, <2>5, CarryOn, ZenonT(60) DEF OrphanInv
<1>3. CASE Enqueued(s)
  <2> DEFINE label == IF sw[s].sent /\ sw[s].event = Reversal THEN "mark" ELSE "loop"
  <2>1. label \in {"mark", "loop"}
    OBVIOUS
  <2>2. /\ sw[s].pc = "enqueue" /\ sw[s].todo = {} /\ sw' = [sw EXCEPT ![s].pc = label]
        /\ UNCHANGED <<status, aborts, toggles, enabled, queued>>
    BY <1>3 DEF Enqueued, At, rowVars
  <2> HIDE DEF label
  <2> QED BY <2>1, <2>2, <1>2
<1>4. CASE MarkPending(s)
  <2>1. /\ sw[s].pc = "mark" /\ sw' = [sw EXCEPT ![s].pc = "loop"]
        /\ UNCHANGED <<aborts, toggles, enabled, queued>> /\ TryMark(s, "reversal_pending")
    BY <1>4 DEF MarkPending, At
  <2>2. \A t \in Txn : status'[t] = "orphaned" => status[t] = "orphaned"
    BY <2>1 DEF TryMark, UpdateRow, SweepInv, SweepTypes
  <2> QED BY <2>1, <2>2, <1>2
<1> QED BY <1>3, <1>4

\* A sweep that has nothing on its way loses nothing.
LEMMA EmptyHanded ==
  ASSUME SweepInv, OrphanInv, NEW s \in Sweeper, NEW next \in SweepState,
         sw' = [sw EXCEPT ![s] = next], next.read => next.eps = Endpoint,
         UNCHANGED <<status, aborts, toggles, enabled>>,
         \A t \in Txn : Queued(t, Reversal) => Queued(t, Reversal)',
         (sw[s].pc = "loop" /\ sw[s].batch = {}) \/ sw[s].pc \in {"warnloop", "warnqueue"}
  PROVE  OrphanInv'
<1>1. \A t \in Txn : ~Carried(s, t)
  BY DEF Carried, Warning, Judging
<1> QED BY <1>1, CarryOn

\* So the warnings carry no orphan.
LEMMA WarningCarries ==
  ASSUME SweepInv, OrphanInv, NEW s \in Sweeper,
         \/ ClaimSLAAtRisk(s) \/ WarnNext(s) \/ WarnQueue(s) \/ WarnQueued(s) \/ SweepDone(s)
  PROVE  OrphanInv'
<1>1. sw[s] \in SweepState /\ sw \in [Sweeper -> SweepState]
  BY DEF SweepInv, SweepTypes
<1>2. Idle \in SweepState
  BY DEF Idle, SweepState, PCs
<1>3. CASE ClaimSLAAtRisk(s)
  <2>1. PICK T \in SUBSET WarnDue :
          sw' = [sw EXCEPT ![s] = [Idle EXCEPT !.pc = "warnloop",
                                               !.batch = {<<t, status[t]>> : t \in T}]]
    BY <1>3 DEF ClaimSLAAtRisk
  <2> DEFINE rows == {<<t, status[t]>> : t \in T}
             next == [Idle EXCEPT !.pc = "warnloop", !.batch = rows]
  <2>2. rows \in SUBSET (Txn \X Statuses)
    <3>1. \A t \in T : t \in Txn /\ status[t] \in Statuses
      BY DEF WarnDue, SlaAtRisk, Statuses, SweepInv, SweepTypes
    <3> QED BY <3>1
  <2>3. sw' = [sw EXCEPT ![s] = next]
    BY <2>1
  <2> HIDE DEF rows
  <2>4. next \in SweepState /\ ~next.read
    BY <1>2, <2>2, ZenonT(60) DEF Idle, SweepState, PCs
  <2> HIDE DEF next
  <2>5. /\ sw[s].pc = "loop" /\ sw[s].batch = {}
        /\ UNCHANGED <<status, aborts, toggles, enabled, queued>>
    BY <1>3 DEF ClaimSLAAtRisk, At
  <2> QED BY <2>3, <2>4, <2>5, EmptyHanded DEF Queued
<1>4. CASE WarnNext(s)
  <2>1. PICK row \in sw[s].batch :
          sw' = [sw EXCEPT ![s].pc = "warnqueue",
                           ![s].batch = @ \ {row},
                           ![s].cur = row[1],
                           ![s].read = TRUE,
                           ![s].eps = Endpoints(s),
                           ![s].todo = Targets(Endpoints(s), AtRisk)]
    BY <1>4 DEF WarnNext
  <2> DEFINE E == Endpoints(s)
             T == Targets(E, AtRisk)
             next == [sw[s] EXCEPT !.pc = "warnqueue", !.batch = @ \ {row}, !.cur = row[1],
                                   !.read = TRUE, !.eps = E, !.todo = T]
  <2>2. row \in Txn \X Statuses
    BY <1>1 DEF SweepState
  <2>3. E = Endpoint /\ T \subseteq Endpoint
    BY DEF Endpoints, Targets, OrphanInv
  <2>4. sw' = [sw EXCEPT ![s] = next]
    BY <1>1, <2>1
  <2> HIDE DEF E, T
  <2>5. next \in SweepState /\ next.eps = Endpoint
    BY <1>1, <2>2, <2>3, ZenonT(60) DEF SweepState, PCs
  <2> HIDE DEF next
  <2>6. sw[s].pc = "warnloop" /\ UNCHANGED <<status, aborts, toggles, enabled, queued>>
    BY <1>4 DEF WarnNext, At, rowVars
  <2> QED BY <2>4, <2>5, <2>6, EmptyHanded DEF Queued
<1>5. CASE WarnQueue(s)
  <2>1. PICK e \in sw[s].todo :
          /\ queued' = [queued EXCEPT ![<<sw[s].cur, e, AtRisk>>] = @ + 1]
          /\ sw' = [sw EXCEPT ![s].todo = @ \ {e}, ![s].sent = TRUE]
    BY <1>5 DEF WarnQueue, EnqueueDelivery
  <2> DEFINE next == [sw[s] EXCEPT !.todo = @ \ {e}, !.sent = TRUE]
  <2>2. sw' = [sw EXCEPT ![s] = next]
    BY <1>1, <2>1
  <2>3. next \in SweepState /\ next.read = sw[s].read /\ next.eps = sw[s].eps
    BY <1>1, ZenonT(60) DEF SweepState
  <2> HIDE DEF next
  <2>4. /\ sw[s].pc = "warnqueue" /\ sw[s].cur \in Txn /\ e \in Endpoint
        /\ UNCHANGED <<status, aborts, toggles, enabled>>
    BY <1>1, <1>5, <2>1 DEF WarnQueue, At, SweepInv, Orderly, SweepState
  <2>5. \A t \in Txn, f \in Endpoint : queued'[<<t, f, Reversal>>] = queued[<<t, f, Reversal>>]
    BY <2>1, <2>4 DEF SweepInv, SweepTypes, Events, Reversal, AtRisk
  <2>6. \A t \in Txn : Queued(t, Reversal) => Queued(t, Reversal)'
    BY <2>5 DEF Queued
  <2> QED BY <2>2, <2>3, <2>4, <2>6, EmptyHanded DEF OrphanInv
<1>6. CASE WarnQueued(s)
  <2> DEFINE next == [sw[s] EXCEPT !.pc = "warnloop"]
  <2>1. next \in SweepState /\ next.read = sw[s].read /\ next.eps = sw[s].eps
    BY <1>1 DEF SweepState, PCs
  <2>2. /\ sw' = [sw EXCEPT ![s] = next] /\ sw[s].pc = "warnqueue"
        /\ UNCHANGED <<status, aborts, toggles, enabled, queued>>
    BY <1>1, <1>6 DEF WarnQueued, At, rowVars
  <2> HIDE DEF next
  <2> QED BY <2>1, <2>2, EmptyHanded DEF Queued, OrphanInv
<1>7. CASE SweepDone(s)
  <2>1. /\ sw' = [sw EXCEPT ![s] = Idle] /\ sw[s].pc = "warnloop"
        /\ UNCHANGED <<status, aborts, toggles, enabled, queued>>
    BY <1>7 DEF SweepDone, At, rowVars
  <2>2. ~Idle.read
    BY DEF Idle
  <2> QED BY <1>2, <2>1, <2>2, EmptyHanded DEF Queued
<1> QED BY <1>3, <1>4, <1>5, <1>6, <1>7

\* Nobody but the claim makes an orphan, unless a credit is reported failed.
LEMMA EnvironmentCarries ==
  ASSUME SweepInv, OrphanInv, "failed" \notin Verdicts, MaxToggles = 0, Environment
  PROVE  OrphanInv'
<1> USE DEF others
<1>1. ASSUME UNCHANGED <<aborts, toggles, enabled, queued, sw>>,
             \A t \in Txn : status'[t] = "orphaned" => status[t] = "orphaned"
      PROVE  OrphanInv'
  <2>1. \A s \in Sweeper, t \in Txn : Carried(s, t) => Carried(s, t)'
    BY <1>1 DEF Carried, Targets
  <2>2. \A t \in Txn : Queued(t, Reversal) => Queued(t, Reversal)'
    BY <1>1 DEF Queued
  <2>3. Targets(Endpoint, Reversal)' = Targets(Endpoint, Reversal)
    BY DEF Targets
  <2> QED BY <1>1, <2>1, <2>2, <2>3 DEF OrphanInv
<1>2. ASSUME NEW u \in Txn, NEW target, target # "orphaned", UpdateRow(u, target)
      PROVE  \A t \in Txn : status'[t] = "orphaned" => status[t] = "orphaned"
  BY <1>2 DEF UpdateRow, SweepInv, SweepTypes
<1>3. ASSUME NEW t \in Txn, Debit(t) PROVE OrphanInv'
  BY <1>3, <1>1 DEF Debit, InsertRows
<1>4. ASSUME NEW t \in Txn, CreditDisputed(t) PROVE OrphanInv'
  BY <1>4, <1>2, <1>1 DEF CreditDisputed
<1>5. ASSUME NEW t \in Txn, NEW v \in Verdicts, CreditArrives(t, v) PROVE OrphanInv'
  <2>1. TargetStatus(v) # "orphaned"
    BY DetectorAssumption DEF CreditStatuses, TargetStatus
  <2> QED BY <1>5, <2>1, <1>2, <1>1 DEF CreditArrives
<1>6. ASSUME NEW t \in Txn, NEW target \in {"reversal_completed", "reversal_failed"},
             ReversalEnds(t, target)
      PROVE  OrphanInv'
  BY <1>6, <1>2, <1>1 DEF ReversalEnds
<1>7. ASSUME NEW t \in Txn, WindowCloses(t) \/ GapRecorded(t) \/ DeadlineNears(t)
      PROVE  OrphanInv'
  BY <1>7, <1>1 DEF WindowCloses, GapRecorded, DeadlineNears
<1>8. ASSUME NEW e \in Endpoint, Toggle(e) PROVE OrphanInv'
  BY <1>8 DEF Toggle, OrphanInv
<1> QED BY <1>3, <1>4, <1>5, <1>6, <1>7, <1>8 DEF Environment

\* With every sweep through, an orphan with an endpoint that wants to hear of
\* reversals has had its reversal queued, and a backfilled one has not - as long
\* as no sweep dies or fails, no endpoint is switched, and no credit is reported
\* failed: each of the three can leave an orphan that nobody tells anyone about.
THEOREM OrphansAreNotified ==
  ASSUME MaxAborts = 0, MaxToggles = 0, "failed" \notin Verdicts
  PROVE  Spec => []OrphanIsNotified
<1>1. Init => OrphanInv
  BY DEF Init, OrphanInv, Idle, Absent
<1>2. SweepInv /\ OrphanInv /\ [Next]_vars => OrphanInv'
  <2> SUFFICES ASSUME SweepInv, OrphanInv, [Next]_vars PROVE OrphanInv'
    OBVIOUS
  <2>1. ASSUME NEW s \in Sweeper, Step(s) PROVE OrphanInv'
    BY <2>1, NextTxnCarries, AskCarries, AnswerCarries, JudgeCarries, ListCarries,
       EnqueueCarries, ThroughCarries, WarningCarries DEF Step
  <2>2. ASSUME NEW s \in Sweeper, Claim(s) PROVE OrphanInv'
    BY <2>2, ClaimCarries
  <2>3. ASSUME NEW s \in Sweeper, Abort(s) PROVE OrphanInv'
    BY <2>3 DEF Abort, OrphanInv
  <2>4. CASE Environment
    BY <2>4, EnvironmentCarries
  <2>5. CASE UNCHANGED vars
    BY <2>5 DEF vars, rowVars, OrphanInv, Carried, Queued, Targets
  <2> QED BY <2>1, <2>2, <2>3, <2>4, <2>5 DEF Next
<1>3. SweepInv /\ OrphanInv => OrphanIsNotified
  <2> SUFFICES ASSUME SweepInv, OrphanInv PROVE OrphanIsNotified
    OBVIOUS
  <2>1. ASSUME NEW t \in Backfill PROVE ~Queued(t, Reversal)
    <3>1. ASSUME NEW e \in Endpoint, queued[<<t, e, Reversal>>] > 0 PROVE FALSE
      <4>1. t \in Txn /\ queued[<<t, e, Reversal>>] \in Nat /\ queued[<<t, e, Suspect>>] \in Nat
        BY DetectorAssumption DEF SweepInv, SweepTypes, Events
      <4>2. queued[<<t, e, Reversal>>] + queued[<<t, e, Suspect>>] <= 0
        BY <4>1 DEF SweepInv, SingleVerdict
      <4> QED BY <3>1, <4>1, <4>2
    <3> QED BY <3>1 DEF Queued
  <2>2. ASSUME Resting, NEW t \in Txn \ Backfill, status[t] = "orphaned",
               Targets(enabled, Reversal) # {}
        PROVE  Queued(t, Reversal)
    <3>1. \A s \in Sweeper : ~Carried(s, t)
      BY <2>2 DEF Resting, At, Carried, Warning, Judging
    <3> QED BY <3>1, <2>2 DEF OrphanInv
  <2> QED BY <2>1, <2>2 DEF OrphanIsNotified
<1> QED BY <1>1, <1>2, <1>3, SweepInvInit, SweepInvStep, PTL DEF Spec

-----------------------------------------------------------------------------
(* The status of a transaction *)

Lifecycle == INSTANCE TxnLifecycle

StatusType == status \in [Txn -> Statuses \cup {Absent}]

\* A statement that inserts debits or moves rows along legal edges.
Lawful ==
  /\ StatusType'
  /\ \A t \in Txn :
       \/ status'[t] = status[t]
       \/ status[t] = Absent /\ status'[t] = "pending_debit"
       \/ CanTransition(status[t], status'[t])

\* The guarded UPDATE is lawful, also when it misses.
LEMMA UpdateIsLawful ==
  ASSUME StatusType, NEW t \in Txn, NEW target \in Statuses,
         UpdateRow(t, target) \/ UNCHANGED status
  PROVE  Lawful
BY DEF Lawful, StatusType, UpdateRow, UpdateMatches, SourcesFor

\* So is the claim of expired rows.
LEMMA ClaimIsLawful ==
  ASSUME StatusType, NEW T \in SUBSET Txn, ClaimRows(T, gapped)
  PROVE  Lawful
<1>1. \A t \in T : CanTransition(status[t], status'[t]) /\ status'[t] \in Statuses
  BY DEF ClaimRows, IsOpen, ExpiredStatus, CanTransition, allowedTransitions, Statuses,
         StatusType
<1>2. status' = [t \in Txn |-> status'[t]]
  BY DEF ClaimRows
<1>3. \A t \in Txn : t \notin T => status'[t] = status[t]
  BY DEF ClaimRows
<1>4. StatusType'
  BY <1>1, <1>2, <1>3 DEF StatusType
<1> QED BY <1>1, <1>3, <1>4 DEF Lawful

\* Every statement of a sweep, and of everyone else, is.
LEMMA StepIsLawful ==
  ASSUME SweepInv, StatusType, [Next]_vars
  PROVE  Lawful
<1>1. ASSUME UNCHANGED status PROVE Lawful
  BY <1>1 DEF Lawful, StatusType
<1>2. ASSUME NEW s \in Sweeper, Claim(s) PROVE Lawful
  <2>1. PICK T \in SUBSET Expired : ClaimBatch(s, T)
    BY <1>2 DEF Claim
  <2>2. T \in SUBSET Txn
    BY DEF Expired, SweepInv, SweepTypes
  <2> QED BY <2>1, <2>2, ClaimIsLawful DEF ClaimBatch
<1>3. ASSUME NEW s \in Sweeper, Settle(s) \/ Uncertain(s) \/ ApplyFloor(s) \/ MarkPending(s)
      PROVE  Lawful
  <2>1. sw[s].cur \in Txn
    BY <1>3 DEF SweepInv, Orderly, Settle, Uncertain, ApplyFloor, MarkPending, At, Judging
  <2>2. PICK target \in {"completed", "suspect", "reversal_pending"} : TryMark(s, target)
    BY <1>3 DEF Settle, Uncertain, ApplyFloor, MarkPending
  <2> QED BY <2>1, <2>2, UpdateIsLawful DEF TryMark, Statuses
<1>4. ASSUME NEW s \in Sweeper, Step(s) \/ Abort(s) PROVE Lawful
  <2>1. CASE Settle(s) \/ Uncertain(s) \/ ApplyFloor(s) \/ MarkPending(s)
    BY <2>1, <1>3, SMTT(30)
  <2>2. CASE NextTxn(s) \/ Ask(s) \/ Judge(s) \/ List(s) \/ Enqueue(s) \/ Enqueued(s)
    BY <2>2, <1>1 DEF NextTxn, Ask, Judge, List, Enqueue, Enqueued, rowVars
  <2>3. CASE ClaimSLAAtRisk(s)
    BY <2>3, <1>1 DEF ClaimSLAAtRisk
  <2>4. CASE WarnNext(s) \/ WarnQueue(s) \/ WarnQueued(s) \/ SweepDone(s) \/ Abort(s)
    BY <2>4, <1>1 DEF WarnNext, WarnQueue, WarnQueued, SweepDone, Abort, rowVars
  <2> QED BY <1>4, <2>1, <2>2, <2>3, <2>4 DEF Step
<1>5. ASSUME Environment PROVE Lawful
  <2>1. ASSUME NEW t \in Txn, Debit(t) PROVE Lawful
    <3>1. /\ status' = [u \in Txn |-> IF u = t THEN "pending_debit" ELSE status[u]]
          /\ status[t] = Absent
      BY <2>1 DEF Debit, InsertRows, Stored
    <3> QED BY <3>1 DEF Lawful, StatusType, Statuses
  <2>2. ASSUME NEW t \in Txn, CreditDisputed(t) PROVE Lawful
    BY <2>2, UpdateIsLawful DEF CreditDisputed, Statuses
  <2>3. ASSUME NEW t \in Txn, NEW v \in Verdicts, CreditArrives(t, v) PROVE Lawful
    <3>1. TargetStatus(v) \in Statuses
      BY DetectorAssumption DEF CreditStatuses, TargetStatus, Statuses
    <3> QED BY <2>3, <3>1, UpdateIsLawful DEF CreditArrives
  <2>4. ASSUME NEW t \in Txn, NEW target \in {"reversal_completed", "reversal_failed"},
               ReversalEnds(t, target)
        PROVE  Lawful
    BY <2>4, UpdateIsLawful DEF ReversalEnds, Statuses
  <2>5. ASSUME NEW t \in Txn, WindowCloses(t) \/ GapRecorded(t) \/ DeadlineNears(t)
        PROVE  Lawful
    BY <2>5, <1>1 DEF WindowCloses, GapRecorded, DeadlineNears
  <2>6. ASSUME NEW e \in Endpoint, Toggle(e) PROVE Lawful
    BY <2>6, <1>1 DEF Toggle
  <2> QED BY <1>5, <2>1, <2>2, <2>3, <2>4, <2>5, <2>6 DEF Environment
<1>6. CASE UNCHANGED vars
  BY <1>6, <1>1 DEF vars, rowVars
<1> QED BY <1>2, <1>4, <1>5, <1>6 DEF Next

\* The sweeps of any number of replicas, the credits, the customers' answers and
\* the operators move a transaction only along the edges of the state machine:
\* the detector implements TxnLifecycle.
THEOREM DetectorKeepsLifecycle == Spec => Lifecycle!Spec
<1>1. Init => StatusType /\ Lifecycle!Init
  BY DEF Init, StatusType, Lifecycle!Init, Absent, Lifecycle!Absent
<1>2. SweepInv /\ StatusType /\ [Next]_vars => StatusType' /\ [Lifecycle!Next]_status
  <2> SUFFICES ASSUME SweepInv, StatusType, [Next]_vars PROVE StatusType' /\ Lifecycle!Next
    OBVIOUS
  <2>1. Lawful
    BY StepIsLawful
  <2>2. \A from, to : CanTransition(from, to) <=> Lifecycle!CanTransition(from, to)
    BY DEF CanTransition, allowedTransitions, Statuses, Lifecycle!CanTransition,
           Lifecycle!allowedTransitions, Lifecycle!Statuses
  <2> QED BY <2>1, <2>2
          DEF Statuses, Lifecycle!Statuses, Absent, Lifecycle!Absent, StatusType,
              Lawful, Lifecycle!Next, Lifecycle!Record, Lifecycle!Move
<1> QED BY <1>1, <1>2, SweepInvInit, SweepInvStep, PTL DEF Spec, Lifecycle!Spec

-----------------------------------------------------------------------------
(* ReversalClaim *)

\* A guarded UPDATE keeps the status column within the statuses.
LEMMA UpdateRowType ==
  ASSUME NEW t \in Txn, NEW target \in Statuses,
         status \in [Txn -> Statuses \cup {Absent}], UpdateRow(t, target)
  PROVE  status' \in [Txn -> Statuses \cup {Absent}]
BY DEF UpdateRow

\* Every state the handlers can start from satisfies the invariant.
LEMMA ClaimInvInit == ClaimInit => ClaimInv
BY ClaimAssumption
   DEF ClaimInit, NoClaims, ClaimInv, ClaimTypeOK, HolderOwns, PaidIsHeld, Acting, Places, Statuses

\* Every step of a handler, a worker, an operator or another writer keeps it.
LEMMA ClaimInvStep == ClaimInv /\ [ClaimNext]_claimVars => ClaimInv'
<1> SUFFICES ASSUME ClaimInv, [ClaimNext]_claimVars PROVE ClaimInv'
  OBVIOUS
<1> USE ClaimAssumption DEF ClaimInv, ClaimTypeOK, HolderOwns, PaidIsHeld, Acting, Paid, Places
<1>1. ASSUME NEW c \in Caller, CheckStatus(c) PROVE ClaimInv'
  BY <1>1 DEF CheckStatus, Go
<1>2. ASSUME NEW c \in Caller, InsertClaim(c) PROVE ClaimInv'
  <2>1. CASE claim[on[c]] = NoCaller
    BY <1>2, <2>1 DEF InsertClaim, Go
  <2>2. CASE claim[on[c]] # NoCaller
    BY <1>2, <2>2 DEF InsertClaim, Go
  <2> QED BY <2>1, <2>2
<1>3. ASSUME NEW c \in Caller, Reverse(c) PROVE ClaimInv'
  <2>1. ClaimTypeOK'
    BY <1>3 DEF Reverse, Go
  <2>2. HolderOwns'
    BY <1>3 DEF Reverse, Go
  <2>3. PaidIsHeld'
    <3> SUFFICES ASSUME NEW t \in Txn \ careless', moves'[t] # 0
                 PROVE  /\ moves'[t] = 1
                        /\ \E d \in Caller : claim'[t] = d /\ on'[d] = t /\ at'[d] \in Paid
      OBVIOUS
    <3>1. CASE t = on[c]
      <4>1. moves[t] = 0
        BY <1>3, <3>1 DEF Reverse
      <4> QED BY <1>3, <3>1, <4>1 DEF Reverse, Go
    <3>2. CASE t # on[c]
      BY <1>3, <3>2 DEF Reverse, Go
    <3> QED BY <3>1, <3>2
  <2>4. \A t \in confirmed' : claim'[t] # NoCaller
    BY <1>3 DEF Reverse
  <2> QED BY <2>1, <2>2, <2>3, <2>4
<1>4. ASSUME NEW c \in Caller, Die(c) PROVE ClaimInv'
  BY <1>4 DEF Die, Go
<1>5. ASSUME NEW c \in Caller, MarkReversalCompleted(c) PROVE ClaimInv'
  <2>1. status' \in [Txn -> Statuses \cup {Absent}]
    BY <1>5, UpdateRowType DEF MarkReversalCompleted, Statuses
  <2> QED BY <1>5, <2>1 DEF MarkReversalCompleted, Go
<1>6. ASSUME NEW c \in Caller, ConfirmReversalClaim(c) PROVE ClaimInv'
  BY <1>6 DEF ConfirmReversalClaim, Go
<1>7. ASSUME NEW t \in Txn, ReleaseReversalClaim(t) PROVE ClaimInv'
  BY <1>7 DEF ReleaseReversalClaim, NoteRelease
<1>8. ASSUME NEW t \in Txn, NEW target \in Statuses, Mark(t, target) PROVE ClaimInv'
  <2>1. status' \in [Txn -> Statuses \cup {Absent}]
    BY <1>8, UpdateRowType DEF Mark
  <2> QED BY <1>8, <2>1 DEF Mark
<1>9. CASE UNCHANGED claimVars
  BY <1>9 DEF claimVars
<1> QED
  BY <1>1, <1>2, <1>3, <1>4, <1>5, <1>6, <1>7, <1>8, <1>9 DEF ClaimNext, Statuses

\* The invariant holds in every reachable state.
THEOREM ClaimInvariant == ClaimSpec => []ClaimInv
<1>1. ClaimInit => ClaimInv
  BY ClaimInvInit
<1>2. ClaimInv /\ [ClaimNext]_claimVars => ClaimInv'
  BY ClaimInvStep
<1> QED BY <1>1, <1>2, PTL DEF ClaimSpec

\* A transaction is reversed at most once as long as only claims of workers that
\* died before reversing are released (handleClaimReversal, ClaimReversal).
THEOREM PaidOnceHolds == ClaimSpec => []PaidOnce
<1>1. ClaimInv => PaidOnce
  BY DEF ClaimInv, ClaimTypeOK, PaidIsHeld, PaidOnce
<1> QED BY <1>1, ClaimInvariant, PTL

\* A confirmed claim is never released nor handed on, however careless the
\* operators are (ReleaseReversalClaim).
THEOREM ConfirmedStaysHolds == ClaimSpec => ConfirmedStays
<1> DEFINE Kept == \A t \in confirmed : t \in confirmed' /\ claim'[t] = claim[t]
<1>1. ClaimInv /\ [ClaimNext]_claimVars => [Kept]_claimVars
  <2> SUFFICES ASSUME ClaimInv, ClaimNext PROVE Kept
    BY DEF claimVars
  <2> USE ClaimAssumption DEF ClaimInv, ClaimTypeOK
  <2>1. ASSUME NEW c \in Caller, CheckStatus(c) \/ Reverse(c) \/ Die(c) \/ ConfirmReversalClaim(c)
        PROVE  Kept
    BY <2>1 DEF CheckStatus, Reverse, Die, ConfirmReversalClaim
  <2>2. ASSUME NEW c \in Caller, InsertClaim(c) PROVE Kept
    BY <2>2 DEF InsertClaim
  <2>3. ASSUME NEW c \in Caller, MarkReversalCompleted(c) PROVE Kept
    BY <2>3 DEF MarkReversalCompleted
  <2>4. ASSUME NEW t \in Txn, ReleaseReversalClaim(t) PROVE Kept
    BY <2>4 DEF ReleaseReversalClaim, NoteRelease
  <2>5. ASSUME NEW t \in Txn, NEW target, Mark(t, target) PROVE Kept
    BY <2>5 DEF Mark
  <2> QED BY <2>1, <2>2, <2>3, <2>4, <2>5 DEF ClaimNext
<1> QED BY <1>1, ClaimInvariant, PTL DEF ClaimSpec, ConfirmedStays

-----------------------------------------------------------------------------
(* Silence: an alert and its resolution, and who is left alone.              *)

\* Alerts are numbered by the episodes opened so far: one about the next episode
\* cannot be there yet.
NumberedSoFar ==
  \A x \in alerts \cup UNION {todo[s] : s \in Replica} : x.episode <= opened[x.tenant]

SilenceInv == SilenceTypeOK /\ NumberedSoFar /\ OneAlertPerEpisode /\ ResolvedIsClosed

\* Every action keeps the types.
LEMMA SilenceTypeStep == SilenceTypeOK /\ [SilenceNext]_silenceVars => SilenceTypeOK'
<1> SUFFICES ASSUME SilenceTypeOK, [SilenceNext]_silenceVars PROVE SilenceTypeOK'
  OBVIOUS
<1> USE SilenceAssumption DEF SilenceTypeOK, SweepPCs
<1>1. CASE Tick
  BY <1>1 DEF Tick, sweepVars, Minute
<1>2. ASSUME NEW t \in Tenant, Send(t) PROVE SilenceTypeOK'
  BY <1>2 DEF Send, sweepVars
<1>3. CASE RecordIngestHealth
  BY <1>3 DEF RecordIngestHealth, sweepVars
<1>4. ASSUME NEW s \in Replica, SweepBegin(s) PROVE SilenceTypeOK'
  BY <1>4 DEF SweepBegin, SilentTenants, healthVars
<1>5. ASSUME NEW s \in Replica, SyncSilenceEpisodes(s) PROVE SilenceTypeOK'
  <2>1. ChangeAlerts(s) \subseteq Alerts
    BY DEF ChangeAlerts, Alerts, Kinds, Opened, Recovered, Episode
  <2> QED BY <1>5, <2>1 DEF SyncSilenceEpisodes, Opened, Recovered, healthVars
<1>6. ASSUME NEW s \in Replica, QueueIntegrationAlert(s) PROVE SilenceTypeOK'
  BY <1>6 DEF QueueIntegrationAlert, healthVars
<1>7. ASSUME NEW s \in Replica, AlertFails(s) PROVE SilenceTypeOK'
  BY <1>7 DEF AlertFails, healthVars
<1>8. ASSUME NEW s \in Replica, AlertsDone(s) PROVE SilenceTypeOK'
  BY <1>8 DEF AlertsDone, healthVars
<1>9. ASSUME NEW s \in Replica, ClaimExpired(s) PROVE SilenceTypeOK'
  BY <1>9 DEF ClaimExpired, healthVars
<1>10. ASSUME NEW s \in Replica, SweepFails(s) PROVE SilenceTypeOK'
  BY <1>10 DEF SweepFails, healthVars
<1>11. CASE UNCHANGED silenceVars
  BY <1>11 DEF silenceVars, healthVars, sweepVars
<1> QED
  BY <1>1, <1>2, <1>3, <1>4, <1>5, <1>6, <1>7, <1>8, <1>9, <1>10, <1>11 DEF SilenceNext, Sweep

\* A step that opens and closes nothing and only takes alerts away or moves them
\* from a replica to the queue keeps the numbering and the interlock.
LEMMA AlertsOnlyMove ==
  ASSUME SilenceInv, SilenceTypeOK', UNCHANGED <<episodes, opened>>,
         NEW s \in Replica,
         todo'[s] \subseteq todo[s],
         \A r \in Replica \ {s} : todo'[r] = todo[r],
         alerts \subseteq alerts', alerts' \subseteq alerts \cup (todo[s] \ todo'[s])
  PROVE  SilenceInv'
<1> USE DEF SilenceInv, SilenceTypeOK
<1>1. NumberedSoFar'
  BY DEF NumberedSoFar
<1>2. OneAlertPerEpisode'
  BY DEF OneAlertPerEpisode
<1>3. ResolvedIsClosed'
  BY DEF ResolvedIsClosed, Resolution
<1> QED BY <1>1, <1>2, <1>3

\* The transaction that opens and closes episodes makes alerts nobody has yet.
LEMMA SyncKeepsInterlock ==
  ASSUME SilenceInv, SilenceTypeOK', NEW s \in Replica, SyncSilenceEpisodes(s)
  PROVE  SilenceInv'
<1> USE DEF SilenceInv, SilenceTypeOK
<1>1. /\ todo' = [todo EXCEPT ![s] = ChangeAlerts(s)]
      /\ UNCHANGED alerts
      /\ episodes' = (episodes \cup Opened(s)) \ Recovered(s)
      /\ opened' = [t \in Tenant |-> IF t \in Opened(s) THEN opened[t] + 1 ELSE opened[t]]
  BY DEF SyncSilenceEpisodes, Opened, Recovered
<1>2. \A x \in ChangeAlerts(s) :
        \/ /\ x.tenant \in Opened(s) /\ x.kind = "silence_detected"
           /\ x.episode = opened[x.tenant] + 1
        \/ x.tenant \in Recovered(s) /\ x = Resolution(x.tenant)
  BY DEF ChangeAlerts, Resolution, Opened, Episode
<1>3. \A x \in ChangeAlerts(s) : x \notin alerts \cup UNION {todo[r] : r \in Replica}
  <2> TAKE x \in ChangeAlerts(s)
  <2>1. CASE /\ x.tenant \in Opened(s) /\ x.kind = "silence_detected"
             /\ x.episode = opened[x.tenant] + 1
    BY <2>1 DEF NumberedSoFar, Opened
  <2>2. CASE x.tenant \in Recovered(s) /\ x = Resolution(x.tenant)
    BY <2>2 DEF ResolvedIsClosed, Recovered
  <2> QED BY <1>2, <2>1, <2>2
<1>4. NumberedSoFar'
  <2> SUFFICES ASSUME NEW x \in alerts' \cup UNION {todo'[r] : r \in Replica}
               PROVE  x.episode <= opened'[x.tenant]
    BY DEF NumberedSoFar
  <2>1. CASE x \in ChangeAlerts(s)
    <3>1. x.tenant \in Tenant
      BY <1>2, <2>1 DEF Opened, Recovered
    <3>2. \/ x.episode = opened[x.tenant] + 1 /\ x.tenant \in Opened(s)
          \/ x.episode = opened[x.tenant]
      BY <1>2, <2>1 DEF Resolution
    <3> QED BY <1>1, <3>1, <3>2
  <2>2. CASE x \in alerts \cup UNION {todo[r] : r \in Replica}
    <3>1. x.episode <= opened[x.tenant] /\ x.tenant \in Tenant /\ x.episode \in Nat
      BY <2>2 DEF NumberedSoFar, Alerts
    <3> QED BY <1>1, <3>1
  <2> QED BY <1>1, <2>1, <2>2
<1>5. OneAlertPerEpisode'
  BY <1>1, <1>3 DEF OneAlertPerEpisode
<1>6. ResolvedIsClosed'
  <2> SUFFICES ASSUME NEW t \in episodes'
               PROVE  Resolution(t)' \notin alerts' \cup UNION {todo'[r] : r \in Replica}
    BY DEF ResolvedIsClosed
  <2>1. t \in Tenant /\ t \notin Recovered(s)
    BY <1>1
  <2>2. Resolution(t)'.tenant = t /\ Resolution(t)'.kind = "silence_resolved"
    BY DEF Resolution
  <2>3. Resolution(t)' \notin ChangeAlerts(s)
    BY <1>2, <2>1, <2>2 DEF Resolution
  <2>4. Resolution(t)' \notin alerts \cup UNION {todo[r] : r \in Replica}
    <3>1. CASE t \in Opened(s)
      <4>1. Resolution(t)'.episode = opened[t] + 1
        BY <1>1, <2>1, <3>1 DEF Resolution
      <4> QED BY <2>1, <2>2, <4>1 DEF NumberedSoFar
    <3>2. CASE t \notin Opened(s)
      <4>1. t \in episodes /\ Resolution(t)' = Resolution(t)
        BY <1>1, <2>1, <3>2 DEF Resolution
      <4> QED BY <4>1 DEF ResolvedIsClosed
    <3> QED BY <3>1, <3>2
  <2> QED BY <1>1, <2>3, <2>4
<1> QED BY <1>4, <1>5, <1>6

\* No state the replicas start from has alerts.
LEMMA SilenceInvInit == SilenceInit => SilenceInv
BY SilenceAssumption
   DEF SilenceInit, SilenceInv, SilenceTypeOK, NumberedSoFar, OneAlertPerEpisode, ResolvedIsClosed, Minute, SweepPCs

\* Every step keeps the numbering and the interlock.
LEMMA SilenceInvStep == SilenceInv /\ [SilenceNext]_silenceVars => SilenceInv'
<1> SUFFICES ASSUME SilenceInv, [SilenceNext]_silenceVars PROVE SilenceInv'
  OBVIOUS
<1>0. SilenceTypeOK'
  BY SilenceTypeStep DEF SilenceInv
<1>1. ASSUME UNCHANGED <<episodes, opened, todo, alerts>> PROVE SilenceInv'
  BY <1>0, <1>1
     DEF SilenceInv, NumberedSoFar, OneAlertPerEpisode, ResolvedIsClosed, Resolution
<1>2. ASSUME NEW s \in Replica, SyncSilenceEpisodes(s) PROVE SilenceInv'
  BY <1>0, <1>2, SyncKeepsInterlock
<1>3. ASSUME NEW s \in Replica, QueueIntegrationAlert(s) PROVE SilenceInv'
  BY <1>0, <1>3, AlertsOnlyMove DEF QueueIntegrationAlert, SilenceInv, SilenceTypeOK
<1>4. ASSUME NEW s \in Replica, AlertFails(s) PROVE SilenceInv'
  BY <1>0, <1>4, AlertsOnlyMove DEF AlertFails, SilenceInv, SilenceTypeOK
<1>5. ASSUME NEW s \in Replica, SweepFails(s) PROVE SilenceInv'
  BY <1>0, <1>5, AlertsOnlyMove DEF SweepFails, SilenceInv, SilenceTypeOK
<1> QED
  BY <1>1, <1>2, <1>3, <1>4, <1>5
     DEF SilenceNext, Sweep, silenceVars, sweepVars, Tick, Send, RecordIngestHealth, SweepBegin,
         AlertsDone, ClaimExpired

\* Each opening and each closing of an episode is alerted about by one replica
\* and once, and no replica announces the end of an episode that is open, for any
\* number of replicas with lists of any age.
THEOREM EpisodeInterlock == SilenceSpec => []AlertsMatchEpisodes
<1>1. SilenceInv => AlertsMatchEpisodes
  BY DEF SilenceInv, AlertsMatchEpisodes
<1> QED BY <1>1, SilenceInvInit, SilenceInvStep, PTL DEF SilenceSpec

\* The last minute of a tenant that has sent is a minute.
LEMMA LastSentIsMinute ==
  ASSUME SilenceTypeOK, NEW t \in Tenant, unflushed[t] \cup received[t] # {}
  PROVE  LastSent(t) \in Nat
<1> DEFINE S == unflushed[t] \cup received[t]
<1>1. S \in SUBSET (0..MaxMinute) /\ MaxMinute \in Nat
  BY SilenceAssumption DEF SilenceTypeOK, Minute
<1>2. \E x \in S : \A y \in S : x >= y
  <2> HIDE DEF S
  <2> QED BY <1>1, GreatestNat DEF S
<1>3. LastSent(t) \in S
  BY <1>2 DEF LastSent, Max
<1> QED BY <1>1, <1>3

\* A tenant that was steady is silent for as long as enough of the baseline is left.
LEMMA SteadyIsSilent ==
  ASSUME SilenceTypeOK, NEW t \in Tenant, SteadyThenSilent(t, minute)
  PROVE  IsSilent(t, minute)
<1> DEFINE last == LastSent(t)
           from == IF BaselineFrom(minute) < 0 THEN 0 ELSE BaselineFrom(minute)
<1>1. last \in Nat
  BY LastSentIsMinute DEF SteadyThenSilent
<1>2. /\ received[t] = 0..last /\ Cardinality(received[t]) >= MinActive
      /\ minute > last + Quiet /\ minute <= last + Quiet + Baseline + 1 - MinActive
  BY DEF SteadyThenSilent
<1>3. /\ Quiet \in Nat /\ Baseline \in Nat /\ MinActive \in Nat /\ minute \in Nat
  BY SilenceAssumption DEF SilenceTypeOK, Minute
<1> HIDE DEF last
<1>4. ~ \E m \in received[t] : m >= QuietFrom(minute)
  BY <1>1, <1>2, <1>3 DEF QuietFrom
<1>5. {m \in received[t] : BaselineFrom(minute) <= m /\ m < QuietFrom(minute)} = from..last
  BY <1>1, <1>2, <1>3 DEF QuietFrom, BaselineFrom
<1>6. Cardinality(from..last) = IF from > last THEN 0 ELSE last - from + 1
  BY <1>1, <1>3, FS_Interval DEF QuietFrom, BaselineFrom
<1>7. Cardinality(0..last) = last + 1
  BY <1>1, FS_Interval
<1>8. Cardinality(from..last) >= MinActive
  BY <1>1, <1>2, <1>3, <1>6, <1>7 DEF QuietFrom, BaselineFrom
<1> QED BY <1>4, <1>5, <1>8 DEF IsSilent

\* A sweep that looks while a tenant that was steady is silent skips the tenant,
\* for every quiet period, baseline and minimum.
THEOREM SteadySilenceIsSeen == SilenceSpec => NoStorm
<1>1. SilenceInv /\ [SilenceNext]_silenceVars =>
        [\A s \in Replica : SweepBegin(s) =>
           \A t \in Tenant : SteadyThenSilent(t, minute) => t \in silent'[s]]_silenceVars
  <2> SUFFICES ASSUME SilenceTypeOK, NEW s \in Replica, SweepBegin(s),
                      NEW t \in Tenant, SteadyThenSilent(t, minute)
               PROVE  t \in silent'[s]
    BY DEF SilenceInv
  <2>1. silent'[s] = SilentTenants(minute)
    BY DEF SweepBegin, SilenceTypeOK
  <2> QED BY <2>1, SteadyIsSilent DEF SilentTenants
<1> QED BY <1>1, SilenceInvInit, SilenceInvStep, PTL DEF SilenceSpec, NoStorm
=============================================================================
