---------------------------- MODULE AuditProofs ----------------------------
(***************************************************************************)
(* The audit chain of a tenant: its appends, the signatures over it and    *)
(* what verification answers, for every number of replicas, every length   *)
(* and whatever is done to the tables.                                     *)
(***************************************************************************)
EXTENDS Audit, DataLemmas, SequenceTheorems

AppendType ==
  /\ lock \in Appender \cup {Free}
  /\ apc \in [Appender -> {"begin", "locked", "insert"}]
  /\ DOMAIN tip = Appender
  /\ tampers \in Nat

\* A transaction that is past its first statement has the lock.
HolderIsAlone == \A a \in Appender : apc[a] # "begin" => lock = a

\* Record i, as the i-th append of the history makes it.
Linked(i) ==
  [seq |-> i, amount |-> history[i], prev |-> PrevHash(chain, i),
   hash |-> ComputeHash(i, history[i], PrevHash(chain, i))]

\* The table as the program alone leaves it.
ChainIsLinked ==
  /\ history \in Seq(Amount)
  /\ \E S : chain \in Seq(S)
  /\ Len(chain) = Len(history)
  /\ Len(chain) <= MaxRecords
  /\ \A i \in 1..Len(chain) : chain[i] = Linked(i)

\* The tip that was read is the tip, and there is room for one record.
TipIsCurrent ==
  \A a \in Appender :
    /\ apc[a] = "insert" => tip[a] = ChainTip
    /\ apc[a] # "begin" => Len(chain) < MaxRecords

AuditInv ==
  AppendType /\ HolderIsAlone /\ (tampers = 0 => ChainIsLinked /\ TipIsCurrent)

\* The tip of a linked chain: its seq is the number of records.
LEMMA TipOfLinked ==
  ASSUME ChainIsLinked
  PROVE  /\ ChainTip.seq = Len(chain)
         /\ ChainTip.hash = PrevHash(chain, Len(chain) + 1)
<1>1. PICK S : chain \in Seq(S)
  BY DEF ChainIsLinked
<1>2. CASE chain = <<>>
  BY <1>1, <1>2 DEF ChainTip, NoTip, PrevHash
<1>3. CASE chain # <<>>
  <2>1. Len(chain) \in 1..Len(chain)
    BY <1>1, <1>3
  <2>2. chain[Len(chain)] = Linked(Len(chain))
    BY <2>1 DEF ChainIsLinked
  <2>3. Len(chain) + 1 # 1 /\ (Len(chain) + 1) - 1 = Len(chain)
    BY <1>1, <2>1
  <2> QED BY <1>3, <2>2, <2>3 DEF ChainTip, Last, PrevHash, Linked
<1> QED BY <1>2, <1>3

\* An append of the record the tip asks for.
LEMMA AppendKeepsLinks ==
  ASSUME ChainIsLinked, Len(chain) < MaxRecords, NEW a \in Appender, tip[a] = ChainTip,
         NEW amount \in Amount,
         chain' = Append(chain, NewRecord(a, amount)), history' = Append(history, amount)
  PROVE  ChainIsLinked'
<1> DEFINE n == Len(chain)
           rec == NewRecord(a, amount)
<1>1. PICK S : chain \in Seq(S)
  BY DEF ChainIsLinked
<1>2. chain \in Seq(S \cup {rec})
  BY <1>1
<1>3. chain' \in Seq(S \cup {rec}) /\ Len(chain') = n + 1 /\ chain'[n + 1] = rec
  BY <1>2
<1>4. \A i \in 1..n : chain'[i] = chain[i]
  BY <1>2
<1>5. history' \in Seq(Amount) /\ Len(history') = n + 1 /\ history'[n + 1] = amount
  BY DEF ChainIsLinked
<1>6. \A i \in 1..n : history'[i] = history[i]
  BY DEF ChainIsLinked
<1>7. n \in Nat /\ MaxRecords \in Nat
  BY <1>1, AuditAssumption
<1>8. \A i \in 1..(n + 1) : PrevHash(chain, i)' = PrevHash(chain, i)
  BY <1>4, <1>7 DEF PrevHash
<1>9. \A i \in 1..(n + 1) : chain'[i] = Linked(i)'
  <2> TAKE i \in 1..(n + 1)
  <2>1. CASE i = n + 1
    <3>1. rec = [seq |-> n + 1, amount |-> amount, prev |-> PrevHash(chain, n + 1),
                 hash |-> ComputeHash(n + 1, amount, PrevHash(chain, n + 1))]
      BY TipOfLinked DEF NewRecord
    <3> QED BY <1>3, <1>5, <1>8, <2>1, <3>1 DEF Linked, ComputeHash
  <2>2. CASE i \in 1..n
    <3>1. chain[i] = Linked(i)
      BY <2>2 DEF ChainIsLinked
    <3> QED BY <1>4, <1>6, <1>8, <2>2, <3>1 DEF Linked, ComputeHash
  <2> QED BY <1>7, <2>1, <2>2
<1> QED BY <1>3, <1>5, <1>7, <1>9 DEF ChainIsLinked

\* An empty table is linked, and nobody has the lock.
LEMMA AuditInvInit == Init => AuditInv
<1> SUFFICES ASSUME Init PROVE AuditInv
  OBVIOUS
<1>1. chain \in Seq({}) /\ history \in Seq(Amount) /\ Len(chain) = 0 /\ Len(history) = 0
  BY DEF Init
<1>2. ChainIsLinked
  BY <1>1, AuditAssumption DEF ChainIsLinked
<1> QED BY <1>2 DEF Init, AuditInv, AppendType, HolderIsAlone, TipIsCurrent

\* Every statement of every transaction, round and call keeps the invariant.
LEMMA AuditInvStep == AuditInv /\ [Next]_vars => AuditInv'
<1> SUFFICES ASSUME AuditInv, [Next]_vars PROVE AuditInv'
  OBVIOUS
<1> USE AuditAssumption DEF AuditInv, AppendType, HolderIsAlone, Free
<1>1. ASSUME UNCHANGED <<chain, appVars, history, tampers>> PROVE AuditInv'
  BY <1>1 DEF appVars, ChainIsLinked, Linked, PrevHash, TipIsCurrent, ChainTip
<1>2. ASSUME NEW a \in Appender, Lock(a) PROVE AuditInv'
  <2>1. AppendType' /\ HolderIsAlone'
    BY <1>2 DEF Lock, ghostVars
  <2>2. ASSUME tampers' = 0 PROVE ChainIsLinked' /\ TipIsCurrent'
    <3>1. ChainIsLinked' /\ Len(chain) < MaxRecords
      BY <1>2, <2>2, TipOfLinked, ZenonT(60) DEF Lock, ghostVars, ChainIsLinked, Linked, PrevHash
    <3>2. TipIsCurrent'
      BY <1>2, <2>2, <3>1 DEF Lock, ghostVars, TipIsCurrent, ChainTip
    <3> QED BY <3>1, <3>2
  <2> QED BY <2>1, <2>2
<1>3. ASSUME NEW a \in Appender, ReadTip(a) PROVE AuditInv'
  <2>1. AppendType' /\ HolderIsAlone'
    BY <1>3 DEF ReadTip, ghostVars
  <2>2. ASSUME tampers' = 0 PROVE ChainIsLinked' /\ TipIsCurrent'
    BY <1>3, <2>2 DEF ReadTip, ghostVars, ChainIsLinked, Linked, PrevHash, TipIsCurrent, ChainTip
  <2> QED BY <2>1, <2>2
<1>4. ASSUME NEW a \in Appender, Insert(a) PROVE AuditInv'
  <2>1. /\ lock = a /\ lock' = Free
        /\ apc' = [apc EXCEPT ![a] = "begin"]
        /\ \A b \in Appender : apc'[b] = "begin"
    BY <1>4 DEF Insert, Release
  <2>2. AppendType' /\ HolderIsAlone'
    BY <1>4, <2>1 DEF Insert, Release
  <2>3. ASSUME tampers' = 0 PROVE ChainIsLinked' /\ TipIsCurrent'
    <3>1. ChainIsLinked /\ TipIsCurrent
      BY <1>4, <2>3 DEF Insert
    <3>2. tip[a] = ChainTip /\ Len(chain) < MaxRecords
      BY <1>4, <3>1 DEF Insert, TipIsCurrent
    <3>3. TipIsCurrent'
      BY <2>1 DEF TipIsCurrent
    <3>4. CASE Refused(a)
      BY <1>4, <3>1, <3>3, <3>4 DEF Insert, ChainIsLinked, Linked, PrevHash
    <3>5. CASE ~Refused(a)
      <4>1. PICK amount \in Amount : /\ chain' = Append(chain, NewRecord(a, amount))
                                     /\ history' = Append(history, amount)
        BY <1>4, <3>5 DEF Insert
      <4> QED BY <3>1, <3>2, <3>3, <4>1, AppendKeepsLinks
    <3> QED BY <3>4, <3>5
  <2> QED BY <2>2, <2>3
<1>5. ASSUME NEW a \in Appender, Rollback(a) PROVE AuditInv'
  <2>1. AppendType' /\ HolderIsAlone'
    BY <1>5 DEF Rollback, Release, ghostVars
  <2>2. ASSUME tampers' = 0 PROVE ChainIsLinked' /\ TipIsCurrent'
    BY <1>5, <2>2
       DEF Rollback, Release, ghostVars, ChainIsLinked, Linked, PrevHash, TipIsCurrent, ChainTip
  <2> QED BY <2>1, <2>2
<1>6. CASE Tamper
  <2>1. UNCHANGED appVars /\ tampers' = tampers + 1
    BY <1>6 DEF Tamper, EditRecord, RemoveRecord, RebuildChain, EditCheckpoint, ResignCheckpoint,
           Tampered
  <2> QED BY <2>1 DEF appVars
<1> QED
  BY <1>1, <1>2, <1>3, <1>4, <1>5, <1>6
     DEF Next, AppendAudit, Checkpoint, vars, ghostVars, CheckpointRead, CheckpointLatest,
         CheckpointSave, CheckpointFails, HandlerReads, HandlerAnswers, CtlReads, CtlAnswers

\* The advisory lock makes every append see the tip it appends to, for any number
\* of replicas: the unique key on (tenant_id, seq) refuses nothing.
THEOREM AppendsAreSerial == Spec => []AppendsNeverClash
<1>1. AuditInv => AppendsNeverClash
  BY DEF AuditInv, HolderIsAlone, TipIsCurrent, AppendsNeverClash, AppendType
<1> QED BY <1>1, AuditInvInit, AuditInvStep, PTL DEF Spec

-----------------------------------------------------------------------------
(* Records that are read back *)

\* Some sequence.
Listed(rs) == \E S : rs \in Seq(S)

\* How many records a list with this limit has.
Shown(limit) == IF Len(chain) < limit THEN Len(chain) ELSE limit

\* A list is a sequence, whatever was done to the table.
LEMMA ListIsListed ==
  ASSUME Listed(chain), NEW limit \in Nat
  PROVE  /\ Listed(ListAudit(limit))
         /\ Shown(limit) \in 0..limit /\ Shown(limit) <= Len(chain)
         /\ DOMAIN ListAudit(limit) = 1..Shown(limit) /\ Len(ListAudit(limit)) = Shown(limit)
<1> DEFINE rs == ListAudit(limit)
           m == Shown(limit)
<1>1. Len(chain) \in Nat
  BY DEF Listed
<1>2. m \in Nat /\ m <= limit /\ m <= Len(chain)
  BY <1>1 DEF Shown
<1>3. rs = [i \in 1..m |-> [chain[i] EXCEPT !.amount = AsRead(@)]]
  BY DEF ListAudit, Shown
<1> HIDE DEF m
<1>4. rs \in Seq({rs[i] : i \in 1..m}) /\ Len(rs) = m /\ DOMAIN rs = 1..m
  <2>1. DOMAIN rs = 1..m
    BY <1>3
  <2>2. rs = [i \in 1..m |-> rs[i]]
    BY <1>3
  <2> HIDE DEF rs
  <2>3. rs \in [1..m -> {rs[i] : i \in 1..m}]
    BY <2>1, <2>2
  <2> QED BY <2>1, <2>3, <1>2
<1> QED BY <1>2, <1>4 DEF Listed, m

\* A list of an untouched table holds the records as they were hashed, with the
\* amounts as they are read.
LEMMA ListOfLinked ==
  ASSUME ChainIsLinked, NEW limit \in Nat, NEW i \in 1..Shown(limit)
  PROVE  /\ ListAudit(limit)[i].seq = i
         /\ ListAudit(limit)[i].amount = AsRead(history[i])
         /\ ListAudit(limit)[i].prev = PrevHash(chain, i)
         /\ ListAudit(limit)[i].hash = chain[i].hash
         /\ chain[i].hash = ComputeHash(i, history[i], PrevHash(chain, i))
         /\ PrevHash(ListAudit(limit), i) = PrevHash(chain, i)
<1> DEFINE rs == ListAudit(limit)
<1>1. Listed(chain)
  BY DEF ChainIsLinked, Listed
<1>2. Shown(limit) \in Nat /\ Shown(limit) <= Len(chain) /\ Len(chain) \in Nat
  BY <1>1, ListIsListed DEF Listed
<1>3. \A j \in 1..Shown(limit) : rs[j] = [chain[j] EXCEPT !.amount = AsRead(chain[j].amount)]
  BY DEF ListAudit, Shown
<1>4. \A j \in 1..Shown(limit) : chain[j] = Linked(j)
  BY <1>2 DEF ChainIsLinked
<1> HIDE DEF rs
<1>5. \A j \in 1..Shown(limit) :
        /\ rs[j].seq = j /\ rs[j].amount = AsRead(history[j])
        /\ rs[j].prev = PrevHash(chain, j) /\ rs[j].hash = chain[j].hash
        /\ chain[j].hash = ComputeHash(j, history[j], PrevHash(chain, j))
  <2> TAKE j \in 1..Shown(limit)
  <2>1. chain[j] = Linked(j) /\ rs[j] = [chain[j] EXCEPT !.amount = AsRead(chain[j].amount)]
    BY <1>3, <1>4
  <2>2. chain[j] = [seq |-> j, amount |-> history[j], prev |-> PrevHash(chain, j),
                    hash |-> ComputeHash(j, history[j], PrevHash(chain, j))]
    BY <2>1 DEF Linked
  <2>3. PICK p : p = PrevHash(chain, j)
    OBVIOUS
  <2>4. PICK h : h = ComputeHash(j, history[j], PrevHash(chain, j))
    OBVIOUS
  <2>5. chain[j] = [seq |-> j, amount |-> history[j], prev |-> p, hash |-> h]
    BY <2>2, <2>3, <2>4
  <2>6. rs[j] = [seq |-> j, amount |-> AsRead(history[j]), prev |-> p, hash |-> h]
    BY <2>1, <2>5
  <2> QED BY <2>3, <2>4, <2>5, <2>6
<1>6. PrevHash(rs, i) = PrevHash(chain, i)
  <2>1. CASE i = 1
    BY <2>1 DEF PrevHash
  <2>2. CASE i # 1
    <3>1. i - 1 \in 1..Shown(limit)
      BY <1>2, <2>2
    <3>2. rs[i - 1].hash = chain[i - 1].hash
      BY <1>5, <3>1
    <3> QED BY <2>2, <3>2 DEF PrevHash
  <2> QED BY <2>1, <2>2
<1> QED BY <1>5, <1>6 DEF rs

\* The first k amounts survive the trip through a float64.
Exact(k) == \A i \in 1..k : AsRead(history[i]) = history[i]

\* A list of an untouched table verifies if the amounts in it survive.
LEMMA ExactListVerifies ==
  ASSUME ChainIsLinked, NEW limit \in Nat, Exact(Shown(limit))
  PROVE  VerifyChain(ListAudit(limit))
<1>1. DOMAIN ListAudit(limit) = 1..Shown(limit)
  BY ListIsListed DEF ChainIsLinked, Listed
<1> SUFFICES ASSUME NEW i \in 1..Shown(limit)
             PROVE  LET rs == ListAudit(limit) IN
                    /\ rs[i].seq = i
                    /\ rs[i].prev = PrevHash(rs, i)
                    /\ rs[i].hash = ComputeHash(rs[i].seq, rs[i].amount, PrevHash(rs, i))
  BY <1>1 DEF VerifyChain
<1>2. AsRead(history[i]) = history[i]
  BY DEF Exact
<1> QED BY <1>2, ListOfLinked

\* A list that verifies has amounts that survive.
LEMMA VerifiedListIsExact ==
  ASSUME ChainIsLinked, NEW limit \in Nat, VerifyChain(ListAudit(limit))
  PROVE  Exact(Shown(limit))
<1> DEFINE rs == ListAudit(limit)
<1>1. DOMAIN rs = 1..Shown(limit)
  BY ListIsListed DEF ChainIsLinked, Listed
<1> SUFFICES ASSUME NEW i \in 1..Shown(limit) PROVE AsRead(history[i]) = history[i]
  BY DEF Exact
<1>2. rs[i].hash = ComputeHash(rs[i].seq, rs[i].amount, PrevHash(rs, i))
  BY <1>1 DEF VerifyChain
<1>3. ComputeHash(i, AsRead(history[i]), PrevHash(chain, i))
        = ComputeHash(i, history[i], PrevHash(chain, i))
  BY <1>2, ListOfLinked
<1> QED BY <1>3 DEF ComputeHash

\* Read back, the chain is the appends in their order and verifies, if every amount
\* survives a float64, and fails to verify if one does not.
THEOREM ChainVerifies == Spec => []ChainIsHistory
<1>1. ASSUME AuditInv PROVE ChainIsHistory
  <2> SUFFICES ASSUME tampers = 0
               PROVE  /\ VerifyChain(ListAudit(MaxRecords)) <=> Survives
                      /\ Survives => Amounts(ListAudit(MaxRecords)) = history
    BY DEF ChainIsHistory
  <2> DEFINE rs == ListAudit(MaxRecords)
             n == Len(chain)
  <2>1. ChainIsLinked
    BY <1>1 DEF AuditInv
  <2>2. n \in Nat /\ MaxRecords \in Nat /\ history \in Seq(Amount) /\ Len(history) = n
        /\ Shown(MaxRecords) = n
    BY <2>1, AuditAssumption DEF ChainIsLinked, Shown
  <2>3. Exact(n) <=> Survives
    BY <2>2 DEF Exact, Survives
  <2>4. Survives => VerifyChain(rs)
    BY <2>1, <2>2, <2>3, ExactListVerifies
  <2>5. VerifyChain(rs) => Survives
    BY <2>1, <2>2, <2>3, VerifiedListIsExact
  <2>6. DOMAIN rs = 1..n
    BY <2>1, <2>2, ListIsListed DEF ChainIsLinked, Listed
  <2>7. ASSUME Survives PROVE \A i \in 1..n : rs[i].amount = history[i]
    BY <2>1, <2>2, <2>3, <2>7, ListOfLinked DEF Exact
  <2>8. Survives => Amounts(rs) = history
    BY <2>2, <2>6, <2>7 DEF Amounts
  <2> QED BY <2>4, <2>5, <2>8
<1> QED BY <1>1, AuditInvInit, AuditInvStep, PTL DEF Spec

-----------------------------------------------------------------------------
(* The walk along the hashes *)

\* One step of the walk, and the walk over the first m records.
WalkStep(rs, g, i) ==
  IF i = 0 THEN NoHash ELSE ComputeHash(rs[i].seq, rs[i].amount, g[i - 1])

Walks(rs, g, m) == g = [i \in 0..m |-> WalkStep(rs, g, i)]

\* The recursion is well defined: every prefix can be walked.
LEMMA WalkExists ==
  ASSUME NEW rs, Len(rs) \in Nat
  PROVE  \E g : Walks(rs, g, Len(rs))
<1> DEFINE Bad == {m \in 0..Len(rs) : ~\E g : Walks(rs, g, m)}
<1>0. Len(rs) \in 0..Len(rs) /\ Bad \in SUBSET Nat
  OBVIOUS
<1>1. SUFFICES ASSUME Bad # {} PROVE FALSE
  BY <1>0
<1>2. PICK m \in Bad : \A k \in Bad : m <= k
  <2> HIDE DEF Bad
  <2> QED BY <1>0, <1>1, LeastNat
<1>3. m \in 0..Len(rs) /\ ~\E g : Walks(rs, g, m)
  OBVIOUS
<1>4. CASE m = 0
  <2> DEFINE h == [i \in 0..0 |-> NoHash]
  <2>1. h = [i \in 0..0 |-> WalkStep(rs, h, i)]
    BY DEF WalkStep
  <2> HIDE DEF h
  <2> QED BY <2>1, <1>3, <1>4 DEF Walks
<1>5. CASE m # 0
  <2>1. m - 1 \in 0..Len(rs) /\ m \in Nat /\ ~(m <= m - 1)
    BY <1>3, <1>5
  <2>2. PICK g : Walks(rs, g, m - 1)
    BY <1>2, <2>1
  <2> DEFINE h == [i \in 0..m |-> IF i = m THEN WalkStep(rs, g, m) ELSE g[i]]
  <2>3. ASSUME NEW i \in 0..m PROVE h[i] = WalkStep(rs, h, i)
    <3>1. CASE i = 0
      BY <3>1, <2>1, <2>2, <1>5 DEF Walks, WalkStep
    <3>2. CASE i # 0
      <4>1. i - 1 \in 0..(m - 1) /\ i - 1 # m /\ i - 1 \in 0..m
        BY <3>2, <2>1
      <4>2. WalkStep(rs, h, i) = WalkStep(rs, g, i)
        BY <3>2, <4>1 DEF WalkStep
      <4>3. CASE i = m
        BY <4>2, <4>3
      <4>4. CASE i # m
        <5>1. i \in 0..(m - 1)
          BY <4>4, <2>1
        <5>2. g[i] = WalkStep(rs, g, i)
          BY <5>1, <2>2 DEF Walks
        <5> QED BY <5>2, <4>2, <4>4
      <4> QED BY <4>3, <4>4
    <3> QED BY <3>1, <3>2
  <2>4. h = [i \in 0..m |-> h[i]]
    OBVIOUS
  <2>5. Walks(rs, h, m)
    <3> HIDE DEF h
    <3>1. [i \in 0..m |-> h[i]] = [i \in 0..m |-> WalkStep(rs, h, i)]
      BY <2>3
    <3> QED BY <3>1, <2>4 DEF Walks
  <2> QED BY <2>5, <1>3
<1> QED BY <1>4, <1>5

\* What Walk computes.
LEMMA WalkIsWalked ==
  ASSUME NEW rs, Len(rs) \in Nat
  PROVE  /\ Walk(rs)[0] = NoHash
         /\ \A i \in 1..Len(rs) :
              Walk(rs)[i] = ComputeHash(rs[i].seq, rs[i].amount, Walk(rs)[i - 1])
<1> DEFINE g == CHOOSE g : Walks(rs, g, Len(rs))
<1>1. Walk(rs) = g
  BY DEF Walk, Walks, WalkStep
<1>2. Walks(rs, g, Len(rs))
  BY WalkExists
<1> HIDE DEF g
<1>3. 0 \in 0..Len(rs) /\ \A i \in 1..Len(rs) : i \in 0..Len(rs) /\ i # 0
  OBVIOUS
<1> QED BY <1>1, <1>2, <1>3 DEF Walks, WalkStep

\* As far as the records verify, the walk arrives at their hashes.
LEMMA WalkArrives ==
  ASSUME NEW rs, Len(rs) \in Nat, NEW k \in 1..Len(rs),
         \A i \in 1..k : /\ rs[i].seq = i
                         /\ rs[i].hash = ComputeHash(i, rs[i].amount, PrevHash(rs, i))
  PROVE  Walk(rs)[k] = rs[k].hash
<1> DEFINE Bad == {i \in 1..k : Walk(rs)[i] # rs[i].hash}
<1>1. SUFFICES ASSUME Bad # {} PROVE FALSE
  OBVIOUS
<1>2. PICK i \in Bad : \A j \in Bad : i <= j
  <2>1. Bad \in SUBSET Nat
    OBVIOUS
  <2> HIDE DEF Bad
  <2> QED BY <2>1, <1>1, LeastNat
<1>3. i \in 1..k /\ i \in 1..Len(rs) /\ Walk(rs)[i] # rs[i].hash
  OBVIOUS
<1>4. Walk(rs)[i] = ComputeHash(i, rs[i].amount, Walk(rs)[i - 1])
  BY <1>3, WalkIsWalked
<1>5. Walk(rs)[i - 1] = PrevHash(rs, i)
  <2>1. CASE i = 1
    BY <2>1, WalkIsWalked DEF PrevHash
  <2>2. CASE i # 1
    <3>1. i - 1 \in 1..k /\ ~(i <= i - 1)
      BY <1>3, <2>2
    <3>2. Walk(rs)[i - 1] = rs[i - 1].hash
      BY <1>2, <3>1
    <3> QED BY <2>2, <3>2 DEF PrevHash
  <2> QED BY <2>1, <2>2
<1> QED BY <1>3, <1>4, <1>5

-----------------------------------------------------------------------------
(* Signed heads *)

\* A hash that may be signed for record k: the k-th of the table, and the
\* records up to it verify when they are read.
SignedHead(k, hash) ==
  /\ k \in 1..Len(chain) /\ k <= Page
  /\ hash = chain[k].hash
  /\ Exact(k)

\* A checkpoint of the program over such a head.
Reached(c) ==
  SignedHead(c.seq, c.hash) /\ c.pub = OurKey /\ VerifyCheckpoint(c, OurKey)

\* h is the hash of each prefix of the history, up to k.
Hashes(h, k) == h[0] = NoHash /\ \A i \in 1..k : h[i] = ComputeHash(i, history[i], h[i - 1])

\* The checkpointers' signature over the hash of a prefix of what was appended.
Genuine(sig) == \E k \in 1..Len(history) : \E h : Hashes(h, k) /\ sig = <<OurKey, k, h[k]>>

\* A signature with another key.
Foreign(sig) == \E k, hash : sig = <<OtherKey, k, hash>>

\* What a signature in the table can be.
Sound(sig) == sig \in late \/ Genuine(sig) \/ Foreign(sig)

\* A checkpoint with such a head verifies against the table.
LEMMA ReachedVerifies ==
  ASSUME ChainIsLinked, NEW c, Reached(c)
  PROVE  VerifyAgainstCheckpoint(ListAudit(Page), c, OurKey)
<1> DEFINE rs == ListAudit(Page)
           k == c.seq
<1>1. /\ Listed(chain) /\ Page \in Nat
      /\ DOMAIN rs = 1..Shown(Page) /\ Len(rs) = Shown(Page) /\ Shown(Page) \in Nat
  <2>1. Listed(chain) /\ Page \in Nat
    BY AuditAssumption DEF ChainIsLinked, Listed
  <2> QED BY <2>1, ListIsListed
<1>2. k \in 1..Shown(Page) /\ Exact(k) /\ c.hash = chain[k].hash /\ VerifyCheckpoint(c, OurKey)
  BY <1>1 DEF Reached, SignedHead, Shown, Listed
<1>3. \A i \in 1..k : /\ rs[i].seq = i
                      /\ rs[i].hash = ComputeHash(i, rs[i].amount, PrevHash(rs, i))
  <2> TAKE i \in 1..k
  <2>1. i \in 1..Shown(Page) /\ AsRead(history[i]) = history[i]
    BY <1>1, <1>2 DEF Exact
  <2> QED BY <1>1, <2>1, ListOfLinked
<1>4. Walk(rs)[k] = rs[k].hash
  <2> HIDE DEF rs, k
  <2> QED BY <1>1, <1>2, <1>3, WalkArrives
<1>5. rs[k].seq = k /\ rs[k].hash = c.hash
  BY <1>1, <1>2, ListOfLinked
<1> QED BY <1>1, <1>2, <1>4, <1>5 DEF VerifyAgainstCheckpoint

\* And its signature is over what was appended.
LEMMA ReachedIsGenuine ==
  ASSUME ChainIsLinked, NEW c, Reached(c)
  PROVE  Genuine(c.sig)
<1> DEFINE h == [i \in 0..Len(chain) |-> IF i = 0 THEN NoHash ELSE chain[i].hash]
           k == c.seq
<1>1. k \in 1..Len(history) /\ Len(history) = Len(chain) /\ Len(chain) \in Nat
      /\ c.sig = <<OurKey, k, chain[k].hash>>
  BY DEF Reached, SignedHead, VerifyCheckpoint, ChainIsLinked
<1>2. h[0] = NoHash /\ \A i \in 1..Len(chain) : h[i] = chain[i].hash
  BY <1>1
<1>3. ASSUME NEW i \in 1..k PROVE h[i] = ComputeHash(i, history[i], h[i - 1])
  <2>1. chain[i].hash = ComputeHash(i, history[i], PrevHash(chain, i))
    <3>1. chain[i] = Linked(i)
      BY <1>1, <1>3 DEF ChainIsLinked
    <3> QED BY <3>1 DEF Linked
  <2>2. PrevHash(chain, i) = h[i - 1]
    <3>1. CASE i = 1
      BY <1>2, <3>1 DEF PrevHash
    <3>2. CASE i # 1
      <4>1. i - 1 \in 1..Len(chain)
        BY <1>1, <3>2
      <4> QED BY <1>2, <3>2, <4>1 DEF PrevHash
    <3> QED BY <3>1, <3>2
  <2> QED BY <1>1, <1>2, <2>1, <2>2
<1> HIDE DEF h
<1> QED BY <1>1, <1>2, <1>3, SMTT(30) DEF Genuine, Hashes

\* The page a checkpointer has verified ends in a head it may sign.
LEMMA PageEndsInHead ==
  ASSUME ChainIsLinked, ListAudit(Page) # <<>>, VerifyChain(ListAudit(Page))
  PROVE  SignedHead(Last(ListAudit(Page)).seq, Last(ListAudit(Page)).hash)
<1> DEFINE rs == ListAudit(Page)
           k == Shown(Page)
<1>1. /\ Listed(chain) /\ Page \in Nat
      /\ DOMAIN rs = 1..k /\ Len(rs) = k /\ k \in 0..Page /\ k <= Len(chain)
      /\ Listed(rs)
  <2>1. Listed(chain) /\ Page \in Nat
    BY AuditAssumption DEF ChainIsLinked, Listed
  <2> QED BY <2>1, ListIsListed
<1>2. k \in 1..k /\ k \in 1..Len(chain) /\ k <= Page
  <2>1. Len(chain) \in Nat
    BY <1>1 DEF Listed
  <2>2. Len(rs) # 0
    <3> HIDE DEF rs
    <3> QED BY <1>1 DEF Listed, rs
  <2> QED BY <1>1, <2>1, <2>2
<1>3. Last(rs) = rs[k]
  BY <1>1 DEF Last
<1>4. rs[k].seq = k /\ rs[k].hash = chain[k].hash
  BY <1>1, <1>2, ListOfLinked
<1>5. Exact(k)
  BY <1>1, VerifiedListIsExact
<1> QED BY <1>2, <1>3, <1>4, <1>5 DEF SignedHead

\* An append leaves what was signed where it was.
LEMMA HeadStays ==
  ASSUME ChainIsLinked, NEW rec, NEW amount \in Amount,
         chain' = Append(chain, rec), history' = Append(history, amount),
         NEW k, NEW hash, SignedHead(k, hash)
  PROVE  SignedHead(k, hash)'
<1>1. PICK S : chain \in Seq(S)
  BY DEF ChainIsLinked
<1>2. k \in 1..Len(chain) /\ Len(history) = Len(chain) /\ history \in Seq(Amount)
  BY DEF SignedHead, ChainIsLinked
<1>3. k \in 1..Len(chain') /\ chain'[k] = chain[k]
  BY <1>1, <1>2
<1>4. \A i \in 1..k : history'[i] = history[i]
  BY <1>2
<1> QED BY <1>3, <1>4 DEF SignedHead, Exact

\* Nor does it take a signature's prefix from the history.
LEMMA GenuineStays ==
  ASSUME history \in Seq(Amount), NEW amount \in Amount, history' = Append(history, amount),
         NEW sig, Genuine(sig)
  PROVE  Genuine(sig)'
<1>1. PICK k \in 1..Len(history) : \E h : Hashes(h, k) /\ sig = <<OurKey, k, h[k]>>
  BY DEF Genuine
<1>2. PICK h : Hashes(h, k) /\ sig = <<OurKey, k, h[k]>>
  BY <1>1
<1>3. k \in 1..Len(history') /\ \A i \in 1..k : history'[i] = history[i]
  BY <1>1
<1>4. Hashes(h, k)'
  BY <1>2, <1>3 DEF Hashes
<1> QED BY <1>2, <1>3, <1>4 DEF Genuine

\* A signature stays sound when others are made and records appended.
LEMMA SoundStays ==
  ASSUME history \in Seq(Amount), NEW sig, Sound(sig), late \subseteq late',
         history' = history \/ \E amount \in Amount : history' = Append(history, amount)
  PROVE  Sound(sig)'
<1>1. CASE Genuine(sig)
  <2>1. CASE history' = history
    BY <1>1, <2>1 DEF Sound, Genuine, Hashes
  <2>2. CASE \E amount \in Amount : history' = Append(history, amount)
    BY <1>1, <2>2, GenuineStays DEF Sound
  <2> QED BY <2>1, <2>2
<1>2. CASE sig \in late \/ Foreign(sig)
  BY <1>2 DEF Sound, Foreign
<1> QED BY <1>1, <1>2 DEF Sound

\* The latest checkpoint is one of the table.
LEMMA LatestIsSaved ==
  ASSUME checkpoints # {}, \A c \in checkpoints : c.seq \in Nat /\ c.seq <= Page
  PROVE  LatestCheckpoint \in checkpoints
<1> DEFINE T == {Page - c.seq : c \in checkpoints}
<1>0. Page \in Nat
  BY AuditAssumption
<1>1. T \in SUBSET Nat /\ T # {}
  BY <1>0
<1>2. PICK m \in T : \A n \in T : m <= n
  <2> HIDE DEF T
  <2> QED BY <1>1, LeastNat
<1>3. PICK c \in checkpoints : m = Page - c.seq
  OBVIOUS
<1>4. \A d \in checkpoints : m <= Page - d.seq
  BY <1>2
<1> HIDE DEF T
<1>5. \A d \in checkpoints : d.seq <= c.seq
  BY <1>0, <1>3, <1>4
<1> QED BY <1>5 DEF LatestCheckpoint

\* What verifies against a genuine signature is, up to it, what was appended.
LEMMA VerifiedMatches ==
  ASSUME history \in Seq(Amount), NEW rs, Listed(rs), VerifyChain(rs),
         NEW c, VerifyAgainstCheckpoint(rs, c, OurKey), Genuine(c.sig)
  PROVE  /\ c.seq \in 1..Len(history) /\ c.seq \in 1..Len(rs)
         /\ \A i \in 1..c.seq : rs[i].amount = history[i]
<1>1. PICK k \in 1..Len(history) : \E h : Hashes(h, k) /\ c.sig = <<OurKey, k, h[k]>>
  BY DEF Genuine
<1>2. PICK h : Hashes(h, k) /\ c.sig = <<OurKey, k, h[k]>>
  BY <1>1
<1>3. k = c.seq /\ h[k] = c.hash
  <2>1. <<OurKey, k, h[k]>> = <<OurKey, c.seq, c.hash>>
    BY <1>2 DEF VerifyAgainstCheckpoint, VerifyCheckpoint
  <2> QED BY <2>1
<1>4. DOMAIN rs = 1..Len(rs) /\ Len(rs) \in Nat
  BY DEF Listed
<1>5. k \in 1..Len(rs) /\ Walk(rs)[k] = h[k]
  BY <1>3, <1>4 DEF VerifyAgainstCheckpoint, VerifyChain
<1> DEFINE w == Walk(rs)
           Bad == {j \in 0..(k - 1) : w[k - j] # h[k - j]}
<1>6. \A i \in 1..k : /\ w[i] = ComputeHash(i, rs[i].amount, w[i - 1])
                      /\ h[i] = ComputeHash(i, history[i], h[i - 1])
  <2> TAKE i \in 1..k
  <2>1. i \in 1..Len(rs) /\ rs[i].seq = i
    BY <1>4, <1>5 DEF VerifyChain
  <2> QED BY <1>2, <1>4, <2>1, WalkIsWalked DEF Hashes
<1> HIDE DEF w
<1>7. \A i \in 1..k : w[i] = h[i] => rs[i].amount = history[i] /\ w[i - 1] = h[i - 1]
  BY <1>6 DEF ComputeHash
<1>8. Bad = {}
  <2> SUFFICES ASSUME Bad # {} PROVE FALSE
    OBVIOUS
  <2>1. PICK j \in Bad : \A n \in Bad : j <= n
    <3>1. Bad \in SUBSET Nat
      BY <1>1
    <3> HIDE DEF Bad
    <3> QED BY <3>1, LeastNat
  <2>2. j \in 0..(k - 1) /\ w[k - j] # h[k - j]
    OBVIOUS
  <2>3. j # 0
    BY <1>1, <1>5, <2>2 DEF w
  <2>4. j - 1 \in 0..(k - 1) /\ ~(j <= j - 1) /\ k - (j - 1) \in 1..k /\ (k - (j - 1)) - 1 = k - j
    BY <1>1, <2>2, <2>3
  <2>5. w[k - (j - 1)] = h[k - (j - 1)]
    BY <2>1, <2>4
  <2> QED BY <1>7, <2>2, <2>4, <2>5
<1>9. ASSUME NEW i \in 1..k PROVE rs[i].amount = history[i]
  <2>1. k - i \in 0..(k - 1) /\ k - (k - i) = i
    BY <1>1
  <2>2. w[i] = h[i]
    <3>1. k - i \notin Bad
      <4> HIDE DEF Bad
      <4> QED BY <1>8
    <3> QED BY <3>1, <2>1
  <2> QED BY <1>7, <2>2
<1> QED BY <1>1, <1>3, <1>5, <1>9

-----------------------------------------------------------------------------
(* Checkpoints *)

SignTypes ==
  /\ history \in Seq(Amount)
  /\ Listed(chain)
  /\ cpc \in [Checkpointer -> {"idle", "verified", "sign"}]
  /\ DOMAIN head = Checkpointer
  /\ \A c \in Checkpointer : head[c].seq \in 0..Page
  /\ \A c \in checkpoints : c.seq \in 0..Page

\* In an untouched database, what is signed, and what is about to be, is reached.
HeadsAreReached ==
  tampers = 0 => /\ \A c \in checkpoints : Reached(c)
                 /\ \A c \in Checkpointer :
                      cpc[c] # "idle" => SignedHead(head[c].seq, head[c].hash)

\* A signature with the checkpointers' key is late, or over what was appended.
SigsAreSound == \A c \in checkpoints : Sound(c.sig)

SignInv == AuditInv /\ SignTypes /\ HeadsAreReached /\ SigsAreSound

\* Nothing is signed before anything is appended.
LEMMA SignInvInit == Init => SignInv
<1> SUFFICES ASSUME Init PROVE SignInv
  OBVIOUS
<1>1. AuditInv
  BY AuditInvInit
<1>2. chain \in Seq({}) /\ history \in Seq(Amount)
  BY DEF Init
<1>3. Page \in Nat
  BY AuditAssumption
<1> QED BY <1>1, <1>2, <1>3 DEF Init, SignInv, SignTypes, Listed, HeadsAreReached, SigsAreSound, NoTip

\* What a checkpointer has verified ends at the length of its page, whatever was
\* done to the table.
LEMMA PageEnds ==
  ASSUME Listed(chain), ListAudit(Page) # <<>>, VerifyChain(ListAudit(Page))
  PROVE  Last(ListAudit(Page)).seq \in 0..Page
<1> DEFINE rs == ListAudit(Page)
<1>1. /\ Page \in Nat /\ Listed(rs) /\ Len(rs) \in 0..Page /\ DOMAIN rs = 1..Len(rs)
  BY AuditAssumption, ListIsListed
<1>2. Len(rs) # 0
  <2> HIDE DEF rs
  <2> QED BY <1>1 DEF Listed, rs
<1>3. rs[Len(rs)].seq = Len(rs)
  BY <1>1, <1>2 DEF VerifyChain
<1> QED BY <1>1, <1>3 DEF Last

\* A round of a checkpointer signs only a head it has verified.
LEMMA RoundKeepsSigned ==
  ASSUME SignInv, AuditInv', NEW c \in Checkpointer, Checkpoint(c) \/ CheckpointFails(c)
  PROVE  SignInv'
<1>0. NoTip.seq \in 0..Page
  BY AuditAssumption DEF NoTip
<1>1. /\ SignTypes /\ HeadsAreReached /\ SigsAreSound /\ Page \in Nat
      /\ tampers = 0 => ChainIsLinked
  BY AuditAssumption DEF SignInv, AuditInv
<1>2. /\ UNCHANGED <<chain, history, tampers>> /\ late \subseteq late'
  BY DEF Checkpoint, CheckpointRead, CheckpointLatest, CheckpointSave, CheckpointFails, ghostVars
<1>3. \A k, hash : SignedHead(k, hash) <=> SignedHead(k, hash)'
  BY <1>2 DEF SignedHead, Exact
<1>4. \A sig : Sound(sig) => Sound(sig)'
  BY <1>1, <1>2, SoundStays DEF SignTypes
<1>5. CASE CheckpointRead(c)
  <2> DEFINE rs == ListAudit(Page)
  <2>1. /\ checkpoints' = checkpoints /\ rs # <<>> /\ VerifyChain(rs)
        /\ head' = [head EXCEPT ![c] = [seq |-> Last(rs).seq, hash |-> Last(rs).hash]]
        /\ cpc' = [cpc EXCEPT ![c] = "verified"]
    BY <1>5 DEF CheckpointRead
  <2>2. tampers = 0 => SignedHead(Last(rs).seq, Last(rs).hash)
    BY <1>1, <2>1, PageEndsInHead
  <2>3. Last(rs).seq \in 0..Page
    BY <1>1, <2>1, PageEnds DEF SignTypes
  <2> HIDE DEF rs
  <2>4. SignTypes'
    BY <1>1, <1>2, <2>1, <2>3 DEF SignTypes, Listed
  <2>5. HeadsAreReached'
    BY <1>1, <1>2, <1>3, <2>1, <2>2 DEF HeadsAreReached, SignTypes, Reached, VerifyCheckpoint
  <2>6. SigsAreSound'
    BY <1>1, <1>4, <2>1 DEF SigsAreSound
  <2> QED BY <2>4, <2>5, <2>6 DEF SignInv
<1>6. CASE CheckpointLatest(c)
  <2>1. /\ checkpoints' = checkpoints /\ cpc[c] = "verified"
        /\ \/ /\ cpc' = [cpc EXCEPT ![c] = "idle"]
              /\ head' = [head EXCEPT ![c] = NoTip]
           \/ cpc' = [cpc EXCEPT ![c] = "sign"] /\ head' = head
    BY <1>6 DEF CheckpointLatest, RoundEnds
  <2>2. SignTypes'
    BY <1>0, <1>1, <1>2, <2>1 DEF SignTypes, Listed
  <2>3. HeadsAreReached'
    BY <1>1, <1>2, <1>3, <2>1 DEF HeadsAreReached, SignTypes, Reached, VerifyCheckpoint
  <2>4. SigsAreSound'
    BY <1>1, <1>4, <2>1 DEF SigsAreSound
  <2> QED BY <2>2, <2>3, <2>4 DEF SignInv
<1>7. CASE CheckpointSave(c)
  <2>0. PICK new : new = Sign(OurKey, head[c].seq, head[c].hash)
    OBVIOUS
  <2>1. /\ cpc[c] = "sign"
        /\ checkpoints' \subseteq checkpoints \cup {new}
        /\ late' = IF tampers = 0 THEN late ELSE late \cup {new.sig}
        /\ cpc' = [cpc EXCEPT ![c] = "idle"]
        /\ head' = [head EXCEPT ![c] = NoTip]
    BY <1>7, <2>0 DEF CheckpointSave, SaveCheckpoint, RoundEnds
  <2>2. new.seq = head[c].seq /\ head[c].seq \in 0..Page
    BY <1>1, <2>0 DEF Sign, SignTypes
  <2>3. SignTypes'
    BY <1>1, <1>2, <1>0, <2>1, <2>2 DEF SignTypes, Listed
  <2>4. tampers = 0 => Reached(new)
    BY <1>1, <2>0, <2>1 DEF HeadsAreReached, Reached, Sign, VerifyCheckpoint
  <2>5. HeadsAreReached'
    BY <1>1, <1>2, <1>3, <2>1, <2>4 DEF HeadsAreReached, SignTypes, Reached, VerifyCheckpoint
  <2>6. Sound(new.sig)'
    <3>1. CASE tampers = 0
      BY <1>1, <1>4, <2>4, <3>1, ReachedIsGenuine DEF Sound
    <3>2. CASE tampers # 0
      BY <2>1, <3>2 DEF Sound
    <3> QED BY <3>1, <3>2
  <2>7. SigsAreSound'
    BY <1>1, <1>4, <2>1, <2>6 DEF SigsAreSound
  <2> QED BY <2>3, <2>5, <2>7 DEF SignInv
<1>8. CASE CheckpointFails(c)
  <2>1. /\ checkpoints' = checkpoints
        /\ cpc' = [cpc EXCEPT ![c] = "idle"]
        /\ head' = [head EXCEPT ![c] = NoTip]
    BY <1>8 DEF CheckpointFails, RoundEnds
  <2>2. SignTypes'
    BY <1>0, <1>1, <1>2, <2>1 DEF SignTypes, Listed
  <2>3. HeadsAreReached'
    BY <1>1, <1>2, <1>3, <2>1 DEF HeadsAreReached, SignTypes, Reached, VerifyCheckpoint
  <2>4. SigsAreSound'
    BY <1>1, <1>4, <2>1 DEF SigsAreSound
  <2> QED BY <2>2, <2>3, <2>4 DEF SignInv
<1> QED BY <1>5, <1>6, <1>7, <1>8 DEF Checkpoint

\* An append moves no signed head.
LEMMA InsertKeepsSigned ==
  ASSUME SignInv, AuditInv', NEW a \in Appender, Insert(a)
  PROVE  SignInv'
<1>1. /\ SignTypes /\ HeadsAreReached /\ SigsAreSound
      /\ tampers = 0 => ChainIsLinked
  BY DEF SignInv, AuditInv
<1>2. UNCHANGED <<checkpoints, cpc, head, late, tampers>>
  BY DEF Insert, ckVars
<1>3. CASE UNCHANGED <<chain, history>>
  <2>1. SignTypes' /\ HeadsAreReached'
    BY <1>1, <1>2, <1>3
       DEF SignTypes, Listed, HeadsAreReached, Reached, SignedHead, Exact, VerifyCheckpoint
  <2>2. SigsAreSound'
    BY <1>1, <1>2, <1>3, SoundStays DEF SigsAreSound, SignTypes
  <2> QED BY <2>1, <2>2 DEF SignInv
<1>4. ASSUME NEW amount \in Amount,
             chain' = Append(chain, NewRecord(a, amount)), history' = Append(history, amount)
      PROVE  SignInv'
  <2>1. PICK rec : rec = NewRecord(a, amount)
    OBVIOUS
  <2>2. chain' = Append(chain, rec)
    BY <1>4, <2>1
  <2>3. SignTypes'
    <3>1. PICK S : chain \in Seq(S)
      BY <1>1 DEF SignTypes, Listed
    <3>2. chain' \in Seq(S \cup {rec})
      BY <2>2, <3>1
    <3> QED BY <1>1, <1>2, <1>4, <3>2 DEF SignTypes, Listed
  <2>4. HeadsAreReached'
    <3>1. ASSUME tampers = 0, NEW k, NEW hash, SignedHead(k, hash) PROVE SignedHead(k, hash)'
      BY <1>1, <1>4, <2>2, <3>1, HeadStays
    <3> QED BY <1>1, <1>2, <3>1 DEF HeadsAreReached, Reached, VerifyCheckpoint
  <2>5. SigsAreSound'
    <3>1. \A sig : Sound(sig) => Sound(sig)'
      BY <1>1, <1>2, <1>4, SoundStays DEF SignTypes
    <3> QED BY <1>1, <1>2, <3>1 DEF SigsAreSound
  <2> QED BY <2>3, <2>4, <2>5 DEF SignInv
<1> QED BY <1>3, <1>4 DEF Insert

\* A changed table is still a sequence of records, and the history is not in it.
LEMMA TamperKeepsSigned ==
  ASSUME SignInv, AuditInv', Tamper
  PROVE  SignInv'
<1>1. /\ SignTypes /\ HeadsAreReached /\ SigsAreSound /\ tampers \in Nat
      /\ tampers = 0 => ChainIsLinked
  BY DEF SignInv, AuditInv, AppendType
<1>2. UNCHANGED <<cpc, head, history, late>> /\ tampers' = tampers + 1
  BY DEF Tamper, EditRecord, RemoveRecord, RebuildChain, EditCheckpoint, ResignCheckpoint,
         Tampered, ckVars
<1>3. PICK S : chain \in Seq(S)
  BY <1>1 DEF SignTypes, Listed
<1>4. Listed(chain')
  <2>1. CASE EditRecord
    <3>1. PICK i \in DOMAIN chain, n \in Amount : chain' = [chain EXCEPT ![i].amount = n]
      BY <2>1 DEF EditRecord
    <3>2. PICK rec : rec = [chain[i] EXCEPT !.amount = n]
      OBVIOUS
    <3>3. chain' = [chain EXCEPT ![i] = rec]
      BY <3>1, <3>2
    <3>4. chain' \in Seq(S \cup {rec})
      BY <1>3, <3>3
    <3> QED BY <3>4 DEF Listed
  <2>2. CASE RemoveRecord
    <3>1. PICK i \in DOMAIN chain : chain' = SubSeq(chain, 1, i - 1) \o SubSeq(chain, i + 1, Len(chain))
      BY <2>2 DEF RemoveRecord, RemoveAt
    <3>2. chain' \in Seq(S)
      BY <1>3, <3>1
    <3> QED BY <3>2 DEF Listed
  <2>3. CASE RebuildChain
    <3>1. PICK i \in DOMAIN chain, n \in Amount :
            chain' = Rebuilt([Amounts(chain) EXCEPT ![i] = n])
      BY <2>3 DEF RebuildChain
    <3>2. PICK as : as = [Amounts(chain) EXCEPT ![i] = n]
      OBVIOUS
    <3>3. DOMAIN as = 1..Len(chain) /\ Len(chain) \in Nat
      <4>1. DOMAIN Amounts(chain) = 1..Len(chain) /\ Len(chain) \in Nat
        BY <1>3 DEF Amounts
      <4> QED BY <3>2, <4>1
    <3>4. DOMAIN chain' = DOMAIN as /\ chain' = [j \in DOMAIN as |-> chain'[j]]
      BY <3>1, <3>2 DEF Rebuilt
    <3>5. chain' \in Seq({chain'[j] : j \in DOMAIN as})
      BY <3>3, <3>4
    <3> QED BY <3>5 DEF Listed
  <2>4. CASE EditCheckpoint \/ ResignCheckpoint
    BY <1>3, <2>4 DEF EditCheckpoint, ResignCheckpoint, Listed
  <2> QED BY <2>1, <2>2, <2>3, <2>4 DEF Tamper
<1>5. \A sig : Sound(sig) => Sound(sig)'
  BY <1>1, <1>2, SoundStays DEF SignTypes
<1>6. /\ \A d \in checkpoints' : d.seq \in 0..Page
      /\ SigsAreSound'
  <2>1. CASE EditRecord \/ RemoveRecord \/ RebuildChain
    <3>1. checkpoints' = checkpoints
      BY <2>1 DEF EditRecord, RemoveRecord, RebuildChain
    <3> QED BY <1>1, <1>5, <3>1 DEF SignTypes, SigsAreSound
  <2>2. CASE EditCheckpoint
    <3>1. PICK c \in checkpoints : \E hash :
            checkpoints' = (checkpoints \ {c}) \cup {[c EXCEPT !.hash = hash]}
      BY <2>2 DEF EditCheckpoint
    <3>2. PICK hash : checkpoints' = (checkpoints \ {c}) \cup {[c EXCEPT !.hash = hash]}
      BY <3>1
    <3>3. [c EXCEPT !.hash = hash].seq = c.seq /\ [c EXCEPT !.hash = hash].sig = c.sig
      OBVIOUS
    <3> QED BY <1>1, <1>5, <3>2, <3>3 DEF SignTypes, SigsAreSound
  <2>3. CASE ResignCheckpoint
    <3>1. PICK c \in checkpoints : \E hash :
            checkpoints' = (checkpoints \ {c}) \cup {Sign(OtherKey, c.seq, hash)}
      BY <2>3 DEF ResignCheckpoint
    <3>2. PICK hash : checkpoints' = (checkpoints \ {c}) \cup {Sign(OtherKey, c.seq, hash)}
      BY <3>1
    <3>3. /\ Sign(OtherKey, c.seq, hash).seq = c.seq
          /\ Sign(OtherKey, c.seq, hash).sig = <<OtherKey, c.seq, hash>>
      BY DEF Sign
    <3>4. Sound(Sign(OtherKey, c.seq, hash).sig)'
      BY <3>3 DEF Sound, Foreign
    <3> QED BY <1>1, <1>5, <3>2, <3>3, <3>4 DEF SignTypes, SigsAreSound
  <2> QED BY <2>1, <2>2, <2>3 DEF Tamper
<1>7. SignTypes'
  BY <1>1, <1>2, <1>4, <1>6 DEF SignTypes, Listed
<1>8. HeadsAreReached'
  BY <1>1, <1>2 DEF HeadsAreReached
<1> QED BY <1>6, <1>7, <1>8 DEF SignInv

\* Every step keeps the invariant.
LEMMA SignInvStep == SignInv /\ [Next]_vars => SignInv'
<1> SUFFICES ASSUME SignInv, [Next]_vars PROVE SignInv'
  OBVIOUS
<1>1. AuditInv'
  BY AuditInvStep DEF SignInv
<1>2. ASSUME UNCHANGED <<chain, checkpoints, cpc, head, history, late, tampers>> PROVE SignInv'
  <2>1. SignTypes' /\ HeadsAreReached'
    BY <1>2 DEF SignInv, SignTypes, Listed, HeadsAreReached, Reached, SignedHead, Exact,
                VerifyCheckpoint
  <2>2. SigsAreSound'
    BY <1>2, SoundStays DEF SignInv, SignTypes, SigsAreSound
  <2> QED BY <1>1, <2>1, <2>2 DEF SignInv
<1>3. ASSUME NEW a \in Appender, Lock(a) \/ ReadTip(a) \/ Rollback(a) PROVE SignInv'
  BY <1>2, <1>3 DEF Lock, ReadTip, Rollback, ckVars, ghostVars
<1>4. ASSUME NEW v, HandlerReads(v) \/ HandlerAnswers(v) \/ CtlReads(v) \/ CtlAnswers(v) PROVE SignInv'
  BY <1>2, <1>4 DEF HandlerReads, HandlerAnswers, CtlReads, CtlAnswers, ckVars, ghostVars
<1>5. CASE UNCHANGED vars
  BY <1>2, <1>5 DEF vars, ckVars, ghostVars
<1> QED
  BY <1>1, <1>3, <1>4, <1>5, RoundKeepsSigned, InsertKeepsSigned, TamperKeepsSigned
     DEF Next, AppendAudit

\* While nobody changes the tables, every checkpoint verifies against them, also
\* one signed from records read before others were appended, for any number of
\* replicas that append and sign.
THEOREM SignedStaysReached == Spec => []SignedIsReached
<1>1. SignInv => SignedIsReached
  BY ReachedVerifies DEF SignInv, AuditInv, HeadsAreReached, SignedIsReached
<1> QED BY <1>1, SignInvInit, SignInvStep, PTL DEF Spec

-----------------------------------------------------------------------------
(* Answers *)

AnswerTypes ==
  /\ vpc \in [Verifier -> {"start", "second", "done"}]
  /\ DOMAIN read = Verifier
  /\ DOMAIN answer = Verifier

\* A call works on a list, reconsyncctl on a checkpoint, which in an untouched
\* database is one of the program.
ReadsAreSound ==
  /\ \A v \in Handler : vpc[v] = "second" => Listed(read[v])
  /\ \A v \in Ctl : vpc[v] = "second" => Sound(read[v].sig)
  /\ tampers = 0 => \A v \in Ctl : vpc[v] = "second" => Reached(read[v])

\* The answer agrees with the history, which is at least as long.
Right(ans) ==
  ans.verdict = "verified" /\ ans.with = OurKey /\ ans.against.sig \notin late =>
    /\ ans.against.seq \in 1..Len(history)
    /\ SubSeq(ans.seen, 1, ans.against.seq) = SubSeq(history, 1, ans.against.seq)

AnswerInv == SignInv /\ AnswerTypes /\ ReadsAreSound /\ \A v \in Verifier : Right(answer[v])

\* Nobody has asked.
LEMMA AnswerInvInit == Init => AnswerInv
<1> SUFFICES ASSUME Init PROVE AnswerInv
  OBVIOUS
<1>1. SignInv
  BY SignInvInit
<1>2. AnswerTypes /\ ReadsAreSound
  BY DEF Init, AnswerTypes, ReadsAreSound, Verifier
<1>3. \A v \in Verifier : answer[v].verdict = "none"
  BY DEF Init, NoAnswer
<1> QED BY <1>1, <1>2, <1>3 DEF AnswerInv, Right

\* Sequences that agree on their first k elements have the same prefix.
LEMMA SamePrefix ==
  ASSUME NEW s, NEW t, NEW k \in Nat, \A i \in 1..k : s[i] = t[i]
  PROVE  SubSeq(s, 1, k) = SubSeq(t, 1, k)
<1> DEFINE S == {s[i] : i \in 1..k}
           p == SubSeq(s, 1, k)
           q == SubSeq(t, 1, k)
<1>1. \A i \in 1..k : s[i] \in S /\ t[i] \in S
  OBVIOUS
<1> HIDE DEF S
<1>2. p \in Seq(S) /\ Len(p) = k /\ \A i \in 1..k : p[i] = s[i]
  BY <1>1, SubSeqProperties
<1>3. q \in Seq(S) /\ Len(q) = k /\ \A i \in 1..k : q[i] = t[i]
  BY <1>1, SubSeqProperties
<1> HIDE DEF p, q
<1>4. p = q
  BY <1>2, <1>3, SeqEqual
<1> QED BY <1>4 DEF p, q

\* A verdict of "verified" with the published key is right.
LEMMA VerdictIsRight ==
  ASSUME SignInv, NEW rs, Listed(rs), NEW c, c # NoCheckpoint => Sound(c.sig), NEW pub
  PROVE  Right([verdict |-> Verdict(rs, c, pub), seen |-> Amounts(rs), against |-> c, with |-> pub])
<1> SUFFICES ASSUME Verdict(rs, c, pub) = "verified", pub = OurKey, c.sig \notin late
             PROVE  /\ c.seq \in 1..Len(history)
                    /\ SubSeq(Amounts(rs), 1, c.seq) = SubSeq(history, 1, c.seq)
  BY DEF Right
<1>1. VerifyChain(rs) /\ c # NoCheckpoint /\ VerifyAgainstCheckpoint(rs, c, OurKey)
  BY DEF Verdict
<1>2. Genuine(c.sig)
  <2>1. c.sig = <<OurKey, c.seq, c.hash>>
    BY <1>1 DEF VerifyAgainstCheckpoint, VerifyCheckpoint
  <2>2. ~Foreign(c.sig)
    BY <2>1 DEF Foreign, OurKey, OtherKey
  <2> QED BY <1>1, <2>2 DEF Sound
<1>3. history \in Seq(Amount)
  BY DEF SignInv, SignTypes
<1>4. /\ c.seq \in 1..Len(history) /\ c.seq \in 1..Len(rs)
      /\ \A i \in 1..c.seq : rs[i].amount = history[i]
  BY <1>1, <1>2, <1>3, VerifiedMatches
<1> DEFINE as == Amounts(rs)
           k == c.seq
<1>5. DOMAIN rs = 1..Len(rs) /\ Len(rs) \in Nat
  BY DEF Listed
<1>6. \A i \in 1..k : as[i] = history[i]
  <2> TAKE i \in 1..k
  <2>1. i \in DOMAIN rs
    BY <1>4, <1>5
  <2>2. as[i] = rs[i].amount
    BY <2>1 DEF Amounts
  <2> QED BY <1>4, <2>2
<1>7. k \in Nat
  BY <1>4
<1> HIDE DEF as, k
<1>8. SubSeq(as, 1, k) = SubSeq(history, 1, k)
  BY <1>6, <1>7, SamePrefix
<1> QED BY <1>4, <1>8 DEF as, k

\* The history is appended to, and late signatures stay late.
LEMMA OnlyGrows ==
  ASSUME [Next]_vars
  PROVE  /\ late \subseteq late'
         /\ history' = history \/ \E amount \in Amount : history' = Append(history, amount)
<1> QED
  BY DEF Next, vars, AppendAudit, Lock, ReadTip, Insert, Rollback, Checkpoint, CheckpointRead,
         CheckpointLatest, CheckpointSave, CheckpointFails, HandlerReads, HandlerAnswers,
         CtlReads, CtlAnswers, Tamper, EditRecord, RemoveRecord, RebuildChain, EditCheckpoint,
         ResignCheckpoint, Tampered, ghostVars

\* What is right stays so when records are appended and tables changed.
LEMMA RightStays ==
  ASSUME SignInv, [Next]_vars, NEW ans, Right(ans)
  PROVE  Right(ans)'
<1>1. history \in Seq(Amount)
  BY DEF SignInv, SignTypes
<1>2. PICK k, seen, with, sig, verdict :
        k = ans.against.seq /\ seen = ans.seen /\ with = ans.with /\ sig = ans.against.sig
        /\ verdict = ans.verdict
  OBVIOUS
<1> SUFFICES ASSUME verdict = "verified", with = OurKey, sig \notin late'
             PROVE  k \in 1..Len(history') /\ SubSeq(seen, 1, k) = SubSeq(history', 1, k)
  BY <1>2 DEF Right
<1>3. k \in 1..Len(history) /\ SubSeq(seen, 1, k) = SubSeq(history, 1, k)
  BY <1>2, OnlyGrows DEF Right
<1>4. CASE history' = history
  BY <1>3, <1>4
<1>5. ASSUME NEW amount \in Amount, history' = Append(history, amount)
      PROVE  k \in 1..Len(history') /\ SubSeq(seen, 1, k) = SubSeq(history', 1, k)
  <2>1. k \in Nat /\ k \in 1..Len(history') /\ \A i \in 1..k : history'[i] = history[i]
    BY <1>1, <1>3, <1>5
  <2>2. SubSeq(history', 1, k) = SubSeq(history, 1, k)
    BY <2>1, SamePrefix
  <2> QED BY <1>3, <2>1, <2>2
<1> QED BY <1>4, <1>5, OnlyGrows

\* What a call has in its hand stays sound while others append.
LEMMA ReachedStays ==
  ASSUME SignInv, [Next]_vars, tampers' = 0, NEW c, Reached(c)
  PROVE  Reached(c)'
<1>1. /\ history \in Seq(Amount) /\ tampers \in Nat
      /\ tampers = 0 => ChainIsLinked
  BY DEF SignInv, SignTypes, AuditInv, AppendType
<1>2. \/ UNCHANGED <<chain, history, tampers>>
      \/ \E rec : \E amount \in Amount :
           /\ chain' = Append(chain, rec) /\ history' = Append(history, amount)
           /\ tampers' = tampers
      \/ tampers' = tampers + 1
  BY DEF Next, vars, AppendAudit, Lock, ReadTip, Insert, Rollback, Checkpoint, CheckpointRead,
         CheckpointLatest, CheckpointSave, CheckpointFails, HandlerReads, HandlerAnswers,
         CtlReads, CtlAnswers, Tamper, EditRecord, RemoveRecord, RebuildChain, EditCheckpoint,
         ResignCheckpoint, Tampered, ghostVars
<1>3. CASE UNCHANGED <<chain, history, tampers>>
  BY <1>3 DEF Reached, SignedHead, Exact, VerifyCheckpoint
<1>4. ASSUME NEW rec, NEW amount \in Amount, chain' = Append(chain, rec),
             history' = Append(history, amount), tampers' = tampers
      PROVE  Reached(c)'
  <2>1. ChainIsLinked /\ SignedHead(c.seq, c.hash)
    BY <1>1, <1>4 DEF Reached
  <2>2. PICK k, hash : k = c.seq /\ hash = c.hash
    OBVIOUS
  <2>3. SignedHead(k, hash)
    BY <2>1, <2>2
  <2>4. SignedHead(k, hash)'
    BY <1>4, <2>1, <2>3, HeadStays
  <2> QED BY <2>2, <2>4 DEF Reached, VerifyCheckpoint
<1> QED BY <1>1, <1>2, <1>3, <1>4

\* Answers that are given stay right.
LEMMA AnswersStay ==
  ASSUME AnswerInv, [Next]_vars, NEW v \in Verifier, answer'[v] = answer[v]
  PROVE  Right(answer[v])'
<1>1. PICK ans : ans = answer[v]
  OBVIOUS
<1>2. SignInv /\ Right(ans)
  BY <1>1 DEF AnswerInv
<1>3. Right(ans)'
  BY <1>2, RightStays
<1> QED BY <1>1, <1>3 DEF Right

\* And so is the one being given.
LEMMA AnswersConclude ==
  ASSUME AnswerInv, [Next]_vars, NEW v \in Verifier, NEW rs, Listed(rs), NEW c,
         c # NoCheckpoint => Sound(c.sig), NEW pub,
         Conclude(v, rs, c, pub), UNCHANGED <<history, late>>
  PROVE  \A u \in Verifier : Right(answer[u])'
<1>1. PICK ans : ans = [verdict |-> Verdict(rs, c, pub), seen |-> Amounts(rs),
                        against |-> c, with |-> pub]
  OBVIOUS
<1>2. answer' = [answer EXCEPT ![v] = ans] /\ DOMAIN answer = Verifier
  BY <1>1 DEF Conclude, AnswerInv, AnswerTypes
<1>3. Right(ans)
  BY <1>1, VerdictIsRight DEF AnswerInv
<1>4. Right(ans)'
  BY <1>3 DEF Right
<1>5. TAKE u \in Verifier
<1>6. CASE u = v
  BY <1>2, <1>4, <1>6 DEF Right
<1>7. CASE u # v
  BY <1>2, <1>7, AnswersStay
<1> QED BY <1>6, <1>7

\* Every read and every answer keeps the invariant.
LEMMA AnswerInvStep == AnswerInv /\ [Next]_vars => AnswerInv'
<1> SUFFICES ASSUME AnswerInv, [Next]_vars PROVE AnswerInv'
  OBVIOUS
<1>1. SignInv /\ SignInv' /\ AnswerTypes /\ ReadsAreSound
  BY SignInvStep DEF AnswerInv
<1>2. /\ \A c : Reached(c) /\ tampers' = 0 => Reached(c)'
      /\ \A sig : Sound(sig) => Sound(sig)'
  BY <1>1, ReachedStays, SoundStays, OnlyGrows DEF SignInv, SignTypes
<1>3. ASSUME UNCHANGED verVars, tampers' = 0 => tampers = 0 PROVE AnswerInv'
  <2>1. AnswerTypes'
    BY <1>1, <1>3 DEF AnswerTypes, verVars
  <2>2. ReadsAreSound'
    <3>1. ASSUME tampers' = 0, NEW v \in Ctl, vpc'[v] = "second" PROVE Reached(read[v])'
      <4>1. PICK c : c = read[v] /\ read'[v] = c
        BY <1>3 DEF verVars
      <4>2. Reached(c)
        BY <1>1, <1>3, <3>1, <4>1 DEF ReadsAreSound, verVars
      <4>3. Reached(c)'
        BY <1>2, <3>1, <4>2
      <4> QED BY <4>1, <4>3 DEF Reached, SignedHead, Exact, VerifyCheckpoint
    <3>2. ASSUME NEW v \in Ctl, vpc'[v] = "second" PROVE Sound(read[v].sig)'
      <4>1. PICK sig : sig = read[v].sig /\ read'[v].sig = sig
        BY <1>3 DEF verVars
      <4>2. Sound(sig)'
        BY <1>1, <1>2, <1>3, <3>2, <4>1 DEF ReadsAreSound, verVars
      <4> QED BY <4>1, <4>2 DEF Sound, Genuine, Foreign
    <3> QED BY <1>1, <1>3, <3>1, <3>2 DEF ReadsAreSound, verVars, Listed
  <2>3. \A v \in Verifier : Right(answer[v])'
    BY <1>3, AnswersStay DEF verVars
  <2> QED BY <1>1, <2>1, <2>2, <2>3 DEF AnswerInv
<1>4. \A v \in Handler : v \in Verifier /\ v \notin Ctl
  BY AuditAssumption DEF Verifier
<1>5. \A v \in Ctl : v \in Verifier /\ v \notin Handler
  BY AuditAssumption DEF Verifier
<1>6. Listed(chain) /\ Limit \in Nat /\ Page \in Nat
  BY <1>1, AuditAssumption DEF SignInv, SignTypes
<1>7. checkpoints # {} =>
        Sound(LatestCheckpoint.sig) /\ (tampers = 0 => Reached(LatestCheckpoint))
  <2> SUFFICES ASSUME checkpoints # {} PROVE Sound(LatestCheckpoint.sig)
                                             /\ (tampers = 0 => Reached(LatestCheckpoint))
    OBVIOUS
  <2>1. \A c \in checkpoints : c.seq \in Nat /\ c.seq <= Page
    BY <1>1, <1>6 DEF SignInv, SignTypes
  <2> QED BY <1>1, <2>1, LatestIsSaved DEF SignInv, SigsAreSound, HeadsAreReached
<1>9. ASSUME NEW v \in Handler, HandlerReads(v) PROVE AnswerInv'
  <2>1. PICK rs : rs = ListAudit(Limit)
    OBVIOUS
  <2>2. Listed(rs)
    BY <1>6, <2>1, ListIsListed
  <2>3. /\ read' = [read EXCEPT ![v] = rs] /\ vpc' = [vpc EXCEPT ![v] = "second"]
        /\ UNCHANGED <<chain, history, tampers, answer>>
    BY <1>9, <2>1 DEF HandlerReads, ghostVars
  <2>4. AnswerTypes'
    BY <1>1, <2>3 DEF AnswerTypes
  <2>5. ReadsAreSound'
    BY <1>1, <1>2, <1>4, <1>5, <2>2, <2>3 DEF ReadsAreSound, AnswerTypes, Listed
  <2>6. \A u \in Verifier : Right(answer[u])'
    BY <2>3, AnswersStay
  <2> QED BY <1>1, <2>4, <2>5, <2>6 DEF AnswerInv
<1>10. ASSUME NEW v \in Ctl, CtlReads(v) PROVE AnswerInv'
  <2>1. PICK c : c = LatestCheckpoint
    OBVIOUS
  <2>2. Sound(c.sig) /\ (tampers = 0 => Reached(c))
    BY <1>7, <1>10, <2>1 DEF CtlReads
  <2>3. /\ read' = [read EXCEPT ![v] = c] /\ vpc' = [vpc EXCEPT ![v] = "second"]
        /\ UNCHANGED <<chain, history, tampers, answer>>
    BY <1>10, <2>1 DEF CtlReads, ghostVars
  <2>4. AnswerTypes'
    BY <1>1, <2>3 DEF AnswerTypes
  <2>5. ReadsAreSound'
    BY <1>1, <1>2, <1>4, <1>5, <2>2, <2>3 DEF ReadsAreSound, AnswerTypes, Listed
  <2>6. \A u \in Verifier : Right(answer[u])'
    BY <2>3, AnswersStay
  <2> QED BY <1>1, <2>4, <2>5, <2>6 DEF AnswerInv
<1>11. ASSUME NEW v \in Verifier, vpc[v] = "second", NEW rs, Listed(rs), NEW c,
              c # NoCheckpoint => Sound(c.sig), NEW pub,
              Conclude(v, rs, c, pub), read' = [read EXCEPT ![v] = <<>>],
              UNCHANGED <<chain, history, late, tampers>>
       PROVE  AnswerInv'
  <2>1. vpc' = [vpc EXCEPT ![v] = "done"] /\ DOMAIN answer' = DOMAIN answer
    BY <1>11 DEF Conclude
  <2>2. AnswerTypes'
    BY <1>1, <1>11, <2>1 DEF AnswerTypes
  <2>3. ReadsAreSound'
    BY <1>1, <1>2, <1>4, <1>5, <1>11, <2>1 DEF ReadsAreSound, AnswerTypes, Listed
  <2>4. \A u \in Verifier : Right(answer[u])'
    BY <1>11, AnswersConclude
  <2> QED BY <1>1, <2>2, <2>3, <2>4 DEF AnswerInv
<1>12. ASSUME NEW v \in Handler, HandlerAnswers(v) PROVE AnswerInv'
  <2>1. PICK rs, c : rs = read[v] /\ c = LatestCheckpoint
    OBVIOUS
  <2>2. vpc[v] = "second" /\ Listed(rs)
    BY <1>1, <1>12, <2>1 DEF HandlerAnswers, ReadsAreSound
  <2>3. c # NoCheckpoint => Sound(c.sig)
    BY <1>7, <2>1 DEF LatestCheckpoint
  <2>4. /\ Conclude(v, rs, c, c.pub) /\ read' = [read EXCEPT ![v] = <<>>]
        /\ UNCHANGED <<chain, history, late, tampers>>
    BY <1>12, <2>1 DEF HandlerAnswers, ghostVars
  <2> QED BY <1>4, <1>11, <2>2, <2>3, <2>4
<1>13. ASSUME NEW v \in Ctl, CtlAnswers(v) PROVE AnswerInv'
  <2>1. PICK rs, c : rs = ListAudit(Page) /\ c = read[v]
    OBVIOUS
  <2>2. vpc[v] = "second" /\ Listed(rs)
    BY <1>6, <1>13, <2>1, ListIsListed DEF CtlAnswers
  <2>3. Sound(c.sig)
    BY <1>1, <2>1, <2>2 DEF ReadsAreSound
  <2>4. /\ \E pub : Conclude(v, rs, c, pub)
        /\ read' = [read EXCEPT ![v] = <<>>]
        /\ UNCHANGED <<chain, history, late, tampers>>
    BY <1>13, <2>1 DEF CtlAnswers, ghostVars
  <2> QED BY <1>5, <1>11, <2>2, <2>3, <2>4
<1>14. ASSUME NEW a \in Appender, AppendAudit(a) PROVE AnswerInv'
  BY <1>3, <1>14 DEF AppendAudit, Lock, ReadTip, Insert, Rollback, ghostVars
<1>15. ASSUME NEW c \in Checkpointer, Checkpoint(c) \/ CheckpointFails(c) PROVE AnswerInv'
  BY <1>3, <1>15 DEF Checkpoint, CheckpointRead, CheckpointLatest, CheckpointSave,
                     CheckpointFails, ghostVars
<1>16. CASE Tamper
  <2>1. UNCHANGED verVars /\ tampers' = tampers + 1
    BY <1>16 DEF Tamper, EditRecord, RemoveRecord, RebuildChain, EditCheckpoint, ResignCheckpoint,
           Tampered
  <2>2. tampers \in Nat
    BY <1>1 DEF SignInv, AuditInv, AppendType
  <2> QED BY <1>3, <2>1, <2>2
<1>17. CASE UNCHANGED vars
  BY <1>3, <1>17 DEF vars, ghostVars
<1> QED
  BY <1>9, <1>10, <1>12, <1>13, <1>14, <1>15, <1>16, <1>17 DEF Next

\* A chain that verifies with the published key is, up to what was signed, what was
\* appended, unless the checkpointers signed it after the tables were changed:
\* however it was edited, cut or rebuilt, whatever was done to the stored
\* checkpoints and whoever signed them anew, no call of the endpoint and no run of
\* reconsyncctl that used this key says otherwise.
THEOREM VerifiedIsAppended == Spec => []VerifiedIsHistory
<1>1. AnswerInv => VerifiedIsHistory
  BY DEF AnswerInv, Right, VerifiedIsHistory
<1> QED BY <1>1, AnswerInvInit, AnswerInvStep, PTL DEF Spec

\* An answer of "broken" by reconsyncctl needs a change, or an amount that does not
\* survive a float64.
LEMMA CtlAccusesForCause ==
  ASSUME AnswerInv, CtlNeverAccuses, [Next]_vars
  PROVE  CtlNeverAccuses'
<1>1. /\ SignInv /\ AnswerTypes /\ ReadsAreSound /\ tampers \in Nat
      /\ tampers = 0 => ChainIsLinked
  BY DEF AnswerInv, SignInv, AuditInv, AppendType
<1>2. tampers' = tampers \/ tampers' = tampers + 1
  BY DEF Next, vars, AppendAudit, Lock, ReadTip, Insert, Rollback, Checkpoint, CheckpointRead,
         CheckpointLatest, CheckpointSave, CheckpointFails, HandlerReads, HandlerAnswers,
         CtlReads, CtlAnswers, Tamper, EditRecord, RemoveRecord, RebuildChain, EditCheckpoint,
         ResignCheckpoint, Tampered, ghostVars
<1>0. Survives' => Survives
  <2>1. history \in Seq(Amount)
    BY <1>1 DEF SignInv, SignTypes
  <2> QED BY <2>1, OnlyGrows DEF Survives
<1> SUFFICES ASSUME NEW v \in Ctl, answer'[v].verdict = "broken", tampers' = 0, Survives'
             PROVE  FALSE
  BY <1>1, <1>2 DEF CtlNeverAccuses
<1>3. tampers = 0 /\ ChainIsLinked
  BY <1>1, <1>2
<1>4. v \in Verifier /\ v \notin Handler
  BY AuditAssumption DEF Verifier
<1>5. answer'[v] # answer[v]
  BY <1>0, <1>3 DEF CtlNeverAccuses
<1>6. CtlAnswers(v)
  <2>1. ASSUME NEW u \in Handler, HandlerAnswers(u) PROVE FALSE
    BY <1>1, <1>4, <1>5, <2>1 DEF HandlerAnswers, Conclude, AnswerTypes, Verifier
  <2>2. ASSUME NEW u \in Ctl, CtlAnswers(u) PROVE u = v
    BY <1>1, <1>4, <1>5, <2>2 DEF CtlAnswers, Conclude, AnswerTypes, Verifier
  <2>3. answer' = answer \/ (\E u \in Handler : HandlerAnswers(u)) \/ (\E u \in Ctl : CtlAnswers(u))
    BY DEF Next, vars, AppendAudit, Lock, ReadTip, Insert, Rollback, Checkpoint, CheckpointRead,
           CheckpointLatest, CheckpointSave, CheckpointFails, HandlerReads,
           CtlReads, Tamper, EditRecord, RemoveRecord, RebuildChain, EditCheckpoint,
           ResignCheckpoint, Tampered, verVars
  <2> QED BY <1>5, <2>1, <2>2, <2>3
<1>7. PICK rs, c : rs = ListAudit(Page) /\ c = read[v]
  OBVIOUS
<1>8. PICK pub \in {OurKey, c.pub} :
        vpc[v] = "second" /\ answer'[v].verdict = Verdict(rs, c, pub)
  BY <1>1, <1>4, <1>6, <1>7 DEF CtlAnswers, Conclude, AnswerTypes
<1>9. Reached(c)
  BY <1>1, <1>3, <1>7, <1>8 DEF ReadsAreSound
<1>10. VerifyAgainstCheckpoint(rs, c, pub)
  BY <1>3, <1>7, <1>8, <1>9, ReachedVerifies DEF Reached
<1>11. VerifyChain(rs)
  <2>1. history \in Seq(Amount) /\ Len(history) = Len(chain) /\ Page \in Nat /\ Listed(chain)
    BY <1>3, AuditAssumption DEF ChainIsLinked, Listed
  <2>2. Shown(Page) \in 0..Len(history)
    BY <2>1, ListIsListed
  <2>3. Exact(Shown(Page))
    BY <1>0, <2>1, <2>2 DEF Exact, Survives
  <2> QED BY <1>3, <1>7, <2>1, <2>3, ExactListVerifies
<1> QED BY <1>8, <1>10, <1>11 DEF Verdict

\* What a verification answers is so: "verified" with the published key means
\* unchanged up to what was signed, and the command's "broken" means changed, or an
\* amount that does not survive.
THEOREM AnswersHold == Spec => []AnswersAreRight
<1>1. Init => AnswerInv /\ CtlNeverAccuses
  BY AnswerInvInit DEF Init, CtlNeverAccuses, NoAnswer, Verifier
<1>2. AnswerInv /\ CtlNeverAccuses /\ [Next]_vars => (AnswerInv /\ CtlNeverAccuses)'
  BY AnswerInvStep, CtlAccusesForCause
<1>3. AnswerInv /\ CtlNeverAccuses => AnswersAreRight
  BY DEF AnswerInv, Right, VerifiedIsHistory, AnswersAreRight
<1> QED BY <1>1, <1>2, <1>3, PTL DEF Spec
=============================================================================
