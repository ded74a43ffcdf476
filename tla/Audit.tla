------------------------------- MODULE Audit -------------------------------
(***************************************************************************)
(* The audit chain of one tenant (internal/audit, the audit tables of      *)
(* internal/store), the checkpointers that sign its head                   *)
(* (internal/service/checkpointer.go) and the two ways to verify it: the   *)
(* handler of the API and reconsyncctl.  Appends take an advisory lock per *)
(* tenant, so the chains of different tenants do not meet.                 *)
(*                                                                         *)
(* A record is its sequence number, the amount its payload carries, the    *)
(* hash before it and its own.  Hashes and signatures are taken to be      *)
(* injective: a hash is the tuple of what was hashed, a signature the      *)
(* tuple of the key and of what was signed.  Anybody may sign with a key   *)
(* of their own, nobody else with the checkpointers'.                      *)
(***************************************************************************)
EXTENDS Integers, Sequences, FiniteSets, SequencesExt

CONSTANTS
  Appender,      \* transactions that append: sweeps of several replicas
  Checkpointer,  \* one per replica
  Handler,       \* calls of the verify endpoint
  Ctl,           \* runs of reconsyncctl checkpoints verify
  Amount,        \* amounts of verdicts
  MaxExact,      \* 2^53: the integers a float64 holds exactly
  Page,          \* ListAudit's limit when none is given
  Limit,         \* the limit the verify endpoint passes
  MaxRecords,    \* the last seq
  MaxTampers     \* changes to the tables behind the program's back

ASSUME AuditAssumption ==
  /\ Amount \subseteq Nat
  /\ MaxExact \in Nat \ {0}
  /\ Page \in Nat \ {0}
  /\ Limit \in Nat \ {0}
  /\ MaxRecords \in Nat
  /\ MaxTampers \in Nat
  /\ Handler \cap Ctl = {}
  /\ "free" \notin Appender

VARIABLES
  chain,        \* audit_records, by seq
  checkpoints,  \* audit_checkpoints
  lock,         \* holder of the advisory lock, or Free
  apc,          \* [Appender -> where the transaction is]
  tip,          \* [Appender -> the tip it read]
  cpc,          \* [Checkpointer -> where the round is]
  head,         \* [Checkpointer -> the head it verified]
  vpc,          \* [Handler \cup Ctl -> where the call is]
  read,         \* [Handler -> the records it read, Ctl -> the checkpoint]
  answer,       \* [Handler \cup Ctl -> the last answer]
  history,      \* the amounts appended, in order
  late,         \* signatures the checkpointers made after the first change
  tampers       \* changes so far

appVars == <<lock, apc, tip>>
ckVars == <<cpc, head>>
verVars == <<vpc, read, answer>>
ghostVars == <<history, late, tampers>>
vars == <<chain, checkpoints, appVars, ckVars, verVars, ghostVars>>

Verifier == Handler \cup Ctl

NoHash == <<>>
Free == "free"
NoTip == [seq |-> 0, hash |-> NoHash]

\* The checkpointers' key, which is published, and a key of somebody else.
OurKey == "ours"
OtherKey == "other"
NoKey == "none"

NoCheckpoint == [seq |-> 0, hash |-> NoHash, pub |-> NoKey, sig |-> <<>>]
NoAnswer == [verdict |-> "none", seen |-> <<>>, against |-> NoCheckpoint, with |-> NoKey]

-----------------------------------------------------------------------------
(* internal/audit.                                                         *)

\* An amount is marshalled as an integer and read back into map[string]any, a
\* float64: above MaxExact the nearest even number, ties to a multiple of four.
AsRead(n) ==
  IF n <= MaxExact \/ n % 2 = 0 THEN n
  ELSE IF (n + 1) % 4 = 0 THEN n + 1 ELSE n - 1

ComputeHash(seq, amount, prev) == <<seq, amount, prev>>

PrevHash(rs, i) == IF i = 1 THEN NoHash ELSE rs[i - 1].hash

VerifyChain(rs) ==
  \A i \in DOMAIN rs :
    /\ rs[i].seq = i
    /\ rs[i].prev = PrevHash(rs, i)
    /\ rs[i].hash = ComputeHash(rs[i].seq, rs[i].amount, PrevHash(rs, i))

Sign(key, seq, hash) == [seq |-> seq, hash |-> hash, pub |-> key, sig |-> <<key, seq, hash>>]

\* A bug's form of VerifyCheckpoint: the key in the row is used, whichever was asked for.
VerifyWithItsOwn(c, pub) == c.sig = <<c.pub, c.seq, c.hash>>

VerifyCheckpoint(c, pub) == c.sig = <<pub, c.seq, c.hash>>

\* The hash the walk arrives at, from the content alone.
Walk(rs) ==
  LET at[i \in 0..Len(rs)] ==
        IF i = 0 THEN NoHash ELSE ComputeHash(rs[i].seq, rs[i].amount, at[i - 1])
  IN  at

\* A bug's form of VerifyAgainstCheckpoint: the stored hash is believed.
BelieveCheckpoint(rs, c, pub) ==
  \E i \in DOMAIN rs : rs[i].seq = c.seq /\ rs[i].hash = c.hash

VerifyAgainstCheckpoint(rs, c, pub) ==
  /\ VerifyCheckpoint(c, pub)
  /\ \E i \in DOMAIN rs : rs[i].seq = c.seq /\ Walk(rs)[i] = c.hash

-----------------------------------------------------------------------------
(* The store.                                                              *)

ListAudit(limit) ==
  [i \in 1..(IF Len(chain) < limit THEN Len(chain) ELSE limit) |->
     [chain[i] EXCEPT !.amount = AsRead(@)]]

LatestCheckpoint ==
  IF checkpoints = {} THEN NoCheckpoint
  ELSE CHOOSE c \in checkpoints : \A d \in checkpoints : d.seq <= c.seq

\* ON CONFLICT DO NOTHING.
SaveCheckpoint(c) ==
  checkpoints' = IF \E d \in checkpoints : d.seq = c.seq THEN checkpoints
                 ELSE checkpoints \cup {c}

ChainTip == IF chain = <<>> THEN NoTip ELSE [seq |-> Last(chain).seq, hash |-> Last(chain).hash]

-----------------------------------------------------------------------------
(* AppendAudit, a transaction.                                             *)

\* A bug's form of Lock: the advisory lock is not taken.
LockNot(a) ==
  /\ apc[a] = "begin"
  /\ ChainTip.seq < MaxRecords
  /\ lock' = a
  /\ apc' = [apc EXCEPT ![a] = "locked"]
  /\ UNCHANGED <<chain, checkpoints, tip, ckVars, verVars, ghostVars>>

\* pg_advisory_xact_lock.
Lock(a) ==
  /\ apc[a] = "begin"
  /\ ChainTip.seq < MaxRecords
  /\ lock = Free
  /\ lock' = a
  /\ apc' = [apc EXCEPT ![a] = "locked"]
  /\ UNCHANGED <<chain, checkpoints, tip, ckVars, verVars, ghostVars>>

ReadTip(a) ==
  /\ apc[a] = "locked"
  /\ tip' = [tip EXCEPT ![a] = ChainTip]
  /\ apc' = [apc EXCEPT ![a] = "insert"]
  /\ UNCHANGED <<chain, checkpoints, lock, ckVars, verVars, ghostVars>>

Release(a) ==
  /\ lock' = IF lock = a THEN Free ELSE lock
  /\ apc' = [apc EXCEPT ![a] = "begin"]
  /\ tip' = [tip EXCEPT ![a] = NoTip]

\* A bug's form of NewRecord: it is hashed before it has its number.
NewRecordEarly(a, amount) ==
  [seq |-> tip[a].seq + 1, amount |-> amount, prev |-> tip[a].hash,
   hash |-> ComputeHash(tip[a].seq, amount, tip[a].hash)]

NewRecord(a, amount) ==
  [seq |-> tip[a].seq + 1, amount |-> amount, prev |-> tip[a].hash,
   hash |-> ComputeHash(tip[a].seq + 1, amount, tip[a].hash)]

\* The unique key on (tenant_id, seq) refuses a seq that is taken.
Refused(a) == \E i \in DOMAIN chain : chain[i].seq = tip[a].seq + 1

\* INSERT and commit, which releases the lock.
Insert(a) ==
  /\ apc[a] = "insert"
  /\ IF Refused(a) THEN UNCHANGED <<chain, history>>
     ELSE \E amount \in Amount :
            /\ chain' = Append(chain, NewRecord(a, amount))
            /\ history' = Append(history, amount)
  /\ Release(a)
  /\ UNCHANGED <<checkpoints, ckVars, verVars, late, tampers>>

\* An error or the end of the process: the record is lost, the caller goes on.
Rollback(a) ==
  /\ apc[a] # "begin"
  /\ Release(a)
  /\ UNCHANGED <<chain, checkpoints, ckVars, verVars, ghostVars>>

-----------------------------------------------------------------------------
(* checkpointTenant.                                                       *)

RoundEnds(c) ==
  /\ cpc' = [cpc EXCEPT ![c] = "idle"]
  /\ head' = [head EXCEPT ![c] = NoTip]

\* A bug's form of CheckpointRead: the hash of the last row is signed, whatever
\* page was verified.
CheckpointReadTip(c) ==
  LET rs == ListAudit(Page) IN
  /\ cpc[c] = "idle"
  /\ rs # <<>>
  /\ VerifyChain(rs)
  /\ head' = [head EXCEPT ![c] = [seq |-> Last(rs).seq, hash |-> ChainTip.hash]]
  /\ cpc' = [cpc EXCEPT ![c] = "verified"]
  /\ UNCHANGED <<chain, checkpoints, appVars, verVars, ghostVars>>

\* ListAudit and VerifyChain: a broken chain is not signed.
CheckpointRead(c) ==
  LET rs == ListAudit(Page) IN
  /\ cpc[c] = "idle"
  /\ rs # <<>>
  /\ VerifyChain(rs)
  /\ head' = [head EXCEPT ![c] = [seq |-> Last(rs).seq, hash |-> Last(rs).hash]]
  /\ cpc' = [cpc EXCEPT ![c] = "verified"]
  /\ UNCHANGED <<chain, checkpoints, appVars, verVars, ghostVars>>

\* Nothing new to sign, or sign it.
CheckpointLatest(c) ==
  /\ cpc[c] = "verified"
  /\ IF LatestCheckpoint.seq >= head[c].seq THEN RoundEnds(c)
     ELSE cpc' = [cpc EXCEPT ![c] = "sign"] /\ UNCHANGED head
  /\ UNCHANGED <<chain, checkpoints, appVars, verVars, ghostVars>>

CheckpointSave(c) ==
  /\ cpc[c] = "sign"
  /\ LET signed == Sign(OurKey, head[c].seq, head[c].hash) IN
     /\ SaveCheckpoint(signed)
     /\ late' = IF tampers = 0 THEN late ELSE late \cup {signed.sig}
  /\ RoundEnds(c)
  /\ UNCHANGED <<chain, appVars, verVars, history, tampers>>

\* A store call fails, or the process ends.
CheckpointFails(c) ==
  /\ cpc[c] # "idle"
  /\ RoundEnds(c)
  /\ UNCHANGED <<chain, checkpoints, appVars, verVars, ghostVars>>

-----------------------------------------------------------------------------
(* Verification.                                                           *)

Amounts(rs) == [i \in DOMAIN rs |-> rs[i].amount]

\* What both say of the records and the checkpoint, with the key pub.
Verdict(rs, c, pub) ==
  IF ~VerifyChain(rs) THEN "broken"
  ELSE IF c = NoCheckpoint THEN "unsigned"
  ELSE IF VerifyAgainstCheckpoint(rs, c, pub) THEN "verified" ELSE "broken"

Conclude(v, rs, c, pub) ==
  /\ answer' = [answer EXCEPT ![v] = [verdict |-> Verdict(rs, c, pub), seen |-> Amounts(rs),
                                      against |-> c, with |-> pub]]
  /\ vpc' = [vpc EXCEPT ![v] = "done"]

\* handleAuditVerify: the records, and then the checkpoint, which is verified with
\* the key in its own row.
HandlerReads(v) ==
  /\ vpc[v] = "start"
  /\ read' = [read EXCEPT ![v] = ListAudit(Limit)]
  /\ vpc' = [vpc EXCEPT ![v] = "second"]
  /\ UNCHANGED <<chain, checkpoints, appVars, ckVars, answer, ghostVars>>

HandlerAnswers(v) ==
  /\ vpc[v] = "second"
  /\ Conclude(v, read[v], LatestCheckpoint, LatestCheckpoint.pub)
  /\ read' = [read EXCEPT ![v] = <<>>]
  /\ UNCHANGED <<chain, checkpoints, appVars, ckVars, ghostVars>>

\* checkpointsVerify: the checkpoint, and then the records.  The key is the one
\* that was published, if it was given on the command line, or the row's.
CtlReads(v) ==
  /\ vpc[v] = "start"
  /\ checkpoints # {}
  /\ read' = [read EXCEPT ![v] = LatestCheckpoint]
  /\ vpc' = [vpc EXCEPT ![v] = "second"]
  /\ UNCHANGED <<chain, checkpoints, appVars, ckVars, answer, ghostVars>>

\* A bug's form of CtlAnswers: the last record the checkpoint needs is not read.
CtlAnswersShort(v) ==
  /\ vpc[v] = "second"
  /\ \E pub \in {OurKey, read[v].pub} : Conclude(v, ListAudit(read[v].seq - 1), read[v], pub)
  /\ read' = [read EXCEPT ![v] = <<>>]
  /\ UNCHANGED <<chain, checkpoints, appVars, ckVars, ghostVars>>

CtlAnswers(v) ==
  /\ vpc[v] = "second"
  /\ \E pub \in {OurKey, read[v].pub} : Conclude(v, ListAudit(Page), read[v], pub)
  /\ read' = [read EXCEPT ![v] = <<>>]
  /\ UNCHANGED <<chain, checkpoints, appVars, ckVars, ghostVars>>

-----------------------------------------------------------------------------
(* Changes to the tables behind the program's back: what verification is   *)
(* there to find.                                                          *)

Tampered ==
  /\ tampers < MaxTampers
  /\ tampers' = tampers + 1
  /\ UNCHANGED <<appVars, ckVars, verVars, history, late>>

\* The chain whose amounts are as, linked and hashed anew.
Rebuilt(as) ==
  LET hash[i \in 0..Len(as)] == IF i = 0 THEN NoHash ELSE ComputeHash(i, as[i], hash[i - 1])
  IN  [i \in DOMAIN as |-> [seq |-> i, amount |-> as[i], prev |-> hash[i - 1], hash |-> hash[i]]]

EditRecord ==
  /\ \E i \in DOMAIN chain, n \in Amount :
       n # chain[i].amount /\ chain' = [chain EXCEPT ![i].amount = n]
  /\ Tampered
  /\ UNCHANGED checkpoints

RemoveRecord ==
  /\ \E i \in DOMAIN chain : chain' = RemoveAt(chain, i)
  /\ Tampered
  /\ UNCHANGED checkpoints

RebuildChain ==
  /\ \E i \in DOMAIN chain, n \in Amount :
       n # chain[i].amount /\ chain' = Rebuilt([Amounts(chain) EXCEPT ![i] = n])
  /\ Tampered
  /\ UNCHANGED checkpoints

\* A stored checkpoint is made to fit the chain; its signature stays.
EditCheckpoint ==
  /\ \E c \in checkpoints :
       /\ c.seq \in DOMAIN chain
       /\ c.hash # chain[c.seq].hash
       /\ checkpoints' = (checkpoints \ {c}) \cup {[c EXCEPT !.hash = chain[c.seq].hash]}
  /\ Tampered
  /\ UNCHANGED chain

\* A stored checkpoint is made to fit the chain and signed with another key, which
\* is stored with it.
ResignCheckpoint ==
  /\ \E c \in checkpoints :
       /\ c.seq \in DOMAIN chain
       /\ c.hash # chain[c.seq].hash
       /\ checkpoints' = (checkpoints \ {c}) \cup {Sign(OtherKey, c.seq, chain[c.seq].hash)}
  /\ Tampered
  /\ UNCHANGED chain

Tamper == EditRecord \/ RemoveRecord \/ RebuildChain \/ EditCheckpoint \/ ResignCheckpoint

-----------------------------------------------------------------------------
Init ==
  /\ chain = <<>>
  /\ checkpoints = {}
  /\ lock = Free
  /\ apc = [a \in Appender |-> "begin"]
  /\ tip = [a \in Appender |-> NoTip]
  /\ cpc = [c \in Checkpointer |-> "idle"]
  /\ head = [c \in Checkpointer |-> NoTip]
  /\ vpc = [v \in Verifier |-> "start"]
  /\ read = [v \in Verifier |-> <<>>]
  /\ answer = [v \in Verifier |-> NoAnswer]
  /\ history = <<>>
  /\ late = {}
  /\ tampers = 0

AppendAudit(a) == Lock(a) \/ ReadTip(a) \/ Insert(a) \/ Rollback(a)
Checkpoint(c) == CheckpointRead(c) \/ CheckpointLatest(c) \/ CheckpointSave(c)

Next ==
  \/ \E a \in Appender : AppendAudit(a)
  \/ \E c \in Checkpointer : Checkpoint(c) \/ CheckpointFails(c)
  \/ \E v \in Handler : HandlerReads(v) \/ HandlerAnswers(v)
  \/ \E v \in Ctl : CtlReads(v) \/ CtlAnswers(v)
  \/ Tamper

Spec == Init /\ [][Next]_vars

-----------------------------------------------------------------------------
(* Properties.                                                             *)

TypeOK ==
  /\ Len(chain) <= MaxRecords
  /\ \A i \in DOMAIN chain : chain[i].seq \in 1..MaxRecords /\ chain[i].amount \in Amount
  /\ \A c \in checkpoints : c.seq \in 1..Page
  /\ lock \in Appender \cup {Free}
  /\ apc \in [Appender -> {"begin", "locked", "insert"}]
  /\ \A a \in Appender : tip[a].seq \in 0..MaxRecords
  /\ cpc \in [Checkpointer -> {"idle", "verified", "sign"}]
  /\ \A c \in Checkpointer : head[c].seq \in 0..Page
  /\ vpc \in [Verifier -> {"start", "second", "done"}]
  /\ \A v \in Verifier : answer[v].verdict \in {"none", "verified", "unsigned", "broken"}
  /\ history \in Seq(Amount)
  /\ tampers \in 0..MaxTampers

\* The lock serialises the appends of all replicas: the tip a transaction read is
\* the tip it inserts behind, so the unique key never has to refuse a record.
AppendsNeverClash ==
  \A a \in Appender : apc[a] = "insert" =>
    /\ lock = a
    /\ tampers = 0 => tip[a] = ChainTip

\* Every amount comes back from the table as it was hashed.
Survives == \A i \in DOMAIN history : AsRead(history[i]) = history[i]

\* What was appended, by whomever and in whatever order, verifies when it is read
\* back, and is read back as it was, exactly if every amount survives the float64:
\* one amount above 2^53 that does not makes an untouched chain look broken.
ChainIsHistory ==
  tampers = 0 =>
    /\ VerifyChain(ListAudit(MaxRecords)) <=> Survives
    /\ Survives => Amounts(ListAudit(MaxRecords)) = history

\* A signed head is a hash the chain still reaches, also when it was signed from
\* records read before others were appended.
SignedIsReached ==
  tampers = 0 => \A c \in checkpoints : VerifyAgainstCheckpoint(ListAudit(Page), c, OurKey)

\* A chain that verifies with the checkpointers' key is, up to the checkpoint, what
\* was appended, unless they signed it after the tables were changed: the records
\* may be edited, cut or rebuilt and the checkpoint edited or signed anew.  With a
\* key that came out of the row itself, "verified" promises this of rows whose key
\* is the checkpointers', and nothing of others.
VerifiedIsHistory ==
  \A v \in Verifier :
    LET k == answer[v].against.seq IN
    answer[v].verdict = "verified" /\ answer[v].with = OurKey /\ answer[v].against.sig \notin late =>
      SubSeq(answer[v].seen, 1, k) = SubSeq(history, 1, k)

\* reconsyncctl finds fault with tables that were changed, or that hold an amount
\* a float64 does not.
CtlNeverAccuses == \A v \in Ctl : answer[v].verdict = "broken" => tampers > 0 \/ ~Survives

\* A verification answers what is so: verified with the published key means
\* unchanged up to what was signed, and the command's broken has a cause.
AnswersAreRight == VerifiedIsHistory /\ CtlNeverAccuses

\* Checkpoint "signs every tenant's current chain head" (checkpointer.go:92, and
\* :16-17 of the round): where appends cease, the last record ends up signed.
HeadIsSigned ==
  <>[](tampers > 0 \/ chain = <<>> \/ LatestCheckpoint.seq = Len(chain))
=============================================================================
