----------------------------- MODULE Settlement -----------------------------
(***************************************************************************)
(* The settlement-file adapter, internal/provider/settlement.go.  An       *)
(* institution writes files into a directory; a query re-reads it once the *)
(* refresh interval is over and something changed, and answers from what   *)
(* it has read.  A file's content is a set of rows, or Malformed; two      *)
(* writes of a file never leave the same modification time.                *)
(***************************************************************************)
EXTENDS Clock, FiniteSets, FiniteSetsExt

CONSTANTS
  Path,         \* the names a file may have, numbered in the order Reload sorts them
  Content,      \* what may be written to one
  Malformed,
  Ref,          \* transactions asked about: [id, amount]
  Querier,
  Refresh,      \* RefreshInterval
  Grace,
  MaxWrites     \* bound on the writes to the directory

ASSUME SettlementAssumption ==
  Path \subseteq Nat /\ Refresh \in Nat /\ Grace \in Nat /\ MaxWrites \in Nat

VARIABLES
  disk,       \* [paths present -> [mtime, rows]]
  parsed,     \* p.files: [path -> rows]
  loaded,     \* p.loaded: [path -> mtime]
  checked,    \* p.lastChecked, or Never
  query,      \* [Querier -> where it is and what it holds]
  answer,     \* the answer just given, or NoAnswer
  writes,     \* writes so far, which are also the modification times
  wroteAt     \* when the last write was

fileVars == <<disk, parsed, loaded, checked, query, answer, writes, wroteAt>>

Never == MaxNow + Refresh + 1

NoFiles == [p \in {} |-> {}]

\* f, and v at p.
With(f, p, v) == [x \in DOMAIN f \cup {p} |-> IF x = p THEN v ELSE f[x]]

\* at: the step it is before; paths: still to be read;
\* files, stamps: read so far; alone: no other query has been under way.
AtRest == [at |-> "rest", paths |-> {}, files |-> NoFiles, stamps |-> NoFiles,
           since |-> 0, alone |-> TRUE]

NoAnswer == [ref |-> CHOOSE r \in Ref : TRUE, outcome |-> "none", since |-> 0, alone |-> FALSE]

\* Which transaction the query was about is chosen with its answer.
Give(q, ref, outcome) ==
  /\ answer' = [ref |-> ref, outcome |-> outcome,
                since |-> query[q].since, alone |-> query[q].alone]
  /\ query' = [query EXCEPT ![q] = AtRest]

\* p.mu is held from the first stat of a reload to its end.
Locked == \E q \in Querier : query[q].at \in {"stat", "parse"}

Go(q, step) == query' = [query EXCEPT ![q].at = step]
Unanswered == answer' = NoAnswer

-----------------------------------------------------------------------------
(* What is read decides the answer.                                        *)

CoversTo(rows) == Max({0} \cup {row.at : row \in rows})
LatestCoverage(files) == Max({0} \cup {CoversTo(files[p]) : p \in DOMAIN files})

\* absent: nothing is said about a transaction.
Absent(files, t) ==
  IF files = NoFiles \/ t < LatestCoverage(files) + Grace THEN "unknown" ELSE "not_found"

\* The first file with a row for the reference, in the order of the paths.
Outcome(files, ref, t) ==
  LET in(p) == {row \in files[p] : row.ref = ref.id}
      those == {p \in DOMAIN files : in(p) # {}} IN
  IF those = {} THEN Absent(files, t)
  ELSE LET row == CHOOSE row \in in(Min(those)) : TRUE IN
       IF ~row.settled THEN "failed"
       ELSE IF row.amount \notin {0, ref.amount} THEN "unknown"
       ELSE "settled"

-----------------------------------------------------------------------------
(* Query.                                                                  *)

\* dueForRefresh, which takes the check for itself.
StartQuery(q) ==
  /\ query[q].at = "rest"
  /\ ~Locked
  /\ LET due == checked = Never \/ now >= checked + Refresh
         alone == \A p \in Querier \ {q} : query[p].at = "rest" IN
     /\ checked' = IF due THEN now ELSE checked
     /\ query' = [p \in Querier |->
          IF p = q THEN [AtRest EXCEPT !.at = IF due THEN "changed" ELSE "answer",
                                       !.since = now, !.alone = alone]
          ELSE IF query[p].at = "rest" THEN AtRest ELSE [query[p] EXCEPT !.alone = FALSE]]
  /\ Unanswered
  /\ UNCHANGED <<disk, parsed, loaded, writes, wroteAt, now>>

\* A bug's form of Changed: the files are only counted.
ChangedByCount(q) ==
  /\ query[q].at = "changed"
  /\ ~Locked
  /\ Go(q, IF Cardinality(DOMAIN disk) = Cardinality(DOMAIN loaded) THEN "answer" ELSE "glob")
  /\ UNCHANGED <<disk, parsed, loaded, checked, writes, wroteAt, now>>
  /\ Unanswered

\* One step: where every stamp is still the loaded one, it was when the
\* directory was listed.
Changed(q) ==
  /\ query[q].at = "changed"
  /\ ~Locked
  /\ LET same == /\ DOMAIN disk = DOMAIN loaded
                 /\ \A p \in DOMAIN loaded : disk[p].mtime = loaded[p] IN
     Go(q, IF same THEN "answer" ELSE "glob")
  /\ UNCHANGED <<disk, parsed, loaded, checked, writes, wroteAt, now>>
  /\ Unanswered

\* Reload lists the directory before it takes the lock.
ReloadGlob(q) ==
  /\ query[q].at = "glob"
  /\ query' = [query EXCEPT ![q].at = "lock", ![q].paths = DOMAIN disk,
                            ![q].files = NoFiles, ![q].stamps = NoFiles]
  /\ UNCHANGED <<disk, parsed, loaded, checked, writes, wroteAt, now>>
  /\ Unanswered

ReloadLock(q) ==
  /\ query[q].at = "lock"
  /\ ~Locked
  /\ Go(q, "stat")
  /\ UNCHANGED <<disk, parsed, loaded, checked, writes, wroteAt, now>>
  /\ Unanswered

\* A file that has gone is skipped; after the last one, what was read replaces
\* what was known.
ReloadStat(q) ==
  /\ query[q].at = "stat"
  /\ IF query[q].paths = {}
     THEN /\ parsed' = query[q].files
          /\ loaded' = query[q].stamps
          /\ Go(q, "answer")
     ELSE /\ LET p == Min(query[q].paths) IN
             IF p \in DOMAIN disk
             THEN query' = [query EXCEPT ![q].at = "parse",
                                         ![q].stamps = With(@, p, disk[p].mtime)]
             ELSE query' = [query EXCEPT ![q].paths = @ \ {p}]
          /\ UNCHANGED <<parsed, loaded>>
  /\ UNCHANGED <<disk, checked, writes, wroteAt, now>>
  /\ Unanswered

\* A file that cannot be opened or parsed ends the reload, and the query.
ReloadParse(q) ==
  /\ query[q].at = "parse"
  /\ LET p == Min(query[q].paths) IN
     IF p \in DOMAIN disk /\ disk[p].rows # Malformed
     THEN /\ query' = [query EXCEPT ![q].at = "stat", ![q].paths = @ \ {p},
                                    ![q].files = With(@, p, disk[p].rows)]
          /\ Unanswered
     ELSE \E ref \in Ref : Give(q, ref, "unknown")
  /\ UNCHANGED <<disk, parsed, loaded, checked, writes, wroteAt, now>>

Answer(q) ==
  /\ query[q].at = "answer"
  /\ ~Locked
  /\ \E ref \in Ref : Give(q, ref, Outcome(parsed, ref, now))
  /\ UNCHANGED <<disk, parsed, loaded, checked, writes, wroteAt, now>>

-----------------------------------------------------------------------------
\* The institution, or whoever copies its files: a delivery, a rewrite, a removal.
WriteFile(p, rows) ==
  /\ writes < MaxWrites
  /\ writes' = writes + 1
  /\ wroteAt' = now
  /\ disk' = With(disk, p, [mtime |-> writes', rows |-> rows])
  /\ UNCHANGED <<parsed, loaded, checked, query, now>>
  /\ Unanswered

RemoveFile(p) ==
  /\ writes < MaxWrites
  /\ p \in DOMAIN disk
  /\ writes' = writes + 1
  /\ wroteAt' = now
  /\ disk' = [x \in DOMAIN disk \ {p} |-> disk[x]]
  /\ UNCHANGED <<parsed, loaded, checked, query, now>>
  /\ Unanswered

FileTick ==
  /\ Tick({query[q].since : q \in {q \in Querier : query[q].at # "rest"}})
  /\ Unanswered
  /\ UNCHANGED <<disk, parsed, loaded, checked, query, writes, wroteAt>>

\* NewSettlementProvider has read an empty directory.
FileInit ==
  /\ disk = NoFiles
  /\ parsed = NoFiles
  /\ loaded = NoFiles
  /\ checked = Never
  /\ query = [q \in Querier |-> AtRest]
  /\ answer = NoAnswer
  /\ writes = 0
  /\ wroteAt = 0

FileNext ==
  \/ \E q \in Querier :
       StartQuery(q) \/ Changed(q) \/ ReloadGlob(q) \/ ReloadLock(q) \/ ReloadStat(q)
       \/ ReloadParse(q) \/ Answer(q)
  \/ \E p \in Path : RemoveFile(p) \/ \E rows \in Content : WriteFile(p, rows)
  \/ FileTick

FileSpec == now = 0 /\ FileInit /\ [][FileNext]_<<now, fileVars>>

-----------------------------------------------------------------------------
\* What the directory says, read at once.
OnDisk == [p \in DOMAIN disk |-> disk[p].rows]

\* A query that starts a refresh interval after the last write, after the
\* reloads that began before the write, with no other under way and no malformed file
\* about, answers what the directory says ("picked up within this interval").
AnswersFromDisk ==
  /\ answer.alone
  /\ answer.since > wroteAt /\ answer.since >= wroteAt + Refresh + Latency
  /\ \A p \in DOMAIN disk : disk[p].rows # Malformed
  => answer.outcome = Outcome(OnDisk, answer.ref, now)
=============================================================================
