----------------------------- MODULE TxnStatus -----------------------------
(***************************************************************************)
(* The transaction state machine of internal/domain/status.go: the         *)
(* statuses, the table of legal edges, and the predicates the rest of the  *)
(* code derives from that table.  "absent" is not a status of the code: it *)
(* stands for a transaction id that has no row yet.                        *)
(***************************************************************************)

Statuses == {"pending_debit", "pending_unknown", "completed", "suspect",
             "orphaned", "reversal_pending", "reversal_completed",
             "reversal_failed"}

Absent == "absent"

\* The whole machine as data, one entry per source status.
allowedTransitions ==
  [pending_debit      |-> {"completed", "pending_unknown", "orphaned", "suspect"},
   pending_unknown    |-> {"completed", "suspect"},
   suspect            |-> {"orphaned", "completed"},
   orphaned           |-> {"reversal_pending", "completed", "suspect"},
   reversal_pending   |-> {"reversal_completed", "reversal_failed"},
   reversal_failed    |-> {"reversal_pending"},
   completed          |-> {},
   reversal_completed |-> {}]

\* A status outside the table (here: Absent) has no destinations.
CanTransition(from, to) ==
  from \in Statuses /\ to \in allowedTransitions[from]

\* The UPDATE guard: the statuses that may legally reach target.
SourcesFor(target) == {s \in Statuses : CanTransition(s, target)}

\* Mutant: a suspect is watched again.
IsOpenWithSuspect(s) == s \in {"pending_debit", "pending_unknown", "suspect"}

\* Still watched for window expiry; the partial index predicate of 0001.
IsOpen(s) == s \in {"pending_debit", "pending_unknown"}

\* The customer is out of pocket.
NeedsReversal(s) == s \in {"orphaned", "reversal_pending", "reversal_failed"}

\* The three verdicts a provider can report on the credit leg, and the
\* status each one asks for (CreditStatus.TargetStatus).
CreditStatuses == {"success", "failed", "unknown"}

TargetStatus(verdict) ==
  CASE verdict = "success" -> "completed"
    [] verdict = "failed"  -> "orphaned"
    [] verdict = "unknown" -> "pending_unknown"
=============================================================================
