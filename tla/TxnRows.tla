------------------------------ MODULE TxnRows ------------------------------
(***************************************************************************)
(* The status column of the transactions table, and the two statements     *)
(* that write it after the insert: the guarded UPDATE of one row, which    *)
(* every Mark... and ApplyCredit method shares, and the claim of expired   *)
(* rows.  A statement is one atomic step.                                  *)
(***************************************************************************)
EXTENDS TxnStatus

CONSTANT Txn            \* transaction ids

VARIABLE status         \* [Txn -> Statuses \cup {Absent}]

Stored(t) == status[t] # Absent

\* INSERT ... ON CONFLICT DO NOTHING of the debits I, all of them new.
InsertRows(I) ==
  status' = [t \in Txn |-> IF t \in I THEN "pending_debit" ELSE status[t]]

\* Mutant: the UPDATE is not guarded by the current status.
UpdateMatchesAny(t, target) == Stored(t)

\* UPDATE ... WHERE status = ANY(allowedSources(target)): whether it matches,
\* and what it does when it does.
UpdateMatches(t, target) == status[t] \in SourcesFor(target)

UpdateRow(t, target) ==
  /\ UpdateMatches(t, target)
  /\ status' = [status EXCEPT ![t] = target]

\* Mutant: the claim's CASE leaves an ambiguous row as it is.
ExpiredStatusKeeps(s, gap) ==
  IF s # "pending_debit" THEN s ELSE IF gap THEN "suspect" ELSE "orphaned"

\* The verdict of the claim statement on an open row.  gap: ingest lost events
\* in some minute of the row's window.
ExpiredStatus(s, gap) ==
  IF gap \/ s # "pending_debit" THEN "suspect" ELSE "orphaned"

\* Claim the open rows T; gapped are the ones with an ingest gap.
ClaimRows(T, gapped) ==
  /\ \A t \in T : IsOpen(status[t])
  /\ status' = [t \in Txn |-> IF t \in T THEN ExpiredStatus(status[t], t \in gapped)
                                         ELSE status[t]]
=============================================================================
