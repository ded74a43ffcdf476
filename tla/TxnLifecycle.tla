--------------------------- MODULE TxnLifecycle ---------------------------
(***************************************************************************)
(* What the whole service promises about a transaction's status, however   *)
(* many workers, sweepers and dispatchers write to its row: a transaction  *)
(* appears once, as pending_debit, and from then on its status only moves  *)
(* along the edges of the state machine.  One statement may write several  *)
(* rows.  The components that write the status column are shown to         *)
(* implement this specification.                                           *)
(***************************************************************************)
EXTENDS TxnStatus

CONSTANT Txn            \* the transaction ids

VARIABLE status         \* [Txn -> Statuses \cup {Absent}]

TypeOK == status \in [Txn -> Statuses \cup {Absent}]

Init == status = [t \in Txn |-> Absent]

\* The debit of t is stored for the first time.
Record(t) == status[t] = Absent /\ status'[t] = "pending_debit"

\* The row of t moves along a legal edge.
Move(t) == CanTransition(status[t], status'[t])

Next ==
  /\ status' \in [Txn -> Statuses \cup {Absent}]
  /\ \A t \in Txn : status'[t] = status[t] \/ Record(t) \/ Move(t)

Spec == Init /\ [][Next]_status
=============================================================================
