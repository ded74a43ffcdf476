------------------------------ MODULE MCIngest ------------------------------
(***************************************************************************)
(* Ingest on a small instance, in two scenarios.  One client with a bulk   *)
(* call whose middle event does not validate and a report of that event    *)
(* alone; or events of two other tenants' clients while this one is silent.*)
(***************************************************************************)
EXTENDS Ingest

CONSTANTS a, b, c, d, ta, tb, single, bulk

TwoTenants == [e \in Event |-> IF e = a THEN ta ELSE tb]
SingleAndBulk == [r \in Report |-> IF r = single THEN <<c>> ELSE <<b, c, d>>]

MCInit == Init /\ foreign \in {{}, Foreign} /\ (rclosed <=> foreign # {})
MCSpec == MCInit /\ [][Next]_vars /\ Fairness
=============================================================================
