---------------------------- MODULE MCDispatcher ----------------------------
(***************************************************************************)
(* Dispatcher on small instances: which deliveries there are.              *)
(***************************************************************************)
EXTENDS Dispatcher

CONSTANTS t1, d1, d2

\* Everything is about one transaction, and both deliveries are reversals.
AboutOne == [d \in Delivery |-> t1]
AllReversals == [d \in Delivery |-> TRUE]
=============================================================================
