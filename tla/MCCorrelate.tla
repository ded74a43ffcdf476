---------------------------- MODULE MCCorrelate ----------------------------
(***************************************************************************)
(* Correlate on small instances: the events clients send.  A behaviour is  *)
(* about t1 and what settles it in parts, or about t2 and t3, which share  *)
(* an idempotency key and are settled by one credit each.                  *)
(***************************************************************************)
EXTENDS Correlate

CONSTANTS t1, t2, t3, c1, c2, c3, c4, c5, k1, k2, k4, k5, d1, d2

\* t1 expects 2: two halves, or the whole; the second credit is foreign and
\* the third one reuses the first one's key.  c4 and c5 state no amount, and
\* c5 is a failure.
CreditOf == [c \in Credit |-> CASE c = c4 -> t2 [] c = c5 -> t3 [] OTHER -> t1]
Amounts == [c \in Credit |-> CASE c = c1 -> 1 [] c \in {c2, c3} -> 2 [] OTHER -> 0]
Keys == [c \in Credit |-> CASE c = c2 -> k2 [] c = c4 -> k4 [] c = c5 -> k5 [] OTHER -> k1]
Results == [c \in Credit |-> IF c = c5 THEN "failed" ELSE "success"]
ForeignSecond == [c \in Credit |-> c = c2]
DebitKeys12 == [t \in Txn |-> IF t = t1 THEN d1 ELSE d2]
ExpectTwo == [t \in Txn |-> 2]

PartOf(t) == {c \in Credit : CreditTxn[c] = t}

\* Nothing about t1 was sent, or nothing about the others; the credits of t1
\* come in batches of their own, or with its debit.
Apart ==
  \/ sentDebit[t1] = 0 /\ \A c \in PartOf(t1) : sentCredit[c] = 0
  \/ /\ \A t \in Txn \ {t1} : sentDebit[t] = 0 /\ \A c \in PartOf(t) : sentCredit[c] = 0
     /\ \A w \in Worker : Cardinality(credits[w]) <= 1

MCNext == Next /\ Apart'

MCSpec == Init /\ [][MCNext]_vars /\ \A w \in Worker : WF_vars(Step(w))
=============================================================================
