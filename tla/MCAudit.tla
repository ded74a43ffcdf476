------------------------------ MODULE MCAudit ------------------------------
(***************************************************************************)
(* Audit on a small instance, in scenes: appenders of two replicas race    *)
(* each other and reconsyncctl; checkpointers of two replicas race the     *)
(* endpoint; and the tables are changed under two checkpointers, under the *)
(* endpoint and under reconsyncctl.                                        *)
(***************************************************************************)
EXTENDS Audit

CONSTANTS a1, a2, k1, k2, h1, c1

VARIABLE scene

Cast ==
  [append |-> {a1, a2, k1, c1}, sign |-> {a1, k1, k2, h1},
   resign |-> {a1, k1, k2}, edit |-> {a1, k1, h1}, forge |-> {a1, k1, c1}]

MCInit == Init /\ scene \in DOMAIN Cast

MCNext ==
  /\ \/ \E a \in Appender \cap Cast[scene] : AppendAudit(a)
     \/ \E c \in Checkpointer \cap Cast[scene] : Checkpoint(c) \/ CheckpointFails(c)
     \/ \E v \in Handler \cap Cast[scene] : HandlerReads(v) \/ HandlerAnswers(v)
     \/ \E v \in Ctl \cap Cast[scene] : CtlReads(v) \/ CtlAnswers(v)
     \/ scene \in {"resign", "edit"} /\ tampers = 0 /\ Tamper
     \/ scene = "forge" /\ (RebuildChain \/ EditCheckpoint \/ ResignCheckpoint)
  /\ UNCHANGED scene

MCSpec == MCInit /\ [][MCNext]_<<vars, scene>>

\* k1, which is in every scene, keeps signing and not every round of it fails;
\* nobody is obliged to append.
MCFairSpec ==
  /\ MCSpec
  /\ WF_vars(Checkpoint(k1)) /\ SF_vars(CheckpointLatest(k1)) /\ SF_vars(CheckpointSave(k1))
=============================================================================
