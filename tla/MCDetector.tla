----------------------------- MODULE MCDetector -----------------------------
(***************************************************************************)
(* Detector, ReversalClaim and Silence on small instances: three parts of  *)
(* a verdict's way.  A behaviour runs one of them.                         *)
(***************************************************************************)
EXTENDS Detector, ReversalClaim, Silence

CONSTANTS
  t1, t2, e1,
  Near,    \* transactions whose deadline comes near
  Parts    \* the parts a behaviour may run

VARIABLE part

callerVars == <<claim, confirmed, at, on, moves, careless>>
ownVars == <<due, gapped, nearing, warned, enabled, queued, audited, claimedAs, railSaid,
             aborts, toggles, sw>>
allVars == <<status, ownVars, callerVars, silenceVars, part>>

\* Every endpoint subscribes to the verdicts; or one to those, and the others
\* to the warnings.
VerdictEvents == [e \in Endpoint |-> {Reversal, Suspect}]
SplitEvents == [e \in Endpoint |-> IF e = e1 THEN {Reversal, Suspect}
                                             ELSE {AtRisk}]

\* What a sweep leaves behind that has told e1 to reverse everything.
Advised ==
  /\ due = Txn /\ gapped = {} /\ nearing = {} /\ warned = {}
  /\ enabled = Endpoint
  /\ queued = [x \in Txn \X Endpoint \X Events |->
                 IF x[2] = e1 /\ x[3] = Reversal THEN 1 ELSE 0]
  /\ audited = [t \in Txn |-> {Reversal}]
  /\ claimedAs = [t \in Txn |-> "orphaned"]
  /\ railSaid = [t \in Txn |-> "not_found"]
  /\ aborts = 0 /\ toggles = 0
  /\ sw = [s \in Sweeper |-> Idle]

MCInit ==
  /\ part \in Parts
  /\ SilenceInit
  /\ IF part = "claims" THEN ClaimInit /\ Advised
                        ELSE Init /\ NoClaims /\ on = [c \in Caller |-> t1]

Sweeps ==
  part = "sweep" /\ Next /\ nearing' \subseteq Near /\ UNCHANGED <<callerVars, silenceVars, part>>
Claims == part = "claims" /\ ClaimNext /\ UNCHANGED <<ownVars, silenceVars, part>>
Silences == part = "silence" /\ SilenceNext /\ UNCHANGED <<status, ownVars, callerVars, part>>

MCNext == Sweeps \/ Claims \/ Silences

MCSpec == MCInit /\ [][MCNext]_allVars

\* The fairness of FairSpec and SilenceFairSpec, each where its part runs.
MCFairSpec ==
  /\ MCSpec
  /\ \A s \in Sweeper :
       /\ WF_vars(part = "sweep" /\ Step(s))
       /\ \A t \in Txn :
            SF_vars(part = "sweep" /\ \E T \in SUBSET Expired : t \in T /\ ClaimBatch(s, T))
  /\ WF_silenceVars(part = "silence" /\ Tick)
  /\ WF_silenceVars(part = "silence" /\ RecordIngestHealth)
  /\ \A r \in Replica : WF_silenceVars(part = "silence" /\ Sweep(r))
=============================================================================
