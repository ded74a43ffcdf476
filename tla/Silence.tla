------------------------------ MODULE Silence ------------------------------
(***************************************************************************)
(* Silence detection: the part of the sweep (internal/service/detector.go) *)
(* that leaves a tenant alone once its events have stopped, over the       *)
(* ingest_health and tenant_silence tables (internal/store).  Several      *)
(* replicas sweep with no leader; a sweep reads the silent tenants, brings *)
(* the episodes in line, queues the alerts and only then claims expired    *)
(* transactions, of the tenants that were not silent when it looked.       *)
(*                                                                         *)
(* Time is in minutes, the granularity of ingest_health.  The store of     *)
(* alerts is a set: which deliveries they become is in Dispatcher.         *)
(***************************************************************************)
EXTENDS Integers, FiniteSets, FiniteSetsExt

CONSTANTS
  Tenant,
  Replica,       \* replicas of the detector
  Quiet,         \* SilenceParams, in minutes
  Baseline,
  MinActive,     \* MinActiveBuckets
  MaxMinute,     \* the horizon
  MaxFaults      \* sweeps that end early and alerts that cannot be queued

ASSUME SilenceAssumption ==
  /\ Quiet \in Nat \ {0}
  /\ Baseline \in Nat \ {0}
  /\ MinActive \in Nat \ {0}
  /\ MaxMinute \in Nat
  /\ MaxFaults \in Nat

Minute == 0..MaxMinute

VARIABLES
  minute,     \* the clock of all replicas
  unflushed,  \* [Tenant -> SUBSET Minute]: minutes with events the recorder still holds
  received,   \* [Tenant -> SUBSET Minute]: minutes with received > 0 in ingest_health
  episodes,   \* tenants with a row in tenant_silence
  opened,     \* [Tenant -> Nat]: episodes opened so far
  pc,         \* [Replica -> SweepPCs]
  silent,     \* [Replica -> SUBSET Tenant]: what SilentTenants returned
  todo,       \* [Replica -> SUBSET Alerts]: alerts of the change it committed
  alerts,     \* alerts queued so far
  faults      \* faults so far

healthVars == <<minute, unflushed, received>>
sweepVars == <<pc, silent, todo>>
silenceVars == <<healthVars, episodes, opened, sweepVars, alerts, faults>>

SweepPCs == {"idle", "sync", "alert", "claim"}
Kinds == {"silence_detected", "silence_resolved"}
Alerts == [tenant : Tenant, kind : Kinds, episode : Nat]

SilenceTypeOK ==
  /\ minute \in Minute
  /\ unflushed \in [Tenant -> SUBSET Minute]
  /\ received \in [Tenant -> SUBSET Minute]
  /\ episodes \subseteq Tenant
  /\ opened \in [Tenant -> Nat]
  /\ pc \in [Replica -> SweepPCs]
  /\ silent \in [Replica -> SUBSET Tenant]
  /\ todo \in [Replica -> SUBSET Alerts]
  /\ alerts \subseteq Alerts
  /\ faults \in 0..MaxFaults

SilenceInit ==
  /\ minute = 0
  /\ unflushed = [t \in Tenant |-> {}]
  /\ received = [t \in Tenant |-> {}]
  /\ episodes = {}
  /\ opened = [t \in Tenant |-> 0]
  /\ pc = [s \in Replica |-> "idle"]
  /\ silent = [s \in Replica |-> {}]
  /\ todo = [s \in Replica |-> {}]
  /\ alerts = {}
  /\ faults = 0

-----------------------------------------------------------------------------
(* The stream of events and the recorder's flush.                          *)

Tick ==
  /\ minute < MaxMinute
  /\ minute' = minute + 1
  /\ UNCHANGED <<unflushed, received, episodes, opened, sweepVars, alerts, faults>>

\* Recorder.Accepted: the first event of this minute.
Send(t) ==
  /\ minute \notin unflushed[t] \cup received[t]
  /\ unflushed' = [unflushed EXCEPT ![t] = @ \cup {minute}]
  /\ UNCHANGED <<minute, received, episodes, opened, sweepVars, alerts, faults>>

RecordIngestHealth ==
  /\ \E t \in Tenant : unflushed[t] # {}
  /\ received' = [t \in Tenant |-> received[t] \cup unflushed[t]]
  /\ unflushed' = [t \in Tenant |-> {}]
  /\ UNCHANGED <<minute, episodes, opened, sweepVars, alerts, faults>>

-----------------------------------------------------------------------------
(* The queries.                                                            *)

QuietFrom(now) == now - Quiet
BaselineFrom(now) == QuietFrom(now) - Baseline

\* A bug's form of IsSilent: the bounds of the baseline are off by one minute.
IsSilentLate(t, now) ==
  /\ Cardinality({m \in received[t] : BaselineFrom(now) < m /\ m < QuietFrom(now)}) >= MinActive
  /\ ~ \E m \in received[t] : m >= QuietFrom(now)

\* Enough active minutes in the baseline and none since.
IsSilent(t, now) ==
  /\ Cardinality({m \in received[t] : BaselineFrom(now) <= m /\ m < QuietFrom(now)}) >= MinActive
  /\ ~ \E m \in received[t] : m >= QuietFrom(now)

SilentTenants(now) == {t \in Tenant : IsSilent(t, now)}

-----------------------------------------------------------------------------
(* One sweep.                                                              *)

SweepBegin(s) ==
  /\ pc[s] = "idle"
  /\ silent' = [silent EXCEPT ![s] = SilentTenants(minute)]
  /\ pc' = [pc EXCEPT ![s] = "sync"]
  /\ UNCHANGED <<healthVars, episodes, opened, todo, alerts, faults>>

\* A bug's form of Opened: the insert's conflict is not looked at.
OpenedAll(s) == silent[s]

Opened(s) == silent[s] \ episodes

\* A bug's form of Recovered: a tenant that is not listed keeps its episode.
RecoveredNone(s) == {} \ silent[s]

Recovered(s) == episodes \ silent[s]

\* The episode t is in once its row is there.
Episode(t) == IF t \in episodes THEN opened[t] ELSE opened[t] + 1

ChangeAlerts(s) ==
  {[tenant |-> t, kind |-> "silence_detected", episode |-> Episode(t)] : t \in Opened(s)}
  \cup {[tenant |-> t, kind |-> "silence_resolved", episode |-> opened[t]] : t \in Recovered(s)}

\* A bug's form of SyncSilenceEpisodes: the rows of the recovered stay.
SyncOpensOnly(s) ==
  /\ pc[s] = "sync"
  /\ episodes' = episodes \cup Opened(s)
  /\ opened' = [t \in Tenant |-> IF t \in episodes' \ episodes THEN opened[t] + 1 ELSE opened[t]]
  /\ todo' = [todo EXCEPT ![s] = ChangeAlerts(s)]
  /\ pc' = [pc EXCEPT ![s] = "alert"]
  /\ UNCHANGED <<healthVars, silent, alerts, faults>>

\* SyncSilenceEpisodes: insert and delete in one transaction.
SyncSilenceEpisodes(s) ==
  /\ pc[s] = "sync"
  /\ episodes' = (episodes \cup Opened(s)) \ Recovered(s)
  /\ opened' = [t \in Tenant |-> IF t \in episodes' \ episodes THEN opened[t] + 1 ELSE opened[t]]
  /\ todo' = [todo EXCEPT ![s] = ChangeAlerts(s)]
  /\ pc' = [pc EXCEPT ![s] = "alert"]
  /\ UNCHANGED <<healthVars, silent, alerts, faults>>

\* queueIntegrationAlert for one change, in any order; recordSilence's append is
\* one of Audit's.
QueueIntegrationAlert(s) ==
  /\ pc[s] = "alert"
  /\ \E x \in todo[s] :
       /\ todo' = [todo EXCEPT ![s] = @ \ {x}]
       /\ alerts' = alerts \cup {x}
  /\ UNCHANGED <<healthVars, episodes, opened, pc, silent, faults>>

\* An alert that cannot be queued is logged and given up, the next one tried.
AlertFails(s) ==
  /\ pc[s] = "alert"
  /\ faults < MaxFaults
  /\ faults' = faults + 1
  /\ \E x \in todo[s] : todo' = [todo EXCEPT ![s] = @ \ {x}]
  /\ UNCHANGED <<healthVars, episodes, opened, pc, silent, alerts>>

AlertsDone(s) ==
  /\ pc[s] = "alert"
  /\ todo[s] = {}
  /\ pc' = [pc EXCEPT ![s] = "claim"]
  /\ UNCHANGED <<healthVars, episodes, opened, silent, todo, alerts, faults>>

\* ClaimExpired with SkipTenants(silent): what follows is the rest of Detector.
ClaimExpired(s) ==
  /\ pc[s] = "claim"
  /\ pc' = [pc EXCEPT ![s] = "idle"]
  /\ silent' = [silent EXCEPT ![s] = {}]
  /\ UNCHANGED <<healthVars, episodes, opened, todo, alerts, faults>>

\* A store call fails, or the process ends.
SweepFails(s) ==
  /\ pc[s] # "idle"
  /\ faults < MaxFaults
  /\ faults' = faults + 1
  /\ pc' = [pc EXCEPT ![s] = "idle"]
  /\ silent' = [silent EXCEPT ![s] = {}]
  /\ todo' = [todo EXCEPT ![s] = {}]
  /\ UNCHANGED <<healthVars, episodes, opened, alerts>>

Sweep(s) ==
  SweepBegin(s) \/ SyncSilenceEpisodes(s) \/ QueueIntegrationAlert(s) \/ AlertsDone(s)
  \/ ClaimExpired(s)

SilenceNext ==
  \/ Tick
  \/ \E t \in Tenant : Send(t)
  \/ RecordIngestHealth
  \/ \E s \in Replica : Sweep(s) \/ AlertFails(s) \/ SweepFails(s)

SilenceSpec == SilenceInit /\ [][SilenceNext]_silenceVars

\* Replicas keep sweeping, the clock and the recorder keep running; the tenants
\* owe nothing.
SilenceFairSpec ==
  /\ SilenceSpec
  /\ WF_silenceVars(Tick)
  /\ WF_silenceVars(RecordIngestHealth)
  /\ \A s \in Replica : WF_silenceVars(Sweep(s))

-----------------------------------------------------------------------------
(* Properties.                                                             *)

\* The insert and the delete are the interlock: each opening and each closing
\* of an episode is alerted about by one replica, once, whatever lists the
\* others hold.
OneAlertPerEpisode ==
  \A s, r \in Replica :
    /\ s # r => todo[s] \cap todo[r] = {}
    /\ todo[s] \cap alerts = {}

Resolution(t) == [tenant |-> t, kind |-> "silence_resolved", episode |-> opened[t]]

\* No alert, queued or about to be, calls an episode resolved that is open.
ResolvedIsClosed ==
  \A t \in episodes : Resolution(t) \notin alerts \cup UNION {todo[s] : s \in Replica}

\* What customers are told matches the episodes: each change is told once and no
\* end before its episode has ended.
AlertsMatchEpisodes == OneAlertPerEpisode /\ ResolvedIsClosed

\* The last minute with an event, sent or recorded.
LastSent(t) == Max(unflushed[t] \cup received[t])

\* A tenant that sent every minute and then stopped is left alone from the end
\* of the quiet period until too little of the baseline shows that it was
\* steady: no sweep that looks within that time claims its transactions.
SteadyThenSilent(t, now) ==
  /\ unflushed[t] = {}
  /\ received[t] # {}
  /\ received[t] = 0..LastSent(t)
  /\ Cardinality(received[t]) >= MinActive
  /\ now > LastSent(t) + Quiet
  /\ now <= LastSent(t) + Quiet + Baseline + 1 - MinActive
NoStorm ==
  [][\A s \in Replica : SweepBegin(s) =>
       \A t \in Tenant : SteadyThenSilent(t, minute) => t \in silent'[s]]_silenceVars

\* Stale lists do not prevail: in the end the episodes are the silent tenants.
EpisodesConverge ==
  <>[](episodes = SilentTenants(minute))
=============================================================================
