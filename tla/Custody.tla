------------------------------ MODULE Custody ------------------------------
(***************************************************************************)
(* What ingestion promises about an event it has accepted: it is held      *)
(* until it is applied, and the only other way out of custody is on the    *)
(* record, as a gap of its tenant.  A gap, once there, stays: it is what   *)
(* keeps detection from reading a lost credit as a missing one.            *)
(***************************************************************************)
EXTENDS Naturals, FiniteSets

CONSTANTS Event, Tenant, TenantOf

VARIABLES
  held,      \* accepted events still to be dealt with
  applied,   \* events in the store
  gap        \* tenants with a loss on record

vars == <<held, applied, gap>>

Init == held = {} /\ applied = {} /\ gap = {}

Accept(e) == held' = held \cup {e} /\ UNCHANGED <<applied, gap>>

Refuse(t) == gap' = gap \cup {t} /\ UNCHANGED <<held, applied>>

\* Some held events of one tenant are dealt with; done are the ones applied.
\* The others are on record.  A second copy of an event may stay behind.
Settle(t) ==
  \E some \in SUBSET {e \in held : TenantOf[e] = t} :
    \E done \in SUBSET some :
      /\ applied' = applied \cup done
      /\ held \ some \subseteq held'
      /\ held' \subseteq held
      /\ gap' = gap \cup {t} \/ (gap' = gap /\ done = some)

Next ==
  \/ \E e \in Event : Accept(e)
  \/ \E t \in Tenant : Refuse(t) \/ Settle(t)

Spec == Init /\ [][Next]_vars
=============================================================================
