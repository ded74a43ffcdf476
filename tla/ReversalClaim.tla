--------------------------- MODULE ReversalClaim ---------------------------
(***************************************************************************)
(* The exactly-once interlock between the advice to reverse and the money  *)
(* that moves (reversal_claims and its HTTP handlers).  A customer's       *)
(* worker claims, reverses whenever the claim succeeds, and confirms; an   *)
(* operator releases the claim of a worker that died.  Handlers are one    *)
(* step per store call.                                                    *)
(***************************************************************************)
EXTENDS TxnRows, Naturals

CONSTANTS
  Caller,   \* claim attempts: a worker that restarts is another caller
  NoCaller  \* no row in reversal_claims

ASSUME ClaimAssumption == NoCaller \notin Caller

VARIABLES
  claim,       \* [Txn -> Caller \cup {NoCaller}]: claimed_by
  confirmed,   \* SUBSET Txn: confirmed_at is set
  at,          \* [Caller -> Places]: where the caller is
  on,          \* [Caller -> Txn]: the transaction it works on
  moves,       \* [Txn -> Nat]: reversals carried out, a history
  careless     \* SUBSET Txn: a claim was released although its holder had not
               \* died before reversing, a history

claimVars == <<status, claim, confirmed, at, on, moves, careless>>

Places == {"idle", "checked", "granted", "moved", "recorded", "dead", "done"}

ClaimTypeOK ==
  /\ status \in [Txn -> Statuses \cup {Absent}]
  /\ claim \in [Txn -> Caller \cup {NoCaller}]
  /\ confirmed \subseteq Txn
  /\ at \in [Caller -> Places]
  /\ on \in [Caller -> Txn]
  /\ moves \in [Txn -> Nat]
  /\ careless \subseteq Txn

\* Nobody has asked yet.
NoClaims ==
  /\ claim = [t \in Txn |-> NoCaller]
  /\ confirmed = {}
  /\ at = [c \in Caller |-> "idle"]
  /\ moves = [t \in Txn |-> 0]
  /\ careless = {}

ClaimInit ==
  /\ status = [t \in Txn |-> "orphaned"]
  /\ on \in [Caller -> Txn]
  /\ NoClaims

Go(c, place) == at' = [at EXCEPT ![c] = place]

-----------------------------------------------------------------------------
(* handleClaimReversal: read the verdict, then insert *)

claimableStatus == "reversal_pending"

CheckStatus(c) ==
  /\ at[c] = "idle"
  /\ status[on[c]] = claimableStatus
  /\ Go(c, "checked")
  /\ UNCHANGED <<status, claim, confirmed, on, moves, careless>>

\* Mutant: ON CONFLICT DO UPDATE.
InsertClaimOver(c) ==
  /\ at[c] = "checked"
  /\ claim' = [claim EXCEPT ![on[c]] = c]
  /\ Go(c, "granted")
  /\ UNCHANGED <<status, confirmed, on, moves, careless>>

\* The primary key decides.  The loser gets 409 and may ask again.
InsertClaim(c) ==
  /\ at[c] = "checked"
  /\ IF claim[on[c]] = NoCaller
       THEN claim' = [claim EXCEPT ![on[c]] = c] /\ Go(c, "granted")
       ELSE UNCHANGED claim /\ Go(c, "idle")
  /\ UNCHANGED <<status, confirmed, on, moves, careless>>

-----------------------------------------------------------------------------
(* The customer's side *)

Reverse(c) ==
  /\ at[c] = "granted"
  /\ moves' = [moves EXCEPT ![on[c]] = @ + 1]
  /\ Go(c, "moved")
  /\ UNCHANGED <<status, claim, confirmed, on, careless>>

\* The worker dies; a request it left behind is not answered any more.
Die(c) ==
  /\ at[c] \in {"granted", "moved", "recorded"}
  /\ Go(c, IF at[c] = "granted" THEN "dead" ELSE "done")
  /\ UNCHANGED <<status, claim, confirmed, on, moves, careless>>

-----------------------------------------------------------------------------
(* handleReversalCompleted: mark, then close the claim, best effort *)

MarkReversalCompleted(c) ==
  /\ at[c] = "moved"
  /\ IF UpdateMatches(on[c], "reversal_completed")
       THEN UpdateRow(on[c], "reversal_completed") /\ Go(c, "recorded")
       ELSE UNCHANGED status /\ Go(c, "done")
  /\ UNCHANGED <<claim, confirmed, on, moves, careless>>

\* Confirms whatever claim there is; no token is asked for.
ConfirmReversalClaim(c) ==
  /\ at[c] = "recorded"
  /\ \E stored \in BOOLEAN :
       confirmed' = IF stored /\ claim[on[c]] # NoCaller
                      THEN confirmed \cup {on[c]} ELSE confirmed
  /\ Go(c, "done")
  /\ UNCHANGED <<status, claim, on, moves, careless>>

-----------------------------------------------------------------------------
(* handleReleaseReversalClaim *)

\* The API asks operators to release only the claim of a worker that died
\* before it reversed; nothing enforces it.
NoteRelease(t) ==
  careless' = IF \E c \in Caller : c = claim[t] /\ at[c] = "dead"
                THEN careless ELSE careless \cup {t}

ReleaseReversalClaim(t) ==
  /\ claim[t] # NoCaller
  /\ t \notin confirmed
  /\ claim' = [claim EXCEPT ![t] = NoCaller]
  /\ NoteRelease(t)
  /\ UNCHANGED <<status, confirmed, at, on, moves>>

\* The sweep and the dispatcher.
Mark(t, target) ==
  /\ UpdateRow(t, target)
  /\ UNCHANGED <<claim, confirmed, at, on, moves, careless>>

ClaimNext ==
  \/ \E c \in Caller :
       \/ CheckStatus(c) \/ InsertClaim(c) \/ Reverse(c) \/ Die(c)
       \/ MarkReversalCompleted(c) \/ ConfirmReversalClaim(c)
  \/ \E t \in Txn :
       \/ ReleaseReversalClaim(t)
       \/ Mark(t, "reversal_pending") \/ Mark(t, "reversal_failed") \/ Mark(t, "completed")

ClaimSpec == ClaimInit /\ [][ClaimNext]_claimVars

-----------------------------------------------------------------------------
(* Properties *)

\* "Exactly-once, guaranteed by us": with workers that reverse only when
\* granted, a transaction whose claims were only ever released for workers that
\* died before reversing is reversed at most once - whatever confirmations are
\* lost, and however carelessly other transactions are treated.
PaidOnce == \A t \in Txn \ careless : moves[t] <= 1

\* The inductive strengthening: a caller that was granted the claim and did not
\* die before reversing still holds it, and a reversal that was carried out is
\* covered by the claim of whoever carried it out.
Acting == {"granted", "moved", "recorded", "done"}
Paid == {"moved", "recorded", "done"}

HolderOwns ==
  \A c \in Caller : at[c] \in Acting /\ on[c] \notin careless => claim[on[c]] = c

PaidIsHeld ==
  \A t \in Txn \ careless : moves[t] # 0 =>
    moves[t] = 1 /\ \E c \in Caller : claim[t] = c /\ on[c] = t /\ at[c] \in Paid

ClaimInv ==
  /\ ClaimTypeOK
  /\ HolderOwns
  /\ PaidIsHeld
  /\ \A t \in confirmed : claim[t] # NoCaller

\* A confirmed claim is never released, nor handed to another caller.
ConfirmedStays ==
  [][\A t \in confirmed : t \in confirmed' /\ claim'[t] = claim[t]]_claimVars
=============================================================================
