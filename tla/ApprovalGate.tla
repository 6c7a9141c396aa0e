---------------------------- MODULE ApprovalGate ----------------------------
(***************************************************************************)
(* The ROOT approval gate of aura/root/approval.py.  Every operation is one *)
(* critical section of the gate's RLock.  Requests are numbered in the     *)
(* order they are created; requests 1..aged are older than the ttl.        *)
(***************************************************************************)
EXTENDS Integers, FiniteSets

CONSTANTS
  Artefact,      \* the artefacts approval may be requested for
  NoArtefact,    \* the artefact of a request not made yet
  MaxRequests,   \* bound on the requests ever made
  MaxPending,    \* max_pending
  Expires        \* ttl_seconds > 0

ASSUME GateAssumption == /\ NoArtefact \notin Artefact
                         /\ MaxRequests \in Nat /\ MaxPending \in Nat
                         /\ Expires \in BOOLEAN

VARIABLES
  auto,          \* auto_approve (CI mode), fixed when the gate is created
  issued,        \* how many requests exist: self._requests has keys 1..issued
  aged,          \* how many of them are older than the ttl
  artefactOf,    \* ApprovalRequest.artefact_id
  status,        \* ApprovalRequest.status
  token          \* the requests that carry a deploy_token

gateVars == <<auto, issued, aged, artefactOf, status, token>>

Request == 1..MaxRequests
Decided == {"approved", "rejected", "expired"}

GateInit ==
  /\ auto \in BOOLEAN /\ issued = 0 /\ aged = 0 /\ token = {}
  /\ artefactOf = [r \in Request |-> NoArtefact]
  /\ status = [r \in Request |-> "none"]

Pending == {r \in Request : status[r] = "pending"}
\* Stale requests count as pending until somebody looks at them.
Full == Cardinality(Pending) >= MaxPending

\* Mutant of MakeRequest: auto_approve is ignored.
MakeRequestNeverAuto(a) ==
  /\ ~Full /\ issued < MaxRequests
  /\ issued' = issued + 1
  /\ artefactOf' = [artefactOf EXCEPT ![issued'] = a]
  /\ status' = [status EXCEPT ![issued'] = "pending"]
  /\ UNCHANGED <<auto, aged, token>>

\* request(): the caller gets request number issued'.
MakeRequest(a) ==
  /\ ~Full /\ issued < MaxRequests
  /\ issued' = issued + 1
  /\ artefactOf' = [artefactOf EXCEPT ![issued'] = a]
  /\ status' = [status EXCEPT ![issued'] = IF auto THEN "approved" ELSE "pending"]
  /\ token' = IF auto THEN token \cup {issued'} ELSE token
  /\ UNCHANGED <<auto, aged>>

\* approve() and reject() look at the status only, not at the age.
Approve(r) ==
  /\ r \in Pending
  /\ status' = [status EXCEPT ![r] = "approved"]
  /\ token' = token \cup {r}
  /\ UNCHANGED <<auto, issued, aged, artefactOf>>

\* Mutant of Reject: the status is not checked.
RejectAny(r) ==
  /\ status[r] # "none"
  /\ status' = [status EXCEPT ![r] = "rejected"]
  /\ token' = token \ {r}
  /\ UNCHANGED <<auto, issued, aged, artefactOf>>

Reject(r) ==
  /\ r \in Pending
  /\ status' = [status EXCEPT ![r] = "rejected"]
  /\ UNCHANGED <<auto, issued, aged, artefactOf, token>>

Stale(r) == Expires /\ r <= aged

\* Mutant of Get: _maybe_expire does not look at the status.
GetExpiresAny(r) ==
  /\ Stale(r)
  /\ status' = [status EXCEPT ![r] = "expired"]
  /\ UNCHANGED <<auto, issued, aged, artefactOf, token>>

\* get(): expires the request it returns.
Get(r) ==
  /\ r \in Pending /\ Stale(r)
  /\ status' = [status EXCEPT ![r] = "expired"]
  /\ UNCHANGED <<auto, issued, aged, artefactOf, token>>

\* list_requests(): expires every stale request.
ListRequests ==
  /\ \E r \in Pending : Stale(r)
  /\ status' = [r \in Request |-> IF r \in Pending /\ Stale(r)
                                  THEN "expired" ELSE status[r]]
  /\ UNCHANGED <<auto, issued, aged, artefactOf, token>>

\* Time passes: the oldest young request becomes older than the ttl.
Age ==
  /\ aged < issued
  /\ aged' = aged + 1
  /\ UNCHANGED <<auto, issued, artefactOf, status, token>>

\* What operators and time do, as opposed to submitters.
GateOperation == \/ \E r \in Request : Approve(r) \/ Reject(r) \/ Get(r)
                 \/ ListRequests \/ Age

GateTypeOK ==
  /\ auto \in BOOLEAN /\ issued \in 0..MaxRequests /\ aged \in 0..issued
  /\ artefactOf \in [Request -> Artefact \cup {NoArtefact}]
  /\ status \in [Request -> {"none", "pending"} \cup Decided]
  /\ token \subseteq Request

\* A request carries a deploy token exactly when it was approved, so a
\* rejected or expired request never yields one.
TokenIffApproved == \A r \in Request : r \in token <=> status[r] = "approved"
=============================================================================
