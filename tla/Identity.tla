------------------------------ MODULE Identity ------------------------------
(***************************************************************************)
(* Identity tokens (aura/identity/crypto.py, registry.py) and login        *)
(* sessions (session.py).  The stores are under locks; the flags of a      *)
(* token or a session are read after the lock has been released, so a look *)
(* that answers has several steps, and revocation may come between.        *)
(***************************************************************************)
EXTENDS Integers, FiniteSets

CONSTANTS
  Token,      \* identity ids
  Session,    \* session ids
  Verifier,   \* threads that verify tokens or look sessions up
  NoLook      \* a thread that does neither

ASSUME IdentityAssumption == IsFiniteSet(Token)

VARIABLES
  issued,     \* IdentityRegistry._tokens: the ids
  eternal,    \* tokens issued without a ttl, or with a ttl of 0
  revoked,    \* tokens whose flag is set
  expired,    \* tokens whose time has passed
  altered,    \* tokens whose metadata, the issuer's own dictionary, changed
  session,    \* SessionManager._sessions: the ids
  inactive,   \* sessions that were invalidated
  over,       \* sessions whose time has passed
  look,       \* per thread: the call in progress
  truth       \* history, per thread: whether its call began on something good

tokenVars   == <<issued, eternal, revoked, expired, altered>>
sessionVars == <<session, inactive, over>>
identityVars == <<tokenVars, sessionVars, look, truth>>

GoodToken(t) == t \in issued \ (revoked \cup expired \cup altered)
GoodSession(s) == s \in session \ (inactive \cup over)

IdentityInit ==
  /\ issued = {} /\ eternal = {} /\ revoked = {} /\ expired = {} /\ altered = {}
  /\ session = {} /\ inactive = {} /\ over = {}
  /\ look = [v \in Verifier |-> NoLook] /\ truth = [v \in Verifier |-> FALSE]

-----------------------------------------------------------------------------
(* Tokens. *)

\* A ttl of 0 is no ttl.
IssueToken(t, ttl) ==
  /\ t \notin issued
  /\ issued' = issued \cup {t}
  /\ eternal' = IF ttl = 0 THEN eternal \cup {t} ELSE eternal
  /\ UNCHANGED <<revoked, expired, altered, sessionVars, look, truth>>

Revoke(t) ==
  /\ t \in issued /\ revoked' = revoked \cup {t}
  /\ UNCHANGED <<issued, eternal, expired, altered, sessionVars, look, truth>>

TokenExpires(t) ==
  /\ t \in issued \ (eternal \cup expired) /\ expired' = expired \cup {t}
  /\ UNCHANGED <<issued, eternal, revoked, altered, sessionVars, look, truth>>

\* issue() keeps the caller's metadata by reference, and it is signed.
AlterMetadata(t) ==
  /\ t \in issued \ altered /\ altered' = altered \cup {t}
  /\ UNCHANGED <<issued, eternal, revoked, expired, sessionVars, look, truth>>

Goes(v, step) == /\ look' = [look EXCEPT ![v] = step]
                 /\ UNCHANGED <<tokenVars, sessionVars, truth>>
Finds(v, id, step, good) ==
  /\ look' = [look EXCEPT ![v] = [id |-> id, at |-> step]]
  /\ truth' = [truth EXCEPT ![v] = good]
  /\ UNCHANGED <<tokenVars, sessionVars>>
Becomes(v, found) == Goes(v, [look[v] EXCEPT !.at = IF found THEN "yes" ELSE "no"])

\* verify(id): the registry's lookup, ...
VerifyBegin(v, t) ==
  /\ look[v] = NoLook
  /\ Finds(v, t, IF t \in issued THEN "revoked?" ELSE "no", GoodToken(t))

\* Mutant of VerifyRevoked: only the time is looked at.
VerifyRevokedSkip(v) ==
  /\ look[v].at = "revoked?" /\ Goes(v, [look[v] EXCEPT !.at = "expired?"])

\* ... the flag, ...
VerifyRevoked(v) ==
  /\ look[v].at = "revoked?"
  /\ Goes(v, [look[v] EXCEPT !.at = IF look[v].id \in revoked THEN "no" ELSE "expired?"])

\* ... the time and the signature, of the payload as it is now.
VerifyRest(v) ==
  /\ look[v].at = "expired?" /\ Becomes(v, look[v].id \notin expired \cup altered)

\* What metrics() reports as active: a token that was revoked and has expired
\* is subtracted twice.
ReportedActive == Cardinality(issued) - Cardinality(revoked) - Cardinality(expired)

-----------------------------------------------------------------------------
(* Sessions. *)

CreateSession(s) ==
  /\ s \notin session \cup inactive \cup over /\ session' = session \cup {s}
  /\ UNCHANGED <<tokenVars, inactive, over, look, truth>>

Invalidate(s) ==
  /\ s \in session \ inactive /\ inactive' = inactive \cup {s}
  /\ UNCHANGED <<tokenVars, session, over, look, truth>>

SessionExpires(s) ==
  /\ s \in session \ over /\ over' = over \cup {s}
  /\ UNCHANGED <<tokenVars, session, inactive, look, truth>>

\* Mutant of Cleanup: only what has expired goes, but so does its flag.
CleanupForgets ==
  /\ session' = session \ over /\ inactive' = inactive \cap over
  /\ UNCHANGED <<tokenVars, over, look, truth>>

Cleanup ==
  /\ session' = session \ (inactive \cup over)
  /\ UNCHANGED <<tokenVars, inactive, over, look, truth>>

\* get(id): the lookup under the lock, the flags after it.
GetBegin(v, s) ==
  /\ look[v] = NoLook
  /\ Finds(v, s, IF s \in session THEN "active?" ELSE "no", GoodSession(s))
GetEnd(v) ==
  /\ look[v].at = "active?" /\ Becomes(v, look[v].id \notin inactive \cup over)

Return(v) == look[v].at \in {"yes", "no"} /\ Goes(v, NoLook)

IdentityNext ==
  \/ \E t \in Token : \/ \E ttl \in {0, 1} : IssueToken(t, ttl)
                      \/ Revoke(t) \/ TokenExpires(t) \/ AlterMetadata(t)
  \/ \E s \in Session : CreateSession(s) \/ Invalidate(s) \/ SessionExpires(s)
  \/ Cleanup
  \/ \E v \in Verifier : \/ \E t \in Token : VerifyBegin(v, t)
                         \/ \E s \in Session : GetBegin(v, s)
                         \/ /\ look[v] # NoLook
                            /\ VerifyRevoked(v) \/ VerifyRest(v) \/ GetEnd(v) \/ Return(v)

-----------------------------------------------------------------------------
(* Properties. *)

IdentityTypeOK ==
  /\ issued \subseteq Token /\ revoked \cup expired \cup altered \cup eternal \subseteq issued
  /\ session \subseteq Session /\ inactive \cup over \subseteq Session
  /\ expired \cap eternal = {}

\* A look that began after its token was revoked, had expired or no longer
\* matched its signature, or after its session had ended, never says yes,
\* whatever other threads do meanwhile; one that began before may.
TokensHonoured ==
  \A v \in Verifier : look[v] # NoLook /\ look[v].at = "yes" => truth[v]

\* A revocation, an expiry and the end of a session are final.
EndsAreFinal ==
  [][/\ \A t \in issued : ~GoodToken(t) => ~GoodToken(t)'
     /\ \A s \in Session : s \in inactive \cup over => ~GoodSession(s)']_identityVars

\* metrics() never reports more active tokens than there are.
ActiveNotOverstated ==
  ReportedActive <= Cardinality(issued \ (revoked \cup expired))
=============================================================================
