----------------------------- MODULE SlugRegistry -----------------------------
(***************************************************************************)
(* What createTenant promises about slugs, without its lookup, its insert  *)
(* and its index: each creation is decided in one step.  A slug that is    *)
(* free is taken, for good and for one creation, which is told so unless   *)
(* its answer is lost; whoever is refused has taken nothing.               *)
(***************************************************************************)
CONSTANTS Requests, Slugs,
          None,     \* no slug: a request that creates no tenant
          Failures  \* whether answers may be lost and creations fail

VARIABLES claim,    \* the slug a creation asks for
          taken,    \* the slugs that have a tenant
          outcome   \* "open", "granted", "refused", or "lost" with the server

vars == <<claim, taken, outcome>>

Outcomes == {"open", "granted", "refused", "lost"}
Creations == {r \in Requests : claim[r] # None}
Open(r) == r \in Creations /\ outcome[r] = "open"

Init ==
  /\ claim = [r \in Requests |-> None]
  /\ taken \in SUBSET Slugs
  /\ outcome = [r \in Requests |-> "open"]

Ask(r) ==
  /\ claim[r] = None
  /\ \E s \in Slugs : claim' = [claim EXCEPT ![r] = s]
  /\ UNCHANGED <<taken, outcome>>

Decide(r, o) == outcome' = [outcome EXCEPT ![r] = o]

(* The slug is taken, though an answer may be lost on its way.             *)
Grant(r) ==
  /\ Open(r)
  /\ claim[r] \notin taken
  /\ taken' = taken \union {claim[r]}
  /\ Decide(r, "granted") \/ (Failures /\ Decide(r, "refused"))
  /\ UNCHANGED claim

Refuse(r) ==
  /\ Open(r)
  /\ claim[r] \in taken \/ Failures
  /\ Decide(r, "refused")
  /\ UNCHANGED <<claim, taken>>

(* The server process ends. *)
Abandon ==
  /\ Failures
  /\ \E r \in Requests : Open(r)
  /\ outcome' = [r \in Requests |-> IF Open(r) THEN "lost" ELSE outcome[r]]
  /\ UNCHANGED <<claim, taken>>

Next ==
  \/ \E r \in Requests : Ask(r) \/ Grant(r) \/ Refuse(r)
  \/ Abandon

Spec == Init /\ [][Next]_vars

============================================================================
