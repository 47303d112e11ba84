--------------------------- MODULE RequestPipeline ----------------------------
(***************************************************************************)
(* What an HTTP request passes through: the key check, the tenant check,   *)
(* validation and a handler, here those of the workflow routes, which call *)
(* their repository directly; and the tenant service with its tables.      *)
(* Each awaited statement is one action.  Operators revoke keys and        *)
(* deactivate tenants meanwhile, and the clock moves.  What a request      *)
(* carries is chosen at the step that first looks at it.                   *)
(***************************************************************************)
EXTENDS Integers, FiniteSets

CONSTANTS Requests, Tenants, Keys, Workflows,  \* ids
          Slugs,
          MaxTime,    \* bound on the clock
          Failures,   \* whether statements may fail and processes may die
          Earlier,    \* who wrote what is there at the start
          Never,      \* no instant: expires_at is null
          Absent      \* no row, no header, no field

Instants == Nat \union {Never}
TenantRow == [slug: Slugs, active: BOOLEAN]
(* No foreign key binds the tenant_id of a key: Absent is any id that is   *)
(* no tenant's.                                                            *)
KeyRow == [tenant: Tenants \union {Absent}, active: BOOLEAN, expires: Instants]
Writers == Requests \union {Earlier}
WorkflowRow == [tenant: Tenants, by: Writers]

ASSUME ConstantsAssumption ==
  /\ MaxTime \in Nat
  /\ Failures \in BOOLEAN
  /\ Earlier \notin Requests
  /\ Never \notin Int
  /\ Absent \notin Tenants \union Keys \union Workflows \union Slugs
  /\ Absent \notin TenantRow \union KeyRow \union WorkflowRow

VARIABLES
  now,       \* the clock
  tenant,    \* table Tenant
  apiKey,    \* table ApiKey
  workflow,  \* table Workflow: whose it is and who wrote it last
  pc,        \* per request
  slug,      \* of a creation of a tenant
  key, of,   \* the key and the tenant of the headers
  cutoff,    \* the instant the key check compares expiries with
  status,    \* the status code of the answer, 0 before
  inForce    \* history: which of its key and tenant were active at some
             \* moment since the request arrived

tables == <<tenant, apiKey, workflow>>
headers == <<slug, key, of, cutoff>>
vars == <<now, tables, pc, headers, status, inForce>>

Statements == {"lookup", "insert", "key", "tenant", "handle"}
InFlight(r) == pc[r] \in Statements
Answered(r) == pc[r] = "answered"

(* Operators named Bad... are slips this code could have made; nothing     *)
(* uses them, each breaks some property below.                             *)
BadAccepts(k, t) ==                       \* is_active not asked for
  apiKey[k] # Absent /\ (apiKey[k].expires = Never \/ apiKey[k].expires > t)
(* The where clause: the hash names the key; is_active, and expires_at     *)
(* null or gt the instant.  The tenant of the key is not in it.            *)
Accepts(k, t) ==
  /\ apiKey[k] # Absent /\ apiKey[k].active
  /\ apiKey[k].expires = Never \/ apiKey[k].expires > t
(* validateTenant *)
Serves(t) == tenant[t] # Absent /\ tenant[t].active

(* The keys and tenants that tables K and T say are active.                *)
Active(K, T) == {k \in Keys : K[k] # Absent /\ K[k].active}
                  \union {t \in Tenants : T[t] # Absent /\ T[t].active}
Observe(K, T) ==
  inForce' = [q \in Requests |->
    IF InFlight(q) THEN inForce[q] \union (Active(K, T) \intersect {key[q], of[q]})
    ELSE inForce[q]]

(* The tenant ids a key can be given: nothing checks the one it gets.      *)
Owners == {t \in Tenants : tenant[t] # Absent} \union {Absent}

SlugTaken(s) == \E t \in Tenants : tenant[t] # Absent /\ tenant[t].slug = s

Init ==
  /\ now = 0
  /\ tenant \in [Tenants -> TenantRow \union {Absent}]
  /\ \A t, u \in Tenants : t # u /\ tenant[t] # Absent /\ tenant[u] # Absent
       => tenant[t].slug # tenant[u].slug
  /\ apiKey \in [Keys -> {Absent} \union
       [tenant: Owners, active: BOOLEAN, expires: (0..MaxTime) \union {Never}]]
  /\ workflow \in [Workflows -> {Absent} \union
                     [tenant: {t \in Tenants : tenant[t] # Absent}, by: {Earlier}]]
  /\ pc = [r \in Requests |-> "idle"]
  /\ slug = [r \in Requests |-> Absent]
  /\ key = [r \in Requests |-> Absent]
  /\ of = [r \in Requests |-> Absent]
  /\ cutoff = [r \in Requests |-> Never]
  /\ status = [r \in Requests |-> 0]
  /\ inForce = [r \in Requests |-> {}]

----------------------------------------------------------------------------
Reply(r, code) ==
  /\ pc' = [pc EXCEPT ![r] = "answered"]
  /\ status' = [status EXCEPT ![r] = code]
Goto(r, label) == pc' = [pc EXCEPT ![r] = label] /\ UNCHANGED status
(* The statement took effect and its answer arrives, or is lost: the catch *)
(* of the handler answers as for a statement that failed.                  *)
ReplyOrLose(r, code, error) ==
  Reply(r, code) \/ (Failures /\ Reply(r, error))

(* POST /tenants; the ids are a bound. *)
ArriveCreate(r) ==
  /\ pc[r] = "idle"
  /\ Cardinality({q \in Requests : slug[q] # Absent /\ InFlight(q)})
       < Cardinality({t \in Tenants : tenant[t] = Absent})
  /\ \E s \in Slugs : slug' = [slug EXCEPT ![r] = s]
  /\ Goto(r, "lookup")
  /\ UNCHANGED <<now, tables, key, of, cutoff, inForce>>

(* The other routes.  authMiddleware takes its instant before it awaits.   *)
Arrive(r) ==
  /\ pc[r] = "idle"
  /\ \E k \in Keys \union {Absent}, t \in Tenants \union {Absent} :
       /\ key' = [key EXCEPT ![r] = k]
       /\ of' = [of EXCEPT ![r] = t]
       /\ inForce' = [inForce EXCEPT ![r] = Active(apiKey, tenant) \intersect {k, t}]
       /\ IF k = Absent THEN Reply(r, 401) ELSE Goto(r, "key")
  /\ cutoff' = [cutoff EXCEPT ![r] = now]
  /\ UNCHANGED <<now, tables, slug>>

(* createTenant looks the slug up, then inserts.                           *)
Lookup(r) ==
  /\ pc[r] = "lookup"
  /\ IF SlugTaken(slug[r]) THEN Reply(r, 400) ELSE Goto(r, "insert")
  /\ UNCHANGED <<now, tables, headers, inForce>>

BadUnique(s) == FALSE                     \* no unique index
Unique(s) == SlugTaken(s)
InsertTenant(r) ==
  /\ pc[r] = "insert"
  /\ IF Unique(slug[r])
     THEN Reply(r, 400) /\ UNCHANGED <<tenant, inForce>>
     ELSE \E t \in {u \in Tenants : tenant[u] = Absent} :
            LET T == [tenant EXCEPT ![t] = [slug |-> slug[r], active |-> TRUE]]
            IN  tenant' = T /\ Observe(apiKey, T) /\ ReplyOrLose(r, 201, 400)
  /\ UNCHANGED <<now, apiKey, workflow, headers>>

(* authMiddleware, before the tenant check; nothing later looks at the     *)
(* tenant of the key it found.  The update of last_used_at that it starts  *)
(* and does not await is refused by the guard of lib/prisma.ts, for it has *)
(* no tenant_id in its data, and only logged: no table changes.  A missing *)
(* tenant header is seen before any statement of the tenant check.         *)
FindKey(r) ==
  /\ pc[r] = "key"
  /\ IF Accepts(key[r], cutoff[r])
     THEN IF of[r] = Absent THEN Reply(r, 400) ELSE Goto(r, "tenant")
     ELSE Reply(r, 401)
  /\ UNCHANGED <<now, tables, headers, inForce>>

(* validateBody and validateQuery await nothing.                           *)
Validate(r) == Goto(r, "handle") \/ Reply(r, 400)
(* tenantMiddleware *)
FindTenant(r) ==
  /\ pc[r] = "tenant"
  /\ IF Serves(of[r]) THEN Validate(r) ELSE Reply(r, 403)
  /\ UNCHANGED <<now, tables, headers, inForce>>

(* The handlers of the workflow routes, each with its statement on W.      *)
Handle(r) ==
  /\ pc[r] = "handle"
  /\ UNCHANGED <<now, tenant, apiKey, headers, inForce>>
Own(r, w) == workflow[w] # Absent /\ workflow[w].tenant = of[r]

CreateWorkflow(r) ==
  /\ Handle(r)
  /\ \E w \in Workflows :
       /\ workflow[w] = Absent
       /\ workflow' = [workflow EXCEPT ![w] = [tenant |-> of[r], by |-> r]]
  /\ ReplyOrLose(r, 201, 500)

ReadWorkflow(r) ==
  /\ Handle(r)
  /\ \E w \in Workflows : Reply(r, IF Own(r, w) THEN 200 ELSE 404)
  /\ UNCHANGED workflow

(* PATCH hands its body on as it is: a tenant_id in it is overridden, an   *)
(* id renames the row unless it is taken, and then the row read back is    *)
(* not found.                                                              *)
BadOwner(r, body) == body                 \* the one of the body, if any
Owner(r, body) == of[r]
UpdateWorkflow(r) ==
  /\ Handle(r)
  /\ \E w \in Workflows, body \in Tenants \union {Absent},
        id \in Workflows \union {Absent} :
       LET to == IF id = Absent THEN w ELSE id
           row == [tenant |-> Owner(r, body), by |-> r]
       IN  IF Own(r, w) /\ (to = w \/ workflow[to] = Absent)
           THEN /\ workflow' = [workflow EXCEPT ![w] = Absent, ![to] = row]
                /\ IF to = w THEN ReplyOrLose(r, 200, 500) ELSE Reply(r, 500)
           ELSE UNCHANGED workflow /\ Reply(r, 500)

DeleteWorkflow(r) ==
  /\ Handle(r)
  /\ \E w \in Workflows :
       workflow' = IF Own(r, w) THEN [workflow EXCEPT ![w] = Absent] ELSE workflow
  /\ ReplyOrLose(r, 204, 500)

(* A statement is refused: each catch answers, that of validateTenant as   *)
(* if the tenant were not there.                                           *)
ErrorOf == [lookup |-> 400, insert |-> 400, key |-> 500, tenant |-> 403,
            handle |-> 500]
Fail(r) ==
  /\ Failures
  /\ InFlight(r)
  /\ Reply(r, ErrorOf[pc[r]])
  /\ UNCHANGED <<now, tables, headers, inForce>>

(* The server process ends. *)
Crash ==
  /\ Failures
  /\ \E r \in Requests : InFlight(r)
  /\ pc' = [r \in Requests |-> IF InFlight(r) THEN "lost" ELSE pc[r]]
  /\ UNCHANGED <<now, tables, headers, status, inForce>>

(* generateApiKey: a service call no route makes.                          *)
GenerateApiKey(k) ==
  /\ apiKey[k] = Absent
  /\ \E t \in Owners, e \in (0..MaxTime) \union {Never} :
       LET K == [apiKey EXCEPT
                   ![k] = [tenant |-> t, active |-> TRUE, expires |-> e]]
       IN  apiKey' = K /\ Observe(K, tenant)
  /\ UNCHANGED <<now, tenant, workflow, pc, headers, status>>

(* Operators set is_active and isActive; no code here does.                *)
SwitchKey(k) ==
  /\ apiKey[k] # Absent
  /\ LET K == [apiKey EXCEPT ![k].active = ~@]
     IN  apiKey' = K /\ Observe(K, tenant)
  /\ UNCHANGED <<now, tenant, workflow, pc, headers, status>>
SwitchTenant(t) ==
  /\ tenant[t] # Absent
  /\ LET T == [tenant EXCEPT ![t].active = ~@]
     IN  tenant' = T /\ Observe(apiKey, T)
  /\ UNCHANGED <<now, apiKey, workflow, pc, headers, status>>

Tick ==
  /\ now < MaxTime
  /\ now' = now + 1
  /\ UNCHANGED <<tables, pc, headers, status, inForce>>

Step(r) ==
  \/ Lookup(r) \/ InsertTenant(r) \/ FindKey(r) \/ FindTenant(r)
  \/ CreateWorkflow(r) \/ ReadWorkflow(r) \/ UpdateWorkflow(r)
  \/ DeleteWorkflow(r) \/ Fail(r)

Next ==
  \/ \E r \in Requests : ArriveCreate(r) \/ Arrive(r) \/ Step(r)
  \/ \E k \in Keys : GenerateApiKey(k) \/ SwitchKey(k)
  \/ \E t \in Tenants : SwitchTenant(t)
  \/ Crash \/ Tick

Spec == Init /\ [][Next]_vars

----------------------------------------------------------------------------
(* Tables, requests and histories keep their types. *)
TypeOK ==
  /\ now \in Nat
  /\ tenant \in [Tenants -> TenantRow \union {Absent}]
  /\ apiKey \in [Keys -> KeyRow \union {Absent}]
  /\ workflow \in [Workflows -> WorkflowRow \union {Absent}]
  /\ pc \in [Requests -> Statements \union {"idle", "answered", "lost"}]
  /\ slug \in [Requests -> Slugs \union {Absent}]
  /\ key \in [Requests -> Keys \union {Absent}]
  /\ of \in [Requests -> Tenants \union {Absent}]
  /\ cutoff \in [Requests -> Instants]
  /\ status \in [Requests -> {0, 200, 201, 204, 400, 401, 403, 404, 500}]
  /\ inForce \in [Requests -> SUBSET (Keys \union Tenants)]

(* However creations race, no two are told 201 for one slug, and one that  *)
(* is told so has left a tenant with it.                                   *)
SlugsAreOwned ==
  /\ \A r, q \in Requests :
       r # q /\ slug[r] # Absent /\ status[r] = 201 /\ status[q] = 201 =>
         slug[r] # slug[q]
  /\ \A r \in Requests : slug[r] # Absent /\ status[r] = 201 => SlugTaken(slug[r])

(* A request reaches its handler only with a key and a tenant that have    *)
(* each been active at some moment since it arrived, and a key that had    *)
(* not expired when it did: what was revoked, expired or deactivated       *)
(* before a request came does not serve it.  That the key is one of that   *)
(* tenant is another matter: see KeysAdmitOwnTenant.                       *)
AdmittedWasInForce ==
  \A r \in Requests : pc[r] = "handle" =>
    /\ {key[r], of[r]} \subseteq inForce[r]
    /\ apiKey[key[r]].expires # Never => cutoff[r] < apiKey[key[r]].expires

(* The repository keeps the workflows of tenants apart: one is created,    *)
(* changed, renamed or deleted only by a request whose tenant header names *)
(* its tenant, and stays that tenant's, whatever the body says.  Whose the *)
(* key of that request is plays no part.                                   *)
WritesFollowTenantHeader ==
  [][\A w \in Workflows : workflow'[w] # workflow[w] =>
       \E r \in Requests :
         /\ pc[r] = "handle" /\ pc'[r] # "handle"
         /\ workflow[w] # Absent => workflow[w].tenant = of[r]
         /\ workflow'[w] # Absent => workflow'[w].tenant = of[r]]_vars

----------------------------------------------------------------------------
(* What the documents say of this code and it does not do.                 *)

(* auth.middleware.ts: it "scopes key lookup to the tenant", so that a key *)
(* generated for a tenant has requests handled for that tenant alone.      *)
KeysAdmitOwnTenant ==
  \A r \in Requests :
    pc[r] = "handle" => apiKey[key[r]].tenant \in {of[r], Absent}

============================================================================
