------------------------ MODULE RequestPipeline_proofs ------------------------
(* Proofs about RequestPipeline, for any number of requests, tenants,      *)
(* keys, workflows and slugs and any bound on the clock.                   *)
EXTENDS RequestPipeline, TLAPS

(* What a request that waits for a statement carries; that only an answer  *)
(* sets the status.                                                        *)
Checked == {"key", "tenant", "handle"}
PcInv ==
  \A r \in Requests :
    /\ pc[r] # "answered" => status[r] = 0
    /\ pc[r] = "idle" => slug[r] = Absent
    /\ pc[r] \in {"lookup", "insert"} => slug[r] \in Slugs
    /\ pc[r] \in Checked => slug[r] = Absent /\ key[r] \in Keys
    /\ pc[r] \in {"tenant", "handle"} => of[r] \in Tenants

(* What is active now has been since the request arrived, and the checks a *)
(* request has passed hold of what it carries.  None is about whose the    *)
(* key is.                                                                 *)
ActiveOf(r) == Active(apiKey, tenant) \intersect {key[r], of[r]}
KeyPassed(r) ==
  /\ key[r] \in inForce[r]
  /\ apiKey[key[r]] # Absent
  /\ apiKey[key[r]].expires # Never => cutoff[r] < apiKey[key[r]].expires
AdmissionInv ==
  \A r \in Requests :
    /\ pc[r] \in Checked => ActiveOf(r) \subseteq inForce[r]
    /\ pc[r] \in {"tenant", "handle"} => KeyPassed(r)
    /\ pc[r] = "handle" => of[r] \in inForce[r]

Inv == TypeOK /\ PcInv /\ AdmissionInv /\ SlugsAreOwned

LEMMA InitInv == Init => Inv
<1> SUFFICES ASSUME Init PROVE Inv
  OBVIOUS
<1> USE ConstantsAssumption DEF Init
<1>1. TypeOK
  <2>1. apiKey \in [Keys -> KeyRow \union {Absent}]
    BY DEF KeyRow, Instants, Owners
  <2>2. workflow \in [Workflows -> WorkflowRow \union {Absent}]
    BY DEF WorkflowRow, Writers
  <2> QED BY <2>1, <2>2 DEF TypeOK, Instants
<1>2. PcInv /\ AdmissionInv /\ SlugsAreOwned
  BY DEF PcInv, AdmissionInv, SlugsAreOwned, Checked
<1> QED BY <1>1, <1>2 DEF Inv

----------------------------------------------------------------------------
(* A step of one request that leaves the tenants and the keys alone.       *)
Private(r) ==
  /\ UNCHANGED <<now, tenant, apiKey>>
  /\ \A q \in Requests \ {r} :
       /\ pc'[q] = pc[q] /\ slug'[q] = slug[q] /\ key'[q] = key[q]
       /\ of'[q] = of[q] /\ cutoff'[q] = cutoff[q] /\ status'[q] = status[q]
       /\ inForce'[q] = inForce[q]

LEMMA PrivateKeeps ==
  ASSUME Inv, TypeOK', NEW r \in Requests, Private(r), pc[r] # "answered",
         /\ pc'[r] # "answered" => status'[r] = 0
         /\ pc'[r] = "idle" => slug'[r] = Absent
         /\ pc'[r] \in {"lookup", "insert"} => slug'[r] \in Slugs
         /\ pc'[r] \in Checked => slug'[r] = Absent /\ key'[r] \in Keys
         /\ pc'[r] \in {"tenant", "handle"} => of'[r] \in Tenants,
         /\ pc'[r] \in Checked => ActiveOf(r)' \subseteq inForce'[r]
         /\ pc'[r] \in {"tenant", "handle"} => KeyPassed(r)'
         /\ pc'[r] = "handle" => of'[r] \in inForce'[r],
         slug'[r] # Absent => status'[r] # 201
  PROVE  Inv'
<1> USE DEF Inv, Private
<1>1. PcInv'
  BY DEF PcInv
<1>2. AdmissionInv'
  <2>1. Active(apiKey, tenant)' = Active(apiKey, tenant)
    BY DEF Active
  <2> QED BY <2>1 DEF AdmissionInv, KeyPassed, ActiveOf
<1>3. SlugsAreOwned'
  BY DEF SlugsAreOwned, SlugTaken
<1> QED BY <1>1, <1>2, <1>3

(* An answer other than 201 to a creation ends a request quietly.          *)
LEMMA ReplyKeeps ==
  ASSUME Inv, NEW r \in Requests, pc[r] \in Statements,
         NEW code \in {0, 200, 201, 204, 400, 401, 403, 404, 500},
         Reply(r, code), slug[r] # Absent => code # 201,
         UNCHANGED <<now, tenant, apiKey, headers, inForce>>,
         workflow' \in [Workflows -> WorkflowRow \union {Absent}]
  PROVE  Inv'
<1>1. TypeOK'
  BY DEF Inv, TypeOK, Reply, headers
<1>2. /\ Private(r) /\ pc'[r] = "answered" /\ status'[r] = code
      /\ slug'[r] = slug[r] /\ pc[r] # "answered"
  BY DEF Inv, TypeOK, Reply, Private, headers, Statements
<1> QED BY <1>1, <1>2, PrivateKeeps DEF Checked

LEMMA ArriveKeeps ==
  ASSUME Inv, NEW r \in Requests, ArriveCreate(r) \/ Arrive(r)
  PROVE  Inv'
<1> USE DEF Inv
<1>1. CASE ArriveCreate(r)
  <2>1. PICK s \in Slugs : slug' = [slug EXCEPT ![r] = s]
    BY <1>1 DEF ArriveCreate
  <2>2. TypeOK'
    BY <1>1, <2>1 DEF ArriveCreate, TypeOK, tables, Goto, Statements
  <2>3. /\ Private(r) /\ pc[r] = "idle" /\ pc'[r] = "lookup" /\ slug'[r] = s
        /\ status'[r] = 0
    BY <1>1, <2>1 DEF ArriveCreate, Private, TypeOK, tables, Goto, PcInv
  <2> QED BY <2>2, <2>3, PrivateKeeps DEF Checked
<1>2. CASE Arrive(r)
  <2>1. PICK k \in Keys \union {Absent}, t \in Tenants \union {Absent} :
          /\ key' = [key EXCEPT ![r] = k]
          /\ of' = [of EXCEPT ![r] = t]
          /\ inForce' = [inForce EXCEPT ![r] =
                            Active(apiKey, tenant) \intersect {k, t}]
          /\ IF k = Absent THEN Reply(r, 401) ELSE Goto(r, "key")
    BY <1>2 DEF Arrive
  <2>2. Active(apiKey, tenant) \in SUBSET (Keys \union Tenants)
    BY DEF Active
  <2>3. TypeOK'
    BY <1>2, <2>1, <2>2
       DEF Arrive, TypeOK, tables, Goto, Reply, Statements, Instants
  <2>4. /\ Private(r) /\ pc[r] = "idle" /\ slug'[r] = Absent
        /\ key'[r] = k /\ of'[r] = t /\ status'[r] # 201
        /\ inForce'[r] = Active(apiKey, tenant) \intersect {k, t}
        /\ \/ pc'[r] = "answered"
           \/ pc'[r] = "key" /\ key'[r] \in Keys /\ status'[r] = 0
    BY <1>2, <2>1 DEF Arrive, Private, TypeOK, tables, Goto, Reply, PcInv
  <2>5. inForce'[r] = ActiveOf(r)'
    BY <2>4 DEF ActiveOf, Active, Private
  <2> QED BY <2>3, <2>4, <2>5, PrivateKeeps DEF Checked
<1> QED BY <1>1, <1>2

LEMMA LookupKeeps ==
  ASSUME Inv, NEW r \in Requests, Lookup(r)
  PROVE  Inv'
<1>1. CASE Reply(r, 400)
  BY <1>1, ReplyKeeps DEF Lookup, tables, Inv, TypeOK, Statements
<1>2. CASE Goto(r, "insert")
  <2>1. TypeOK'
    BY <1>2 DEF Lookup, Inv, TypeOK, tables, headers, Goto, Statements
  <2>2. /\ Private(r) /\ pc[r] = "lookup" /\ pc'[r] = "insert"
        /\ slug'[r] \in Slugs /\ status'[r] = 0
    BY <1>2 DEF Lookup, Private, Inv, TypeOK, PcInv, tables, headers, Goto
  <2> QED BY <2>1, <2>2, PrivateKeeps DEF Checked
<1> QED BY <1>1, <1>2 DEF Lookup

LEMMA FindKeyKeeps ==
  ASSUME Inv, NEW r \in Requests, FindKey(r)
  PROVE  Inv'
<1>1. ASSUME NEW code \in {400, 401}, Reply(r, code) PROVE Inv'
  BY <1>1, ReplyKeeps DEF FindKey, tables, Inv, TypeOK, Statements
<1>2. CASE Accepts(key[r], cutoff[r]) /\ of[r] # Absent /\ Goto(r, "tenant")
  <2>1. TypeOK'
    BY <1>2 DEF FindKey, Inv, TypeOK, tables, headers, Goto, Statements
  <2>2. /\ Private(r) /\ pc[r] = "key" /\ pc'[r] = "tenant"
        /\ UNCHANGED <<slug, key, of, cutoff, status, inForce, apiKey, tenant>>
    BY <1>2 DEF FindKey, Private, Inv, TypeOK, tables, headers, Goto
  <2>3. /\ slug[r] = Absent /\ key[r] \in Keys /\ of[r] \in Tenants
        /\ status[r] = 0 /\ ActiveOf(r) \subseteq inForce[r]
    BY <1>2, <2>2 DEF Inv, TypeOK, PcInv, AdmissionInv, Checked
  <2>4. apiKey[key[r]] # Absent /\ key[r] \in ActiveOf(r)
    BY <1>2, <2>3 DEF Accepts, Active, ActiveOf
  <2>5. apiKey[key[r]].expires # Never => cutoff[r] < apiKey[key[r]].expires
    <3>1. cutoff[r] \in Nat \/ cutoff[r] = Never
      BY DEF Inv, TypeOK, Instants
    <3>2. apiKey[key[r]].expires \in Nat \union {Never}
      BY <2>3, <2>4 DEF Inv, TypeOK, KeyRow, Instants
    <3> QED BY <1>2, <3>1, <3>2 DEF Accepts
  <2>6. KeyPassed(r)'
    BY <2>2, <2>3, <2>4, <2>5 DEF KeyPassed
  <2>7. ActiveOf(r)' = ActiveOf(r)
    BY <2>2 DEF ActiveOf, Active
  <2> QED BY <2>1, <2>2, <2>3, <2>6, <2>7, PrivateKeeps DEF Checked
<1> QED BY <1>1, <1>2 DEF FindKey

LEMMA FindTenantKeeps ==
  ASSUME Inv, NEW r \in Requests, FindTenant(r)
  PROVE  Inv'
<1>1. ASSUME NEW code \in {400, 403}, Reply(r, code) PROVE Inv'
  BY <1>1, ReplyKeeps DEF FindTenant, Validate, tables, Inv, TypeOK, Statements
<1>2. CASE Serves(of[r]) /\ Goto(r, "handle")
  <2>1. TypeOK'
    BY <1>2 DEF FindTenant, Validate, Inv, TypeOK, tables, headers, Goto, Statements
  <2>2. /\ Private(r) /\ pc[r] = "tenant" /\ pc'[r] = "handle"
        /\ UNCHANGED <<slug, key, of, cutoff, status, inForce, apiKey, tenant>>
    BY <1>2 DEF FindTenant, Validate, Private, Inv, TypeOK, tables, headers, Goto
  <2>3. /\ slug[r] = Absent /\ key[r] \in Keys /\ of[r] \in Tenants
        /\ status[r] = 0 /\ ActiveOf(r) \subseteq inForce[r]
        /\ KeyPassed(r)
    BY <1>2, <2>2 DEF Inv, PcInv, AdmissionInv, Checked
  <2>4. of[r] \in inForce[r]
    BY <1>2, <2>3 DEF Serves, Active, ActiveOf
  <2>5. KeyPassed(r)'
    BY <2>2, <2>3 DEF KeyPassed
  <2>6. ActiveOf(r)' = ActiveOf(r)
    BY <2>2 DEF ActiveOf, Active
  <2> QED BY <2>1, <2>2, <2>3, <2>4, <2>5, <2>6, PrivateKeeps DEF Checked
<1> QED BY <1>1, <1>2 DEF FindTenant, Validate

LEMMA HandlersReply ==
  ASSUME NEW r \in Requests,
         CreateWorkflow(r) \/ ReadWorkflow(r) \/ UpdateWorkflow(r)
           \/ DeleteWorkflow(r)
  PROVE  \E code \in {200, 201, 204, 404, 500} : Reply(r, code)
<1>1. CASE CreateWorkflow(r)
  BY <1>1 DEF CreateWorkflow, ReplyOrLose
<1>2. CASE ReadWorkflow(r)
  BY <1>2 DEF ReadWorkflow
<1>3. CASE UpdateWorkflow(r)
  <2>1. Reply(r, 200) \/ Reply(r, 500)
    BY <1>3 DEF UpdateWorkflow, ReplyOrLose
  <2> QED BY <2>1
<1>4. CASE DeleteWorkflow(r)
  BY <1>4 DEF DeleteWorkflow, ReplyOrLose
<1> QED BY <1>1, <1>2, <1>3, <1>4

LEMMA HandlersKeep ==
  ASSUME Inv, NEW r \in Requests,
         CreateWorkflow(r) \/ ReadWorkflow(r) \/ UpdateWorkflow(r)
           \/ DeleteWorkflow(r)
  PROVE  Inv'
<1>1. /\ pc[r] = "handle" /\ slug[r] = Absent /\ of[r] \in Tenants
      /\ UNCHANGED <<now, tenant, apiKey, headers, inForce>>
  BY DEF CreateWorkflow, ReadWorkflow, UpdateWorkflow, DeleteWorkflow, Handle,
         Inv, PcInv, Checked
<1>2. \E code \in {200, 201, 204, 404, 500} : Reply(r, code)
  BY HandlersReply
<1>3. \A body : [tenant |-> Owner(r, body), by |-> r] \in WorkflowRow
  BY <1>1 DEF Owner, WorkflowRow, Writers
<1>4. workflow' \in [Workflows -> WorkflowRow \union {Absent}]
  <2> USE DEF Inv, TypeOK
  <2>1. CASE CreateWorkflow(r)
    BY <1>1, <1>3, <2>1 DEF CreateWorkflow, Owner
  <2>2. CASE ReadWorkflow(r)
    BY <2>2 DEF ReadWorkflow
  <2>3. CASE UpdateWorkflow(r)
    <3>1. CASE UNCHANGED workflow
      BY <3>1
    <3>2. CASE \E w, to \in Workflows, row \in WorkflowRow :
                 workflow' = [workflow EXCEPT ![w] = Absent, ![to] = row]
      BY <3>2
    <3> QED BY <1>3, <2>3, <3>1, <3>2 DEF UpdateWorkflow
  <2>4. CASE DeleteWorkflow(r)
    BY <2>4 DEF DeleteWorkflow
  <2> QED BY <2>1, <2>2, <2>3, <2>4
<1> QED BY <1>1, <1>2, <1>4, ReplyKeeps DEF Statements

LEMMA FailKeeps ==
  ASSUME Inv, NEW r \in Requests, Fail(r)
  PROVE  Inv'
<1>1. pc[r] \in Statements /\ ErrorOf[pc[r]] \in {400, 403, 500}
  BY DEF Fail, InFlight, Statements, ErrorOf
<1> QED BY <1>1, ReplyKeeps DEF Fail, tables, Inv, TypeOK

----------------------------------------------------------------------------
(* A step that changes the tenants or the keys: slugs and expiries of what *)
(* is there stay, and open requests see what becomes active.               *)
Administers ==
  /\ UNCHANGED <<now, workflow, slug, key, of, cutoff>>
  /\ tenant' \in [Tenants -> TenantRow \union {Absent}]
  /\ apiKey' \in [Keys -> KeyRow \union {Absent}]
  /\ \A t \in Tenants : tenant[t] # Absent =>
       tenant'[t] # Absent /\ tenant'[t].slug = tenant[t].slug
  /\ \A k \in Keys : apiKey[k] # Absent =>
       apiKey'[k] # Absent /\ apiKey'[k].expires = apiKey[k].expires
  /\ Observe(apiKey', tenant')

LEMMA AdministersKeeps ==
  ASSUME Inv, Administers
  PROVE  /\ inForce' \in [Requests -> SUBSET (Keys \union Tenants)]
         /\ \A r \in Requests :
              /\ pc[r] \in Checked => ActiveOf(r)' \subseteq inForce'[r]
              /\ pc[r] \in {"tenant", "handle"} => KeyPassed(r)'
              /\ pc[r] = "handle" => of[r] \in inForce'[r]
         /\ \A s : SlugTaken(s) => SlugTaken(s)'
<1> USE DEF Inv, TypeOK, Administers
<1>1. inForce' \in [Requests -> SUBSET (Keys \union Tenants)]
  BY DEF Observe, Active
<1>2. ASSUME NEW r \in Requests
      PROVE  /\ pc[r] \in Checked => ActiveOf(r)' \subseteq inForce'[r]
             /\ pc[r] \in {"tenant", "handle"} => KeyPassed(r)'
             /\ pc[r] = "handle" => of[r] \in inForce'[r]
  <2>1. pc[r] \in Checked =>
          inForce'[r] = inForce[r] \union ActiveOf(r)'
    BY DEF Observe, InFlight, Statements, Checked, Active, ActiveOf
  <2>2. pc[r] \in {"tenant", "handle"} => key[r] \in Keys /\ KeyPassed(r)
    BY DEF PcInv, AdmissionInv, Checked
  <2> QED BY <2>1, <2>2 DEF AdmissionInv, KeyPassed, Checked
<1>3. \A s : SlugTaken(s) => SlugTaken(s)'
  BY DEF SlugTaken
<1> QED BY <1>1, <1>2, <1>3

LEMMA SwitchKeeps ==
  ASSUME Inv,
         \/ \E k \in Keys : GenerateApiKey(k) \/ SwitchKey(k)
         \/ \E t \in Tenants : SwitchTenant(t)
  PROVE  Inv'
<1>1. ASSUME NEW k \in Keys, GenerateApiKey(k) PROVE Administers
  <2>1. PICK t \in Owners, e \in (0..MaxTime) \union {Never} :
          LET K == [apiKey EXCEPT
                      ![k] = [tenant |-> t, active |-> TRUE, expires |-> e]]
          IN  apiKey' = K /\ Observe(K, tenant)
    BY <1>1 DEF GenerateApiKey
  <2> DEFINE row == [tenant |-> t, active |-> TRUE, expires |-> e]
  <2>2. row \in KeyRow /\ row # Absent
    <3>1. row \in KeyRow
      BY DEF KeyRow, Instants, Owners
    <3> QED BY <3>1, ConstantsAssumption
  <2>3. apiKey[k] = Absent /\ UNCHANGED <<now, tenant, workflow, headers>>
    BY <1>1 DEF GenerateApiKey
  <2>4. apiKey' = [apiKey EXCEPT ![k] = row]
    BY <2>1
  <2>5. Observe(apiKey', tenant')
    BY <2>1, <2>3 DEF Observe
  <2> HIDE DEF row
  <2> QED BY <2>2, <2>3, <2>4, <2>5 DEF Administers, headers, Inv, TypeOK
<1>2. ASSUME NEW k \in Keys, SwitchKey(k) PROVE Administers
  <2> DEFINE row == [apiKey[k] EXCEPT !.active = ~apiKey[k].active]
  <2>1. apiKey[k] \in KeyRow /\ apiKey' = [apiKey EXCEPT ![k] = row]
    BY <1>2 DEF SwitchKey, Inv, TypeOK
  <2>2. row \in KeyRow /\ row.expires = apiKey[k].expires
    BY <2>1 DEF KeyRow
  <2>3. UNCHANGED <<now, tenant, workflow, headers>>
    BY <1>2 DEF SwitchKey
  <2>4. Observe(apiKey', tenant')
    BY <1>2, <2>3 DEF SwitchKey, Observe
  <2>5. row # Absent
    BY <2>2, ConstantsAssumption
  <2> HIDE DEF row
  <2> QED BY <2>1, <2>2, <2>3, <2>4, <2>5 DEF Administers, headers, Inv, TypeOK
<1>3. ASSUME NEW t \in Tenants, SwitchTenant(t) PROVE Administers
  <2> DEFINE row == [tenant[t] EXCEPT !.active = ~tenant[t].active]
  <2>1. tenant[t] \in TenantRow /\ tenant' = [tenant EXCEPT ![t] = row]
    BY <1>3 DEF SwitchTenant, Inv, TypeOK
  <2>2. row \in TenantRow /\ row.slug = tenant[t].slug
    BY <2>1 DEF TenantRow
  <2>3. UNCHANGED <<now, apiKey, workflow, headers>>
    BY <1>3 DEF SwitchTenant
  <2>4. Observe(apiKey', tenant')
    BY <1>3, <2>3 DEF SwitchTenant, Observe
  <2>5. row # Absent
    BY <2>2, ConstantsAssumption
  <2> HIDE DEF row
  <2> QED BY <2>1, <2>2, <2>3, <2>4, <2>5 DEF Administers, headers, Inv, TypeOK
<1>4. Administers /\ UNCHANGED <<pc, status>>
  BY <1>1, <1>2, <1>3 DEF GenerateApiKey, SwitchKey, SwitchTenant
<1>5. TypeOK'
  BY <1>4, AdministersKeeps DEF Administers, Inv, TypeOK
<1>6. PcInv'
  BY <1>4 DEF Administers, Inv, PcInv
<1>7. AdmissionInv'
  BY <1>4, AdministersKeeps DEF Administers, Inv, AdmissionInv
<1>8. SlugsAreOwned'
  BY <1>4, AdministersKeeps DEF Administers, Inv, SlugsAreOwned
<1> QED BY <1>5, <1>6, <1>7, <1>8 DEF Inv

(* The unique index: whoever is told 201 owned no slug taken before.       *)
LEMMA InsertKeeps ==
  ASSUME Inv, NEW r \in Requests, InsertTenant(r)
  PROVE  Inv'
<1> USE DEF Inv, TypeOK
<1>1. CASE Unique(slug[r])
  BY <1>1, ReplyKeeps DEF InsertTenant, Statements
<1>2. CASE ~Unique(slug[r])
  <2> DEFINE row == [slug |-> slug[r], active |-> TRUE]
  <2>1. PICK t \in {u \in Tenants : tenant[u] = Absent} :
          LET T == [tenant EXCEPT ![t] = row]
          IN  tenant' = T /\ Observe(apiKey, T) /\ ReplyOrLose(r, 201, 400)
    BY <1>2 DEF InsertTenant
  <2>2. slug[r] \in Slugs /\ pc[r] = "insert"
    BY DEF InsertTenant, PcInv
  <2>3. row \in TenantRow
    BY <2>2 DEF TenantRow
  <2> HIDE DEF row
  <2>4. Observe(apiKey', tenant')
    BY <2>1 DEF InsertTenant, Observe, Active
  <2>5. Administers
    BY <2>1, <2>3, <2>4, ConstantsAssumption DEF InsertTenant, Administers, headers
  <2>6. PICK code \in {201, 400} : Reply(r, code)
    BY <2>1 DEF ReplyOrLose
  <2>7. /\ pc'[r] = "answered" /\ status'[r] = code
        /\ \A q \in Requests \ {r} : pc'[q] = pc[q] /\ status'[q] = status[q]
    BY <2>6 DEF Reply
  <2>8. TypeOK'
    BY <2>5, <2>6, AdministersKeeps DEF Administers, Reply
  <2>9. PcInv'
    BY <2>5, <2>7 DEF Administers, PcInv, Checked
  <2>10. AdmissionInv'
    BY <2>5, <2>7, AdministersKeeps DEF Administers, AdmissionInv, Checked
  <2>11. SlugTaken(slug[r])'
    <3>1. tenant'[t] = row /\ row.slug = slug[r]
      BY <2>1 DEF row
    <3>2. tenant'[t] # Absent
      BY <2>3, <3>1, ConstantsAssumption
    <3> QED BY <2>5, <3>1, <3>2 DEF SlugTaken, Administers
  <2>12. ~SlugTaken(slug[r])
    BY <1>2 DEF Unique
  <2>13. \A q \in Requests \ {r} : slug[q] # Absent /\ status[q] = 201 =>
           slug[q] # slug[r]
    BY <2>12 DEF SlugsAreOwned
  <2>14. SlugsAreOwned'
    <3>1. slug' = slug
      BY <2>5 DEF Administers
    <3>2. ASSUME NEW p \in Requests, NEW q \in Requests, p # q,
                 slug[p] # Absent, status'[p] = 201, status'[q] = 201
          PROVE  slug[p] # slug[q]
      <4>1. CASE p # r /\ q # r
        BY <2>7, <3>2, <4>1 DEF SlugsAreOwned
      <4>2. CASE p = r
        BY <2>2, <2>7, <2>13, <3>2, <4>2
      <4>3. CASE q = r
        BY <2>2, <2>7, <2>13, <3>2, <4>3
      <4> QED BY <4>1, <4>2, <4>3
    <3>3. ASSUME NEW p \in Requests, slug[p] # Absent, status'[p] = 201
          PROVE  SlugTaken(slug[p])'
      BY <2>5, <2>7, <2>11, <3>3, AdministersKeeps DEF SlugsAreOwned, Administers
    <3> QED BY <3>1, <3>2, <3>3 DEF SlugsAreOwned
  <2> QED BY <2>8, <2>9, <2>10, <2>14
<1> QED BY <1>1, <1>2

LEMMA NextInv == Inv /\ [Next]_vars => Inv'
<1> SUFFICES ASSUME Inv, [Next]_vars PROVE Inv'
  OBVIOUS
<1>1. ASSUME NEW r \in Requests, ArriveCreate(r) \/ Arrive(r) \/ Step(r)
      PROVE  Inv'
  BY <1>1, ArriveKeeps, LookupKeeps, InsertKeeps, FindKeyKeeps, FindTenantKeeps,
     HandlersKeep, FailKeeps
     DEF Step
<1>2. CASE Crash
  <2>1. /\ pc' \in [Requests -> Statements \union {"idle", "answered", "lost"}]
        /\ \A r \in Requests : pc'[r] = pc[r] \/ (pc[r] # "answered" /\ pc'[r] = "lost")
    BY <1>2 DEF Crash, Inv, TypeOK, InFlight, Statements
  <2> QED BY <1>2, <2>1 DEF Crash, Inv, TypeOK, PcInv, AdmissionInv, KeyPassed,
                            SlugsAreOwned, SlugTaken, Checked, tables, headers, Active,
                            ActiveOf
<1>3. CASE Tick
  BY <1>3 DEF Tick, Inv, TypeOK, PcInv, AdmissionInv, KeyPassed, SlugsAreOwned,
              SlugTaken, tables, headers, Active, ActiveOf
<1>4. CASE UNCHANGED vars
  BY <1>4 DEF vars, Inv, TypeOK, PcInv, AdmissionInv, KeyPassed, SlugsAreOwned,
              SlugTaken, tables, headers, Active, ActiveOf
<1> QED BY <1>1, <1>2, <1>3, <1>4, SwitchKeeps DEF Next

LEMMA InvHolds == Spec => []Inv
BY InitInv, NextInv, PTL DEF Spec

----------------------------------------------------------------------------
(* Tables, requests and histories keep their types.                        *)
THEOREM TypeCorrect == Spec => []TypeOK
<1>1. Inv => TypeOK
  BY DEF Inv
<1> QED BY InvHolds, <1>1, PTL

(* Of any number of racing creations of one slug at most one is told 201,  *)
(* and its tenant is there.                                                *)
THEOREM SlugsHaveOneOwner == Spec => []SlugsAreOwned
<1>1. Inv => SlugsAreOwned
  BY DEF Inv
<1> QED BY InvHolds, <1>1, PTL

(* No key or tenant that had been switched off, and no key that had        *)
(* expired, before a request arrived lets it reach its handler.  It does   *)
(* not say that the key is one of that tenant: the code does not see to it *)
(* (KeysAdmitOwnTenant).                                                   *)
THEOREM AdmissionIsInForce == Spec => []AdmittedWasInForce
<1>1. Inv => AdmittedWasInForce
  BY DEF Inv, AdmissionInv, KeyPassed, AdmittedWasInForce
<1> QED BY InvHolds, <1>1, PTL

(* Whatever body a PATCH carries, a workflow is written only for requests  *)
(* that name its tenant in their header and stays that tenant's.  The key  *)
(* of the request may be another tenant's.                                 *)
THEOREM WritesFollowHeader == Spec => WritesFollowTenantHeader
<1> DEFINE Own1(w, r) ==
      /\ pc[r] = "handle" /\ pc'[r] # "handle"
      /\ workflow[w] # Absent => workflow[w].tenant = of[r]
      /\ workflow'[w] # Absent => workflow'[w].tenant = of[r]
    Apart == \A w \in Workflows : workflow'[w] # workflow[w] =>
               \E r \in Requests : Own1(w, r)
<1>1. Inv /\ [Next]_vars => [Apart]_vars
  <2> SUFFICES ASSUME Inv, Next, NEW w \in Workflows, workflow'[w] # workflow[w]
               PROVE  \E r \in Requests : Own1(w, r)
    OBVIOUS
  <2>1. PICK r \in Requests :
          CreateWorkflow(r) \/ UpdateWorkflow(r) \/ DeleteWorkflow(r)
    BY DEF Next, Step, ArriveCreate, Arrive, Lookup, InsertTenant, FindKey,
           FindTenant, Validate, ReadWorkflow, Fail, Crash, Tick, GenerateApiKey,
           SwitchKey, SwitchTenant, tables
  <2>2. pc[r] = "handle" /\ pc'[r] = "answered"
    <3>1. pc[r] = "handle"
      BY <2>1 DEF CreateWorkflow, UpdateWorkflow, DeleteWorkflow, Handle
    <3> QED BY <2>1, <3>1, HandlersReply DEF Reply, Inv, TypeOK
  <2>3. /\ workflow[w] # Absent => workflow[w].tenant = of[r]
        /\ workflow'[w] # Absent => workflow'[w].tenant = of[r]
    <3>1. CASE CreateWorkflow(r)
      BY <3>1 DEF CreateWorkflow, Inv, TypeOK
    <3>2. CASE UpdateWorkflow(r)
      BY <3>2 DEF UpdateWorkflow, Owner, Own, Inv, TypeOK
    <3>3. CASE DeleteWorkflow(r)
      BY <3>3 DEF DeleteWorkflow, Own, Inv, TypeOK
    <3> QED BY <2>1, <3>1, <3>2, <3>3
  <2> QED BY <2>2, <2>3
<1> QED BY InvHolds, <1>1, PTL DEF Spec, WritesFollowTenantHeader

----------------------------------------------------------------------------
(***************************************************************************)
(* Creations of tenants keep the registry of module SlugRegistry: lookup,  *)
(* insert and index decide like one step.                                  *)
(***************************************************************************)
Outcome(r) ==
  IF slug[r] = Absent \/ InFlight(r) THEN "open"
  ELSE IF pc[r] = "lost" THEN "lost"
  ELSE IF status[r] = 201 THEN "granted" ELSE "refused"
Outcomes == [r \in Requests |-> Outcome(r)]
Taken == {s \in Slugs : SlugTaken(s)}
Registry == INSTANCE SlugRegistry WITH
  None <- Absent, claim <- slug, taken <- Taken, outcome <- Outcomes

LEMMA RegistryInit == Init => Registry!Init
<1> SUFFICES ASSUME Init PROVE Registry!Init
  OBVIOUS
<1>1. slug = [r \in Requests |-> Absent]
  BY DEF Init
<1>2. Outcomes = [r \in Requests |-> "open"]
  BY <1>1 DEF Outcomes, Outcome
<1>3. Taken \in SUBSET Slugs
  BY DEF Taken
<1> QED BY <1>1, <1>2, <1>3 DEF Registry!Init

(* A creation that is open has not been answered or lost.                  *)
LEMMA OpenIsOpen ==
  ASSUME Inv, NEW r \in Requests
  PROVE  Registry!Open(r) <=> slug[r] # Absent /\ InFlight(r)
<1>1. Outcomes[r] = Outcome(r)
  BY DEF Outcomes
<1>2. slug[r] # Absent /\ ~InFlight(r) => Outcome(r) # "open"
  BY DEF Outcome
<1>3. InFlight(r) => Outcome(r) = "open"
  BY DEF Outcome
<1> QED BY <1>1, <1>2, <1>3 DEF Registry!Open, Registry!Creations

(* What leaves creations and slugs alone is none of the registry's.        *)
LEMMA RegistryStutters ==
  ASSUME Inv, slug' = slug, \A s \in Slugs : SlugTaken(s)' <=> SlugTaken(s),
         \A q \in Requests : slug[q] # Absent =>
           (InFlight(q)' <=> InFlight(q)) /\ (InFlight(q) \/ pc'[q] = pc[q])
           /\ (InFlight(q) \/ status'[q] = status[q])
  PROVE  UNCHANGED Registry!vars
<1>1. Taken' = Taken
  BY DEF Taken
<1>2. ASSUME NEW q \in Requests PROVE Outcome(q)' = Outcome(q)
  BY DEF Outcome
<1>3. Outcomes' = Outcomes
  BY <1>2 DEF Outcomes
<1> QED BY <1>1, <1>3 DEF Registry!vars

(* An answer decides a creation. *)
LEMMA ReplyDecides ==
  ASSUME Inv, NEW r \in Requests, slug[r] # Absent, InFlight(r), slug' = slug,
         NEW code, Reply(r, code)
  PROVE  Registry!Decide(r, IF code = 201 THEN "granted" ELSE "refused")
<1> DEFINE o == IF code = 201 THEN "granted" ELSE "refused"
<1>1. /\ pc'[r] = "answered" /\ status'[r] = code
      /\ \A q \in Requests \ {r} : pc'[q] = pc[q] /\ status'[q] = status[q]
  BY DEF Reply, Inv, TypeOK
<1>2. Outcome(r)' = o
  BY <1>1 DEF Outcome, InFlight, Statements
<1>3. ASSUME NEW q \in Requests \ {r} PROVE Outcome(q)' = Outcome(q)
  BY <1>1 DEF Outcome, InFlight
<1> HIDE DEF o
<1>4. Outcomes' = [Outcomes EXCEPT ![r] = o]
  <2>1. Outcomes' = [q \in Requests |-> IF q = r THEN o ELSE Outcome(q)]
    BY <1>2, <1>3 DEF Outcomes
  <2> QED BY <2>1 DEF Outcomes
<1> QED BY <1>4 DEF Registry!Decide, o

LEMMA RefuseStep ==
  ASSUME Inv, NEW r \in Requests, slug[r] # Absent, InFlight(r), slug' = slug,
         tenant' = tenant, NEW code, code # 201, Reply(r, code),
         SlugTaken(slug[r]) \/ Failures
  PROVE  Registry!Refuse(r)
<1>1. Registry!Decide(r, "refused")
  BY ReplyDecides
<1>2. Taken' = Taken
  BY DEF Taken, SlugTaken
<1>3. slug[r] \in Taken \/ Failures
  BY DEF Taken, Inv, TypeOK
<1>4. Registry!Open(r)
  BY OpenIsOpen
<1> QED BY <1>1, <1>2, <1>3, <1>4 DEF Registry!Refuse

LEMMA AskStep ==
  ASSUME Inv, NEW r \in Requests, ArriveCreate(r)
  PROVE  Registry!Ask(r)
<1>1. /\ pc[r] = "idle" /\ slug[r] = Absent /\ tenant' = tenant /\ status' = status
      /\ pc' = [pc EXCEPT ![r] = "lookup"]
  BY DEF ArriveCreate, Inv, PcInv, tables, Goto
<1>2. PICK s \in Slugs : slug' = [slug EXCEPT ![r] = s]
  BY DEF ArriveCreate
<1>3. Taken' = Taken
  BY <1>1 DEF Taken, SlugTaken
<1>4. Outcome(r) = "open" /\ Outcome(r)' = "open"
  BY <1>1 DEF Outcome, InFlight, Statements, Inv, TypeOK
<1>5. ASSUME NEW q \in Requests \ {r} PROVE Outcome(q)' = Outcome(q)
  <2>1. pc'[q] = pc[q] /\ slug'[q] = slug[q] /\ status'[q] = status[q]
    BY <1>1, <1>2 DEF Inv, TypeOK
  <2> QED BY <2>1 DEF Outcome, InFlight
<1>6. Outcomes' = Outcomes
  BY <1>4, <1>5 DEF Outcomes
<1> QED BY <1>1, <1>2, <1>3, <1>6 DEF Registry!Ask

LEMMA InsertStep ==
  ASSUME Inv, NEW r \in Requests, InsertTenant(r)
  PROVE  Registry!Grant(r) \/ Registry!Refuse(r)
<1>1. /\ pc[r] = "insert" /\ slug[r] \in Slugs /\ slug[r] # Absent /\ InFlight(r)
      /\ slug' = slug
  BY ConstantsAssumption DEF InsertTenant, Inv, PcInv, InFlight, Statements, headers
<1>2. CASE SlugTaken(slug[r])
  <2>1. Reply(r, 400) /\ tenant' = tenant
    BY <1>2 DEF InsertTenant, Unique
  <2> QED BY <1>1, <1>2, <2>1, RefuseStep
<1>3. CASE ~SlugTaken(slug[r])
  <2> DEFINE row == [slug |-> slug[r], active |-> TRUE]
  <2>1. PICK t \in Tenants : /\ tenant[t] = Absent
                             /\ tenant' = [tenant EXCEPT ![t] = row]
                             /\ ReplyOrLose(r, 201, 400)
    BY <1>3 DEF InsertTenant, Unique
  <2>2. row \in TenantRow /\ row # Absent
    <3>1. row \in TenantRow
      BY <1>1 DEF TenantRow
    <3> QED BY <3>1, ConstantsAssumption
  <2>3. row.slug = slug[r]
    OBVIOUS
  <2> HIDE DEF row
  <2>4. /\ tenant'[t] = row
        /\ \A u \in Tenants \ {t} : tenant'[u] = tenant[u]
    BY <2>1 DEF Inv, TypeOK
  <2>5. ASSUME NEW s \in Slugs PROVE SlugTaken(s)' <=> s = slug[r] \/ SlugTaken(s)
    BY <2>1, <2>2, <2>3, <2>4 DEF SlugTaken
  <2>6. Taken' = Taken \union {slug[r]} /\ slug[r] \notin Taken
    BY <1>1, <1>3, <2>5 DEF Taken
  <2>7. \/ Registry!Decide(r, "granted")
        \/ Failures /\ Registry!Decide(r, "refused")
    <3>1. CASE Reply(r, 201)
      BY <1>1, <3>1, ReplyDecides
    <3>2. CASE Failures /\ Reply(r, 400)
      BY <1>1, <3>2, ReplyDecides
    <3> QED BY <2>1, <3>1, <3>2 DEF ReplyOrLose
  <2> QED BY <1>1, <2>6, <2>7, OpenIsOpen DEF Registry!Grant
<1> QED BY <1>2, <1>3

LEMMA CrashStep ==
  ASSUME Inv, Crash
  PROVE  Registry!Abandon \/ UNCHANGED Registry!vars
<1>1. /\ Failures /\ slug' = slug /\ tenant' = tenant /\ status' = status
      /\ pc' = [r \in Requests |-> IF InFlight(r) THEN "lost" ELSE pc[r]]
  BY DEF Crash, headers, tables
<1>2. Taken' = Taken
  BY <1>1 DEF Taken, SlugTaken
<1>3. ASSUME NEW q \in Requests
      PROVE  Outcome(q)' = IF Registry!Open(q) THEN "lost" ELSE Outcomes[q]
  <2>1. Outcomes[q] = Outcome(q)
    BY DEF Outcomes
  <2>2. CASE slug[q] # Absent /\ InFlight(q)
    <3>1. pc'[q] = "lost" /\ slug'[q] # Absent
      BY <1>1, <2>2
    <3>2. Outcome(q)' = "lost"
      BY <3>1 DEF Outcome, InFlight, Statements
    <3> QED BY <2>2, <3>2, OpenIsOpen
  <2>3. CASE ~(slug[q] # Absent /\ InFlight(q))
    <3>1. Outcome(q)' = Outcome(q)
      BY <1>1, <2>3 DEF Outcome, InFlight, Statements
    <3> QED BY <2>1, <2>3, <3>1, OpenIsOpen
  <2> QED BY <2>2, <2>3
<1>4. Outcomes' = [q \in Requests |-> IF Registry!Open(q) THEN "lost" ELSE Outcomes[q]]
  BY <1>3 DEF Outcomes
<1>5. CASE \E r \in Requests : Registry!Open(r)
  BY <1>1, <1>2, <1>4, <1>5 DEF Registry!Abandon
<1>6. CASE ~\E r \in Requests : Registry!Open(r)
  <2>1. Outcomes' = [q \in Requests |-> Outcomes[q]]
    BY <1>4, <1>6
  <2>2. Outcomes' = Outcomes
    BY <2>1 DEF Outcomes
  <2> QED BY <1>1, <1>2, <2>2 DEF Registry!vars
<1> QED BY <1>5, <1>6

(* The steps of a request that creates no tenant.                          *)
LEMMA OthersStutter ==
  ASSUME Inv, NEW r \in Requests, slug[r] = Absent, slug' = slug, tenant' = tenant,
         \A q \in Requests \ {r} : pc'[q] = pc[q] /\ status'[q] = status[q]
  PROVE  UNCHANGED Registry!vars
<1>1. \A s \in Slugs : SlugTaken(s)' <=> SlugTaken(s)
  BY DEF SlugTaken
<1>2. \A q \in Requests : slug[q] # Absent =>
        /\ InFlight(q)' <=> InFlight(q)
        /\ pc'[q] = pc[q] /\ status'[q] = status[q]
  BY DEF InFlight
<1> QED BY <1>1, <1>2, RegistryStutters

LEMMA RequestStep ==
  ASSUME Inv, NEW r \in Requests, ArriveCreate(r) \/ Arrive(r) \/ Step(r)
  PROVE  Registry!Next \/ UNCHANGED Registry!vars
<1> SUFFICES \/ Registry!Ask(r) \/ Registry!Grant(r) \/ Registry!Refuse(r)
             \/ UNCHANGED Registry!vars
  BY DEF Registry!Next
<1>1. CASE ArriveCreate(r)
  BY <1>1, AskStep
<1>2. CASE InsertTenant(r)
  BY <1>2, InsertStep
<1>3. CASE Lookup(r)
  <2>1. /\ pc[r] = "lookup" /\ slug[r] # Absent /\ InFlight(r) /\ slug' = slug
        /\ tenant' = tenant
    BY <1>3, ConstantsAssumption
       DEF Lookup, Inv, PcInv, InFlight, Statements, headers, tables
  <2>2. CASE SlugTaken(slug[r])
    <3>1. Reply(r, 400)
      BY <1>3, <2>2 DEF Lookup
    <3> QED BY <2>1, <2>2, <3>1, RefuseStep
  <2>3. CASE ~SlugTaken(slug[r])
    <3>1. Goto(r, "insert")
      BY <1>3, <2>3 DEF Lookup
    <3>2. \A q \in Requests : /\ InFlight(q)' <=> InFlight(q)
                              /\ InFlight(q) \/ pc'[q] = pc[q]
                              /\ status'[q] = status[q]
      BY <2>1, <3>1 DEF Goto, InFlight, Statements, Inv, TypeOK
    <3>3. \A s \in Slugs : SlugTaken(s)' <=> SlugTaken(s)
      BY <2>1 DEF SlugTaken
    <3> QED BY <2>1, <3>2, <3>3, RegistryStutters
  <2> QED BY <2>2, <2>3
<1>4. CASE Fail(r)
  <2>1. /\ Failures /\ InFlight(r) /\ Reply(r, ErrorOf[pc[r]])
        /\ slug' = slug /\ tenant' = tenant
    BY <1>4 DEF Fail, headers, tables
  <2>2. ErrorOf[pc[r]] # 201
    BY <2>1 DEF ErrorOf, InFlight, Statements
  <2>3. CASE slug[r] = Absent
    BY <2>1, <2>3, OthersStutter DEF Reply, Inv, TypeOK
  <2>4. CASE slug[r] # Absent
    BY <2>1, <2>2, <2>4, RefuseStep
  <2> QED BY <2>3, <2>4
<1>5. CASE Arrive(r)
  <2>1. slug[r] = Absent /\ slug' = slug /\ tenant' = tenant
    BY <1>5 DEF Arrive, tables, Inv, PcInv
  <2>2. Goto(r, "key") \/ Reply(r, 401)
    BY <1>5 DEF Arrive
  <2>3. \A q \in Requests \ {r} : pc'[q] = pc[q] /\ status'[q] = status[q]
    BY <2>2 DEF Goto, Reply, Inv, TypeOK
  <2> QED BY <2>1, <2>3, OthersStutter
<1>6. CASE FindKey(r) \/ FindTenant(r)
  <2>1. slug[r] = Absent /\ slug' = slug /\ tenant' = tenant
    BY <1>6 DEF FindKey, FindTenant, tables, headers, Inv, PcInv, Checked
  <2>2. \/ Goto(r, "tenant") \/ Goto(r, "handle")
        \/ \E code \in {400, 401, 403} : Reply(r, code)
    BY <1>6 DEF FindKey, FindTenant, Validate
  <2>3. \A q \in Requests \ {r} : pc'[q] = pc[q] /\ status'[q] = status[q]
    BY <2>2 DEF Goto, Reply, Inv, TypeOK
  <2> QED BY <2>1, <2>3, OthersStutter
<1>7. CASE CreateWorkflow(r) \/ ReadWorkflow(r) \/ UpdateWorkflow(r)
             \/ DeleteWorkflow(r)
  <2>1. slug[r] = Absent /\ slug' = slug /\ tenant' = tenant
    BY <1>7 DEF CreateWorkflow, ReadWorkflow, UpdateWorkflow, DeleteWorkflow,
                Handle, headers, Inv, PcInv, Checked
  <2>2. \E code \in {200, 201, 204, 404, 500} : Reply(r, code)
    BY <1>7, HandlersReply
  <2>3. \A q \in Requests \ {r} : pc'[q] = pc[q] /\ status'[q] = status[q]
    BY <2>2 DEF Reply, Inv, TypeOK
  <2> QED BY <2>1, <2>3, OthersStutter
<1> QED BY <1>1, <1>2, <1>3, <1>4, <1>5, <1>6, <1>7 DEF Step

LEMMA SwitchStep ==
  ASSUME Inv,
         \/ \E k \in Keys : GenerateApiKey(k) \/ SwitchKey(k)
         \/ \E t \in Tenants : SwitchTenant(t)
  PROVE  UNCHANGED Registry!vars
<1>1. slug' = slug /\ pc' = pc /\ status' = status
  BY DEF GenerateApiKey, SwitchKey, SwitchTenant, headers
<1>2. \A u \in Tenants :
        /\ tenant'[u] = Absent <=> tenant[u] = Absent
        /\ tenant[u] # Absent => tenant'[u].slug = tenant[u].slug
  <2>1. CASE \E k \in Keys : GenerateApiKey(k) \/ SwitchKey(k)
    BY <2>1 DEF GenerateApiKey, SwitchKey
  <2>2. CASE \E t \in Tenants : SwitchTenant(t)
    <3>1. PICK t \in Tenants : SwitchTenant(t)
      BY <2>2
    <3> DEFINE row == [tenant[t] EXCEPT !.active = ~tenant[t].active]
    <3>2. tenant[t] \in TenantRow /\ tenant' = [tenant EXCEPT ![t] = row]
      BY <3>1 DEF SwitchTenant, Inv, TypeOK
    <3>3. row \in TenantRow /\ row.slug = tenant[t].slug
      BY <3>2 DEF TenantRow
    <3>4. row # Absent /\ tenant[t] # Absent
      BY <3>2, <3>3, ConstantsAssumption
    <3> HIDE DEF row
    <3> QED BY <3>2, <3>3, <3>4 DEF Inv, TypeOK
  <2> QED BY <2>1, <2>2
<1>3. \A s \in Slugs : SlugTaken(s)' <=> SlugTaken(s)
  BY <1>2 DEF SlugTaken
<1>4. \A q \in Requests : /\ InFlight(q)' <=> InFlight(q)
                          /\ pc'[q] = pc[q] /\ status'[q] = status[q]
  BY <1>1 DEF InFlight
<1> QED BY <1>1, <1>3, <1>4, RegistryStutters

(* However creations race, fail, or lose their answers or their server,    *)
(* they act like single steps on a registry of slugs: a slug that is taken *)
(* stays taken, is granted to one creation, and without failures only a    *)
(* creation whose slug is taken is refused.                                *)
THEOREM CreationsKeepRegistry == Spec => Registry!Spec
<1>1. Inv /\ [Next]_vars => [Registry!Next]_(Registry!vars)
  <2> SUFFICES ASSUME Inv, [Next]_vars
               PROVE  Registry!Next \/ UNCHANGED Registry!vars
    OBVIOUS
  <2>1. CASE Tick \/ UNCHANGED vars
    <3>1. slug' = slug /\ pc' = pc /\ status' = status /\ tenant' = tenant
      BY <2>1 DEF Tick, vars, headers, tables
    <3> QED BY <3>1, RegistryStutters DEF SlugTaken, InFlight
  <2>2. CASE Crash
    BY <2>2, CrashStep DEF Registry!Next
  <2> QED BY <2>1, <2>2, RequestStep, SwitchStep DEF Next
<1> QED BY <1>1, RegistryInit, InvHolds, PTL DEF Spec, Registry!Spec

----------------------------------------------------------------------------
(* Whoever wrote a workflow last had been admitted: a request that named   *)
(* the tenant the workflow belongs to, which had passed both checks, was   *)
(* answered by a handler, and whose key, be it of that tenant or not, had  *)
(* not expired when it came.                                               *)
AdmittedWriter(r, t) ==
  /\ pc[r] = "answered" /\ status[r] \in {200, 201, 500}
  /\ of[r] = t /\ t \in inForce[r] /\ KeyPassed(r)
WritersWereAdmitted ==
  \A w \in Workflows :
    workflow[w] # Absent /\ workflow[w].by # Earlier =>
      AdmittedWriter(workflow[w].by, workflow[w].tenant)

(* Nothing happens to a request that was answered. *)
LEMMA AnsweredStays ==
  ASSUME Inv, Next, NEW r \in Requests, pc[r] = "answered"
  PROVE  /\ pc'[r] = "answered" /\ status'[r] = status[r] /\ of'[r] = of[r]
         /\ key'[r] = key[r] /\ cutoff'[r] = cutoff[r] /\ inForce'[r] = inForce[r]
<1> USE DEF Inv, TypeOK
<1>1. ASSUME NEW q \in Requests, pc[q] # "answered",
             \/ ArriveCreate(q) \/ Arrive(q) \/ Lookup(q) \/ FindKey(q)
             \/ FindTenant(q) \/ Fail(q)
      PROVE  /\ pc'[r] = pc[r] /\ status'[r] = status[r] /\ of'[r] = of[r]
             /\ key'[r] = key[r] /\ cutoff'[r] = cutoff[r]
             /\ inForce'[r] = inForce[r]
  BY <1>1 DEF ArriveCreate, Arrive, Lookup, FindKey, FindTenant, Validate, Fail,
              Goto, Reply, headers
<1>2. ASSUME NEW q \in Requests, pc[q] # "answered",
             \/ CreateWorkflow(q) \/ ReadWorkflow(q) \/ UpdateWorkflow(q)
             \/ DeleteWorkflow(q)
      PROVE  /\ pc'[r] = pc[r] /\ status'[r] = status[r] /\ of'[r] = of[r]
             /\ key'[r] = key[r] /\ cutoff'[r] = cutoff[r]
             /\ inForce'[r] = inForce[r]
  <2>1. UNCHANGED <<headers, inForce>>
    BY <1>2 DEF CreateWorkflow, ReadWorkflow, UpdateWorkflow, DeleteWorkflow, Handle
  <2>2. \E code \in {200, 201, 204, 404, 500} : Reply(q, code)
    BY <1>2, HandlersReply
  <2> QED BY <1>2, <2>1, <2>2 DEF Reply, headers
<1>3. \A K, T : Observe(K, T) => inForce'[r] = inForce[r]
  BY DEF Observe, InFlight, Statements
<1>4. ASSUME NEW q \in Requests, pc[q] # "answered", InsertTenant(q)
      PROVE  /\ pc'[r] = pc[r] /\ status'[r] = status[r] /\ of'[r] = of[r]
             /\ key'[r] = key[r] /\ cutoff'[r] = cutoff[r]
             /\ inForce'[r] = inForce[r]
  <2>1. Reply(q, 400) \/ Reply(q, 201)
    BY <1>4 DEF InsertTenant, ReplyOrLose
  <2>2. inForce'[r] = inForce[r]
    BY <1>3, <1>4 DEF InsertTenant
  <2> QED BY <1>4, <2>1, <2>2 DEF InsertTenant, Reply, headers
<1>5. CASE \/ \E k \in Keys : GenerateApiKey(k) \/ SwitchKey(k)
           \/ \E t \in Tenants : SwitchTenant(t)
  BY <1>3, <1>5 DEF GenerateApiKey, SwitchKey, SwitchTenant, headers
<1>6. CASE Crash \/ Tick
  BY <1>6 DEF Crash, Tick, InFlight, Statements, headers
<1>7. ASSUME NEW q \in Requests, ArriveCreate(q) \/ Arrive(q) \/ Step(q)
      PROVE  pc[q] # "answered"
  BY <1>7 DEF ArriveCreate, Arrive, Step, Lookup, InsertTenant, FindKey, FindTenant,
              CreateWorkflow, ReadWorkflow, UpdateWorkflow, DeleteWorkflow, Handle,
              Fail, InFlight, Statements
<1> QED BY <1>1, <1>2, <1>4, <1>5, <1>6, <1>7 DEF Next, Step

(* Keys are not deleted and keep their expiries. *)
LEMMA KeysKeepExpiry ==
  ASSUME Inv, Next, NEW k \in Keys, apiKey[k] # Absent
  PROVE  apiKey'[k] # Absent /\ apiKey'[k].expires = apiKey[k].expires
<1> USE DEF Inv, TypeOK
<1>1. ASSUME NEW j \in Keys, GenerateApiKey(j)
      PROVE  apiKey'[k] = apiKey[k]
  BY <1>1 DEF GenerateApiKey
<1>2. ASSUME NEW j \in Keys, SwitchKey(j)
      PROVE  apiKey'[k] # Absent /\ apiKey'[k].expires = apiKey[k].expires
  <2> DEFINE row == [apiKey[j] EXCEPT !.active = ~apiKey[j].active]
  <2>1. apiKey[j] \in KeyRow /\ apiKey' = [apiKey EXCEPT ![j] = row]
    BY <1>2 DEF SwitchKey
  <2>2. row \in KeyRow /\ row.expires = apiKey[j].expires
    BY <2>1 DEF KeyRow
  <2>3. row # Absent
    BY <2>2, ConstantsAssumption
  <2> HIDE DEF row
  <2> QED BY <2>1, <2>2, <2>3
<1>3. \/ apiKey' = apiKey \/ \E j \in Keys : GenerateApiKey(j) \/ SwitchKey(j)
  BY DEF Next, Step, ArriveCreate, Arrive, Lookup, InsertTenant, FindKey, FindTenant,
         CreateWorkflow, ReadWorkflow, UpdateWorkflow, DeleteWorkflow, Handle, Fail,
         Crash, Tick, SwitchTenant, tables
<1> QED BY <1>1, <1>2, <1>3

LEMMA AdmittedStays ==
  ASSUME Inv, Next, NEW r \in Requests, NEW t, AdmittedWriter(r, t), key[r] \in Keys
  PROVE  AdmittedWriter(r, t)'
<1>1. /\ pc'[r] = "answered" /\ status'[r] = status[r] /\ of'[r] = of[r]
      /\ key'[r] = key[r] /\ cutoff'[r] = cutoff[r] /\ inForce'[r] = inForce[r]
  BY AnsweredStays DEF AdmittedWriter
<1>2. apiKey'[key[r]] # Absent /\ apiKey'[key[r]].expires = apiKey[key[r]].expires
  BY KeysKeepExpiry DEF AdmittedWriter, KeyPassed
<1> QED BY <1>1, <1>2 DEF AdmittedWriter, KeyPassed

(* A handler that writes a row has been let in and says so. *)
LEMMA HandlersAreAdmitted ==
  ASSUME Inv, NEW r \in Requests, CreateWorkflow(r) \/ UpdateWorkflow(r)
  PROVE  /\ key[r] \in Keys /\ AdmittedWriter(r, of[r])'
         /\ \A w \in Workflows : workflow'[w] = workflow[w] \/ workflow'[w] = Absent
              \/ (workflow'[w] = [tenant |-> of[r], by |-> r])
<1> USE DEF Inv, TypeOK
<1>1. /\ pc[r] = "handle" /\ UNCHANGED <<now, tenant, apiKey, headers, inForce>>
      /\ key[r] \in Keys /\ KeyPassed(r) /\ of[r] \in inForce[r]
  BY DEF CreateWorkflow, UpdateWorkflow, Handle, PcInv, AdmissionInv, Checked
<1>2. \E code \in {200, 201, 500} : Reply(r, code)
  <2>1. CASE CreateWorkflow(r)
    BY <2>1 DEF CreateWorkflow, ReplyOrLose
  <2>2. CASE UpdateWorkflow(r)
    <3>1. Reply(r, 200) \/ Reply(r, 500)
      BY <2>2 DEF UpdateWorkflow, ReplyOrLose
    <3> QED BY <3>1
  <2> QED BY <2>1, <2>2
<1>3. pc'[r] = "answered" /\ status'[r] \in {200, 201, 500}
  BY <1>2 DEF Reply
<1>4. AdmittedWriter(r, of[r])'
  BY <1>1, <1>3 DEF AdmittedWriter, KeyPassed, headers
<1>5. \A w \in Workflows : workflow'[w] = workflow[w] \/ workflow'[w] = Absent
        \/ (workflow'[w] = [tenant |-> of[r], by |-> r])
  <2>1. CASE CreateWorkflow(r)
    BY <2>1 DEF CreateWorkflow
  <2>2. CASE UpdateWorkflow(r)
    BY <2>2 DEF UpdateWorkflow, Owner
  <2> QED BY <2>1, <2>2
<1> QED BY <1>1, <1>4, <1>5

(* The strengthening carries the key of the writer.                        *)
WritersInv ==
  \A w \in Workflows :
    workflow[w] # Absent /\ workflow[w].by # Earlier =>
      /\ key[workflow[w].by] \in Keys
      /\ AdmittedWriter(workflow[w].by, workflow[w].tenant)

LEMMA WritersNext == Inv /\ WritersInv /\ [Next]_vars => WritersInv'
<1> SUFFICES ASSUME Inv, WritersInv, [Next]_vars PROVE WritersInv'
  OBVIOUS
<1>1. CASE UNCHANGED vars
  BY <1>1 DEF vars, tables, headers, WritersInv, AdmittedWriter, KeyPassed
<1>2. CASE Next
  <2> SUFFICES ASSUME NEW w \in Workflows, workflow'[w] # Absent,
                      workflow'[w].by # Earlier
               PROVE  /\ key'[workflow'[w].by] \in Keys
                      /\ AdmittedWriter(workflow[w].by, workflow[w].tenant)'
    BY DEF WritersInv
  <2>1. CASE workflow'[w] = workflow[w]
    <3>1. PICK r \in Requests : r = workflow[w].by
      BY <2>1 DEF Inv, TypeOK, WorkflowRow, Writers
    <3>0. PICK t : t = workflow[w].tenant
      OBVIOUS
    <3>2. key[r] \in Keys /\ AdmittedWriter(r, t)
      BY <2>1, <3>0, <3>1 DEF WritersInv
    <3>3. workflow'[w].by = r /\ workflow'[w].tenant = t
      BY <2>1, <3>0, <3>1
    <3>4. AdmittedWriter(r, t)'
      BY <1>2, <3>1, <3>2, AdmittedStays
    <3>5. key'[r] = key[r]
      BY <1>2, <3>1, <3>2, AnsweredStays DEF AdmittedWriter
    <3> QED BY <3>2, <3>3, <3>4, <3>5 DEF AdmittedWriter, KeyPassed
  <2>2. CASE workflow'[w] # workflow[w]
    <3>1. PICK r \in Requests :
            CreateWorkflow(r) \/ UpdateWorkflow(r) \/ DeleteWorkflow(r)
      BY <1>2, <2>2
         DEF Next, Step, ArriveCreate, Arrive, Lookup, InsertTenant, FindKey,
             FindTenant, Validate, ReadWorkflow, Fail, Crash, Tick, GenerateApiKey,
             SwitchKey, SwitchTenant, tables
    <3>2. CreateWorkflow(r) \/ UpdateWorkflow(r)
      BY <2>2, <3>1 DEF DeleteWorkflow, Inv, TypeOK
    <3>3. /\ key[r] \in Keys /\ AdmittedWriter(r, of[r])'
          /\ workflow'[w] = [tenant |-> of[r], by |-> r]
      BY <2>2, <3>2, HandlersAreAdmitted
    <3>4. workflow'[w].by = r /\ workflow'[w].tenant = of[r]
      BY <3>3
    <3>5. key'[r] = key[r] /\ of' = of
      BY <3>2 DEF CreateWorkflow, UpdateWorkflow, Handle, headers
    <3> QED BY <3>3, <3>4, <3>5 DEF AdmittedWriter, KeyPassed
  <2> QED BY <2>1, <2>2
<1> QED BY <1>1, <1>2

(* Every workflow a request left behind was written by one that named its  *)
(* tenant, with that tenant and its key, whosever it is, each active since *)
(* the request came.                                                       *)
THEOREM WorkflowsHaveAdmittedWriters == Spec => []WritersWereAdmitted
<1>1. Init => WritersInv
  BY DEF Init, WritersInv
<1>2. WritersInv => WritersWereAdmitted
  BY DEF WritersInv, WritersWereAdmitted
<1> QED BY <1>1, <1>2, WritersNext, InvHolds, PTL DEF Spec
=============================================================================
