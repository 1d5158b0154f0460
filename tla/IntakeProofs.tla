---------------------------- MODULE IntakeProofs ----------------------------
(***************************************************************************)
(* For any number of tenants, people, rows and concurrent requests: the    *)
(* types of Intake, and that no sequence of look-ups and INSERTs ties the  *)
(* rows of two tenants together.                                           *)
(***************************************************************************)
EXTENDS Intake, TLAPS

\* An asset has the tenant of its owner.
AssetsOwned == \A s \in Assets :
  assets[s] # Absent => customers[assets[s].customer].tenant = assets[s].tenant

\* What a request found is still there, and still of the tenant of its token.
FindingsHold == \A r \in Requests :
  /\ req[r].pc = "adding" => customers[req[r].customer].tenant = Tenant[req[r].actor]
  /\ req[r].pc = "reporting" =>
       /\ assets[req[r].asset].tenant = Tenant[req[r].actor]
       /\ assets[req[r].asset].customer = req[r].customer

Ownership == TypeOK /\ AssetsOwned /\ OneTenant /\ FindingsHold

-----------------------------------------------------------------------------
\* The tenant extension filters the look-ups of Intake.
LEMMA LookUpsFiltered ==
  ASSUME NEW a \in Actors, NEW row,
         NEW model \in {"Customer", "Asset", "ServiceRequest", "Diagnosis"},
         NEW operation \in {"findUnique", "update"},
         Finds(a, model, operation, row)
  PROVE  row # Absent /\ row.tenant = Tenant[a]
  BY ActorsAssumption DEF Finds, Reaches, Scoped, TenantModels, FilteredOperations

\* The tenant extension stamps the rows that Intake creates.
LEMMA RowsStamped ==
  ASSUME NEW a \in Actors,
         NEW model \in {"Customer", "Asset", "ServiceRequest", "Diagnosis"}
  PROVE  Owned(a, model) = Tenant[a] /\ Tenant[a] \in Tenants
  BY DEF Owned, Stamped, Tenants

\* No row of a tenant is the missing one.
LEMMA TenantsReal == "NONE" \notin Tenants
  BY ActorsAssumption DEF Tenants

\* A row of a customer or an asset is there if and only if it has a tenant.
LEMMA RowsReal ==
  ASSUME TypeOK
  PROVE  /\ \A c \in Customers : customers[c] # Absent <=> customers[c].tenant \in Tenants
         /\ \A s \in Assets : assets[s] # Absent <=> assets[s].tenant \in Tenants
         /\ \A s \in Assets : assets[s] # Absent => assets[s] \in Asset
         /\ \A q \in Reports : reports[q] # Absent => reports[q] \in Report
  BY TenantsReal DEF TypeOK, Customer, Asset, Absent

LEMMA OwnershipInit == Init => Ownership
  BY DEF Init, Ownership, TypeOK, AssetsOwned, OneTenant, FindingsHold, Request, Idle

-----------------------------------------------------------------------------
\* The types hold after every step.
LEMMA TypesKept == TypeOK /\ [Next]_vars => TypeOK'
<1> SUFFICES ASSUME TypeOK, [Next]_vars PROVE TypeOK'
  OBVIOUS
<1> USE DEF TypeOK
<1>1. ASSUME NEW a \in Actors, NEW c \in Customers, NEW email \in Emails \cup {"NONE"},
             CreateCustomer(a, c, email)
      PROVE  TypeOK'
  <2>1. [tenant |-> Owned(a, "Customer"), email |-> email] \in Customer
    BY RowsStamped DEF Customer
  <2> QED BY <1>1, <2>1 DEF CreateCustomer, Silent
<1>2. ASSUME NEW a \in Actors, NEW c \in Customers, NEW email \in Emails \cup {"NONE"},
             UpdateCustomer(a, c, email)
      PROVE  TypeOK'
  <2>1. customers[c] \in Customer
    BY <1>2 DEF UpdateCustomer, Finds
  <2>2. [customers[c] EXCEPT !.email = email] \in Customer
    BY <2>1 DEF Customer
  <2> QED BY <1>2, <2>2 DEF UpdateCustomer, Silent
<1>3. ASSUME NEW r \in Requests, NEW a \in Actors, NEW c \in Customers, FindOwner(r, a, c)
      PROVE  TypeOK'
  BY <1>3 DEF FindOwner, Goto, Silent, rows, Request
<1>4. ASSUME NEW r \in Requests, NEW a \in Actors, NEW s \in Assets, FindAsset(r, a, s)
      PROVE  TypeOK'
  <2>1. assets[s].customer \in Customers
    BY <1>4, RowsReal DEF FindAsset, Finds, Asset
  <2> QED BY <1>4, <2>1 DEF FindAsset, Goto, Silent, rows, Request
<1>5. ASSUME NEW r \in Requests, NEW a \in Actors, NEW q \in Reports,
             NEW to \in ServiceRequestState \cup {"SAME"}, CheckUpdate(r, a, q, to)
      PROVE  TypeOK'
  <2>1. reports[q].state \in ServiceRequestState
    BY <1>5, RowsReal DEF CheckUpdate, Finds, Report
  <2> QED BY <1>5, <2>1 DEF CheckUpdate, Goto, Silent, rows, Request
<1>6. ASSUME NEW r \in Requests, NEW a \in Actors, NEW w \in Orders, CheckDiagnosis(r, a, w)
      PROVE  TypeOK'
  BY <1>6 DEF CheckDiagnosis, Goto, Silent, rows, Request
<1>7. ASSUME NEW r \in Requests, NEW s \in Assets, InsertAsset(r, s)
      PROVE  TypeOK'
  <2>1. req[r].actor \in Actors /\ req[r].customer \in Customers
    BY <1>7 DEF InsertAsset, Request, Idle
  <2>2. [tenant |-> Owned(req[r].actor, "Asset"), customer |-> req[r].customer] \in Asset
    BY <2>1, RowsStamped DEF Asset
  <2> QED BY <1>7, <2>2 DEF InsertAsset, Goto, Silent, Request
<1>8. ASSUME NEW r \in Requests, NEW q \in Reports, InsertReport(r, q)
      PROVE  TypeOK'
  <2>1. /\ req[r].actor \in Actors /\ req[r].asset \in Assets
        /\ req[r].customer \in Customers
    BY <1>8 DEF InsertReport, Request, Idle
  <2>2. [tenant |-> Owned(req[r].actor, "ServiceRequest"), asset |-> req[r].asset,
         customer |-> req[r].customer, state |-> "SUBMITTED"] \in Report
    BY <2>1, RowsStamped DEF Report, ServiceRequestState
  <2>3. {"SUBMITTED"} \in SUBSET ServiceRequestState
    BY DEF ServiceRequestState
  <2> QED BY <1>8, <2>2, <2>3 DEF InsertReport, Goto, Silent, Request
<1>9. ASSUME NEW r \in Requests, NEW d \in Diagnoses, InsertDiagnosis(r, d)
      PROVE  TypeOK'
  <2>1. req[r].actor \in Actors /\ req[r].order \in Orders
    BY <1>9 DEF InsertDiagnosis, Request, Idle
  <2>2. [tenant |-> Owned(req[r].actor, "Diagnosis"), order |-> req[r].order] \in Diagnosis
    BY <2>1, RowsStamped DEF Diagnosis
  <2> QED BY <1>9, <2>2 DEF InsertDiagnosis, Goto, Silent, Request
<1>10. ASSUME NEW r \in Requests, CommitUpdate(r)
       PROVE  TypeOK'
  <2> DEFINE q == req[r].report
             new == IF req[r].to = "SAME" THEN reports[q].state ELSE req[r].to
  <2>1. /\ q \in Reports /\ req[r].from \in ServiceRequestState
        /\ req[r].to \in ServiceRequestState \cup {"SAME"}
    BY <1>10 DEF CommitUpdate, Request, Idle
  <2>2. reports[q] \in Report
    BY <1>10, <2>1, RowsReal DEF CommitUpdate, Finds
  <2>3. new \in ServiceRequestState
    BY <2>1, <2>2 DEF Report
  <2>4. reports' = [reports EXCEPT ![q].state = new]
    BY <1>10 DEF CommitUpdate
  <2>5. reports' \in [Reports -> Report \cup {Absent}] /\ reports'[q].state = new
    BY <2>1, <2>2, <2>3, <2>4 DEF Report
  <2>6. reached' \in [Reports -> SUBSET ServiceRequestState]
    BY <1>10, <2>1, <2>3, <2>5 DEF CommitUpdate
  <2>7. Told(r) = new
    BY DEF Told
  <2>8. req' \in [Requests -> Request]
    BY <1>10, <2>1, <2>3, <2>7 DEF CommitUpdate, Goto, Request
  <2> QED BY <1>10, <2>5, <2>6, <2>8 DEF CommitUpdate, Silent
<1>11. ASSUME NEW r \in Requests, Audit(r)
       PROVE  TypeOK'
  <2>1. /\ req[r].report \in Reports /\ req[r].from \in ServiceRequestState
        /\ req[r].to \in ServiceRequestState
    BY <1>11 DEF Audit, Request, Idle
  <2> QED BY <1>11, <2>1 DEF Audit, Goto, Silent, rows, Request
<1>12. ASSUME NEW r \in Requests, Lose(r)
       PROVE  TypeOK'
  BY <1>12 DEF Lose, Goto, Silent, rows, Request
<1>13. CASE UNCHANGED vars
  BY <1>13 DEF vars, rows
<1> QED BY <1>1, <1>2, <1>3, <1>4, <1>5, <1>6, <1>7, <1>8, <1>9, <1>10, <1>11, <1>12, <1>13
        DEF Next

-----------------------------------------------------------------------------
\* Customers and assets are added and edited, but never change hands.
LEMMA RowsKept ==
  ASSUME TypeOK, [Next]_vars
  PROVE  /\ \A c \in Customers : customers[c].tenant \in Tenants =>
              customers'[c].tenant = customers[c].tenant
         /\ \A s \in Assets : assets[s].tenant \in Tenants => assets'[s] = assets[s]
<1>1. ASSUME NEW a \in Actors, NEW c \in Customers, NEW email \in Emails \cup {"NONE"},
             CreateCustomer(a, c, email)
      PROVE  /\ \A d \in Customers : customers[d].tenant \in Tenants =>
                  customers'[d].tenant = customers[d].tenant
             /\ assets' = assets
  BY <1>1, TenantsReal DEF CreateCustomer, TypeOK, Absent
<1>2. ASSUME NEW a \in Actors, NEW c \in Customers, NEW email \in Emails \cup {"NONE"},
             UpdateCustomer(a, c, email)
      PROVE  /\ \A d \in Customers : customers[d].tenant \in Tenants =>
                  customers'[d].tenant = customers[d].tenant
             /\ assets' = assets
  <2>1. customers[c] \in Customer
    BY <1>2 DEF UpdateCustomer, Finds, TypeOK
  <2>2. [customers[c] EXCEPT !.email = email].tenant = customers[c].tenant
    BY <2>1 DEF Customer
  <2> QED BY <1>2, <2>2 DEF UpdateCustomer, TypeOK
<1>3. ASSUME NEW r \in Requests, NEW s \in Assets, InsertAsset(r, s)
      PROVE  /\ customers' = customers
             /\ \A t \in Assets : assets[t].tenant \in Tenants => assets'[t] = assets[t]
  BY <1>3, TenantsReal DEF InsertAsset, TypeOK, Absent
<1>4. CASE UNCHANGED <<customers, assets>>
  BY <1>4
<1> QED BY <1>1, <1>2, <1>3, <1>4
        DEF Next, FindOwner, FindAsset, CheckUpdate, CheckDiagnosis, InsertReport,
            InsertDiagnosis, CommitUpdate, Audit, Lose, rows, vars

\* What a request found stays found.
LEMMA FindingsKept == Ownership /\ [Next]_vars => FindingsHold'
<1> SUFFICES ASSUME Ownership, [Next]_vars, NEW r \in Requests
             PROVE  /\ req'[r].pc = "adding" =>
                         customers'[req'[r].customer].tenant = Tenant[req'[r].actor]
                    /\ req'[r].pc = "reporting" =>
                         /\ assets'[req'[r].asset].tenant = Tenant[req'[r].actor]
                         /\ assets'[req'[r].asset].customer = req'[r].customer
  BY DEF FindingsHold
<1> USE DEF Ownership
<1>1. CASE req'[r] = req[r]
  <2>1. req[r].pc = "adding" => req[r].customer \in Customers /\ req[r].actor \in Actors
    BY DEF TypeOK, Request, Idle
  <2>2. req[r].pc = "reporting" => req[r].asset \in Assets /\ req[r].actor \in Actors
    BY DEF TypeOK, Request, Idle
  <2>3. \A a \in Actors : Tenant[a] \in Tenants
    BY DEF Tenants
  <2> QED BY <1>1, <2>1, <2>2, <2>3, RowsKept DEF FindingsHold
<1>2. ASSUME NEW q \in Requests, NEW a \in Actors, NEW c \in Customers, FindOwner(q, a, c), q = r
      PROVE  /\ req'[r].pc = "adding" /\ req'[r].customer = c /\ req'[r].actor = a
             /\ customers'[c].tenant = Tenant[a]
  <2>1. customers[c].tenant = Tenant[a]
    BY <1>2, LookUpsFiltered DEF FindOwner
  <2> QED BY <1>2, <2>1 DEF FindOwner, Goto, rows, TypeOK
<1>3. ASSUME NEW q \in Requests, NEW a \in Actors, NEW s \in Assets, FindAsset(q, a, s), q = r
      PROVE  /\ req'[r].pc = "reporting" /\ req'[r].asset = s /\ req'[r].actor = a
             /\ assets'[s].tenant = Tenant[a] /\ assets'[s].customer = req'[r].customer
  <2>1. assets[s].tenant = Tenant[a]
    BY <1>3, LookUpsFiltered DEF FindAsset
  <2> QED BY <1>3, <2>1 DEF FindAsset, Goto, rows, TypeOK
<1>4. CASE req'[r].pc \notin {"adding", "reporting"}
  BY <1>4
<1>5. ASSUME req'[r] # req[r], req'[r].pc \in {"adding", "reporting"}
      PROVE  \/ \E a \in Actors, c \in Customers : FindOwner(r, a, c)
             \/ \E a \in Actors, s \in Assets : FindAsset(r, a, s)
  <2>1. ASSUME NEW q \in Requests, NEW a \in Actors, NEW p \in Reports,
               NEW to \in ServiceRequestState \cup {"SAME"}, CheckUpdate(q, a, p, to)
        PROVE  FALSE
    BY <1>5, <2>1 DEF CheckUpdate, Goto, TypeOK
  <2>2. ASSUME NEW q \in Requests, NEW a \in Actors, NEW w \in Orders, CheckDiagnosis(q, a, w)
        PROVE  FALSE
    BY <1>5, <2>2 DEF CheckDiagnosis, Goto, TypeOK
  <2>3. ASSUME NEW q \in Requests, CommitUpdate(q)
        PROVE  FALSE
    BY <1>5, <2>3 DEF CommitUpdate, Goto, TypeOK, Idle
  <2>4. ASSUME NEW q \in Requests, NEW s \in Assets, InsertAsset(q, s)
        PROVE  FALSE
    BY <1>5, <2>4 DEF InsertAsset, Goto, TypeOK, Idle
  <2>5. ASSUME NEW q \in Requests, NEW p \in Reports, InsertReport(q, p)
        PROVE  FALSE
    BY <1>5, <2>5 DEF InsertReport, Goto, TypeOK, Idle
  <2>6. ASSUME NEW q \in Requests, NEW d \in Diagnoses, InsertDiagnosis(q, d)
        PROVE  FALSE
    BY <1>5, <2>6 DEF InsertDiagnosis, Goto, TypeOK, Idle
  <2>7. ASSUME NEW q \in Requests, Audit(q) \/ Lose(q)
        PROVE  FALSE
    BY <1>5, <2>7 DEF Audit, Lose, Goto, TypeOK, Idle
  <2>8. ASSUME NEW q \in Requests, NEW a \in Actors, NEW c \in Customers, FindOwner(q, a, c)
        PROVE  q = r
    BY <1>5, <2>8 DEF FindOwner, Goto, TypeOK
  <2>9. ASSUME NEW q \in Requests, NEW a \in Actors, NEW s \in Assets, FindAsset(q, a, s)
        PROVE  q = r
    BY <1>5, <2>9 DEF FindAsset, Goto, TypeOK
  <2> QED BY <1>5, <2>1, <2>2, <2>3, <2>4, <2>5, <2>6, <2>7, <2>8, <2>9
          DEF Next, CreateCustomer, UpdateCustomer, vars
<1> QED BY <1>1, <1>2, <1>3, <1>4, <1>5

\* An asset gets the tenant of the customer it is added for, and neither changes.
LEMMA AssetsKept == Ownership /\ [Next]_vars => AssetsOwned'
<1> SUFFICES ASSUME Ownership, [Next]_vars, NEW s \in Assets, assets'[s] # Absent
             PROVE  customers'[assets'[s].customer].tenant = assets'[s].tenant
  BY DEF AssetsOwned
<1> USE DEF Ownership
<1>1. CASE assets'[s] = assets[s]
  <2>1. assets[s] \in Asset /\ assets[s].tenant \in Tenants
    BY <1>1, RowsReal
  <2> QED BY <1>1, <2>1, RowsKept DEF Asset, AssetsOwned
<1>2. ASSUME NEW r \in Requests, InsertAsset(r, s)
      PROVE  customers'[assets'[s].customer].tenant = assets'[s].tenant
  <2>1. req[r].actor \in Actors /\ req[r].customer \in Customers
    BY <1>2 DEF InsertAsset, TypeOK, Request, Idle
  <2>2. assets'[s] = [tenant |-> Tenant[req[r].actor], customer |-> req[r].customer]
    BY <1>2, <2>1, RowsStamped DEF InsertAsset, TypeOK
  <2> QED BY <1>2, <2>1, <2>2 DEF InsertAsset, FindingsHold
<1>3. ASSUME assets'[s] # assets[s]
      PROVE  \E r \in Requests : InsertAsset(r, s)
  BY <1>3 DEF Next, vars, rows, CreateCustomer, UpdateCustomer, FindOwner, FindAsset,
       CheckUpdate, CheckDiagnosis, InsertAsset, InsertReport, InsertDiagnosis,
       CommitUpdate, Audit, Lose, TypeOK
<1> QED BY <1>1, <1>2, <1>3

\* A service request keeps its asset and customer, and what is inserted fits.
LEMMA OneTenantKept == Ownership /\ [Next]_vars => OneTenant'
<1> SUFFICES ASSUME Ownership, [Next]_vars, NEW q \in Reports, reports'[q] # Absent
             PROVE  /\ assets'[reports'[q].asset].tenant = reports'[q].tenant
                    /\ assets'[reports'[q].asset].customer = reports'[q].customer
                    /\ customers'[reports'[q].customer].tenant = reports'[q].tenant
  BY DEF OneTenant
<1> USE DEF Ownership
<1>1. ASSUME reports[q] # Absent,
             /\ reports'[q].tenant = reports[q].tenant
             /\ reports'[q].asset = reports[q].asset
             /\ reports'[q].customer = reports[q].customer
      PROVE  /\ assets'[reports'[q].asset].tenant = reports'[q].tenant
             /\ assets'[reports'[q].asset].customer = reports'[q].customer
             /\ customers'[reports'[q].customer].tenant = reports'[q].tenant
  <2>1. reports[q] \in Report
    BY <1>1, RowsReal
  <2>2. /\ reports[q].tenant \in Tenants /\ reports[q].asset \in Assets
        /\ reports[q].customer \in Customers
    BY <2>1 DEF Report
  <2> QED BY <1>1, <2>2, RowsKept DEF OneTenant
<1>2. ASSUME NEW r \in Requests, InsertReport(r, q)
      PROVE  /\ assets'[reports'[q].asset].tenant = reports'[q].tenant
             /\ assets'[reports'[q].asset].customer = reports'[q].customer
             /\ customers'[reports'[q].customer].tenant = reports'[q].tenant
  <2>1. req[r].actor \in Actors /\ req[r].asset \in Assets /\ req[r].customer \in Customers
    BY <1>2 DEF InsertReport, TypeOK, Request, Idle
  <2>2. /\ reports'[q].tenant = Tenant[req[r].actor] /\ reports'[q].asset = req[r].asset
        /\ reports'[q].customer = req[r].customer
    BY <1>2, <2>1, RowsStamped DEF InsertReport, TypeOK
  <2>3. /\ assets[req[r].asset].tenant = Tenant[req[r].actor]
        /\ assets[req[r].asset].customer = req[r].customer
    BY <1>2, <2>1 DEF InsertReport, FindingsHold
  <2>4. assets[req[r].asset] # Absent
    BY <2>1, <2>3, RowsReal DEF Tenants
  <2>5. customers[req[r].customer].tenant = Tenant[req[r].actor]
    BY <2>1, <2>3, <2>4 DEF AssetsOwned
  <2> QED BY <1>2, <2>2, <2>3, <2>5 DEF InsertReport
<1>3. ASSUME NEW r \in Requests, CommitUpdate(r), reports'[q] # reports[q]
      PROVE  /\ reports[q] # Absent
             /\ reports'[q].tenant = reports[q].tenant
             /\ reports'[q].asset = reports[q].asset
             /\ reports'[q].customer = reports[q].customer
  <2> DEFINE new == IF req[r].to = "SAME" THEN reports[q].state ELSE req[r].to
  <2>1. q = req[r].report /\ reports[q] # Absent
    BY <1>3 DEF CommitUpdate, Finds, TypeOK
  <2>2. reports' = [reports EXCEPT ![q].state = new]
    BY <1>3, <2>1 DEF CommitUpdate
  <2>3. reports[q] \in Report
    BY <2>1, RowsReal
  <2> QED BY <2>1, <2>2, <2>3 DEF Report, TypeOK
<1>4. ASSUME reports'[q] # reports[q]
      PROVE  \E r \in Requests : InsertReport(r, q) \/ CommitUpdate(r)
  BY <1>4 DEF Next, vars, rows, CreateCustomer, UpdateCustomer, FindOwner, FindAsset,
       CheckUpdate, CheckDiagnosis, InsertAsset, InsertReport, InsertDiagnosis, Audit,
       Lose, TypeOK
<1>5. CASE reports'[q] = reports[q]
  BY <1>1, <1>5
<1> QED BY <1>1, <1>2, <1>3, <1>4, <1>5

LEMMA OwnershipKept == Ownership /\ [Next]_vars => Ownership'
  BY TypesKept, AssetsKept, OneTenantKept, FindingsKept DEF Ownership

-----------------------------------------------------------------------------
\* Type correctness: the rows of Intake and the locals of its requests hold only
\* what the services can store or read, for any tenants, people and requests.
THEOREM IntakeTypeCorrect == Spec => []TypeOK
<1>1. Init => TypeOK
  BY OwnershipInit DEF Ownership
<1> QED BY <1>1, TypesKept, PTL DEF Spec

\* However look-ups and INSERTs of several tenants interleave, a service request,
\* its asset and its customer belong to one tenant and to each other.
THEOREM TenantsNeverMix == Spec => []OneTenant
<1>1. Ownership => OneTenant
  BY DEF Ownership
<1> QED BY <1>1, OwnershipInit, OwnershipKept, PTL DEF Spec
-----------------------------------------------------------------------------
\* A stored service request has been in its state, a request in flight read a
\* state it has been in and may ask for what it asks, and one that is about to
\* record a change names two states it has been in.
StatesInv ==
  /\ AuditTrue
  /\ \A q \in Reports : IF reports[q] = Absent THEN reached[q] = {}
                         ELSE reports[q].state \in reached[q]
  /\ \A r \in Requests :
       /\ req[r].pc = "updating" => /\ req[r].from \in reached[req[r].report]
                                    /\ Changeable(req[r].from, req[r].to)
       /\ req[r].pc = "auditing" =>
            req[r].from # req[r].to /\ {req[r].from, req[r].to} \subseteq reached[req[r].report]

\* What a request carries that changes the state of a service request.
LEMMA UpdateFields ==
  ASSUME NEW q \in Request
  PROVE  /\ q.pc = "updating" =>
              /\ q.report \in Reports /\ q.from \in ServiceRequestState
              /\ q.to \in ServiceRequestState \cup {"SAME"}
         /\ q.pc = "auditing" =>
              /\ q.report \in Reports /\ q.from \in ServiceRequestState
              /\ q.to \in ServiceRequestState
  BY DEF Request, Idle

\* What committing an update does to the service request.
LEMMA UpdateCommits ==
  ASSUME TypeOK, NEW r \in Requests, CommitUpdate(r)
  PROVE  \E q \in Reports :
           /\ q = req[r].report /\ reports[q] # Absent
           /\ reports'[q].state = Told(r) /\ reports'[q] # Absent
           /\ reached'[q] = reached[q] \cup {Told(r)}
           /\ \A o \in Reports \ {q} : reports'[o] = reports[o] /\ reached'[o] = reached[o]
<1>1. PICK q \in Reports : q = req[r].report
  BY UpdateFields DEF CommitUpdate, TypeOK
<1>2. reports[q] # Absent
  BY <1>1 DEF CommitUpdate, Finds
<1>3. reports[q] \in Report
  BY <1>2, RowsReal
<1>4. reports'[q] = [reports[q] EXCEPT !.state = Told(r)]
  BY <1>1, <1>3 DEF CommitUpdate, Told, TypeOK, Report
<1>5. reports'[q].state = Told(r) /\ reports'[q].tenant = reports[q].tenant
  BY <1>3, <1>4 DEF Report
<1>6. reports'[q] # Absent
  BY <1>3, <1>5, TenantsReal DEF Absent, Report
<1>7. /\ reached'[q] = reached[q] \cup {Told(r)}
      /\ \A o \in Reports \ {q} : reports'[o] = reports[o] /\ reached'[o] = reached[o]
  BY <1>1, <1>5 DEF CommitUpdate, TypeOK
<1> QED BY <1>1, <1>2, <1>5, <1>6, <1>7

\* What a service request has been in, it has been in for good.
LEMMA ReachedGrows ==
  ASSUME TypeOK, StatesInv, [Next]_vars, NEW q \in Reports
  PROVE  /\ reached[q] \subseteq reached'[q]
         /\ IF reports'[q] = Absent THEN reached'[q] = {}
            ELSE reports'[q].state \in reached'[q]
<1> DEFINE Goal == /\ reached[q] \subseteq reached'[q]
                   /\ IF reports'[q] = Absent THEN reached'[q] = {}
                      ELSE reports'[q].state \in reached'[q]
<1>1. ASSUME NEW r \in Requests, CommitUpdate(r) PROVE Goal
  <2>1. PICK o \in Reports :
          /\ reports'[o].state = Told(r) /\ reports'[o] # Absent
          /\ reached'[o] = reached[o] \cup {Told(r)}
          /\ \A p \in Reports \ {o} : reports'[p] = reports[p] /\ reached'[p] = reached[p]
    BY <1>1, UpdateCommits
  <2> QED BY <2>1 DEF StatesInv
<1>2. ASSUME NEW r \in Requests, NEW o \in Reports, InsertReport(r, o) PROVE Goal
  <2>1. CASE q = o
    <3>1. reached[q] = {} /\ reached'[q] = {"SUBMITTED"} /\ reports'[q].state = "SUBMITTED"
      BY <1>2, <2>1 DEF InsertReport, StatesInv, TypeOK
    <3>2. reports'[q].tenant = Owned(req[r].actor, "ServiceRequest") /\ req[r].actor \in Actors
      BY <1>2, <2>1 DEF InsertReport, TypeOK, Request, Idle
    <3>3. reports'[q] # Absent
      BY <3>2, RowsStamped, TenantsReal DEF Absent
    <3> QED BY <3>1, <3>3
  <2>2. CASE q # o
    BY <1>2, <2>2 DEF InsertReport, StatesInv, TypeOK
  <2> QED BY <2>1, <2>2
<1>3. CASE UNCHANGED <<reports, reached>>
  BY <1>3 DEF StatesInv
<1> QED BY <1>1, <1>2, <1>3
        DEF Next, vars, rows, CreateCustomer, UpdateCustomer, FindOwner, FindAsset,
            CheckUpdate, CheckDiagnosis, InsertAsset, InsertDiagnosis, Audit, Lose

\* A request comes to update or to record by reading or committing just now, or
\* was there before.
LEMMA StatesCarried ==
  ASSUME TypeOK, [Next]_vars, NEW r \in Requests, req'[r].pc \in {"updating", "auditing"}
  PROVE  \/ req'[r] = req[r]
         \/ \E a \in Actors, q \in Reports, to \in ServiceRequestState \cup {"SAME"} :
              CheckUpdate(r, a, q, to)
         \/ CommitUpdate(r)
<1> SUFFICES ASSUME req'[r] # req[r]
             PROVE  \/ \E a \in Actors, q \in Reports, to \in ServiceRequestState \cup {"SAME"} :
                         CheckUpdate(r, a, q, to)
                    \/ CommitUpdate(r)
  OBVIOUS
<1>1. ASSUME NEW o \in Requests, NEW state, Goto(o, state) PROVE o = r /\ req'[r] = state
  BY <1>1 DEF Goto, TypeOK
<1>2. ASSUME NEW o \in Requests, NEW a \in Actors, NEW c \in Customers, FindOwner(o, a, c)
      PROVE  FALSE
  BY <1>1, <1>2 DEF FindOwner
<1>3. ASSUME NEW o \in Requests, NEW a \in Actors, NEW s \in Assets, FindAsset(o, a, s)
      PROVE  FALSE
  BY <1>1, <1>3 DEF FindAsset
<1>4. ASSUME NEW o \in Requests, NEW a \in Actors, NEW w \in Orders, CheckDiagnosis(o, a, w)
      PROVE  FALSE
  BY <1>1, <1>4 DEF CheckDiagnosis
<1>5. ASSUME NEW o \in Requests, Goto(o, Idle) PROVE FALSE
  BY <1>1, <1>5 DEF Idle
<1>6. ASSUME NEW o \in Requests, NEW a \in Actors, NEW q \in Reports,
             NEW to \in ServiceRequestState \cup {"SAME"}, CheckUpdate(o, a, q, to)
      PROVE  o = r
  BY <1>1, <1>6 DEF CheckUpdate
<1>7. ASSUME NEW o \in Requests, CommitUpdate(o) PROVE o = r
  BY <1>7 DEF CommitUpdate, Goto, TypeOK
<1> QED BY <1>2, <1>3, <1>4, <1>5, <1>6, <1>7
        DEF Next, vars, CreateCustomer, UpdateCustomer, InsertAsset, InsertReport,
            InsertDiagnosis, Audit, Lose

\* What a request carries stays true.
LEMMA CarriedStates ==
  ASSUME TypeOK, StatesInv, [Next]_vars, NEW r \in Requests
  PROVE  /\ req'[r].pc = "updating" => /\ req'[r].from \in reached'[req'[r].report]
                                       /\ Changeable(req'[r].from, req'[r].to)
         /\ req'[r].pc = "auditing" =>
              /\ req'[r].from # req'[r].to
              /\ {req'[r].from, req'[r].to} \subseteq reached'[req'[r].report]
<1>1. CASE req'[r] = req[r]
  <2>1. req[r].pc \in {"updating", "auditing"} => req[r].report \in Reports
    BY UpdateFields DEF TypeOK
  <2> QED BY <1>1, <2>1, ReachedGrows DEF StatesInv
<1>2. ASSUME NEW a \in Actors, NEW q \in Reports, NEW to \in ServiceRequestState \cup {"SAME"},
             CheckUpdate(r, a, q, to)
      PROVE  /\ req'[r].pc = "updating" /\ req'[r].from \in reached'[req'[r].report]
             /\ Changeable(req'[r].from, req'[r].to)
  <2>1. /\ req'[r].pc = "updating" /\ req'[r].report = q /\ req'[r].from = reports[q].state
        /\ req'[r].to = to /\ reports[q] # Absent /\ Changeable(reports[q].state, to)
        /\ reached' = reached
    BY <1>2 DEF CheckUpdate, Goto, TypeOK, Finds, rows
  <2> QED BY <2>1 DEF StatesInv
<1>3. ASSUME CommitUpdate(r), req'[r].pc \in {"updating", "auditing"}
      PROVE  /\ req'[r].pc = "auditing" /\ req'[r].from # req'[r].to
             /\ {req'[r].from, req'[r].to} \subseteq reached'[req'[r].report]
  <2>1. PICK q \in Reports : q = req[r].report /\ reached'[q] = reached[q] \cup {Told(r)}
    BY <1>3, UpdateCommits
  <2>2. req[r].from \in reached[q]
    BY <1>3, <2>1 DEF CommitUpdate, StatesInv
  <2>3. Told(r) # req[r].from
    BY <1>3 DEF CommitUpdate, Goto, TypeOK, Idle
  <2>4. req'[r] = [pc |-> "auditing", report |-> q, from |-> req[r].from, to |-> Told(r)]
    BY <1>3, <2>1, <2>3 DEF CommitUpdate, Goto, TypeOK
  <2> QED BY <2>1, <2>2, <2>3, <2>4
<1> QED BY <1>1, <1>2, <1>3, StatesCarried

\* Every step keeps it, the recording one because the record is what it carried.
LEMMA StatesStep == TypeOK /\ StatesInv /\ [Next]_vars => StatesInv'
<1> SUFFICES ASSUME TypeOK, StatesInv, [Next]_vars PROVE StatesInv'
  OBVIOUS
<1>1. ASSUME NEW o \in out'
      PROVE  o.from # o.to /\ {o.from, o.to} \subseteq reached'[o.report]
  <2>1. ASSUME NEW r \in Requests, Audit(r)
        PROVE  o.from # o.to /\ {o.from, o.to} \subseteq reached'[o.report]
    BY <1>1, <2>1 DEF Audit, Silent, StatesInv, rows
  <2>2. CASE UNCHANGED vars
    BY <1>1, <2>2 DEF vars, rows, StatesInv, AuditTrue
  <2>3. CASE Silent
    BY <1>1, <2>3 DEF Silent
  <2> QED BY <2>1, <2>2, <2>3
          DEF Next, CreateCustomer, UpdateCustomer, FindOwner, FindAsset, CheckUpdate,
              CheckDiagnosis, InsertAsset, InsertReport, InsertDiagnosis, CommitUpdate, Lose
<1>2. AuditTrue'
  BY <1>1 DEF AuditTrue
<1> QED BY <1>2, ReachedGrows, CarriedStates DEF StatesInv

LEMMA StatesInvariant == Spec => [](TypeOK /\ StatesInv)
<1>1. Init => TypeOK /\ StatesInv
  BY OwnershipInit DEF Init, Ownership, StatesInv, AuditTrue, Idle
<1> QED BY <1>1, TypesKept, StatesStep, PTL DEF Spec

\* However late a record of a state change is written, and whatever others did
\* meanwhile, it names two different states the service request has been in.
THEOREM ChangesHappened == Spec => []AuditTrue
<1>1. StatesInv => AuditTrue
  BY DEF StatesInv
<1> QED BY <1>1, StatesInvariant, PTL

\* A converted service request only leaves its state through an update that had
\* read it before the conversion.
THEOREM OnlyStaleUpdatesUndo == Spec => ConvertedStays
<1> DEFINE Stays == \A q \in Reports :
       reports[q] # Absent /\ reports[q].state = "CONVERTED_TO_WORK_ORDER"
         => \/ reports'[q].state = reports[q].state
            \/ \E r \in Requests : /\ req[r].pc = "updating" /\ req[r].report = q
                                   /\ req[r].from # "CONVERTED_TO_WORK_ORDER"
<1>1. TypeOK /\ StatesInv /\ [Next]_vars => [Stays]_vars
  <2> SUFFICES ASSUME TypeOK, StatesInv, [Next]_vars, NEW q \in Reports, reports[q] # Absent,
                      reports[q].state = "CONVERTED_TO_WORK_ORDER"
               PROVE  \/ reports'[q].state = reports[q].state
                      \/ \E r \in Requests : /\ req[r].pc = "updating" /\ req[r].report = q
                                             /\ req[r].from # "CONVERTED_TO_WORK_ORDER"
    OBVIOUS
  <2>1. ASSUME NEW r \in Requests, CommitUpdate(r)
        PROVE  \/ reports'[q].state = reports[q].state
               \/ /\ req[r].pc = "updating" /\ req[r].report = q
                  /\ req[r].from # "CONVERTED_TO_WORK_ORDER"
    <3>1. PICK o \in Reports :
            /\ o = req[r].report /\ reports'[o].state = Told(r)
            /\ \A p \in Reports \ {o} : reports'[p] = reports[p]
      BY <2>1, UpdateCommits
    <3>2. CASE q # o
      BY <3>1, <3>2
    <3>3. CASE q = o /\ req[r].from = "CONVERTED_TO_WORK_ORDER"
      BY <2>1, <3>1, <3>3 DEF CommitUpdate, StatesInv, Changeable, Told
    <3>4. CASE q = o /\ req[r].from # "CONVERTED_TO_WORK_ORDER"
      BY <2>1, <3>1, <3>4 DEF CommitUpdate
    <3> QED BY <3>2, <3>3, <3>4
  <2>2. ASSUME NEW r \in Requests, NEW o \in Reports, InsertReport(r, o)
        PROVE  reports'[q] = reports[q]
    BY <2>2 DEF InsertReport, TypeOK
  <2>3. CASE UNCHANGED reports
    BY <2>3
  <2> QED BY <2>1, <2>2, <2>3
          DEF Next, vars, rows, CreateCustomer, UpdateCustomer, FindOwner, FindAsset,
              CheckUpdate, CheckDiagnosis, InsertAsset, InsertDiagnosis, Audit, Lose
<1>2. Spec => [][Stays]_vars
  BY <1>1, StatesInvariant, PTL DEF Spec
<1> QED BY <1>2 DEF ConvertedStays
=============================================================================
