------------------------------- MODULE Intake -------------------------------
(***************************************************************************)
(* What happens before a repair: customers, their assets, service requests *)
(* and diagnoses, by staff of several tenants on one database.  Each       *)
(* statement goes through the tenant extension (Access) and commits on its *)
(* own; none of the services opens a transaction.  A 4xx answer, and an    *)
(* update of columns that are not modelled, is a stutter.  Of the audit    *)
(* records only those of a change of state are modelled; one that fails to *)
(* be written is missing.                                                  *)
(***************************************************************************)
EXTENDS Access, FiniteSets

CONSTANTS Actors,    \* logged-in users
          Tenant,    \* actor -> the tenant of the access token
          Role,      \* actor -> the role of the access token
          Customers, Assets, Reports, Diagnoses,  \* ids created rows may get
          Orders,    \* work orders there are
          Emails,    \* addresses a customer may have
          Requests   \* slots for concurrently running HTTP requests

ASSUME ActorsAssumption == \A a \in Actors : Tenant[a] # "NONE" /\ Role[a] \in Roles

VARIABLES customers,  \* id -> row, or Absent
          assets,
          reports,    \* the service requests: report -> row, or Absent
          diagnoses,
          reached,    \* history: report -> the states it has been in
          out,        \* the audit record of the latest step
          req         \* request slot -> program counter and locals

rows == <<customers, assets, reports, diagnoses, reached>>
vars == <<rows, out, req>>

-----------------------------------------------------------------------------
ServiceRequestState ==
  {"SUBMITTED", "REVIEWING", "ACCEPTED", "REJECTED", "CONVERTED_TO_WORK_ORDER"}

Absent == [tenant |-> "NONE"]
Idle == [pc |-> "idle"]
Tenants == {Tenant[a] : a \in Actors}

\* "NONE": the address is null, and equal to no other.
Customer == [tenant: Tenants, email: Emails \cup {"NONE"}]
Asset == [tenant: Tenants, customer: Customers]
Report == [tenant: Tenants, customer: Customers, asset: Assets, state: ServiceRequestState]
Diagnosis == [tenant: Tenants, order: Orders]

\* to: dto.state, "SAME" when the body has none.
Request == {Idle}
  \cup [pc: {"adding"}, actor: Actors, customer: Customers]
  \cup [pc: {"reporting"}, actor: Actors, asset: Assets, customer: Customers]
  \cup [pc: {"updating"}, actor: Actors, report: Reports, from: ServiceRequestState,
        to: ServiceRequestState \cup {"SAME"}]
  \cup [pc: {"auditing"}, report: Reports, from: ServiceRequestState, to: ServiceRequestState]
  \cup [pc: {"diagnosing"}, actor: Actors, order: Orders]

Goto(r, s) == req' = [req EXCEPT ![r] = s]
Silent == out' = {}

\* A token with the permission, and a row the look-up or write of its tenant finds.
May(a, permission) == Permits(Role[a], permission)
Finds(a, model, operation, row) ==
  row # Absent /\ Reaches(Tenant[a], model, operation, row.tenant)

\* create through the extension: the services name no tenant, or the same.
Owned(a, model) == Stamped(Tenant[a], model, Tenant[a])

Init ==
  /\ customers = [c \in Customers |-> Absent]
  /\ assets = [s \in Assets |-> Absent]
  /\ reports = [q \in Reports |-> Absent]
  /\ diagnoses = [d \in Diagnoses |-> Absent]
  /\ reached = [q \in Reports |-> {}]
  /\ out = {}
  /\ req = [r \in Requests |-> Idle]

\* @@unique([tenantId, email]) for the row of `customer`, P2002 and 409 otherwise.
EmailFree(tenant, email, customer) ==
  email # "NONE" => \A c \in Customers \ {customer} :
    customers[c] # [tenant |-> tenant, email |-> email]

CreateCustomer(a, c, email) ==
  /\ May(a, "customer.create")
  /\ customers[c] = Absent
  /\ EmailFree(Owned(a, "Customer"), email, c)
  /\ customers' = [customers EXCEPT ![c] =
       [tenant |-> Owned(a, "Customer"), email |-> email]]
  /\ UNCHANGED <<assets, reports, diagnoses, reached, req>>
  /\ Silent

\* The UPDATE carries the tenant; P2025 and 404 when it meets no row.
UpdateCustomer(a, c, email) ==
  /\ May(a, "customer.update")
  /\ Finds(a, "Customer", "update", customers[c])
  /\ EmailFree(customers[c].tenant, email, c)
  /\ customers' = [customers EXCEPT ![c].email = email]
  /\ UNCHANGED <<assets, reports, diagnoses, reached, req>>
  /\ Silent

\* AssetsService.create: the customer is looked up and the asset inserted.
FindOwner(r, a, c) ==
  /\ req[r] = Idle
  /\ May(a, "asset.create")
  /\ Finds(a, "Customer", "findUnique", customers[c])
  /\ Goto(r, [pc |-> "adding", actor |-> a, customer |-> c])
  /\ UNCHANGED rows /\ Silent

InsertAsset(r, s) ==
  /\ req[r].pc = "adding"
  /\ assets[s] = Absent
  /\ assets' = [assets EXCEPT ![s] =
       [tenant |-> Owned(req[r].actor, "Asset"), customer |-> req[r].customer]]
  /\ Goto(r, Idle)
  /\ UNCHANGED <<customers, reports, diagnoses, reached>> /\ Silent

\* ServiceRequestsService.create: the asset is read with its customer, who
\* becomes the customer of the request.
FindAsset(r, a, s) ==
  /\ req[r] = Idle
  /\ May(a, "service_request.create")
  /\ Finds(a, "Asset", "findUnique", assets[s])
  /\ Goto(r, [pc |-> "reporting", actor |-> a, asset |-> s, customer |-> assets[s].customer])
  /\ UNCHANGED rows /\ Silent

InsertReport(r, q) ==
  /\ req[r].pc = "reporting"
  /\ reports[q] = Absent
  /\ reports' = [reports EXCEPT ![q] =
       [tenant |-> Owned(req[r].actor, "ServiceRequest"), asset |-> req[r].asset,
        customer |-> req[r].customer, state |-> "SUBMITTED"]]
  /\ reached' = [reached EXCEPT ![q] = {"SUBMITTED"}]
  /\ Goto(r, Idle)
  /\ UNCHANGED <<customers, assets, diagnoses>> /\ Silent

\* Mutant: only the rejection of a converted request is refused.
ChangeableButRejected(from, to) ==
  from = "CONVERTED_TO_WORK_ORDER" => to # "REJECTED"

Changeable(from, to) ==
  from = "CONVERTED_TO_WORK_ORDER" => to \in {"SAME", from}

\* update: the row is read and its state checked ...
CheckUpdate(r, a, q, to) ==
  /\ req[r] = Idle
  /\ May(a, "service_request.update")
  /\ Finds(a, "ServiceRequest", "findUnique", reports[q])
  /\ Changeable(reports[q].state, to)
  /\ Goto(r, [pc |-> "updating", actor |-> a, report |-> q, from |-> reports[q].state,
              to |-> to])
  /\ UNCHANGED rows /\ Silent

\* Mutant: the record repeats the body of the request.
ToldRequested(r) == req[r].to

\* updated.state, the row as the UPDATE left it.
Told(r) == IF req[r].to = "SAME" THEN reports[req[r].report].state ELSE req[r].to

\* ... and written, whatever it is by now ...
CommitUpdate(r) ==
  LET q == req[r].report IN
  /\ req[r].pc = "updating"
  /\ Finds(req[r].actor, "ServiceRequest", "update", reports[q])
  /\ reports' = [reports EXCEPT ![q].state = IF req[r].to = "SAME" THEN @ ELSE req[r].to]
  /\ reached' = [reached EXCEPT ![q] = @ \cup {reports'[q].state}]
  /\ Goto(r, IF Told(r) = req[r].from THEN Idle ELSE
       [pc |-> "auditing", report |-> q, from |-> req[r].from, to |-> Told(r)])
  /\ UNCHANGED <<customers, assets, diagnoses>> /\ Silent

\* ... and SERVICE_REQUEST_STATE_CHANGED tells the state read and the state written.
Audit(r) ==
  /\ req[r].pc = "auditing"
  /\ \/ Silent
     \/ out' = {[report |-> req[r].report, from |-> req[r].from, to |-> req[r].to]}
  /\ Goto(r, Idle)
  /\ UNCHANGED rows

\* DiagnosesService.create, for any work order there is: its tenant has recorded
\* no diagnosis of it yet ...
CheckDiagnosis(r, a, w) ==
  /\ req[r] = Idle
  /\ May(a, "diagnosis.create")
  /\ ~ \E d \in Diagnoses : /\ Finds(a, "Diagnosis", "findUnique", diagnoses[d])
                            /\ diagnoses[d].order = w
  /\ Goto(r, [pc |-> "diagnosing", actor |-> a, order |-> w])
  /\ UNCHANGED rows /\ Silent

\* workOrderId @unique
OrderFree(w) == \A d \in Diagnoses : diagnoses[d] # Absent => diagnoses[d].order # w

\* ... nor when the row is inserted.
InsertDiagnosis(r, d) ==
  /\ req[r].pc = "diagnosing"
  /\ diagnoses[d] = Absent
  /\ OrderFree(req[r].order)
  /\ diagnoses' = [diagnoses EXCEPT ![d] =
       [tenant |-> Owned(req[r].actor, "Diagnosis"), order |-> req[r].order]]
  /\ Goto(r, Idle)
  /\ UNCHANGED <<customers, assets, reports, reached>> /\ Silent

\* The database refuses the row, fails, or the process dies.
Lose(r) ==
  /\ req[r] # Idle
  /\ Goto(r, Idle)
  /\ UNCHANGED rows /\ Silent

Next ==
  \/ \E a \in Actors, c \in Customers, email \in Emails \cup {"NONE"} :
       CreateCustomer(a, c, email) \/ UpdateCustomer(a, c, email)
  \/ \E r \in Requests, a \in Actors :
       \/ \E c \in Customers : FindOwner(r, a, c)
       \/ \E s \in Assets : FindAsset(r, a, s)
       \/ \E q \in Reports, to \in ServiceRequestState \cup {"SAME"} : CheckUpdate(r, a, q, to)
       \/ \E w \in Orders : CheckDiagnosis(r, a, w)
  \/ \E r \in Requests :
       \/ \E s \in Assets : InsertAsset(r, s)
       \/ \E q \in Reports : InsertReport(r, q)
       \/ \E d \in Diagnoses : InsertDiagnosis(r, d)
       \/ CommitUpdate(r) \/ Audit(r) \/ Lose(r)

Spec == Init /\ [][Next]_vars

-----------------------------------------------------------------------------
\* Types: rows and requests hold only what the code can store or read.
TypeOK ==
  /\ customers \in [Customers -> Customer \cup {Absent}]
  /\ assets \in [Assets -> Asset \cup {Absent}]
  /\ reports \in [Reports -> Report \cup {Absent}]
  /\ diagnoses \in [Diagnoses -> Diagnosis \cup {Absent}]
  /\ reached \in [Reports -> SUBSET ServiceRequestState]
  /\ out \subseteq [report: Reports, from: ServiceRequestState, to: ServiceRequestState]
  /\ req \in [Requests -> Request]

\* A service request, its asset and its customer are of one tenant, and the
\* asset is that customer's, although each was inserted after an earlier look-up
\* and no foreign key mentions the tenant.
OneTenant ==
  \A q \in Reports : reports[q] # Absent =>
    LET asset == assets[reports[q].asset]
        customer == customers[reports[q].customer]
    IN  /\ asset.tenant = reports[q].tenant /\ asset.customer = reports[q].customer
        /\ customer.tenant = reports[q].tenant

\* A converted service request stays converted, unless an update that had read
\* it before the conversion was still to commit.
ConvertedStays ==
  [][\A q \in Reports :
       reports[q] # Absent /\ reports[q].state = "CONVERTED_TO_WORK_ORDER"
         => \/ reports'[q].state = reports[q].state
            \/ \E r \in Requests : /\ req[r].pc = "updating" /\ req[r].report = q
                                   /\ req[r].from # "CONVERTED_TO_WORK_ORDER"]_vars

\* However late it is written, a record of a state change names two different
\* states, both of which the service request really has been in.
AuditTrue ==
  \A o \in out : o.from # o.to /\ {o.from, o.to} \subseteq reached[o.report]
=============================================================================
