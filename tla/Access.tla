------------------------------- MODULE Access -------------------------------
(***************************************************************************)
(* What a request may do and which rows it sees: PermissionsGuard looks    *)
(* the roles of the access token up in the table of role-mapping.ts, and   *)
(* the Prisma extension of tenant.extension.ts rewrites every query of a   *)
(* request that has a tenant.  Both are pure functions.                    *)
(***************************************************************************)

Roles == {"OWNER", "ADMIN", "MANAGER", "TECHNICIAN", "STAFF", "CUSTOMER"}

Reads ==
  {"customer.read", "asset.read", "service_request.read", "work_order.read",
   "diagnosis.read", "estimate.read", "repair.read", "inventory.read",
   "invoice.read", "payment.read", "user.read", "report.read"}

Writes ==
  {"customer.create", "customer.update", "asset.create", "asset.update",
   "service_request.create", "service_request.update", "work_order.create",
   "work_order.update", "work_order.assign", "diagnosis.create",
   "diagnosis.update", "estimate.create", "estimate.update", "estimate.approve",
   "repair.create", "repair.update", "inventory.update", "invoice.create",
   "user.create", "user.update"}

Permissions == Reads \cup Writes

\* What the five listed roles lack: the listing of ADMIN omits nothing.
Lacking ==
  [ADMIN |-> {},
   MANAGER |-> {"user.create", "user.update"},
   TECHNICIAN |-> {"customer.create", "customer.update", "asset.create",
     "service_request.create", "work_order.create", "estimate.approve",
     "repair.create", "invoice.read", "invoice.create", "payment.read", "user.read",
     "user.create", "user.update", "report.read"},
   STAFF |-> {"asset.update", "work_order.assign", "repair.update",
     "inventory.update", "user.read", "user.create", "user.update", "report.read"},
   CUSTOMER |-> (Writes \ {"service_request.create", "estimate.approve"})
     \cup {"inventory.read", "user.read", "report.read"}]

RolePermissions ==
  [role \in Roles |->
     IF role = "OWNER" THEN Permissions ELSE Permissions \ Lacking[role]]

\* PermissionsGuard, for a token that carries one role.
Permits(role, permission) == permission \in RolePermissions[role]

-----------------------------------------------------------------------------
TenantModels ==
  {"User", "AuditEvent", "Customer", "Asset", "ServiceRequest", "WorkOrder",
   "WorkOrderTimelineEvent", "Diagnosis", "Estimate", "Supplier", "Part",
   "InventoryTransaction", "Invoice", "Payment", "Notification"}

\* Mutant: a look-up by its unique id is not filtered.
FilteredOperationsOfLists ==
  {"findFirst", "findFirstOrThrow", "findMany", "count", "update", "updateMany",
   "delete", "deleteMany", "aggregate", "groupBy", "upsert"}

FilteredOperations ==
  {"findUnique", "findUniqueOrThrow", "findFirst", "findFirstOrThrow", "findMany",
   "count", "update", "updateMany", "delete", "deleteMany", "aggregate", "groupBy",
   "upsert"}

Scoped(tenant, model) == tenant # "NONE" /\ model \in TenantModels

\* Whether a query of a request of `tenant` reaches a row of tenant `of`; a
\* request without a tenant, as those of the public routes, reaches all.
Reaches(tenant, model, operation, of) ==
  Scoped(tenant, model) /\ operation \in FilteredOperations => of = tenant

\* The tenant of a row that is created with `given`.
Stamped(tenant, model, given) == IF Scoped(tenant, model) THEN tenant ELSE given
=============================================================================
