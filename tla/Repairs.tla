------------------------------ MODULE Repairs ------------------------------
(***************************************************************************)
(* What every module about repairs shares: the status enumerations of the  *)
(* database schema, the transition table of WorkOrdersService, the events  *)
(* of a work order's timeline and what a timeline tells.                   *)
(***************************************************************************)
EXTENDS Naturals, Sequences

\* enum WorkOrderStatus
WorkOrderStatus ==
  {"RECEIVED", "DIAGNOSING", "WAITING_FOR_APPROVAL", "APPROVED",
   "WAITING_FOR_PARTS", "IN_REPAIR", "QUALITY_CHECK", "READY_FOR_PICKUP",
   "COMPLETED", "CANCELLED"}

\* The statuses of enum EstimateStatus that the code ever stores: nothing in
\* src/ writes VIEWED or EXPIRED.
EstimateStatus == {"DRAFT", "SENT", "APPROVED", "REJECTED"}

\* WorkOrdersService.validTransitions, as the set of its <<from, to>> pairs.
ValidTransitions ==
  {<<"RECEIVED", "DIAGNOSING">>,
   <<"DIAGNOSING", "WAITING_FOR_APPROVAL">>, <<"DIAGNOSING", "APPROVED">>,
   <<"WAITING_FOR_APPROVAL", "APPROVED">>,
   <<"APPROVED", "WAITING_FOR_PARTS">>, <<"APPROVED", "IN_REPAIR">>,
   <<"WAITING_FOR_PARTS", "IN_REPAIR">>,
   <<"IN_REPAIR", "QUALITY_CHECK">>,
   <<"QUALITY_CHECK", "READY_FOR_PICKUP">>, <<"QUALITY_CHECK", "IN_REPAIR">>,
   <<"READY_FOR_PICKUP", "COMPLETED">>}
  \cup ({"RECEIVED", "DIAGNOSING", "WAITING_FOR_APPROVAL", "APPROVED",
         "WAITING_FOR_PARTS", "IN_REPAIR", "QUALITY_CHECK"} \X {"CANCELLED"})

\* Statuses a work order only reaches once somebody agreed to the repair.
UnderRepair == {"WAITING_FOR_PARTS", "IN_REPAIR", "QUALITY_CHECK",
                "READY_FOR_PICKUP", "COMPLETED"}

\* Statuses in which the customer is told that the repaired asset is ready.
HandedOver == {"READY_FOR_PICKUP", "COMPLETED"}

-----------------------------------------------------------------------------
\* The `type' and `details' of a work_order_timeline_events row.
CreatedEvent == [type |-> "CREATED"]
StatusChange(from, to) == [type |-> "STATUS_CHANGE", from |-> from, to |-> to]
Assignment(t) == [type |-> "TECHNICIAN_ASSIGNED", technician |-> t]

\* The event moved the work order to status s.
MovedTo(event, s) == event.type = "STATUS_CHANGE" /\ event.to = s

\* A timeline says that the order was in status s before its i-th event.
ReachedBefore(log, i, s) ==
  s = "RECEIVED" \/ \E j \in 1..(i - 1) : MovedTo(log[j], s)

\* A timeline says that the order has been in status s.
Reached(log, s) == ReachedBefore(log, Len(log) + 1, s)

\* Every status change of a timeline is a legal one, and starts from a status
\* the order had been in before.
LegalLog(log) ==
  \A i \in 1..Len(log) : log[i].type = "STATUS_CHANGE" =>
    /\ <<log[i].from, log[i].to>> \in ValidTransitions
    /\ ReachedBefore(log, i, log[i].from)

\* An order that reached one of these statuses was approved.
ApprovedLog(log) == \A s \in UnderRepair : Reached(log, s) => Reached(log, "APPROVED")

\* An order that reached one of these statuses passed the quality check.
CheckedLog(log) == \A s \in HandedOver : Reached(log, s) => Reached(log, "QUALITY_CHECK")
=============================================================================
