----------------------------- MODULE Estimates -----------------------------
(***************************************************************************)
(* EstimatesService beside WorkOrdersService on the same database: the     *)
(* quotations of a work order, and the approval of a customer, which is    *)
(* the other writer of the work order's status.  A request slot serves a   *)
(* work order request (req) or an estimate request (ereq) at a time.       *)
(***************************************************************************)
EXTENDS WorkOrders

CONSTANTS Estimates,     \* ids a created estimate may get (fresh uuids)
          MaxRevisions,  \* bound: edits of one estimate
          MaxSends       \* bound: PATCH :id/send requests for one estimate

ASSUME EstimateBoundsAssumption == MaxRevisions \in Nat /\ MaxSends \in Nat

VARIABLES estStatus,  \* estimates.status, or "ABSENT" before the INSERT
          estOrder,   \* estimates.workOrderId
          revision,   \* which version of items, parts and totals is stored
          sends,      \* how many send requests were made for the estimate
          estOut,     \* audit record, job or event of the latest step
          ereq        \* request slot -> program counter and locals

estVars == <<estStatus, estOrder, revision, sends, estOut, ereq>>
repairVars == <<vars, estVars>>

-----------------------------------------------------------------------------
Decided == {"APPROVED", "REJECTED"}

\* Mutant: a rejected estimate may be decided once more.
DecidableAgain == {"SENT", "VIEWED", "REJECTED"}

\* Mutant: a draft may be decided.
DecidableDraft == {"SENT", "VIEWED", "DRAFT"}

Decidable == {"SENT", "VIEWED"}

\* Mutant: what was sent may still be edited.
EditableSent == {"DRAFT", "SENT"}

Editable == {"DRAFT"}

\* The action of the audit record each operation writes.
EstimateAction == {"ESTIMATE_CREATED", "ESTIMATE_UPDATED",
                   "ESTIMATE_STATUS_CHANGED", "ESTIMATE_APPROVED",
                   "ESTIMATE_REJECTED"}

EstimateEffect == [kind: {"audit", "job", "event"}, estimate: Estimates,
                   action: EstimateAction]

EstimateRequest ==
  {Idle}
  \cup [pc: {"editing", "sending"}, estimate: Estimates]
  \cup [pc: {"reading"}, estimate: Estimates, approved: BOOLEAN,
        seen: EstimateStatus]
  \cup [pc: {"deciding"}, estimate: Estimates, approved: BOOLEAN,
        seenOrder: WorkOrderStatus]
  \cup [pc: {"auditing", "notifying", "announcing"}, estimate: Estimates,
        action: EstimateAction]

EGoto(r, state) == ereq' = [ereq EXCEPT ![r] = state]

EDone(r, e, action) ==
  EGoto(r, [pc |-> "auditing", estimate |-> e, action |-> action])

EEmit(kind, r) ==
  estOut' = {[kind |-> kind, estimate |-> ereq[r].estimate,
              action |-> ereq[r].action]}

ESilent == estOut' = {}

-----------------------------------------------------------------------------
RepairInit ==
  /\ Init
  /\ estStatus = [e \in Estimates |-> "ABSENT"]
  /\ estOrder = [e \in Estimates |-> "NONE"]
  /\ revision = [e \in Estimates |-> 0]
  /\ sends = [e \in Estimates |-> 0]
  /\ estOut = {}
  /\ ereq = [r \in Requests |-> Idle]

\* create: one INSERT, refused by the foreign key unless the order exists.
CreateEstimate(r, e, w) ==
  /\ ereq[r] = Idle
  /\ estStatus[e] = "ABSENT"
  /\ Exists(w)
  /\ estStatus' = [estStatus EXCEPT ![e] = "DRAFT"]
  /\ estOrder' = [estOrder EXCEPT ![e] = w]
  /\ EDone(r, e, "ESTIMATE_CREATED")
  /\ ESilent
  /\ UNCHANGED <<rows, revision, sends>>

\* update: the read and the DRAFT check ...
CheckEdit(r, e) ==
  /\ ereq[r] = Idle
  /\ estStatus[e] \in Editable
  /\ revision[e] < MaxRevisions
  /\ EGoto(r, [pc |-> "editing", estimate |-> e])
  /\ ESilent
  /\ UNCHANGED <<rows, estStatus, estOrder, revision, sends>>

\* ... and the UPDATE, which does not look at the status again.
CommitEdit(r) ==
  /\ ereq[r].pc = "editing"
  /\ revision' = [revision EXCEPT ![ereq[r].estimate] = @ + 1]
  /\ EDone(r, ereq[r].estimate, "ESTIMATE_UPDATED")
  /\ ESilent
  /\ UNCHANGED <<rows, estStatus, estOrder, sends>>

\* updateStatus(id, SENT): the read, which only asks whether the row exists ...
CheckSend(r, e) ==
  /\ ereq[r] = Idle
  /\ estStatus[e] # "ABSENT"
  /\ sends[e] < MaxSends
  /\ sends' = [sends EXCEPT ![e] = @ + 1]
  /\ EGoto(r, [pc |-> "sending", estimate |-> e])
  /\ ESilent
  /\ UNCHANGED <<rows, estStatus, estOrder, revision>>

\* ... and the UPDATE, from whatever status the estimate has.
CommitSend(r) ==
  /\ ereq[r].pc = "sending"
  /\ estStatus' = [estStatus EXCEPT ![ereq[r].estimate] = "SENT"]
  /\ EDone(r, ereq[r].estimate, "ESTIMATE_STATUS_CHANGED")
  /\ ESilent
  /\ UNCHANGED <<rows, estOrder, revision, sends>>

\* handleCustomerApproval: findUnique selects the estimate first ...
ReadEstimate(r, e, approved) ==
  /\ ereq[r] = Idle
  /\ estStatus[e] # "ABSENT"
  /\ EGoto(r, [pc |-> "reading", estimate |-> e, approved |-> approved,
               seen |-> estStatus[e]])
  /\ ESilent
  /\ UNCHANGED <<rows, estStatus, estOrder, revision, sends>>

\* The audit action depends on what the customer asks now.
DecisionAction(approved) ==
  IF approved THEN "ESTIMATE_APPROVED" ELSE "ESTIMATE_REJECTED"

\* Mutant: the order is not included.
OrderSeenMissing(q) == "ABSENT"

OrderSeen(q) == status[estOrder[q.estimate]]

\* ... then, for `include', its work order, and the status is looked at:
\* an estimate that was never sent cannot be approved,
RefuseDecision(r) ==
  /\ ereq[r].pc = "reading"
  /\ ereq[r].seen \notin Decided \cup Decidable
  /\ EGoto(r, Idle)
  /\ ESilent
  /\ UNCHANGED <<rows, estStatus, estOrder, revision, sends>>

\* Mutant: whatever is not SENT is returned as it is.
RepeatsUnsent(seen) == seen # "SENT"

Repeats(seen) == seen \in Decided

\* a decided one is returned as it is, to the same audit, job and event,
RepeatDecision(r) ==
  /\ ereq[r].pc = "reading"
  /\ Repeats(ereq[r].seen)
  /\ EDone(r, ereq[r].estimate, DecisionAction(ereq[r].approved))
  /\ ESilent
  /\ UNCHANGED <<rows, estStatus, estOrder, revision, sends>>

\* and a sent one is decided.
AllowDecision(r) ==
  LET q == ereq[r]
  IN /\ q.pc = "reading"
     /\ q.seen \in Decidable
     /\ EGoto(r, [pc |-> "deciding", estimate |-> q.estimate,
                  approved |-> q.approved,
                  seenOrder |-> OrderSeen(q)])
     /\ ESilent
     /\ UNCHANGED <<rows, estStatus, estOrder, revision, sends>>

\* Mutant: an approval moves every order.
MovesAnyOrder(q) == q.approved

\* Mutant: an approval moves no order unless it is still being diagnosed.
MovesDiagnosedOrder(q) == q.approved /\ q.seenOrder = "DIAGNOSING"

\* An approval moves the order that was waiting for it when it was read.
MovesOrder(q) == q.approved /\ q.seenOrder = "WAITING_FOR_APPROVAL"

\* Mutant: the order moves and its timeline does not tell.
ApproveOrderUnrecorded(w) ==
  status' = [status EXCEPT ![w] = "APPROVED"] /\ UNCHANGED timeline

ApproveOrder(w) ==
  /\ status' = [status EXCEPT ![w] = "APPROVED"]
  /\ Record(w, StatusChange("WAITING_FOR_APPROVAL", "APPROVED"))

\* The transaction commits the estimate's and the order's new status.
CommitDecision(r) ==
  LET q == ereq[r]
      w == estOrder[q.estimate]
  IN /\ q.pc = "deciding"
     /\ estStatus' = [estStatus EXCEPT ![q.estimate] =
                        IF q.approved THEN "APPROVED" ELSE "REJECTED"]
     /\ \/ /\ MovesOrder(q)
           /\ ApproveOrder(w)
           /\ UNCHANGED <<number, technician>>
        \/ ~MovesOrder(q) /\ UNCHANGED rows
     /\ EDone(r, q.estimate, DecisionAction(q.approved))
     /\ ESilent
     /\ UNCHANGED <<estOrder, revision, sends>>

\* Only a send and an approval queue a notification job.
AfterEstimateAudit(action) ==
  IF action \in {"ESTIMATE_STATUS_CHANGED", "ESTIMATE_APPROVED"}
  THEN "notifying" ELSE "announcing"

EAudit(r) ==
  /\ ereq[r].pc = "auditing"
  /\ EEmit("audit", r) \/ ESilent
  /\ EGoto(r, [ereq[r] EXCEPT !.pc = AfterEstimateAudit(ereq[r].action)])
  /\ UNCHANGED <<rows, estStatus, estOrder, revision, sends>>

ENotify(r) ==
  /\ ereq[r].pc = "notifying"
  /\ EEmit("job", r) \/ ESilent
  /\ EGoto(r, [ereq[r] EXCEPT !.pc = "announcing"])
  /\ UNCHANGED <<rows, estStatus, estOrder, revision, sends>>

\* emit('estimate.updated') and the answer; no operation of this service
\* emits 'workOrder.updated', not even the one that moves the order.
EAnnounce(r) ==
  /\ ereq[r].pc = "announcing"
  /\ EEmit("event", r)
  /\ EGoto(r, Idle)
  /\ UNCHANGED <<rows, estStatus, estOrder, revision, sends>>

\* The serving process dies or the transaction is rolled back.
ELose(r) ==
  /\ ereq[r].pc # "idle"
  /\ EGoto(r, Idle)
  /\ ESilent
  /\ UNCHANGED <<rows, estStatus, estOrder, revision, sends>>

EstimateStep(r) ==
  \/ \E e \in Estimates, w \in Orders : CreateEstimate(r, e, w)
  \/ \E e \in Estimates : CheckEdit(r, e) \/ CheckSend(r, e)
  \/ \E e \in Estimates, approved \in BOOLEAN : ReadEstimate(r, e, approved)
  \/ CommitEdit(r) \/ CommitSend(r)
  \/ RefuseDecision(r) \/ RepeatDecision(r) \/ AllowDecision(r)
  \/ CommitDecision(r)
  \/ EAudit(r) \/ ENotify(r) \/ EAnnounce(r) \/ ELose(r)

\* A work order request beside the estimates.
OrderStep(r) ==
  /\ ereq[r] = Idle
  /\ Step(r)
  /\ ESilent
  /\ UNCHANGED <<estStatus, estOrder, revision, sends, ereq>>

RepairNext ==
  \/ NewYear /\ UNCHANGED estVars
  \/ \E r \in Requests :
       \/ OrderStep(r)
       \/ req[r] = Idle /\ EstimateStep(r) /\ Silent /\ UNCHANGED <<year, req>>

RepairSpec == RepairInit /\ [][RepairNext]_repairVars

-----------------------------------------------------------------------------
\* Every variable of the two services has the shape it stands for.
RepairTypeOK ==
  /\ TypeOK
  /\ estStatus \in [Estimates -> EstimateStatus \cup {"ABSENT"}]
  /\ estOrder \in [Estimates -> Orders \cup {"NONE"}]
  /\ revision \in [Estimates -> Nat]
  /\ sends \in [Estimates -> 0..MaxSends]
  /\ estOut \subseteq EstimateEffect
  /\ ereq \in [Requests -> EstimateRequest]
  /\ \A e \in Estimates : estStatus[e] # "ABSENT" => estOrder[e] \in Orders

\* No estimate is approved or rejected, and no decision is on its way to the
\* database, unless the estimate was sent to the customer before.
DecisionNeedsSend ==
  /\ \A e \in Estimates : estStatus[e] \in Decided \cup {"SENT"} => sends[e] > 0
  /\ \A r \in Requests : ereq[r].pc = "deciding" => sends[ereq[r].estimate] > 0

\* A decision is audited, notified and announced only for an estimate that
\* is decided, whether handleCustomerApproval decided it itself or found it
\* decided; only a second send, which has no precondition, can reopen it.
DecisionEffectsDecided ==
  \A f \in estOut :
    f.action \in {"ESTIMATE_APPROVED", "ESTIMATE_REJECTED"} =>
      estStatus[f.estimate] \in Decided \/ sends[f.estimate] > 1

\* The first decision of the customer about an estimate that was sent once
\* stands: handleCustomerApproval finds it decided and changes nothing.
DecisionFinal ==
  [][\A e \in Estimates :
       estStatus[e] \in Decided /\ sends[e] = 1 => estStatus'[e] = estStatus[e]
    ]_estStatus

\* A work order that waits for approval leaves that status in the very step
\* in which one of its estimates is approved.
ApprovalMovesOrder ==
  [][\A e \in Estimates :
       /\ estStatus[e] # "APPROVED"
       /\ estStatus'[e] = "APPROVED"
       /\ status[estOrder[e]] = "WAITING_FOR_APPROVAL"
       => status'[estOrder[e]] = "APPROVED"]_<<estStatus, status>>

\* What an estimate offers does not change once it left DRAFT: the customer
\* decides about the totals that were sent.
SentContentFrozen ==
  [][\A e \in Estimates :
       estStatus[e] \notin {"ABSENT", "DRAFT"} => revision'[e] = revision[e]
    ]_revision
=============================================================================
