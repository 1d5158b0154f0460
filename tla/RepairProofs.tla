---------------------------- MODULE RepairProofs ----------------------------
(***************************************************************************)
(* For any number of orders, estimates, request slots, technicians and     *)
(* years.  First, of WorkOrders alone: its types, and what the timelines   *)
(* tell however the requests interleave, fail and get lost.  Then of the   *)
(* composition with Estimates: the histories stay sound beside another     *)
(* service that writes them, and no estimate is decided that was not sent. *)
(* The row of an order and its timeline agree, although three operations   *)
(* of two services write both, and who hears of a decision hears of an     *)
(* estimate that is decided, unless it was sent twice.  With one request   *)
(* at a time the two services together implement WorkOrderLifecycle.       *)
(***************************************************************************)
EXTENDS Estimates, TLAPS, FiniteSetTheorems

\* An event that may be appended to a timeline without breaking its story.
Grounded(log, event) ==
  event.type = "STATUS_CHANGE" =>
    /\ <<event.from, event.to>> \in ValidTransitions
    /\ Reached(log, event.from)

\* The story a timeline tells is a possible one.
SoundLog(log) == LegalLog(log) /\ ApprovedLog(log) /\ CheckedLog(log)

\* A status change on its way to the database is still grounded when it gets
\* there, although the row may have moved on since it was read.
RequestsGrounded ==
  \A r \in Requests : req[r].pc = "moving" =>
    Grounded(timeline[req[r].order], StatusChange(req[r].from, req[r].to))

\* The status a request reads is one the timeline tells.
StatusReached ==
  \A w \in Orders : Exists(w) => Reached(timeline[w], status[w])

HistoryInv ==
  /\ TypeOK
  /\ \A w \in Orders : SoundLog(timeline[w])
  /\ StatusReached
  /\ RequestsGrounded

-----------------------------------------------------------------------------
\* The members of Event by their type.
LEMMA EventTypes ==
  ASSUME NEW e \in Event
  PROVE  /\ e.type \in {"CREATED", "STATUS_CHANGE", "TECHNICIAN_ASSIGNED"}
         /\ e.type = "STATUS_CHANGE" =>
              e.from \in WorkOrderStatus /\ e.to \in WorkOrderStatus
  BY DEF Event, CreatedEvent, StatusChange, Assignment

\* The constructors build events.
LEMMA EventsMade ==
  /\ CreatedEvent \in Event
  /\ \A from, to \in WorkOrderStatus : StatusChange(from, to) \in Event
  /\ \A t \in Technicians : Assignment(t) \in Event
<1>1. ASSUME NEW from \in WorkOrderStatus, NEW to \in WorkOrderStatus
      PROVE  StatusChange(from, to) \in Event
  <2>1. <<from, to>> \in WorkOrderStatus \X WorkOrderStatus
    OBVIOUS
  <2>2. StatusChange(from, to) = StatusChange(<<from, to>>[1], <<from, to>>[2])
    OBVIOUS
  <2> QED BY <2>1, <2>2 DEF Event
<1> QED BY <1>1 DEF Event

\* Appending an event leaves what a prefix of the timeline tells.
LEMMA PrefixTells ==
  ASSUME NEW log \in Seq(Event), NEW e \in Event, NEW i \in 1..Len(log), NEW s
  PROVE  ReachedBefore(Append(log, e), i, s) <=> ReachedBefore(log, i, s)
  BY DEF ReachedBefore

\* Appending an event adds the status it moved the order to, and no other.
LEMMA AppendTells ==
  ASSUME NEW log \in Seq(Event), NEW e \in Event, NEW s
  PROVE  Reached(Append(log, e), s) <=> Reached(log, s) \/ MovedTo(e, s)
<1>1. Len(Append(log, e)) = Len(log) + 1 /\ Append(log, e)[Len(log) + 1] = e
  OBVIOUS
<1>2. \A j \in 1..Len(log) : Append(log, e)[j] = log[j]
  OBVIOUS
<1>3. 1..(Len(log) + 2 - 1) = 1..Len(log) \cup {Len(log) + 1}
  OBVIOUS
<1> QED BY <1>1, <1>2, <1>3 DEF Reached, ReachedBefore

\* A grounded change cannot reach a repair status from anywhere but a repair
\* status or APPROVED, nor a hand-over status but from a hand-over status or
\* QUALITY_CHECK.
LEMMA Predecessors ==
  ASSUME NEW from, NEW to, <<from, to>> \in ValidTransitions
  PROVE  /\ to \in UnderRepair => from \in UnderRepair \cup {"APPROVED"}
         /\ to \in HandedOver => from \in HandedOver \cup {"QUALITY_CHECK"}
         /\ from \in WorkOrderStatus /\ to \in WorkOrderStatus
  BY DEF ValidTransitions, UnderRepair, HandedOver, WorkOrderStatus

\* A sound timeline stays sound when a grounded event is appended.
LEMMA SoundAppend ==
  ASSUME NEW log \in Seq(Event), NEW e \in Event, SoundLog(log), Grounded(log, e)
  PROVE  SoundLog(Append(log, e))
<1>1. LegalLog(Append(log, e))
  <2> SUFFICES ASSUME NEW i \in 1..Len(Append(log, e)),
                      Append(log, e)[i].type = "STATUS_CHANGE"
               PROVE  /\ <<Append(log, e)[i].from, Append(log, e)[i].to>> \in ValidTransitions
                      /\ ReachedBefore(Append(log, e), i, Append(log, e)[i].from)
    BY DEF LegalLog
  <2>1. CASE i \in 1..Len(log)
    <3>1. Append(log, e)[i] = log[i]
      BY <2>1
    <3> QED BY <2>1, <3>1, PrefixTells DEF SoundLog, LegalLog
  <2>2. CASE i = Len(log) + 1
    <3>1. Append(log, e)[i] = e
      BY <2>2
    <3>2. Reached(log, e.from) => ReachedBefore(Append(log, e), i, e.from)
      BY <2>2 DEF Reached, ReachedBefore
    <3> QED BY <3>1, <3>2 DEF Grounded
  <2> QED BY <2>1, <2>2
<1>2. ApprovedLog(Append(log, e))
  <2> SUFFICES ASSUME NEW s \in UnderRepair, Reached(Append(log, e), s)
               PROVE  Reached(Append(log, e), "APPROVED")
    BY DEF ApprovedLog
  <2>1. CASE Reached(log, s)
    BY <2>1, AppendTells DEF SoundLog, ApprovedLog
  <2>2. CASE MovedTo(e, s)
    <3>1. e.from \in UnderRepair \cup {"APPROVED"} /\ Reached(log, e.from)
      BY <2>2, Predecessors DEF MovedTo, Grounded
    <3>2. Reached(log, "APPROVED")
      BY <3>1 DEF SoundLog, ApprovedLog
    <3> QED BY <3>2, AppendTells
  <2> QED BY <2>1, <2>2, AppendTells
<1>3. CheckedLog(Append(log, e))
  <2> SUFFICES ASSUME NEW s \in HandedOver, Reached(Append(log, e), s)
               PROVE  Reached(Append(log, e), "QUALITY_CHECK")
    BY DEF CheckedLog
  <2>1. CASE Reached(log, s)
    BY <2>1, AppendTells DEF SoundLog, CheckedLog
  <2>2. CASE MovedTo(e, s)
    <3>1. e.from \in HandedOver \cup {"QUALITY_CHECK"} /\ Reached(log, e.from)
      BY <2>2, Predecessors DEF MovedTo, Grounded
    <3>2. Reached(log, "QUALITY_CHECK")
      BY <3>1 DEF SoundLog, CheckedLog
    <3> QED BY <3>2, AppendTells
  <2> QED BY <2>1, <2>2, AppendTells
<1> QED BY <1>1, <1>2, <1>3 DEF SoundLog

\* What a timeline tells grounds a change for good.
LEMMA GroundedAppend ==
  ASSUME NEW log \in Seq(Event), NEW e \in Event, NEW change, Grounded(log, change)
  PROVE  Grounded(Append(log, e), change)
  BY AppendTells DEF Grounded

\* The empty timeline is sound.
LEMMA SoundEmpty == SoundLog(<<>>)
  BY DEF SoundLog, LegalLog, ApprovedLog, CheckedLog, Reached, ReachedBefore,
         UnderRepair, HandedOver

-----------------------------------------------------------------------------
\* The count of the orders that exist is a natural number.
LEMMA CreatedCount == Cardinality(Created) \in Nat
  BY OrdersAssumption, FS_Subset, FS_CardinalityType DEF Created

\* What a request slot carries, by its program counter.
LEMMA RequestFields ==
  ASSUME NEW q \in Request
  PROVE  /\ q.pc = "numbering" => q.seq \in Nat \ {0}
         /\ q.pc = "creating" => q.number \in Number
         /\ q.pc = "moving" => /\ q.order \in Orders
                               /\ q.from \in WorkOrderStatus
                               /\ q.to \in WorkOrderStatus
         /\ q.pc = "assigning" => q.order \in Orders /\ q.technician \in Technicians
         /\ q.pc \in {"auditing", "notifying", "announcing"} =>
              q \in [pc: {"auditing", "notifying", "announcing"}, order: Orders,
                     change: Event]
<1>1. CASE q = Idle
  BY <1>1 DEF Idle
<1>2. CASE q \in [pc: {"numbering"}, seq: Nat \ {0}]
  BY <1>2
<1>3. CASE q \in [pc: {"creating"}, number: Number]
  BY <1>3
<1>4. CASE q \in [pc: {"moving"}, order: Orders, from: WorkOrderStatus, to: WorkOrderStatus]
  BY <1>4
<1>5. CASE q \in [pc: {"assigning"}, order: Orders, technician: Technicians]
  BY <1>5
<1>6. CASE q \in [pc: {"auditing", "notifying", "announcing"}, order: Orders, change: Event]
  BY <1>6
<1> QED BY <1>1, <1>2, <1>3, <1>4, <1>5, <1>6 DEF Request

\* Types hold initially.
LEMMA TypeInit == Init => TypeOK
  BY BoundsAssumption DEF Init, TypeOK, Request

\* Every step preserves the types.
LEMMA TypeStep == TypeOK /\ [Next]_vars => TypeOK'
<1> SUFFICES ASSUME TypeOK, [Next]_vars PROVE TypeOK'
  OBVIOUS
<1> USE DEF TypeOK
<1>1. ASSUME NEW r \in Requests, CountOrders(r) PROVE TypeOK'
  <2>1. [pc |-> "numbering", seq |-> NextSeq] \in Request
    BY CreatedCount DEF NextSeq, Request
  <2> QED BY <1>1, <2>1 DEF CountOrders, Goto, rows, Silent
<1>2. ASSUME NEW r \in Requests, StampNumber(r) PROVE TypeOK'
  <2>1. req[r].seq \in Nat \ {0}
    BY <1>2, RequestFields DEF StampNumber
  <2>2. [pc |-> "creating", number |-> <<year, req[r].seq>>] \in Request
    BY <2>1 DEF Request, Number
  <2> QED BY <1>2, <2>2 DEF StampNumber, Goto, rows, Silent
<1>3. ASSUME NEW r \in Requests, NEW w \in Orders, InsertOrder(r, w) PROVE TypeOK'
  <2>1. req[r].number \in Number
    BY <1>3, RequestFields DEF InsertOrder
  <2>2. [pc |-> "auditing", order |-> w, change |-> CreatedEvent] \in Request
    BY EventsMade DEF Request
  <2>3. "RECEIVED" \in WorkOrderStatus
    BY DEF WorkOrderStatus
  <2> QED BY <1>3, <2>1, <2>2, <2>3, EventsMade
          DEF InsertOrder, Committed, Goto, Record, Silent
<1>4. ASSUME NEW r \in Requests, RefuseDuplicate(r) PROVE TypeOK'
  BY <1>4 DEF RefuseDuplicate, Goto, rows, Silent, Request
<1>5. ASSUME NEW r \in Requests, NEW w \in Orders, NEW to \in WorkOrderStatus,
             CheckMove(r, w, to)
      PROVE  TypeOK'
  <2>1. [pc |-> "moving", order |-> w, from |-> status[w], to |-> to] \in Request
    BY <1>5 DEF CheckMove, Exists, Request
  <2> QED BY <1>5, <2>1 DEF CheckMove, Goto, rows, Silent
<1>6. ASSUME NEW r \in Requests, CommitMove(r) PROVE TypeOK'
  <2>1. /\ req[r].order \in Orders
        /\ req[r].from \in WorkOrderStatus
        /\ req[r].to \in WorkOrderStatus
    BY <1>6, RequestFields DEF CommitMove
  <2>2. MoveFromRead(r) \in Event
    BY <2>1, EventsMade DEF MoveFromRead
  <2>3. [pc |-> "auditing", order |-> req[r].order, change |-> MoveFromRead(r)] \in Request
    BY <2>1, <2>2 DEF Request
  <2> QED BY <1>6, <2>1, <2>2, <2>3
          DEF CommitMove, Committed, Goto, Record, Silent, MovedStatus
<1>7. ASSUME NEW r \in Requests, NEW w \in Orders, NEW t \in Technicians,
             CheckAssign(r, w, t)
      PROVE  TypeOK'
  <2>1. [pc |-> "assigning", order |-> w, technician |-> t] \in Request
    BY DEF Request
  <2> QED BY <1>7, <2>1 DEF CheckAssign, Goto, rows, Silent
<1>8. ASSUME NEW r \in Requests, CommitAssign(r) PROVE TypeOK'
  <2>1. req[r].order \in Orders /\ req[r].technician \in Technicians
    BY <1>8, RequestFields DEF CommitAssign
  <2>2. Assignment(req[r].technician) \in Event
    BY <2>1, EventsMade
  <2>3. [pc |-> "auditing", order |-> req[r].order,
         change |-> Assignment(req[r].technician)] \in Request
    BY <2>1, <2>2 DEF Request
  <2> QED BY <1>8, <2>1, <2>2, <2>3 DEF CommitAssign, Committed, Goto, Record, Silent
<1>9. ASSUME NEW r \in Requests, NEW next \in {"notifying", "announcing"},
             NEW kind \in {"audit", "job", "event"},
             req[r].pc \in {"auditing", "notifying", "announcing"}
      PROVE  /\ [req[r] EXCEPT !.pc = next] \in Request
             /\ [kind |-> kind, order |-> req[r].order, change |-> Told(r)] \in Effect
  <2>1. req[r] \in [pc: {"auditing", "notifying", "announcing"}, order: Orders, change: Event]
    BY <1>9, RequestFields
  <2>2. [req[r] EXCEPT !.pc = next]
          \in [pc: {"auditing", "notifying", "announcing"}, order: Orders, change: Event]
    BY <2>1
  <2> QED BY <2>1, <2>2 DEF Request, Effect, Told
<1>10. ASSUME NEW r \in Requests, Audit(r) PROVE TypeOK'
  <2>1. AfterAudit(req[r].change) \in {"notifying", "announcing"}
    BY DEF AfterAudit
  <2> QED BY <1>9, <1>10, <2>1 DEF Audit, MayEmit, Emit, Silent, Goto, rows
<1>11. ASSUME NEW r \in Requests, Notify(r) PROVE TypeOK'
  BY <1>9, <1>11 DEF Notify, MayEmit, Emit, Silent, Goto, rows
<1>12. ASSUME NEW r \in Requests, Announce(r) PROVE TypeOK'
  <2>1. Idle \in Request
    BY DEF Request
  <2> QED BY <1>9, <1>12, <2>1 DEF Announce, Emit, Goto, rows
<1>13. ASSUME NEW r \in Requests, Lose(r) PROVE TypeOK'
  BY <1>13 DEF Lose, Goto, rows, Silent, Request
<1>14. CASE NewYear
  BY <1>14, BoundsAssumption DEF NewYear, rows, Silent
<1>15. CASE UNCHANGED vars
  BY <1>15 DEF vars, rows
<1> QED
  BY <1>1, <1>2, <1>3, <1>4, <1>5, <1>6, <1>7, <1>8, <1>10, <1>11, <1>12, <1>13,
     <1>14, <1>15 DEF Next, Step

\* TypeOK is an invariant for every instance.
THEOREM TypeCorrect == Spec => []TypeOK
  BY TypeInit, TypeStep, PTL DEF Spec

-----------------------------------------------------------------------------
\* No order has a history yet.
LEMMA HistoryInit == Init => HistoryInv
<1> SUFFICES ASSUME Init PROVE HistoryInv
  OBVIOUS
<1>1. TypeOK
  BY TypeInit
<1>2. \A w \in Orders : timeline[w] = <<>> /\ ~Exists(w)
  BY DEF Init, Exists
<1>3. \A r \in Requests : req[r].pc # "moving"
  BY DEF Init, Idle
<1> QED BY <1>1, <1>2, <1>3, SoundEmpty DEF HistoryInv, StatusReached, RequestsGrounded

\* A transaction that appends a grounded event to the timeline of one order,
\* leaves the order in a status this timeline tells, and gets no request ready
\* to move an order, preserves the invariant: what was read remains told.
LEMMA AppendStep ==
  ASSUME HistoryInv, TypeOK',
         NEW w \in Orders, NEW change \in Event,
         Grounded(timeline[w], change),
         Record(w, change),
         \A q \in Requests : req'[q].pc = "moving" => req'[q] = req[q],
         \A v \in Orders \ {w} : status'[v] = status[v],
         Exists(w)' => Reached(timeline'[w], status'[w])
  PROVE  HistoryInv'
<1>1. timeline[w] \in Seq(Event) /\ timeline \in [Orders -> Seq(Event)]
  BY DEF HistoryInv, TypeOK
<1>2. /\ timeline'[w] = Append(timeline[w], change)
      /\ \A v \in Orders \ {w} : timeline'[v] = timeline[v]
  BY <1>1 DEF Record
<1>3. \A v \in Orders : SoundLog(timeline'[v])
  <2>1. SoundLog(timeline'[w])
    BY <1>1, <1>2, SoundAppend DEF HistoryInv
  <2> QED BY <1>2, <2>1 DEF HistoryInv
<1>4. StatusReached'
  BY <1>2 DEF HistoryInv, StatusReached, Exists
<1>5. RequestsGrounded'
  <2> SUFFICES ASSUME NEW q \in Requests, req'[q].pc = "moving"
               PROVE  Grounded(timeline'[req'[q].order],
                               StatusChange(req'[q].from, req'[q].to))
    BY DEF RequestsGrounded
  <2>1. req'[q] = req[q]
    OBVIOUS
  <2>2. req[q].order \in Orders
    BY <2>1, RequestFields DEF HistoryInv, TypeOK
  <2>3. Grounded(timeline[req[q].order], StatusChange(req[q].from, req[q].to))
    BY <2>1 DEF HistoryInv, RequestsGrounded
  <2>4. CASE req[q].order = w
    BY <1>1, <1>2, <2>1, <2>3, <2>4, GroundedAppend
  <2>5. CASE req[q].order # w
    BY <1>2, <2>1, <2>2, <2>3, <2>5
  <2> QED BY <2>4, <2>5
<1> QED BY <1>3, <1>4, <1>5 DEF HistoryInv

\* So does the transaction of a request of WorkOrdersService.
LEMMA RecordStep ==
  ASSUME HistoryInv, TypeOK',
         NEW r \in Requests, NEW w \in Orders, NEW change \in Event,
         Grounded(timeline[w], change),
         Record(w, change),
         Committed(r, w, change),
         \A v \in Orders \ {w} : status'[v] = status[v],
         Exists(w)' => Reached(timeline'[w], status'[w])
  PROVE  HistoryInv'
<1>1. \A q \in Requests : req'[q].pc = "moving" => req'[q] = req[q]
  BY DEF Committed, Goto, HistoryInv, TypeOK
<1> QED BY <1>1, AppendStep

\* A step that writes no row, and by which no request gets ready to move an
\* order, preserves the invariant.
LEMMA QuietStep ==
  ASSUME HistoryInv, TypeOK', NEW r \in Requests, NEW state,
         state.pc # "moving",
         Goto(r, state),
         UNCHANGED rows
  PROVE  HistoryInv'
<1>1. \A q \in Requests : req'[q].pc = "moving" => req'[q] = req[q]
  BY DEF Goto, HistoryInv, TypeOK
<1> QED BY <1>1 DEF rows, HistoryInv, StatusReached, Exists, RequestsGrounded

\* Every step preserves the invariant.
LEMMA HistoryStep == HistoryInv /\ [Next]_vars => HistoryInv'
<1> SUFFICES ASSUME HistoryInv, [Next]_vars PROVE HistoryInv'
  OBVIOUS
<1>0. TypeOK /\ TypeOK'
  BY TypeStep DEF HistoryInv
<1>1. ASSUME NEW r \in Requests, CountOrders(r) PROVE HistoryInv'
  BY <1>0, <1>1, QuietStep DEF CountOrders
<1>2. ASSUME NEW r \in Requests, StampNumber(r) PROVE HistoryInv'
  BY <1>0, <1>2, QuietStep DEF StampNumber
<1>3. ASSUME NEW r \in Requests, NEW w \in Orders, InsertOrder(r, w) PROVE HistoryInv'
  <2>1. status'[w] = "RECEIVED" /\ \A v \in Orders \ {w} : status'[v] = status[v]
    BY <1>0, <1>3 DEF InsertOrder, TypeOK
  <2>2. Exists(w)' => Reached(timeline'[w], status'[w])
    BY <2>1 DEF Reached, ReachedBefore
  <2>3. Grounded(timeline[w], CreatedEvent)
    BY DEF Grounded, CreatedEvent
  <2> QED BY <1>0, <1>3, <2>1, <2>2, <2>3, EventsMade, RecordStep DEF InsertOrder
<1>4. ASSUME NEW r \in Requests, RefuseDuplicate(r) PROVE HistoryInv'
  BY <1>0, <1>4, QuietStep DEF RefuseDuplicate, Idle
<1>5. ASSUME NEW r \in Requests, NEW w \in Orders, NEW to \in WorkOrderStatus,
             CheckMove(r, w, to)
      PROVE  HistoryInv'
  <2> DEFINE state == [pc |-> "moving", order |-> w, from |-> status[w], to |-> to]
  <2>1. req' = [req EXCEPT ![r] = state] /\ UNCHANGED rows
    BY <1>5 DEF CheckMove, Goto
  <2>2. Grounded(timeline[w], StatusChange(status[w], to))
    BY <1>5 DEF CheckMove, MayMove, Grounded, StatusChange, HistoryInv, StatusReached
  <2>3. RequestsGrounded'
    <3> SUFFICES ASSUME NEW q \in Requests, req'[q].pc = "moving"
                 PROVE  Grounded(timeline'[req'[q].order],
                                 StatusChange(req'[q].from, req'[q].to))
      BY DEF RequestsGrounded
    <3>1. CASE q = r
      <4>1. req'[q] = state
        BY <1>0, <2>1, <3>1 DEF TypeOK
      <4> QED BY <2>1, <2>2, <4>1 DEF rows
    <3>2. CASE q # r
      <4>1. req'[q] = req[q]
        BY <1>0, <2>1, <3>2 DEF TypeOK
      <4> QED BY <2>1, <4>1 DEF rows, HistoryInv, RequestsGrounded
    <3> QED BY <3>1, <3>2
  <2> QED BY <1>0, <2>1, <2>3 DEF rows, HistoryInv, StatusReached, Exists
<1>6. ASSUME NEW r \in Requests, CommitMove(r) PROVE HistoryInv'
  <2>1. /\ req[r].order \in Orders
        /\ req[r].from \in WorkOrderStatus
        /\ req[r].to \in WorkOrderStatus
    BY <1>0, <1>6, RequestFields DEF CommitMove, TypeOK
  <2>2. PICK w \in Orders, change \in Event :
          w = req[r].order /\ change = MoveFromRead(r)
    BY <2>1, EventsMade DEF MoveFromRead
  <2>3. MovedTo(change, req[r].to)
    BY <2>2 DEF MoveFromRead, MovedTo, StatusChange
  <2>4. Grounded(timeline[w], change)
    BY <1>6, <2>2 DEF CommitMove, HistoryInv, RequestsGrounded, MoveFromRead
  <2>5. status'[w] = req[r].to /\ \A v \in Orders \ {w} : status'[v] = status[v]
    BY <1>0, <1>6, <2>2 DEF CommitMove, MovedStatus, TypeOK
  <2>6. Record(w, change) /\ Committed(r, w, change)
    BY <1>6, <2>2 DEF CommitMove
  <2>7. timeline'[w] = Append(timeline[w], change) /\ timeline[w] \in Seq(Event)
    BY <1>0, <2>6 DEF Record, TypeOK
  <2>8. Reached(timeline'[w], status'[w])
    BY <2>3, <2>5, <2>7, AppendTells
  <2> QED BY <1>0, <2>4, <2>5, <2>6, <2>8, RecordStep
<1>7. ASSUME NEW r \in Requests, NEW w \in Orders, NEW t \in Technicians,
             CheckAssign(r, w, t)
      PROVE  HistoryInv'
  BY <1>0, <1>7, QuietStep DEF CheckAssign
<1>8. ASSUME NEW r \in Requests, CommitAssign(r) PROVE HistoryInv'
  <2>1. req[r].order \in Orders /\ req[r].technician \in Technicians
    BY <1>0, <1>8, RequestFields DEF CommitAssign, TypeOK
  <2>2. PICK w \in Orders, change \in Event :
          w = req[r].order /\ change = Assignment(req[r].technician)
    BY <2>1, EventsMade
  <2>3. change.type # "STATUS_CHANGE"
    BY <2>2 DEF Assignment
  <2>4. Grounded(timeline[w], change)
    BY <2>3 DEF Grounded
  <2>5. Record(w, change) /\ Committed(r, w, change) /\ UNCHANGED status
    BY <1>8, <2>2 DEF CommitAssign
  <2>6. timeline'[w] = Append(timeline[w], change) /\ timeline[w] \in Seq(Event)
    BY <1>0, <2>5 DEF Record, TypeOK
  <2>7. Exists(w)' => Reached(timeline[w], status[w])
    BY <2>5 DEF Exists, HistoryInv, StatusReached
  <2>8. Exists(w)' => Reached(timeline'[w], status'[w])
    BY <2>5, <2>6, <2>7, AppendTells
  <2> QED BY <1>0, <2>4, <2>5, <2>8, RecordStep
<1>9. ASSUME NEW r \in Requests, Audit(r) PROVE HistoryInv'
  <2>1. [req[r] EXCEPT !.pc = AfterAudit(req[r].change)].pc # "moving"
    <3>1. req[r] \in [pc: {"auditing", "notifying", "announcing"}, order: Orders, change: Event]
      BY <1>0, <1>9, RequestFields DEF Audit, TypeOK
    <3> QED BY <3>1 DEF AfterAudit
  <2> QED BY <1>0, <1>9, <2>1, QuietStep DEF Audit, rows
<1>10. ASSUME NEW r \in Requests, Notify(r) PROVE HistoryInv'
  <2>1. [req[r] EXCEPT !.pc = "announcing"].pc # "moving"
    <3>1. req[r] \in [pc: {"auditing", "notifying", "announcing"}, order: Orders, change: Event]
      BY <1>0, <1>10, RequestFields DEF Notify, TypeOK
    <3> QED BY <3>1
  <2> QED BY <1>0, <1>10, <2>1, QuietStep DEF Notify, rows
<1>11. ASSUME NEW r \in Requests, Announce(r) PROVE HistoryInv'
  BY <1>0, <1>11, QuietStep DEF Announce, Idle, rows
<1>12. ASSUME NEW r \in Requests, Lose(r) PROVE HistoryInv'
  BY <1>0, <1>12, QuietStep DEF Lose, Idle
<1>13. CASE NewYear \/ UNCHANGED vars
  BY <1>0, <1>13
  DEF NewYear, vars, rows, HistoryInv, StatusReached, Exists, RequestsGrounded
<1> QED
  BY <1>1, <1>2, <1>3, <1>4, <1>5, <1>6, <1>7, <1>8, <1>9, <1>10, <1>11, <1>12,
     <1>13 DEF Next, Step

\* The timelines of every instance are sound, under every interleaving.
THEOREM HistoryInvariant == Spec => []HistoryInv
  BY HistoryInit, HistoryStep, PTL DEF Spec

\* Every recorded status change is legal and starts from a status the order
\* had really been in, for any number of concurrent updateStatus requests.
THEOREM HistoryIsLegal == Spec => []HistoryLegal
<1>1. HistoryInv => HistoryLegal
  BY DEF HistoryInv, SoundLog, HistoryLegal
<1> QED BY <1>1, HistoryInvariant, PTL

\* No order is ever repaired without having been approved, races or not.
THEOREM RepairsWereApproved == Spec => []RepairWasApproved
<1>1. HistoryInv => RepairWasApproved
  BY DEF HistoryInv, SoundLog, RepairWasApproved
<1> QED BY <1>1, HistoryInvariant, PTL

\* No order is ever handed over without a quality check, races or not.
THEOREM HandoversWereChecked == Spec => []HandoverWasChecked
<1>1. HistoryInv => HandoverWasChecked
  BY DEF HistoryInv, SoundLog, HandoverWasChecked
<1> QED BY <1>1, HistoryInvariant, PTL

-----------------------------------------------------------------------------
\* The timeline of order w holds the event.
Logged(w, event) == \E i \in 1..Len(timeline[w]) : timeline[w][i] = event

Telling == {"auditing", "notifying", "announcing"}

\* What a request is going to tell was committed, and stays committed.
EffectInv ==
  /\ TypeOK
  /\ EffectsTrue
  /\ \A r \in Requests : req[r].pc \in Telling => Logged(req[r].order, req[r].change)

\* What was logged stays logged, whatever is appended; so does what is appended.
LEMMA LoggedAppend ==
  ASSUME TypeOK, NEW w \in Orders, NEW change \in Event, Record(w, change)
  PROVE  /\ Logged(w, change)'
         /\ \A v \in Orders, e \in Event : Logged(v, e) => Logged(v, e)'
<1>1. timeline[w] \in Seq(Event) /\ timeline \in [Orders -> Seq(Event)]
  BY DEF TypeOK
<1>2. /\ timeline'[w] = Append(timeline[w], change)
      /\ \A v \in Orders \ {w} : timeline'[v] = timeline[v]
  BY <1>1 DEF Record
<1>3. /\ Len(timeline'[w]) = Len(timeline[w]) + 1
      /\ timeline'[w][Len(timeline[w]) + 1] = change
      /\ \A i \in 1..Len(timeline[w]) : timeline'[w][i] = timeline[w][i]
  BY <1>1, <1>2
<1>4. Len(timeline[w]) \in Nat
  BY <1>1
<1>5. Logged(w, change)'
  BY <1>3, <1>4 DEF Logged
<1>6. ASSUME NEW v \in Orders, NEW e \in Event, Logged(v, e)
      PROVE  Logged(v, e)'
  <2>1. PICK i \in 1..Len(timeline[v]) : timeline[v][i] = e
    BY <1>6 DEF Logged
  <2>2. i \in 1..Len(timeline'[v]) /\ timeline'[v][i] = e
    <3>1. CASE v = w
      BY <1>3, <1>4, <2>1, <3>1
    <3>2. CASE v # w
      BY <1>2, <2>1, <3>2
    <3> QED BY <3>1, <3>2
  <2> QED BY <2>2 DEF Logged
<1> QED BY <1>5, <1>6

\* A transaction tells nothing yet, and its request will tell what it logged.
LEMMA EffectRecord ==
  ASSUME EffectInv, TypeOK', NEW r \in Requests, NEW w \in Orders, NEW change \in Event,
         Record(w, change), Committed(r, w, change), Silent
  PROVE  EffectInv'
<1>1. \A q \in Requests : q # r => req'[q] = req[q]
  BY DEF Committed, Goto, EffectInv, TypeOK
<1>2. req'[r] = [pc |-> "auditing", order |-> w, change |-> change]
  BY DEF Committed, Goto, EffectInv, TypeOK
<1>3. Logged(w, change)' /\ \A v \in Orders, e \in Event : Logged(v, e) => Logged(v, e)'
  BY LoggedAppend DEF EffectInv
<1>4. ASSUME NEW q \in Requests, req'[q].pc \in Telling
      PROVE  Logged(req[q].order, req[q].change)'
  <2>1. CASE q = r
    BY <1>2, <1>3, <2>1 DEF Logged
  <2>2. CASE q # r
    <3>1. req[q].order \in Orders /\ req[q].change \in Event
      BY <1>1, <1>4, <2>2, RequestFields DEF EffectInv, TypeOK, Telling
    <3> QED BY <1>1, <1>3, <1>4, <2>2, <3>1 DEF EffectInv, Logged
  <2> QED BY <2>1, <2>2
<1>5. EffectsTrue'
  BY DEF Silent, EffectsTrue
<1> QED BY <1>4, <1>5 DEF EffectInv, Logged

\* A step that writes no row tells nothing but what was logged, and gets no
\* request ready to tell anything else.
LEMMA EffectQuiet ==
  ASSUME EffectInv, TypeOK', UNCHANGED timeline,
         \A e \in out' : Logged(e.order, e.change),
         \A q \in Requests : req'[q].pc \in Telling =>
           Logged(req'[q].order, req'[q].change)
  PROVE  EffectInv'
  BY DEF EffectInv, EffectsTrue, Logged

\* A step of one request that is not about telling.
LEMMA EffectSilent ==
  ASSUME EffectInv, TypeOK', UNCHANGED timeline, Silent,
         NEW r \in Requests, NEW state, Goto(r, state), state.pc \notin Telling
  PROVE  EffectInv'
<1>1. \A q \in Requests : req'[q].pc \in Telling => req'[q] = req[q]
  BY DEF Goto, EffectInv, TypeOK
<1> QED BY <1>1, EffectQuiet DEF Silent, EffectInv

\* A step of one request that tells what it carries, or fails to, and goes on.
LEMMA EffectTold ==
  ASSUME EffectInv, TypeOK', UNCHANGED timeline,
         NEW r \in Requests, req[r].pc \in Telling, NEW kind,
         MayEmit(kind, r),
         NEW pc, Goto(r, [req[r] EXCEPT !.pc = pc]) \/ Goto(r, Idle)
  PROVE  EffectInv'
<1>1. req[r] \in [pc: Telling, order: Orders, change: Event]
  BY RequestFields DEF EffectInv, TypeOK, Telling
<1>2. Logged(req[r].order, req[r].change)
  BY DEF EffectInv
<1>3. \A e \in out' : Logged(e.order, e.change)
  BY <1>2 DEF MayEmit, Emit, Silent, Told
<1>4. ASSUME NEW q \in Requests, req'[q].pc \in Telling
      PROVE  Logged(req'[q].order, req'[q].change)
  <2>1. CASE q # r
    <3>1. req'[q] = req[q]
      BY <2>1 DEF Goto, EffectInv, TypeOK
    <3> QED BY <1>4, <3>1 DEF EffectInv
  <2>2. CASE q = r
    <3>1. req'[r] = [req[r] EXCEPT !.pc = pc] \/ req'[r] = Idle
      BY DEF Goto, EffectInv, TypeOK
    <3>2. req'[r] = [req[r] EXCEPT !.pc = pc]
      BY <1>4, <2>2, <3>1 DEF Idle, Telling
    <3>3. req'[r].order = req[r].order /\ req'[r].change = req[r].change
      BY <1>1, <3>2
    <3> QED BY <1>2, <2>2, <3>3
  <2> QED BY <2>1, <2>2
<1> QED BY <1>3, <1>4, EffectQuiet

\* Every step preserves the invariant.
LEMMA EffectStep == EffectInv /\ [Next]_vars => EffectInv'
<1> SUFFICES ASSUME EffectInv, [Next]_vars PROVE EffectInv'
  OBVIOUS
<1>0. TypeOK /\ TypeOK'
  BY TypeStep DEF EffectInv
<1>1. ASSUME NEW r \in Requests, CountOrders(r) PROVE EffectInv'
  BY <1>0, <1>1, EffectSilent DEF CountOrders, rows, Telling
<1>2. ASSUME NEW r \in Requests, StampNumber(r) PROVE EffectInv'
  BY <1>0, <1>2, EffectSilent DEF StampNumber, rows, Telling
<1>3. ASSUME NEW r \in Requests, NEW w \in Orders, InsertOrder(r, w) PROVE EffectInv'
  BY <1>0, <1>3, EventsMade, EffectRecord DEF InsertOrder
<1>4. ASSUME NEW r \in Requests, RefuseDuplicate(r) PROVE EffectInv'
  BY <1>0, <1>4, EffectSilent DEF RefuseDuplicate, rows, Telling, Idle
<1>5. ASSUME NEW r \in Requests, NEW w \in Orders, NEW to \in WorkOrderStatus,
             CheckMove(r, w, to)
      PROVE  EffectInv'
  BY <1>0, <1>5, EffectSilent DEF CheckMove, rows, Telling
<1>6. ASSUME NEW r \in Requests, CommitMove(r) PROVE EffectInv'
  <2>1. req[r].order \in Orders /\ MoveFromRead(r) \in Event
    BY <1>0, <1>6, RequestFields, EventsMade DEF CommitMove, MoveFromRead, TypeOK
  <2> QED BY <1>0, <1>6, <2>1, EffectRecord DEF CommitMove
<1>7. ASSUME NEW r \in Requests, NEW w \in Orders, NEW t \in Technicians,
             CheckAssign(r, w, t)
      PROVE  EffectInv'
  BY <1>0, <1>7, EffectSilent DEF CheckAssign, rows, Telling
<1>8. ASSUME NEW r \in Requests, CommitAssign(r) PROVE EffectInv'
  <2>1. req[r].order \in Orders /\ Assignment(req[r].technician) \in Event
    BY <1>0, <1>8, RequestFields, EventsMade DEF CommitAssign, TypeOK
  <2> QED BY <1>0, <1>8, <2>1, EffectRecord DEF CommitAssign
<1>9. ASSUME NEW r \in Requests, Audit(r) \/ Notify(r) \/ Announce(r) PROVE EffectInv'
  BY <1>0, <1>9, EffectTold DEF Audit, Notify, Announce, MayEmit, Telling, rows
<1>10. ASSUME NEW r \in Requests, Lose(r) PROVE EffectInv'
  BY <1>0, <1>10, EffectSilent DEF Lose, rows, Telling, Idle
<1>11. CASE NewYear
  BY <1>0, <1>11, EffectQuiet DEF NewYear, Silent, rows, EffectInv
<1>12. CASE UNCHANGED vars
  BY <1>0, <1>12 DEF vars, rows, EffectInv, EffectsTrue, Logged
<1> QED
  BY <1>1, <1>2, <1>3, <1>4, <1>5, <1>6, <1>7, <1>8, <1>9, <1>10, <1>11, <1>12
  DEF Next, Step

\* Every audit record, job and event is about a committed change, for any
\* number of requests, wherever they are interrupted.
THEOREM EffectsAreTrue == Spec => []EffectsTrue
<1>1. Init => EffectInv
  BY TypeInit DEF Init, EffectInv, EffectsTrue, Idle, Telling
<1>2. EffectInv => EffectsTrue
  BY DEF EffectInv
<1> QED BY <1>1, <1>2, EffectStep, PTL DEF Spec

-----------------------------------------------------------------------------
\* No number runs ahead of the orders, in whatever year it was stamped.
NotAhead == \A w \in Created : number[w][2] <= Cardinality(Created)

\* What a request has counted stays at most one ahead of the orders, and what
\* it moves stays an order.
NumberInv ==
  /\ TypeOK
  /\ NotAhead
  /\ \A r \in Requests :
       /\ req[r].pc = "numbering" => req[r].seq <= NextSeq
       /\ req[r].pc = "creating" => req[r].number[2] <= NextSeq
       /\ req[r].pc = "moving" => Exists(req[r].order)

\* A step that inserts no order, by which no request counts but what there is.
LEMMA NumberQuiet ==
  ASSUME NumberInv, TypeOK', UNCHANGED number, Created' = Created,
         NEW r \in Requests, NEW state, Goto(r, state),
         state.pc = "numbering" => state.seq <= NextSeq,
         state.pc = "creating" => state.number[2] <= NextSeq,
         state.pc = "moving" => state.order \in Created
  PROVE  NumberInv'
<1>1. /\ \A q \in Requests : q # r => req'[q] = req[q]
      /\ req'[r] = state
  BY DEF Goto, NumberInv, TypeOK
<1>2. NextSeq' = NextSeq
  BY DEF NextSeq
<1>3. NotAhead'
  BY DEF NumberInv, NotAhead
<1>4. \A w \in Orders : Exists(w)' <=> Exists(w)
  BY DEF Created
<1>5. ASSUME NEW q \in Requests
      PROVE  /\ req'[q].pc = "numbering" => req'[q].seq <= NextSeq'
             /\ req'[q].pc = "creating" => req'[q].number[2] <= NextSeq'
             /\ req'[q].pc = "moving" => req'[q].order \in Created'
  <2>1. CASE q = r
    BY <1>1, <1>2, <2>1
  <2>2. CASE q # r
    <3>1. req[q].pc = "moving" => req[q].order \in Orders
      BY RequestFields DEF NumberInv, TypeOK
    <3> QED BY <1>1, <1>2, <2>2, <3>1 DEF NumberInv, Created
  <2> QED BY <2>1, <2>2
<1> QED BY <1>3, <1>5 DEF NumberInv, Created

\* The INSERT makes the count one more than it was, so no number is left ahead.
LEMMA NumberInsert ==
  ASSUME NumberInv, TypeOK', NEW r \in Requests, NEW w \in Orders, InsertOrder(r, w)
  PROVE  NumberInv'
<1>1. Created' = Created \cup {w} /\ w \notin Created
  BY DEF InsertOrder, Created, Exists, NumberInv, TypeOK
<1>2. IsFiniteSet(Created)
  BY OrdersAssumption, FS_Subset DEF Created
<1>3. Cardinality(Created') = Cardinality(Created) + 1 /\ Cardinality(Created) \in Nat
  BY <1>1, <1>2, FS_AddElement, FS_CardinalityType
<1>4. NextSeq = Cardinality(Created) + 1 /\ NextSeq' = Cardinality(Created) + 2
  BY <1>3 DEF NextSeq
<1>5. req[r].number \in Number /\ req[r].number[2] <= NextSeq
  BY RequestFields DEF InsertOrder, NumberInv, TypeOK
<1>6. /\ number'[w] = req[r].number
      /\ \A v \in Orders \ {w} : number'[v] = number[v]
  BY DEF InsertOrder, NumberInv, TypeOK
<1>7. \A v \in Created : v \in Orders /\ number[v][2] \in Nat
  BY DEF Created, NumberInv, TypeOK, Number
<1>8. req[r].number[2] \in Nat
  BY <1>5 DEF Number
<1>9. NotAhead'
  <2> SUFFICES ASSUME NEW v \in Created'
               PROVE  number'[v][2] <= Cardinality(Created')
    BY DEF NotAhead
  <2>1. CASE v = w
    BY <1>3, <1>4, <1>5, <1>6, <1>8, <2>1
  <2>2. CASE v # w
    <3>1. v \in Created /\ number'[v] = number[v]
      BY <1>1, <1>6, <1>7, <2>2
    <3>2. number[v][2] <= Cardinality(Created)
      BY <3>1 DEF NumberInv, NotAhead
    <3> QED BY <1>3, <1>7, <3>1, <3>2
  <2> QED BY <2>1, <2>2
<1>10. ASSUME NEW q \in Requests
       PROVE  /\ req'[q].pc = "numbering" => req'[q].seq <= NextSeq'
              /\ req'[q].pc = "creating" => req'[q].number[2] <= NextSeq'
              /\ req'[q].pc = "moving" => req'[q].order \in Created'
  <2>1. CASE q = r
    <3>1. req'[q].pc = "auditing"
      BY <2>1 DEF InsertOrder, Committed, Goto, NumberInv, TypeOK
    <3> QED BY <3>1
  <2>2. CASE q # r
    <3>1. req'[q] = req[q]
      BY <2>2 DEF InsertOrder, Committed, Goto, NumberInv, TypeOK
    <3>2. req[q].pc = "moving" => req[q].order \in Created
      BY RequestFields DEF NumberInv, TypeOK, Created
    <3>3. req[q].pc = "moving" => req[q].order \in Created'
      BY <1>1, <3>2
    <3>4. req[q].pc = "numbering" => req[q].seq \in Nat /\ req[q].seq <= NextSeq
      BY RequestFields DEF NumberInv, TypeOK
    <3>5. req[q].pc = "creating" => req[q].number[2] \in Nat /\ req[q].number[2] <= NextSeq
      BY RequestFields DEF NumberInv, TypeOK, Number
    <3> QED BY <1>3, <1>4, <3>1, <3>3, <3>4, <3>5
  <2> QED BY <2>1, <2>2
<1> QED BY <1>9, <1>10 DEF NumberInv, Created

\* A change of the status of an order that exists creates none.
LEMMA MoveCreatesNone ==
  ASSUME TypeOK, NEW w \in Created, NEW s \in WorkOrderStatus,
         status' = [status EXCEPT ![w] = s]
  PROVE  Created' = Created
  BY DEF Created, Exists, TypeOK, WorkOrderStatus

\* Every step preserves the invariant.
LEMMA NumberStep == NumberInv /\ [Next]_vars => NumberInv'
<1> SUFFICES ASSUME NumberInv, [Next]_vars PROVE NumberInv'
  OBVIOUS
<1>0. TypeOK /\ TypeOK'
  BY TypeStep DEF NumberInv
<1>a. UNCHANGED status => Created' = Created
  BY DEF Created, Exists
<1>b. NextSeq \in Nat
  BY CreatedCount DEF NextSeq
<1>1. ASSUME NEW r \in Requests, CountOrders(r) PROVE NumberInv'
  BY <1>0, <1>1, <1>a, <1>b, NumberQuiet DEF CountOrders, rows
<1>2. ASSUME NEW r \in Requests, StampNumber(r) PROVE NumberInv'
  BY <1>0, <1>2, <1>a, NumberQuiet DEF StampNumber, rows, NumberInv
<1>3. ASSUME NEW r \in Requests, NEW w \in Orders, InsertOrder(r, w) PROVE NumberInv'
  BY <1>0, <1>3, NumberInsert
<1>4. ASSUME NEW r \in Requests, RefuseDuplicate(r) PROVE NumberInv'
  BY <1>0, <1>4, <1>a, NumberQuiet DEF RefuseDuplicate, rows, Idle
<1>5. ASSUME NEW r \in Requests, NEW w \in Orders, NEW to \in WorkOrderStatus,
             CheckMove(r, w, to)
      PROVE  NumberInv'
  BY <1>0, <1>5, <1>a, NumberQuiet DEF CheckMove, rows, Created
<1>6. ASSUME NEW r \in Requests, CommitMove(r) PROVE NumberInv'
  <2>1. req[r].order \in Created /\ req[r].to \in WorkOrderStatus
    BY <1>0, <1>6, RequestFields DEF CommitMove, Created, NumberInv, TypeOK
  <2>2. Created' = Created
    BY <1>0, <1>6, <2>1, MoveCreatesNone DEF CommitMove, MovedStatus
  <2> QED BY <1>0, <1>6, <2>2, NumberQuiet DEF CommitMove, Committed
<1>7. ASSUME NEW r \in Requests, NEW w \in Orders, NEW t \in Technicians,
             CheckAssign(r, w, t)
      PROVE  NumberInv'
  BY <1>0, <1>7, <1>a, NumberQuiet DEF CheckAssign, rows
<1>8. ASSUME NEW r \in Requests, CommitAssign(r) PROVE NumberInv'
  BY <1>0, <1>8, <1>a, NumberQuiet DEF CommitAssign, Committed
<1>9. ASSUME NEW r \in Requests, Audit(r) \/ Notify(r) PROVE NumberInv'
  <2>1. req[r] \in [pc: Telling, order: Orders, change: Event]
    BY <1>0, <1>9, RequestFields DEF Audit, Notify, Telling, TypeOK
  <2>2. AfterAudit(req[r].change) \in {"notifying", "announcing"}
    BY DEF AfterAudit
  <2>3. PICK pc \in {"notifying", "announcing"} : Goto(r, [req[r] EXCEPT !.pc = pc])
    BY <1>9, <2>2 DEF Audit, Notify
  <2>4. [req[r] EXCEPT !.pc = pc].pc = pc
    BY <2>1
  <2>5. UNCHANGED rows
    BY <1>9 DEF Audit, Notify
  <2> QED BY <1>0, <1>a, <2>3, <2>4, <2>5, NumberQuiet DEF rows
<1>10. ASSUME NEW r \in Requests, Announce(r) PROVE NumberInv'
  BY <1>0, <1>10, <1>a, NumberQuiet DEF Announce, rows, Idle
<1>11. ASSUME NEW r \in Requests, Lose(r) PROVE NumberInv'
  BY <1>0, <1>11, <1>a, NumberQuiet DEF Lose, rows, Idle
<1>12. CASE NewYear \/ UNCHANGED vars
  BY <1>0, <1>12, <1>a
  DEF NewYear, vars, rows, NumberInv, NotAhead, NextSeq, Exists
<1> QED
  BY <1>1, <1>2, <1>3, <1>4, <1>5, <1>6, <1>7, <1>8, <1>9, <1>10, <1>11, <1>12
  DEF Next, Step

\* However many requests create orders at once, are refused or lost, and however
\* many years go by between a count and its INSERT: the number that is next is
\* free in this year and in all that follow.
THEOREM NumbersStayInStep == Spec => []NumbersInStep
<1>1. Init => NumberInv
  BY TypeInit DEF Init, NumberInv, NotAhead, Created, Exists, Idle
<1>2. NumberInv => NumbersInStep
  <2> SUFFICES ASSUME NumberInv, NEW y \in year..MaxYear, NEW v \in Created
               PROVE  number[v] # <<y, NextSeq>>
    BY DEF NumbersInStep, NumberFree
  <2>1. number[v][2] \in Nat /\ number[v][2] <= Cardinality(Created)
    BY DEF NumberInv, NotAhead, TypeOK, Created, Number
  <2>2. NextSeq = Cardinality(Created) + 1 /\ NextSeq \in Nat
    BY CreatedCount DEF NextSeq
  <2>3. Cardinality(Created) \in Nat
    BY CreatedCount
  <2> QED BY <2>1, <2>2, <2>3
<1> QED BY <1>1, <1>2, NumberStep, PTL DEF Spec

-----------------------------------------------------------------------------
\* What a request carries across an await is about an estimate that is stored
\* for good, that was sent if it is to be decided, and about a status the work
\* order really had.
Carries(q) ==
  /\ q.pc \in {"editing", "sending", "reading", "deciding"} =>
       estStatus[q.estimate] # "ABSENT"
  /\ q.pc \in {"sending", "deciding"} => sends[q.estimate] > 0
  /\ q.pc = "reading" /\ q.seen \in Decided \cup {"SENT"} => sends[q.estimate] > 0
  /\ q.pc = "deciding" /\ q.seenOrder = "WAITING_FOR_APPROVAL" =>
       Reached(timeline[estOrder[q.estimate]], "WAITING_FOR_APPROVAL")

\* A stored estimate belongs to an order that exists.
Anchored == \A e \in Estimates : estStatus[e] # "ABSENT" => Exists(estOrder[e])

\* A decided estimate, and one the customer has, was sent.
SentFirst ==
  \A e \in Estimates : estStatus[e] \in Decided \cup {"SENT"} => sends[e] > 0

EstimateInv ==
  /\ RepairTypeOK
  /\ Anchored
  /\ SentFirst
  /\ \A r \in Requests : Carries(ereq[r])

RepairInv == HistoryInv /\ EstimateInv

\* Orders stay, timelines grow.
OrdersGrow ==
  \A w \in Orders :
    /\ Exists(w) => Exists(w)'
    /\ \A s : Reached(timeline[w], s) => Reached(timeline'[w], s)

\* Estimates stay with their orders, and who was sent stays sent.
EstimatesGrow ==
  \A e \in Estimates :
    /\ estStatus[e] # "ABSENT" => estStatus'[e] # "ABSENT" /\ estOrder'[e] = estOrder[e]
    /\ sends[e] > 0 => sends'[e] > 0

-----------------------------------------------------------------------------
\* What an estimate request carries, by its program counter.
LEMMA EstimateRequestFields ==
  ASSUME NEW q \in EstimateRequest
  PROVE  /\ q.pc \in {"editing", "sending"} => q.estimate \in Estimates
         /\ q.pc = "reading" => /\ q.estimate \in Estimates
                                /\ q.approved \in BOOLEAN
                                /\ q.seen \in EstimateStatus
         /\ q.pc = "deciding" => /\ q.estimate \in Estimates
                                 /\ q.approved \in BOOLEAN
                                 /\ q.seenOrder \in WorkOrderStatus
         /\ q.pc \in {"auditing", "notifying", "announcing"} =>
              q \in [pc: {"auditing", "notifying", "announcing"},
                     estimate: Estimates, action: EstimateAction]
<1>1. CASE q = Idle
  BY <1>1 DEF Idle
<1>2. CASE q \in [pc: {"editing", "sending"}, estimate: Estimates]
  BY <1>2
<1>3. CASE q \in [pc: {"reading"}, estimate: Estimates, approved: BOOLEAN,
                  seen: EstimateStatus]
  BY <1>3
<1>4. CASE q \in [pc: {"deciding"}, estimate: Estimates, approved: BOOLEAN,
                  seenOrder: WorkOrderStatus]
  BY <1>4
<1>5. CASE q \in [pc: {"auditing", "notifying", "announcing"},
                  estimate: Estimates, action: EstimateAction]
  BY <1>5
<1> QED BY <1>1, <1>2, <1>3, <1>4, <1>5 DEF EstimateRequest

\* What a request carries stays true while the tables grow.
LEMMA CarriesKept ==
  ASSUME EstimateInv, OrdersGrow, EstimatesGrow,
         NEW r \in Requests, ereq'[r] = ereq[r]
  PROVE  Carries(ereq[r])'
<1>1. PICK q \in EstimateRequest : q = ereq[r]
  BY DEF EstimateInv, RepairTypeOK
<1>2. Carries(q)
  BY <1>1 DEF EstimateInv
<1>3. CASE q.pc \notin {"editing", "sending", "reading", "deciding"}
  BY <1>1, <1>3 DEF Carries
<1>4. CASE q.pc \in {"editing", "sending", "reading", "deciding"}
  <2>1. q.estimate \in Estimates
    BY <1>4, EstimateRequestFields
  <2>2. PICK e \in Estimates : e = q.estimate
    BY <2>1
  <2>3. estStatus[e] # "ABSENT"
    BY <1>2, <1>4, <2>2 DEF Carries
  <2>4. PICK w \in Orders : w = estOrder[e]
    BY <2>3 DEF EstimateInv, RepairTypeOK
  <2>5. estStatus'[e] # "ABSENT" /\ estOrder'[e] = w
    BY <2>3, <2>4 DEF EstimatesGrow
  <2>6. sends[e] > 0 => sends'[e] > 0
    BY DEF EstimatesGrow
  <2>7. Reached(timeline[w], "WAITING_FOR_APPROVAL") =>
          Reached(timeline'[w], "WAITING_FOR_APPROVAL")
    BY DEF OrdersGrow
  <2> QED BY <1>1, <1>2, <2>2, <2>3, <2>4, <2>5, <2>6, <2>7 DEF Carries
<1> QED BY <1>3, <1>4

\* A step of slot r preserves the invariant if the tables only grow and what
\* the slot carries then is true.
LEMMA SlotStep ==
  ASSUME EstimateInv, RepairTypeOK', OrdersGrow, EstimatesGrow,
         Anchored', SentFirst',
         NEW r \in Requests, Carries(ereq[r])',
         \A s \in Requests \ {r} : ereq'[s] = ereq[s]
  PROVE  EstimateInv'
<1>1. ASSUME NEW s \in Requests PROVE Carries(ereq[s])'
  <2>1. CASE s = r
    BY <2>1
  <2>2. CASE s # r
    BY <2>2, CarriesKept
  <2> QED BY <2>1, <2>2
<1> QED BY <1>1 DEF EstimateInv

\* Tables of estimates that do not change grow, and stay anchored and sent.
LEMMA SameEstimates ==
  ASSUME EstimateInv, OrdersGrow, UNCHANGED <<estStatus, estOrder, sends>>
  PROVE  EstimatesGrow /\ Anchored' /\ SentFirst'
<1>1. EstimatesGrow
  BY DEF EstimatesGrow
<1>2. SentFirst'
  BY DEF EstimateInv, SentFirst
<1>3. ASSUME NEW e \in Estimates, estStatus'[e] # "ABSENT" PROVE Exists(estOrder[e])'
  <2>1. PICK w \in Orders : w = estOrder[e] /\ w = estOrder'[e]
    BY <1>3 DEF EstimateInv, RepairTypeOK
  <2>2. Exists(w)
    BY <1>3, <2>1 DEF EstimateInv, Anchored
  <2>3. Exists(w)'
    BY <2>2 DEF OrdersGrow
  <2> QED BY <2>1, <2>3 DEF Exists
<1> QED BY <1>1, <1>2, <1>3 DEF Anchored

\* Orders that nobody writes grow.
LEMMA SameOrders == ASSUME UNCHANGED <<status, timeline>> PROVE OrdersGrow
  BY DEF OrdersGrow, Exists, Reached, ReachedBefore

\* An order that takes an event, and exists if it did, grows.
LEMMA RecordedOrders ==
  ASSUME TypeOK, NEW w \in Orders, NEW change \in Event, Record(w, change),
         \A v \in Orders : Exists(v) => Exists(v)'
  PROVE  OrdersGrow
<1>1. timeline[w] \in Seq(Event) /\ timeline'[w] = Append(timeline[w], change)
  BY DEF TypeOK, Record
<1>2. \A v \in Orders \ {w} : timeline'[v] = timeline[v]
  BY DEF TypeOK, Record
<1>3. ASSUME NEW v \in Orders, NEW s, Reached(timeline[v], s)
      PROVE  Reached(timeline'[v], s)
  <2>1. CASE v = w
    BY <1>1, <1>3, <2>1, AppendTells
  <2>2. CASE v # w
    BY <1>2, <1>3, <2>2
  <2> QED BY <2>1, <2>2
<1> QED BY <1>3 DEF OrdersGrow

\* Every step of WorkOrdersService lets the orders grow.
LEMMA OrdersGrowInSteps ==
  ASSUME TypeOK, NEW r \in Requests, Step(r) PROVE OrdersGrow
<1>1. CASE UNCHANGED rows
  BY <1>1, SameOrders DEF rows
<1>2. ASSUME NEW w \in Orders, InsertOrder(r, w) PROVE OrdersGrow
  <2>1. CreatedEvent \in Event
    BY EventsMade
  <2>2. \A v \in Orders : Exists(v) => Exists(v)'
    BY <1>2 DEF InsertOrder, Exists, TypeOK
  <2> QED BY <1>2, <2>1, <2>2, RecordedOrders DEF InsertOrder
<1>3. CASE CommitMove(r)
  <2>1. /\ req[r].order \in Orders
        /\ req[r].from \in WorkOrderStatus
        /\ req[r].to \in WorkOrderStatus
    BY <1>3, RequestFields DEF CommitMove, TypeOK
  <2>2. PICK w \in Orders, change \in Event :
          w = req[r].order /\ change = MoveFromRead(r)
    BY <2>1, EventsMade DEF MoveFromRead
  <2>3. \A v \in Orders : Exists(v) => Exists(v)'
    BY <1>3, <2>1 DEF CommitMove, MovedStatus, Exists, TypeOK, WorkOrderStatus
  <2> QED BY <1>3, <2>2, <2>3, RecordedOrders DEF CommitMove
<1>4. CASE CommitAssign(r)
  <2>1. req[r].order \in Orders /\ req[r].technician \in Technicians
    BY <1>4, RequestFields DEF CommitAssign, TypeOK
  <2>2. PICK w \in Orders, change \in Event :
          w = req[r].order /\ change = Assignment(req[r].technician)
    BY <2>1, EventsMade
  <2>3. \A v \in Orders : Exists(v) => Exists(v)'
    BY <1>4 DEF CommitAssign, Exists
  <2> QED BY <1>4, <2>2, <2>3, RecordedOrders DEF CommitAssign
<1> QED BY <1>1, <1>2, <1>3, <1>4
        DEF Step, CountOrders, StampNumber, RefuseDuplicate, CheckMove,
            CheckAssign, Audit, Notify, Announce, Lose

-----------------------------------------------------------------------------
\* Types hold initially.
LEMMA RepairTypeInit == RepairInit => RepairTypeOK
  BY TypeInit, EstimateBoundsAssumption DEF RepairInit, RepairTypeOK, EstimateRequest

\* Rows that do not change keep the types of WorkOrders.
LEMMA SameRowsType ==
  ASSUME TypeOK, UNCHANGED <<rows, year, req>>, Silent PROVE TypeOK'
  BY DEF TypeOK, rows, Silent

\* A slot that gets ready for an estimate request keeps the type of ereq.
LEMMA SlotType ==
  ASSUME RepairTypeOK, NEW r \in Requests, NEW q \in EstimateRequest, EGoto(r, q)
  PROVE  ereq' \in [Requests -> EstimateRequest]
  BY DEF RepairTypeOK, EGoto

\* The records of an effect that is told.
LEMMA ToldType ==
  ASSUME RepairTypeOK, NEW r \in Requests, NEW kind \in {"audit", "job", "event"},
         ereq[r].pc \in {"auditing", "notifying", "announcing"}, EEmit(kind, r)
  PROVE  estOut' \subseteq EstimateEffect
<1>1. ereq[r] \in [pc: {"auditing", "notifying", "announcing"},
                   estimate: Estimates, action: EstimateAction]
  BY EstimateRequestFields DEF RepairTypeOK
<1> QED BY <1>1 DEF EEmit, EstimateEffect

\* The order an approval found waiting takes a status and an event.
LEMMA ApproveType ==
  ASSUME TypeOK, NEW w \in Orders, ApproveOrder(w),
         UNCHANGED <<number, technician, year, req>>, Silent
  PROVE  /\ TypeOK'
         /\ StatusChange("WAITING_FOR_APPROVAL", "APPROVED") \in Event
<1>1. "WAITING_FOR_APPROVAL" \in WorkOrderStatus /\ "APPROVED" \in WorkOrderStatus
  BY DEF WorkOrderStatus
<1>2. StatusChange("WAITING_FOR_APPROVAL", "APPROVED") \in Event
  BY <1>1, EventsMade
<1>3. status' \in [Orders -> WorkOrderStatus \cup {"ABSENT"}]
  BY <1>1 DEF ApproveOrder, TypeOK
<1>4. timeline' \in [Orders -> Seq(Event)]
  BY <1>2 DEF ApproveOrder, Record, TypeOK
<1> QED BY <1>2, <1>3, <1>4 DEF TypeOK, Silent

\* Every estimate request preserves the types.
LEMMA EstimateTypeStep ==
  ASSUME EstimateInv, NEW r \in Requests, EstimateStep(r), Silent,
         UNCHANGED <<year, req>>
  PROVE  RepairTypeOK'
<1>0. RepairTypeOK /\ TypeOK /\ ereq[r] \in EstimateRequest
  BY DEF EstimateInv, RepairTypeOK
<1>1. ASSUME NEW e \in Estimates, NEW w \in Orders, CreateEstimate(r, e, w)
      PROVE  RepairTypeOK'
  <2>1. [pc |-> "auditing", estimate |-> e, action |-> "ESTIMATE_CREATED"]
          \in EstimateRequest
    BY DEF EstimateRequest, EstimateAction
  <2>2. ereq' \in [Requests -> EstimateRequest]
    BY <1>0, <1>1, <2>1, SlotType DEF CreateEstimate, EDone
  <2> QED BY <1>0, <1>1, <2>2, SameRowsType
          DEF CreateEstimate, RepairTypeOK, ESilent, EstimateStatus
<1>2. ASSUME NEW e \in Estimates, CheckEdit(r, e) PROVE RepairTypeOK'
  <2>1. [pc |-> "editing", estimate |-> e] \in EstimateRequest
    BY DEF EstimateRequest
  <2>2. ereq' \in [Requests -> EstimateRequest]
    BY <1>0, <1>2, <2>1, SlotType DEF CheckEdit
  <2> QED BY <1>0, <1>2, <2>2, SameRowsType DEF CheckEdit, RepairTypeOK, ESilent
<1>3. ASSUME NEW e \in Estimates, CheckSend(r, e) PROVE RepairTypeOK'
  <2>1. [pc |-> "sending", estimate |-> e] \in EstimateRequest
    BY DEF EstimateRequest
  <2>2. ereq' \in [Requests -> EstimateRequest]
    BY <1>0, <1>3, <2>1, SlotType DEF CheckSend
  <2>3. sends' \in [Estimates -> 0..MaxSends]
    BY <1>0, <1>3, EstimateBoundsAssumption DEF CheckSend, RepairTypeOK
  <2> QED BY <1>0, <1>3, <2>2, <2>3, SameRowsType DEF CheckSend, RepairTypeOK, ESilent
<1>4. ASSUME NEW e \in Estimates, NEW approved \in BOOLEAN, ReadEstimate(r, e, approved)
      PROVE  RepairTypeOK'
  <2>1. [pc |-> "reading", estimate |-> e, approved |-> approved, seen |-> estStatus[e]]
          \in EstimateRequest
    BY <1>0, <1>4 DEF ReadEstimate, RepairTypeOK, EstimateRequest
  <2>2. ereq' \in [Requests -> EstimateRequest]
    BY <1>0, <1>4, <2>1, SlotType DEF ReadEstimate
  <2> QED BY <1>0, <1>4, <2>2, SameRowsType DEF ReadEstimate, RepairTypeOK, ESilent
<1>5. CASE CommitEdit(r)
  <2>1. ereq[r].estimate \in Estimates
    BY <1>0, <1>5, EstimateRequestFields DEF CommitEdit
  <2>2. [pc |-> "auditing", estimate |-> ereq[r].estimate, action |-> "ESTIMATE_UPDATED"]
          \in EstimateRequest
    BY <2>1 DEF EstimateRequest, EstimateAction
  <2>3. ereq' \in [Requests -> EstimateRequest]
    BY <1>0, <1>5, <2>2, SlotType DEF CommitEdit, EDone
  <2>4. revision' \in [Estimates -> Nat]
    BY <1>0, <1>5, <2>1 DEF CommitEdit, RepairTypeOK
  <2> QED BY <1>0, <1>5, <2>3, <2>4, SameRowsType DEF CommitEdit, RepairTypeOK, ESilent
<1>6. CASE CommitSend(r)
  <2>1. ereq[r].estimate \in Estimates /\ estStatus[ereq[r].estimate] # "ABSENT"
    BY <1>0, <1>6, EstimateRequestFields DEF CommitSend, EstimateInv, Carries
  <2>2. [pc |-> "auditing", estimate |-> ereq[r].estimate,
         action |-> "ESTIMATE_STATUS_CHANGED"] \in EstimateRequest
    BY <2>1 DEF EstimateRequest, EstimateAction
  <2>3. ereq' \in [Requests -> EstimateRequest]
    BY <1>0, <1>6, <2>2, SlotType DEF CommitSend, EDone
  <2>4. estStatus' \in [Estimates -> EstimateStatus \cup {"ABSENT"}]
    BY <1>0, <1>6, <2>1 DEF CommitSend, RepairTypeOK, EstimateStatus
  <2>5. \A e \in Estimates : estStatus'[e] # "ABSENT" => estStatus[e] # "ABSENT"
    BY <1>0, <1>6, <2>1 DEF CommitSend, RepairTypeOK
  <2> QED BY <1>0, <1>6, <2>3, <2>4, <2>5, SameRowsType
          DEF CommitSend, RepairTypeOK, ESilent
<1>7. CASE RefuseDecision(r) \/ ELose(r)
  <2>1. Idle \in EstimateRequest
    BY DEF EstimateRequest
  <2>2. ereq' \in [Requests -> EstimateRequest]
    BY <1>0, <1>7, <2>1, SlotType DEF RefuseDecision, ELose
  <2> QED BY <1>0, <1>7, <2>2, SameRowsType DEF RefuseDecision, ELose, RepairTypeOK, ESilent
<1>8. CASE RepeatDecision(r)
  <2>1. ereq[r].estimate \in Estimates
    BY <1>0, <1>8, EstimateRequestFields DEF RepeatDecision
  <2>2. [pc |-> "auditing", estimate |-> ereq[r].estimate,
         action |-> DecisionAction(ereq[r].approved)] \in EstimateRequest
    BY <2>1 DEF EstimateRequest, EstimateAction, DecisionAction
  <2>3. ereq' \in [Requests -> EstimateRequest]
    BY <1>0, <1>8, <2>2, SlotType DEF RepeatDecision, EDone
  <2> QED BY <1>0, <1>8, <2>3, SameRowsType DEF RepeatDecision, RepairTypeOK, ESilent
<1>9. CASE AllowDecision(r)
  <2>1. ereq[r].estimate \in Estimates /\ ereq[r].approved \in BOOLEAN
    BY <1>0, <1>9, EstimateRequestFields DEF AllowDecision
  <2>2. estStatus[ereq[r].estimate] # "ABSENT"
    BY <1>9 DEF AllowDecision, EstimateInv, Carries
  <2>3. OrderSeen(ereq[r]) \in WorkOrderStatus
    BY <1>0, <2>1, <2>2 DEF OrderSeen, EstimateInv, Anchored, Exists, RepairTypeOK, TypeOK
  <2>4. [pc |-> "deciding", estimate |-> ereq[r].estimate,
         approved |-> ereq[r].approved, seenOrder |-> OrderSeen(ereq[r])]
          \in EstimateRequest
    BY <2>1, <2>3 DEF EstimateRequest
  <2>5. ereq' \in [Requests -> EstimateRequest]
    BY <1>0, <1>9, <2>4, SlotType DEF AllowDecision
  <2> QED BY <1>0, <1>9, <2>5, SameRowsType DEF AllowDecision, RepairTypeOK, ESilent
<1>10. CASE CommitDecision(r)
  <2>1. /\ ereq[r].estimate \in Estimates
        /\ estStatus[ereq[r].estimate] # "ABSENT"
    BY <1>0, <1>10, EstimateRequestFields DEF CommitDecision, EstimateInv, Carries
  <2>2. estOrder[ereq[r].estimate] \in Orders
    BY <1>0, <2>1 DEF RepairTypeOK
  <2>3. TypeOK'
    BY <1>0, <1>10, <2>2, ApproveType, SameRowsType DEF CommitDecision
  <2>4. [pc |-> "auditing", estimate |-> ereq[r].estimate,
         action |-> DecisionAction(ereq[r].approved)] \in EstimateRequest
    BY <2>1 DEF EstimateRequest, EstimateAction, DecisionAction
  <2>5. ereq' \in [Requests -> EstimateRequest]
    BY <1>0, <1>10, <2>4, SlotType DEF CommitDecision, EDone
  <2>6. estStatus' \in [Estimates -> EstimateStatus \cup {"ABSENT"}]
    BY <1>0, <1>10, <2>1 DEF CommitDecision, RepairTypeOK, EstimateStatus
  <2>7. \A e \in Estimates : estStatus'[e] # "ABSENT" => estStatus[e] # "ABSENT"
    BY <1>0, <1>10, <2>1 DEF CommitDecision, RepairTypeOK
  <2> QED BY <1>0, <1>10, <2>3, <2>5, <2>6, <2>7 DEF CommitDecision, RepairTypeOK, ESilent
<1>11. CASE EAudit(r) \/ ENotify(r) \/ EAnnounce(r)
  <2>1. ereq[r] \in [pc: {"auditing", "notifying", "announcing"},
                     estimate: Estimates, action: EstimateAction]
    BY <1>0, <1>11, EstimateRequestFields DEF EAudit, ENotify, EAnnounce
  <2>2. /\ [ereq[r] EXCEPT !.pc = AfterEstimateAudit(ereq[r].action)] \in EstimateRequest
        /\ [ereq[r] EXCEPT !.pc = "announcing"] \in EstimateRequest
        /\ Idle \in EstimateRequest
    BY <2>1 DEF EstimateRequest, AfterEstimateAudit
  <2>3. ereq' \in [Requests -> EstimateRequest]
    BY <1>0, <1>11, <2>2, SlotType DEF EAudit, ENotify, EAnnounce
  <2>4. estOut' \subseteq EstimateEffect
    BY <1>0, <1>11, <2>1, ToldType DEF EAudit, ENotify, EAnnounce, ESilent
  <2> QED BY <1>0, <1>11, <2>3, <2>4, SameRowsType
          DEF EAudit, ENotify, EAnnounce, RepairTypeOK
<1> QED BY <1>1, <1>2, <1>3, <1>4, <1>5, <1>6, <1>7, <1>8, <1>9, <1>10, <1>11
        DEF EstimateStep

-----------------------------------------------------------------------------
\* No estimate is stored and nothing is asked yet.
LEMMA EstimateInit == RepairInit => EstimateInv
<1> SUFFICES ASSUME RepairInit PROVE EstimateInv
  OBVIOUS
<1>1. Anchored /\ SentFirst
  BY DEF RepairInit, Anchored, SentFirst, Decided
<1>2. \A r \in Requests : Carries(ereq[r])
  BY DEF RepairInit, Carries, Idle
<1> QED BY <1>1, <1>2, RepairTypeInit DEF EstimateInv

\* A step of slot r that writes no order and no column of an estimate that
\* matters preserves the invariant, if what the slot carries then is true.
LEMMA QuietSlotStep ==
  ASSUME EstimateInv, RepairTypeOK', NEW r \in Requests, NEW state, EGoto(r, state),
         Carries(ereq[r])', UNCHANGED <<rows, estStatus, estOrder, sends>>
  PROVE  EstimateInv'
<1>1. OrdersGrow
  BY SameOrders DEF rows
<1>2. EstimatesGrow /\ Anchored' /\ SentFirst'
  BY <1>1, SameEstimates
<1>3. \A s \in Requests \ {r} : ereq'[s] = ereq[s]
  BY DEF EGoto, EstimateInv, RepairTypeOK
<1> QED BY <1>1, <1>2, <1>3, SlotStep

\* A step of slot r that gives a stored estimate another status, not the one
\* of a row that is missing, preserves the invariant.
LEMMA StatusStep ==
  ASSUME EstimateInv, RepairTypeOK', OrdersGrow,
         NEW r \in Requests, NEW state, EGoto(r, state), Carries(ereq[r])',
         NEW e \in Estimates, NEW new \in EstimateStatus,
         estStatus[e] # "ABSENT", sends[e] > 0,
         estStatus' = [estStatus EXCEPT ![e] = new], UNCHANGED <<estOrder, sends>>
  PROVE  EstimateInv'
<1>1. /\ estStatus'[e] = new /\ new # "ABSENT"
      /\ \A f \in Estimates \ {e} : estStatus'[f] = estStatus[f]
  BY DEF EstimateInv, RepairTypeOK, EstimateStatus
<1>2. EstimatesGrow
  BY <1>1 DEF EstimatesGrow
<1>3. SentFirst'
  BY <1>1 DEF EstimateInv, SentFirst
<1>4. ASSUME NEW f \in Estimates, estStatus'[f] # "ABSENT" PROVE Exists(estOrder[f])'
  <2>1. estStatus[f] # "ABSENT"
    BY <1>1, <1>4
  <2>2. PICK w \in Orders : w = estOrder[f] /\ w = estOrder'[f]
    BY <2>1 DEF EstimateInv, RepairTypeOK
  <2>3. Exists(w)
    BY <2>1, <2>2 DEF EstimateInv, Anchored
  <2>4. Exists(w)'
    BY <2>3 DEF OrdersGrow
  <2> QED BY <2>2, <2>4 DEF Exists
<1>5. \A s \in Requests \ {r} : ereq'[s] = ereq[s]
  BY DEF EGoto, EstimateInv, RepairTypeOK
<1>6. Anchored'
  BY <1>4 DEF Anchored
<1> QED BY <1>2, <1>3, <1>5, <1>6, SlotStep

\* A decision lets the orders grow, and appends nothing but a legal approval
\* of an order that had been waiting.
LEMMA DecisionOrders ==
  ASSUME EstimateInv, HistoryInv, NEW r \in Requests, CommitDecision(r), Silent,
         UNCHANGED <<year, req>>
  PROVE  OrdersGrow /\ HistoryInv'
<1>0. TypeOK /\ RepairTypeOK
  BY DEF EstimateInv, RepairTypeOK
<1>1. /\ ereq[r].estimate \in Estimates
      /\ estStatus[ereq[r].estimate] # "ABSENT"
  BY EstimateRequestFields DEF CommitDecision, EstimateInv, RepairTypeOK, Carries
<1>2. PICK w \in Orders : w = estOrder[ereq[r].estimate]
  BY <1>0, <1>1 DEF RepairTypeOK
<1>3. CASE MovesOrder(ereq[r])
  <2> DEFINE approval == StatusChange("WAITING_FOR_APPROVAL", "APPROVED")
  <2>1. ApproveOrder(w) /\ UNCHANGED <<number, technician>>
    BY <1>2, <1>3 DEF CommitDecision
  <2>2. TypeOK' /\ approval \in Event
    BY <1>0, <2>1, ApproveType
  <2>3. Reached(timeline[w], "WAITING_FOR_APPROVAL")
    BY <1>2, <1>3 DEF CommitDecision, MovesOrder, EstimateInv, Carries
  <2>4. Grounded(timeline[w], approval)
    BY <2>3 DEF Grounded, StatusChange, ValidTransitions
  <2>5. Record(w, approval)
    BY <2>1 DEF ApproveOrder
  <2>6. /\ status'[w] = "APPROVED"
        /\ \A v \in Orders \ {w} : status'[v] = status[v]
    BY <1>0, <2>1 DEF ApproveOrder, TypeOK
  <2>7. \A v \in Orders : Exists(v) => Exists(v)'
    BY <2>6 DEF Exists
  <2>8. timeline[w] \in Seq(Event) /\ timeline'[w] = Append(timeline[w], approval)
    BY <1>0, <2>5 DEF TypeOK, Record
  <2>9. MovedTo(approval, "APPROVED")
    BY DEF MovedTo, StatusChange
  <2> HIDE DEF approval
  <2>10. Reached(timeline'[w], status'[w])
    BY <2>2, <2>6, <2>8, <2>9, AppendTells
  <2>11. HistoryInv'
    BY <2>2, <2>4, <2>5, <2>6, <2>10, AppendStep
  <2> QED BY <1>0, <2>2, <2>5, <2>7, <2>11, RecordedOrders
<1>4. CASE ~MovesOrder(ereq[r])
  <2>1. UNCHANGED rows
    BY <1>4 DEF CommitDecision
  <2>2. TypeOK'
    BY <1>0, <2>1, SameRowsType
  <2>3. HistoryInv'
    BY <2>1, <2>2 DEF rows, HistoryInv, StatusReached, Exists, RequestsGrounded
  <2> QED BY <2>1, <2>3, SameOrders DEF rows
<1> QED BY <1>3, <1>4

\* Every estimate request preserves the invariant of the estimates.
LEMMA EstimateInvStep ==
  ASSUME RepairInv, NEW r \in Requests, EstimateStep(r), Silent, UNCHANGED <<year, req>>
  PROVE  EstimateInv'
<1>0. EstimateInv /\ HistoryInv /\ RepairTypeOK /\ RepairTypeOK'
  BY EstimateTypeStep DEF RepairInv, EstimateInv
<1>a. ereq[r] \in EstimateRequest /\ Carries(ereq[r])
  BY <1>0 DEF EstimateInv, RepairTypeOK
<1>b. ASSUME NEW state, EGoto(r, state)
      PROVE  /\ ereq'[r] = state
             /\ \A s \in Requests \ {r} : ereq'[s] = ereq[s]
  BY <1>0, <1>b DEF EGoto, RepairTypeOK
<1>1. ASSUME NEW e \in Estimates, NEW w \in Orders, CreateEstimate(r, e, w)
      PROVE  EstimateInv'
  <2>1. /\ estStatus[e] = "ABSENT" /\ estStatus'[e] = "DRAFT" /\ estOrder'[e] = w
        /\ \A f \in Estimates \ {e} :
             estStatus'[f] = estStatus[f] /\ estOrder'[f] = estOrder[f]
        /\ UNCHANGED <<rows, sends>> /\ Exists(w)
    BY <1>0, <1>1 DEF CreateEstimate, RepairTypeOK
  <2>2. OrdersGrow
    BY <2>1, SameOrders DEF rows
  <2>3. EstimatesGrow
    BY <2>1 DEF EstimatesGrow
  <2>4. SentFirst'
    BY <1>0, <2>1 DEF EstimateInv, SentFirst, Decided
  <2>5. Anchored'
    BY <1>0, <2>1 DEF EstimateInv, Anchored, Exists, rows
  <2>6. ereq'[r].pc = "auditing" /\ \A s \in Requests \ {r} : ereq'[s] = ereq[s]
    BY <1>1, <1>b DEF CreateEstimate, EDone
  <2>7. Carries(ereq[r])'
    BY <2>6 DEF Carries
  <2> QED BY <1>0, <2>2, <2>3, <2>4, <2>5, <2>6, <2>7, SlotStep
<1>2. ASSUME NEW e \in Estimates, CheckEdit(r, e) PROVE EstimateInv'
  <2>1. Carries(ereq[r])'
    BY <1>2, <1>b DEF CheckEdit, Carries, Editable
  <2> QED BY <1>0, <1>2, <2>1, QuietSlotStep DEF CheckEdit
<1>3. ASSUME NEW e \in Estimates, CheckSend(r, e) PROVE EstimateInv'
  <2>1. /\ sends[e] \in Nat /\ sends'[e] = sends[e] + 1
        /\ \A f \in Estimates \ {e} : sends'[f] = sends[f]
        /\ UNCHANGED <<rows, estStatus, estOrder>>
    BY <1>0, <1>3 DEF CheckSend, RepairTypeOK
  <2>2. sends'[e] > 0
    BY <2>1
  <2>3. OrdersGrow
    BY <2>1, SameOrders DEF rows
  <2>4. EstimatesGrow
    BY <2>1, <2>2 DEF EstimatesGrow
  <2>5. SentFirst'
    BY <1>0, <2>1, <2>2 DEF EstimateInv, SentFirst
  <2>6. Anchored'
    BY <1>0, <2>1 DEF EstimateInv, Anchored, Exists, rows
  <2>7. /\ ereq'[r] = [pc |-> "sending", estimate |-> e]
        /\ \A s \in Requests \ {r} : ereq'[s] = ereq[s]
    BY <1>3, <1>b DEF CheckSend
  <2>8. Carries(ereq[r])'
    BY <1>3, <2>1, <2>2, <2>7 DEF CheckSend, Carries
  <2> QED BY <1>0, <2>3, <2>4, <2>5, <2>6, <2>7, <2>8, SlotStep
<1>4. ASSUME NEW e \in Estimates, NEW approved \in BOOLEAN, ReadEstimate(r, e, approved)
      PROVE  EstimateInv'
  <2>1. ereq'[r] = [pc |-> "reading", estimate |-> e, approved |-> approved,
                    seen |-> estStatus[e]]
    BY <1>4, <1>b DEF ReadEstimate
  <2>2. Carries(ereq[r])'
    BY <1>0, <1>4, <2>1 DEF ReadEstimate, Carries, EstimateInv, SentFirst
  <2> QED BY <1>0, <1>4, <2>2, QuietSlotStep DEF ReadEstimate
<1>5. CASE CommitEdit(r) \/ RepeatDecision(r)
  <2>1. ereq'[r].pc = "auditing"
    BY <1>5, <1>b DEF CommitEdit, RepeatDecision, EDone
  <2>2. Carries(ereq[r])'
    BY <2>1 DEF Carries
  <2> QED BY <1>0, <1>5, <2>2, QuietSlotStep DEF CommitEdit, RepeatDecision, EDone
<1>6. CASE CommitSend(r)
  <2>1. PICK e \in Estimates : e = ereq[r].estimate
    BY <1>6, <1>a, EstimateRequestFields DEF CommitSend
  <2>2. estStatus[e] # "ABSENT" /\ sends[e] > 0
    BY <1>6, <1>a, <2>1 DEF CommitSend, Carries
  <2>3. ereq'[r].pc = "auditing"
    BY <1>6, <1>b DEF CommitSend, EDone
  <2>4. Carries(ereq[r])'
    BY <2>3 DEF Carries
  <2>5. OrdersGrow
    BY <1>6, SameOrders DEF CommitSend, rows
  <2>6. estStatus' = [estStatus EXCEPT ![e] = "SENT"] /\ "SENT" \in EstimateStatus
    BY <1>6, <2>1 DEF CommitSend, EstimateStatus
  <2> QED BY <1>0, <1>6, <2>2, <2>4, <2>5, <2>6, StatusStep DEF CommitSend, EDone
<1>7. CASE RefuseDecision(r) \/ ELose(r)
  <2>1. ereq'[r] = Idle
    BY <1>7, <1>b DEF RefuseDecision, ELose
  <2>2. Carries(ereq[r])'
    BY <2>1 DEF Carries, Idle
  <2> QED BY <1>0, <1>7, <2>2, QuietSlotStep DEF RefuseDecision, ELose
<1>8. CASE AllowDecision(r)
  <2>1. PICK e \in Estimates : e = ereq[r].estimate
    BY <1>8, <1>a, EstimateRequestFields DEF AllowDecision
  <2>2. estStatus[e] # "ABSENT" /\ sends[e] > 0
    <3>1. ereq[r].seen \in EstimateStatus /\ ereq[r].seen \in Decidable
      BY <1>8, <1>a, EstimateRequestFields DEF AllowDecision
    <3> QED BY <1>8, <1>a, <2>1, <3>1
            DEF AllowDecision, Carries, Decidable, EstimateStatus
  <2>3. PICK w \in Orders : w = estOrder[e]
    BY <1>0, <2>2 DEF RepairTypeOK
  <2>4. Exists(w) /\ Reached(timeline[w], status[w])
    BY <1>0, <2>2, <2>3 DEF EstimateInv, Anchored, HistoryInv, StatusReached
  <2>5. ereq'[r] = [pc |-> "deciding", estimate |-> e, approved |-> ereq[r].approved,
                    seenOrder |-> status[w]]
    BY <1>8, <1>b, <2>1, <2>3 DEF AllowDecision, OrderSeen
  <2>6. Carries(ereq[r])'
    BY <1>8, <2>2, <2>3, <2>4, <2>5 DEF AllowDecision, Carries, rows
  <2> QED BY <1>0, <1>8, <2>6, QuietSlotStep DEF AllowDecision
<1>9. CASE CommitDecision(r)
  <2>1. PICK e \in Estimates : e = ereq[r].estimate
    BY <1>9, <1>a, EstimateRequestFields DEF CommitDecision
  <2>2. PICK new \in EstimateStatus :
          new = IF ereq[r].approved THEN "APPROVED" ELSE "REJECTED"
    BY DEF EstimateStatus
  <2>3. estStatus[e] # "ABSENT" /\ sends[e] > 0
    BY <1>9, <1>a, <2>1 DEF CommitDecision, Carries
  <2>4. ereq'[r].pc = "auditing"
    BY <1>9, <1>b DEF CommitDecision, EDone
  <2>5. Carries(ereq[r])'
    BY <2>4 DEF Carries
  <2>6. OrdersGrow
    BY <1>0, <1>9, DecisionOrders
  <2>7. estStatus' = [estStatus EXCEPT ![e] = new]
    BY <1>9, <2>1, <2>2 DEF CommitDecision
  <2> QED BY <1>0, <1>9, <2>3, <2>5, <2>6, <2>7, StatusStep DEF CommitDecision, EDone
<1>10. CASE EAudit(r) \/ ENotify(r) \/ EAnnounce(r)
  <2>1. ereq[r] \in [pc: {"auditing", "notifying", "announcing"},
                     estimate: Estimates, action: EstimateAction]
    BY <1>10, <1>a, EstimateRequestFields DEF EAudit, ENotify, EAnnounce
  <2>2. ereq'[r].pc \in {"notifying", "announcing", "idle"}
    BY <1>10, <1>b, <2>1 DEF EAudit, ENotify, EAnnounce, AfterEstimateAudit, Idle
  <2>3. Carries(ereq[r])'
    BY <2>2 DEF Carries
  <2> QED BY <1>0, <1>10, <2>3, QuietSlotStep DEF EAudit, ENotify, EAnnounce
<1> QED BY <1>1, <1>2, <1>3, <1>4, <1>5, <1>6, <1>7, <1>8, <1>9, <1>10
        DEF EstimateStep

\* An estimate request changes the orders' histories only by its decisions.
LEMMA EstimateHistoryStep ==
  ASSUME RepairInv, NEW r \in Requests, EstimateStep(r), Silent, UNCHANGED <<year, req>>
  PROVE  HistoryInv'
<1>1. CASE CommitDecision(r)
  BY <1>1, DecisionOrders DEF RepairInv
<1>2. CASE UNCHANGED rows
  <2>1. TypeOK'
    BY <1>2, SameRowsType DEF RepairInv, HistoryInv
  <2> QED BY <1>2, <2>1
          DEF rows, RepairInv, HistoryInv, StatusReached, Exists, RequestsGrounded
<1> QED BY <1>1, <1>2
        DEF EstimateStep, CreateEstimate, CheckEdit, CommitEdit, CheckSend, CommitSend,
            ReadEstimate, RefuseDecision, RepeatDecision, AllowDecision,
            EAudit, ENotify, EAnnounce, ELose

\* A request of WorkOrdersService leaves the estimates true.
LEMMA OrderInvStep ==
  ASSUME RepairInv, NEW r \in Requests, OrderStep(r) PROVE RepairInv'
<1>0. EstimateInv /\ HistoryInv /\ RepairTypeOK /\ TypeOK
  BY DEF RepairInv, EstimateInv, HistoryInv
<1>1. HistoryInv'
  BY <1>0, HistoryStep DEF OrderStep, Next
<1>2. RepairTypeOK'
  BY <1>0, <1>1 DEF HistoryInv, OrderStep, RepairTypeOK, ESilent
<1>3. OrdersGrow
  BY <1>0, OrdersGrowInSteps DEF OrderStep
<1>4. EstimatesGrow /\ Anchored' /\ SentFirst'
  BY <1>0, <1>3, SameEstimates DEF OrderStep
<1>5. Carries(ereq[r])'
  BY <1>0, <1>3, <1>4, CarriesKept DEF OrderStep
<1> QED BY <1>0, <1>1, <1>2, <1>3, <1>4, <1>5, SlotStep DEF OrderStep, RepairInv

\* Every step of the composition preserves the invariant.
LEMMA RepairStep == RepairInv /\ [RepairNext]_repairVars => RepairInv'
<1> SUFFICES ASSUME RepairInv, [RepairNext]_repairVars PROVE RepairInv'
  OBVIOUS
<1>0. EstimateInv /\ HistoryInv /\ RepairTypeOK
  BY DEF RepairInv, EstimateInv
<1>1. CASE (NewYear \/ UNCHANGED vars) /\ UNCHANGED estVars
  <2>1. HistoryInv'
    BY <1>0, <1>1, HistoryStep DEF Next
  <2>2. RepairTypeOK'
    BY <1>0, <1>1, <2>1 DEF HistoryInv, estVars, RepairTypeOK
  <2>3. OrdersGrow
    BY <1>1, SameOrders DEF NewYear, vars, rows
  <2>4. EstimatesGrow /\ Anchored' /\ SentFirst'
    BY <1>0, <1>1, <2>3, SameEstimates DEF estVars
  <2>5. ASSUME NEW r \in Requests PROVE Carries(ereq[r])'
    BY <1>0, <1>1, <2>3, <2>4, CarriesKept DEF estVars
  <2> QED BY <2>1, <2>2, <2>4, <2>5 DEF RepairInv, EstimateInv
<1>2. ASSUME NEW r \in Requests, OrderStep(r) PROVE RepairInv'
  BY <1>2, OrderInvStep
<1>3. ASSUME NEW r \in Requests, EstimateStep(r), Silent, UNCHANGED <<year, req>>
      PROVE  RepairInv'
  BY <1>3, EstimateInvStep, EstimateHistoryStep DEF RepairInv
<1> QED BY <1>1, <1>2, <1>3 DEF RepairNext, repairVars

\* The invariant of the composition holds initially.
LEMMA RepairInvInit == RepairInit => RepairInv
  BY HistoryInit, EstimateInit DEF RepairInit, RepairInv

\* The invariant holds for every instance.
THEOREM RepairInvariant == RepairSpec => []RepairInv
  BY RepairInvInit, RepairStep, PTL DEF RepairSpec

\* The types of both services, for any number of requests at a time.
THEOREM RepairTypesCorrect == RepairSpec => []RepairTypeOK
<1>1. RepairInv => RepairTypeOK
  BY DEF RepairInv, EstimateInv
<1> QED BY <1>1, RepairInvariant, PTL

\* The histories stay legal although handleCustomerApproval writes them from a
\* status it may have read long ago.
THEOREM SharedHistoryIsLegal == RepairSpec => []HistoryLegal
<1>1. RepairInv => HistoryLegal
  BY DEF RepairInv, HistoryInv, SoundLog, HistoryLegal
<1> QED BY <1>1, RepairInvariant, PTL

\* No estimate is decided, nor on the way to be, unless it was sent.
THEOREM DecisionsNeedSends == RepairSpec => []DecisionNeedsSend
<1>1. RepairInv => DecisionNeedsSend
  BY DEF RepairInv, EstimateInv, SentFirst, Carries, DecisionNeedsSend
<1> QED BY <1>1, RepairInvariant, PTL

-----------------------------------------------------------------------------
\* The row of an order and its timeline, which three operations write.
\* The i-th event is the last one of its type.
LastOf(log, i, type) ==
  /\ log[i].type = type
  /\ \A j \in (i + 1)..Len(log) : log[j].type # type

\* A row with status s and technician t is what its timeline leads to.
Agrees(log, s, t) ==
  /\ s # "ABSENT" <=> log # <<>>
  /\ s # "ABSENT" => LastOf(log, 1, "CREATED")
  /\ \A i \in 1..Len(log) :
       /\ LastOf(log, i, "STATUS_CHANGE") => s = log[i].to
       /\ LastOf(log, i, "TECHNICIAN_ASSIGNED") => t = log[i].technician
  /\ s \notin {"ABSENT", "RECEIVED"} =>
       \E i \in 1..Len(log) : log[i].type = "STATUS_CHANGE"

RowsAgree == \A w \in Orders : Agrees(timeline[w], status[w], technician[w])

\* An order that is about to change is stored: rows are never deleted.
OrdersRead ==
  \A r \in Requests : req[r].pc \in {"moving", "assigning"} => Exists(req[r].order)

RowInv == RowsAgree /\ OrdersRead

\* The event leads the row from status s and technician t to s2 and t2.
LeadsTo(e, s, t, s2, t2) ==
  \/ e.type = "STATUS_CHANGE" /\ s2 = e.to /\ s2 # "ABSENT" /\ t2 = t
  \/ e.type = "TECHNICIAN_ASSIGNED" /\ t2 = e.technician /\ s2 = s

-----------------------------------------------------------------------------
\* An event that is not the last of its type in a longer timeline was not
\* before; one that is, is the new event or was the last before.
LEMMA LastAppend ==
  ASSUME NEW log \in Seq(Event), NEW e \in Event,
         NEW i \in 1..(Len(log) + 1), NEW type
  PROVE  LastOf(Append(log, e), i, type) <=>
           \/ i = Len(log) + 1 /\ e.type = type
           \/ i \in 1..Len(log) /\ e.type # type /\ LastOf(log, i, type)
<1> DEFINE more == Append(log, e)
<1>1. Len(more) = Len(log) + 1 /\ more[Len(log) + 1] = e
  OBVIOUS
<1>2. \A j \in 1..Len(log) : more[j] = log[j]
  OBVIOUS
<1> HIDE DEF more
<1>3. CASE i = Len(log) + 1
  <2>1. (i + 1)..Len(more) = {} /\ i \notin 1..Len(log)
    BY <1>1, <1>3
  <2> QED BY <1>1, <1>3, <2>1 DEF LastOf, more
<1>4. CASE i \in 1..Len(log)
  <2>1. (i + 1)..Len(more) = ((i + 1)..Len(log)) \cup {Len(log) + 1}
    BY <1>1, <1>4
  <2>2. \A j \in (i + 1)..Len(log) : j \in 1..Len(log)
    BY <1>4
  <2>3. i # Len(log) + 1
    BY <1>4
  <2> QED BY <1>1, <1>2, <1>4, <2>1, <2>2, <2>3 DEF LastOf, more
<1> QED BY <1>3, <1>4

\* Row and timeline agree again after an event that leads from one to the other.
LEMMA AgreesAppend ==
  ASSUME NEW log \in Seq(Event), NEW e \in Event, NEW s, NEW t, NEW s2, NEW t2,
         Agrees(log, s, t), s # "ABSENT", LeadsTo(e, s, t, s2, t2)
  PROVE  Agrees(Append(log, e), s2, t2)
<1> DEFINE more == Append(log, e)
<1>1. /\ Len(more) = Len(log) + 1 /\ more[Len(log) + 1] = e
      /\ \A j \in 1..Len(log) : more[j] = log[j]
      /\ more # <<>>
  <2>1. Len(more) = Len(log) + 1 /\ Len(log) \in Nat
    OBVIOUS
  <2>2. \A j \in 1..Len(log) : more[j] = log[j]
    OBVIOUS
  <2>3. more[Len(log) + 1] = e
    OBVIOUS
  <2>4. more # <<>>
    <3> HIDE DEF more
    <3>1. Len(more) # 0
      BY <2>1
    <3> QED BY <3>1
  <2> QED BY <2>1, <2>2, <2>3, <2>4
<1>2. s2 # "ABSENT"
  BY DEF LeadsTo
<1>3. Len(log) \in Nat /\ 1 \in 1..Len(log) /\ 1 \in 1..(Len(log) + 1)
  BY DEF Agrees
<1>4. LastOf(more, 1, "CREATED")
  BY <1>3, LastAppend DEF Agrees, LeadsTo
<1>5. ASSUME NEW i \in 1..Len(more)
      PROVE  /\ LastOf(more, i, "STATUS_CHANGE") => s2 = more[i].to
             /\ LastOf(more, i, "TECHNICIAN_ASSIGNED") => t2 = more[i].technician
  <2>1. i \in 1..(Len(log) + 1)
    BY <1>1
  <2>2. CASE i = Len(log) + 1
    <3>1. more[i] = e
      BY <1>1, <2>2
    <3> QED BY <3>1 DEF LastOf, LeadsTo
  <2>3. CASE i \in 1..Len(log) /\ i # Len(log) + 1
    <3>1. more[i] = log[i]
      BY <1>1, <2>3
    <3>2. \A type : LastOf(more, i, type) => e.type # type /\ LastOf(log, i, type)
      BY <2>1, <2>3, LastAppend
    <3>3. /\ LastOf(log, i, "STATUS_CHANGE") => s = log[i].to
          /\ LastOf(log, i, "TECHNICIAN_ASSIGNED") => t = log[i].technician
      BY <2>3 DEF Agrees
    <3> HIDE DEF more
    <3> QED BY <3>1, <3>2, <3>3 DEF LeadsTo
  <2> QED BY <2>1, <2>2, <2>3
<1>6. s2 \notin {"ABSENT", "RECEIVED"} =>
        \E i \in 1..Len(more) : more[i].type = "STATUS_CHANGE"
  <2>1. CASE e.type = "STATUS_CHANGE"
    <3>1. Len(log) + 1 \in 1..Len(more) /\ more[Len(log) + 1].type = "STATUS_CHANGE"
      BY <1>1, <1>3, <2>1
    <3> QED BY <3>1
  <2>2. CASE s2 = s
    <3>1. \A i \in 1..Len(log) : i \in 1..Len(more) /\ more[i] = log[i]
      BY <1>1
    <3> HIDE DEF more
    <3> QED BY <2>2, <3>1 DEF Agrees
  <2> QED BY <2>1, <2>2 DEF LeadsTo
<1> HIDE DEF more
<1>7. Agrees(more, s2, t2)
  BY <1>1, <1>2, <1>4, <1>5, <1>6 DEF Agrees
<1> QED BY <1>7 DEF more

\* The row of a new order agrees with its CREATED event.
LEMMA AgreesCreated ==
  ASSUME NEW t PROVE Agrees(<<CreatedEvent>>, "RECEIVED", t)
  BY DEF Agrees, LastOf, CreatedEvent

\* The named form of the property.
LEMMA RowsNamed == RowsAgree <=> RowMatchesTimeline
  BY DEF RowsAgree, Agrees, LastOf, RowMatchesTimeline, Exists

-----------------------------------------------------------------------------
\* Writing an event that leads the row of one stored order from its columns
\* to the new ones keeps every row in agreement.
LEMMA AgreesStep ==
  ASSUME TypeOK, RowsAgree, NEW w \in Orders, NEW e \in Event,
         Exists(w), Record(w, e),
         LeadsTo(e, status[w], technician[w], status'[w], technician'[w]),
         \A v \in Orders \ {w} : status'[v] = status[v] /\ technician'[v] = technician[v]
  PROVE  RowsAgree'
<1>1. /\ timeline[w] \in Seq(Event) /\ timeline'[w] = Append(timeline[w], e)
      /\ \A v \in Orders \ {w} : timeline'[v] = timeline[v]
  BY DEF TypeOK, Record
<1>2. Agrees(timeline'[w], status'[w], technician'[w])
  <2>1. Agrees(timeline[w], status[w], technician[w]) /\ status[w] # "ABSENT"
    BY DEF RowsAgree, Exists
  <2> QED BY <1>1, <2>1, AgreesAppend
<1> QED BY <1>1, <1>2 DEF RowsAgree

\* Orders that exist go on existing, and a request that gets ready to change
\* an order has read it.
LEMMA ReadsKept ==
  ASSUME TypeOK, OrdersRead, OrdersGrow,
         \A r \in Requests : req'[r].pc \in {"moving", "assigning"} =>
           \/ req'[r] = req[r]
           \/ req'[r].order \in Orders /\ Exists(req'[r].order)
  PROVE  OrdersRead'
<1> SUFFICES ASSUME NEW r \in Requests, req'[r].pc \in {"moving", "assigning"}
             PROVE  status'[req'[r].order] # "ABSENT"
  BY DEF OrdersRead, Exists
<1>1. req'[r].order \in Orders /\ Exists(req'[r].order)
  <2>1. CASE req'[r] = req[r]
    BY <2>1, RequestFields DEF OrdersRead, TypeOK
  <2> QED BY <2>1
<1>2. PICK w \in Orders : w = req'[r].order
  BY <1>1
<1>3. Exists(w)'
  BY <1>1, <1>2 DEF OrdersGrow
<1> QED BY <1>2, <1>3 DEF Exists

\* Every step of a request of WorkOrdersService keeps the rows in agreement.
LEMMA RowOrderStep ==
  ASSUME TypeOK, RowInv, NEW r \in Requests, Step(r) PROVE RowInv'
<1>0. RowsAgree /\ OrdersRead /\ OrdersGrow
  BY OrdersGrowInSteps DEF RowInv
<1>a. ASSUME NEW state, Goto(r, state)
      PROVE  req'[r] = state /\ \A q \in Requests \ {r} : req'[q] = req[q]
  BY <1>a DEF Goto, TypeOK
<1>b. ASSUME NEW state, Goto(r, state), state.pc \notin {"moving", "assigning"}
      PROVE  OrdersRead'
  <2>1. req'[r] = state /\ \A q \in Requests \ {r} : req'[q] = req[q]
    BY <1>a, <1>b
  <2>2. ASSUME NEW q \in Requests, req'[q].pc \in {"moving", "assigning"}
        PROVE  req'[q] = req[q]
    BY <1>b, <2>1, <2>2
  <2> QED BY <1>0, <2>2, ReadsKept
<1>c. ASSUME NEW w \in Orders, NEW change, Committed(r, w, change) PROVE OrdersRead'
  BY <1>b, <1>c DEF Committed
<1>1. ASSUME UNCHANGED rows PROVE RowsAgree'
  BY <1>0, <1>1 DEF rows, RowsAgree
<1>2. CASE CountOrders(r) \/ StampNumber(r) \/ RefuseDuplicate(r) \/ Announce(r) \/ Lose(r)
  <2>1. OrdersRead'
    BY <1>2, <1>b DEF CountOrders, StampNumber, RefuseDuplicate, Announce, Lose, Idle
  <2> QED BY <1>1, <1>2, <2>1
          DEF CountOrders, StampNumber, RefuseDuplicate, Announce, Lose, RowInv
<1>3. CASE Audit(r) \/ Notify(r)
  <2>1. req[r] \in [pc: {"auditing", "notifying", "announcing"}, order: Orders, change: Event]
    BY <1>3, RequestFields DEF Audit, Notify, TypeOK
  <2>2. \A next : [req[r] EXCEPT !.pc = next].pc = next
    BY <2>1
  <2>3. AfterAudit(req[r].change) \in {"notifying", "announcing"}
    BY DEF AfterAudit
  <2>4. OrdersRead'
    BY <1>3, <1>b, <2>2, <2>3 DEF Audit, Notify
  <2> QED BY <1>1, <1>3, <2>4 DEF Audit, Notify, RowInv
<1>4. ASSUME NEW w \in Orders, InsertOrder(r, w) PROVE RowInv'
  <2>1. OrdersRead'
    BY <1>4, <1>c DEF InsertOrder
  <2>2. timeline[w] = <<>>
    BY <1>0, <1>4 DEF InsertOrder, Exists, RowsAgree, Agrees
  <2>3. timeline'[w] = <<CreatedEvent>> /\ status'[w] = "RECEIVED"
    BY <1>4, <2>2 DEF InsertOrder, Record, TypeOK
  <2>4. \A v \in Orders \ {w} :
          timeline'[v] = timeline[v] /\ status'[v] = status[v] /\ technician'[v] = technician[v]
    BY <1>4 DEF InsertOrder, Record, TypeOK
  <2>5. Agrees(timeline'[w], status'[w], technician'[w])
    BY <2>3, AgreesCreated
  <2>6. RowsAgree'
    BY <1>0, <2>4, <2>5 DEF RowsAgree
  <2> QED BY <2>1, <2>6 DEF RowInv
<1>5. ASSUME NEW w \in Orders, Exists(w), NEW state, Goto(r, state),
             state.order = w, UNCHANGED rows
      PROVE  RowInv'
  <2>1. req'[r] = state /\ \A q \in Requests \ {r} : req'[q] = req[q]
    BY <1>a, <1>5
  <2>2. \A q \in Requests :
          \/ req'[q] = req[q]
          \/ req'[q].order \in Orders /\ Exists(req'[q].order)
    BY <1>5, <2>1
  <2>3. OrdersRead'
    BY <1>0, <2>2, ReadsKept
  <2> QED BY <1>1, <1>5, <2>3 DEF RowInv
<1>6. CASE \E w \in Orders, to \in WorkOrderStatus : CheckMove(r, w, to)
  BY <1>5, <1>6 DEF CheckMove
<1>7. CASE \E w \in Orders, t \in Technicians : CheckAssign(r, w, t)
  BY <1>5, <1>7 DEF CheckAssign
<1>8. CASE CommitMove(r)
  <2>1. /\ req[r].order \in Orders
        /\ req[r].from \in WorkOrderStatus
        /\ req[r].to \in WorkOrderStatus
    BY <1>8, RequestFields DEF CommitMove, TypeOK
  <2>2. PICK w \in Orders, change \in Event :
          w = req[r].order /\ change = MoveFromRead(r)
    BY <2>1, EventsMade DEF MoveFromRead
  <2>3. change.type = "STATUS_CHANGE" /\ change.to = req[r].to /\ req[r].to # "ABSENT"
    BY <2>1, <2>2 DEF MoveFromRead, StatusChange, WorkOrderStatus
  <2>4. /\ Record(w, change) /\ technician' = technician /\ status'[w] = req[r].to
        /\ \A v \in Orders \ {w} : status'[v] = status[v]
        /\ Committed(r, w, change)
    BY <1>8, <2>2 DEF CommitMove, MovedStatus, TypeOK
  <2>5. Exists(w)
    BY <1>0, <1>8, <2>2 DEF CommitMove, OrdersRead
  <2>6. LeadsTo(change, status[w], technician[w], status'[w], technician'[w])
    BY <2>3, <2>4 DEF LeadsTo
  <2>7. RowsAgree'
    BY <1>0, <2>4, <2>5, <2>6, AgreesStep
  <2>8. OrdersRead'
    BY <2>4, <1>c
  <2> QED BY <2>7, <2>8 DEF RowInv
<1>9. CASE CommitAssign(r)
  <2>1. req[r].order \in Orders /\ req[r].technician \in Technicians
    BY <1>9, RequestFields DEF CommitAssign, TypeOK
  <2>2. PICK w \in Orders, change \in Event :
          w = req[r].order /\ change = Assignment(req[r].technician)
    BY <2>1, EventsMade
  <2>3. change.type = "TECHNICIAN_ASSIGNED" /\ change.technician = req[r].technician
    BY <2>2 DEF Assignment
  <2>4. /\ Record(w, change) /\ status' = status /\ technician'[w] = req[r].technician
        /\ \A v \in Orders \ {w} : technician'[v] = technician[v]
        /\ Committed(r, w, change)
    BY <1>9, <2>2 DEF CommitAssign, TypeOK
  <2>5. Exists(w)
    BY <1>0, <1>9, <2>2 DEF CommitAssign, OrdersRead
  <2>6. LeadsTo(change, status[w], technician[w], status'[w], technician'[w])
    BY <2>3, <2>4 DEF LeadsTo
  <2>7. RowsAgree'
    BY <1>0, <2>4, <2>5, <2>6, AgreesStep
  <2>8. OrdersRead'
    BY <2>4, <1>c
  <2> QED BY <2>7, <2>8 DEF RowInv
<1> QED BY <1>2, <1>3, <1>4, <1>6, <1>7, <1>8, <1>9 DEF Step

\* The approval of a customer does so too.
LEMMA RowDecision ==
  ASSUME RepairInv, RowsAgree, NEW r \in Requests, CommitDecision(r) PROVE RowsAgree'
<1>0. TypeOK /\ RepairTypeOK /\ EstimateInv
  BY DEF RepairInv, EstimateInv, RepairTypeOK
<1>1. CASE ~MovesOrder(ereq[r])
  BY <1>1 DEF CommitDecision, rows, RowsAgree
<1>2. CASE MovesOrder(ereq[r])
  <2> DEFINE approval == StatusChange("WAITING_FOR_APPROVAL", "APPROVED")
  <2>1. /\ ereq[r].estimate \in Estimates
        /\ estStatus[ereq[r].estimate] # "ABSENT"
    BY <1>0, EstimateRequestFields DEF CommitDecision, EstimateInv, RepairTypeOK, Carries
  <2>2. PICK e \in Estimates : e = ereq[r].estimate
    BY <2>1
  <2>3. PICK w \in Orders : w = estOrder[e]
    BY <1>0, <2>1, <2>2 DEF RepairTypeOK
  <2>4. Exists(w)
    BY <1>0, <2>1, <2>2, <2>3 DEF EstimateInv, Anchored
  <2>5. ApproveOrder(w) /\ UNCHANGED technician
    BY <1>2, <2>2, <2>3 DEF CommitDecision
  <2>6. approval \in Event
    BY EventsMade DEF WorkOrderStatus
  <2>7. /\ Record(w, approval) /\ status'[w] = "APPROVED"
        /\ \A v \in Orders \ {w} : status'[v] = status[v]
    BY <1>0, <2>5 DEF ApproveOrder, TypeOK
  <2>8. LeadsTo(approval, status[w], technician[w], status'[w], technician'[w])
    BY <2>5, <2>7 DEF LeadsTo, StatusChange
  <2> HIDE DEF approval
  <2> QED BY <1>0, <2>4, <2>5, <2>6, <2>7, <2>8, AgreesStep
<1> QED BY <1>1, <1>2

\* No step of an estimate request breaks the agreement.
LEMMA RowEstimateStep ==
  ASSUME RepairInv, RowInv, NEW r \in Requests, EstimateStep(r), Silent,
         UNCHANGED <<year, req>>
  PROVE  RowInv'
<1>1. RowsAgree'
  <2>1. CASE CommitDecision(r)
    BY <2>1, RowDecision DEF RowInv
  <2>2. CASE UNCHANGED rows
    BY <2>2 DEF rows, RowInv, RowsAgree
  <2> QED BY <2>1, <2>2
          DEF EstimateStep, CreateEstimate, CheckEdit, CommitEdit, CheckSend, CommitSend,
              ReadEstimate, RefuseDecision, RepeatDecision, AllowDecision,
              EAudit, ENotify, EAnnounce, ELose
<1>2. OrdersGrow
  <2>1. CASE CommitDecision(r)
    BY <2>1, DecisionOrders DEF RepairInv
  <2>2. CASE UNCHANGED rows
    BY <2>2, SameOrders DEF rows
  <2> QED BY <2>1, <2>2
          DEF EstimateStep, CreateEstimate, CheckEdit, CommitEdit, CheckSend, CommitSend,
              ReadEstimate, RefuseDecision, RepeatDecision, AllowDecision,
              EAudit, ENotify, EAnnounce, ELose
<1>3. OrdersRead'
  BY <1>2, ReadsKept DEF RepairInv, HistoryInv, RowInv
<1> QED BY <1>1, <1>3 DEF RowInv

\* Every step of the composition keeps rows and timelines in agreement.
LEMMA RowStep == RepairInv /\ RowInv /\ [RepairNext]_repairVars => RowInv'
<1> SUFFICES ASSUME RepairInv, RowInv, [RepairNext]_repairVars PROVE RowInv'
  OBVIOUS
<1>0. TypeOK
  BY DEF RepairInv, HistoryInv
<1>1. CASE (NewYear \/ UNCHANGED vars) /\ UNCHANGED estVars
  <2>1. UNCHANGED <<rows, req>>
    BY <1>1 DEF NewYear, vars
  <2> QED BY <2>1 DEF rows, RowInv, RowsAgree, OrdersRead, Exists
<1>2. ASSUME NEW r \in Requests, OrderStep(r) PROVE RowInv'
  BY <1>0, <1>2, RowOrderStep DEF OrderStep
<1>3. ASSUME NEW r \in Requests, EstimateStep(r), Silent, UNCHANGED <<year, req>>
      PROVE  RowInv'
  BY <1>3, RowEstimateStep
<1> QED BY <1>1, <1>2, <1>3 DEF RepairNext, repairVars

\* There is no row and no event initially.
LEMMA RowInit == RepairInit => RowInv
  BY DEF RepairInit, Init, RowInv, RowsAgree, Agrees, LastOf, OrdersRead, Idle

\* The row and the timeline of every order agree for every instance: updateStatus,
\* assignTechnician and handleCustomerApproval write both in one transaction.
THEOREM RowsMatchTimelines == RepairSpec => []RowMatchesTimeline
<1>1. RepairSpec => []RowInv
  BY RowInit, RowStep, RepairInvariant, PTL DEF RepairSpec
<1>2. RowInv => RowMatchesTimeline
  BY RowsNamed DEF RowInv
<1> QED BY <1>1, <1>2, PTL

-----------------------------------------------------------------------------
\* Who hears of a decision hears of an estimate that is decided.
Decisions == {"ESTIMATE_APPROVED", "ESTIMATE_REJECTED"}

\* The estimate has left DRAFT.
Offered(e) == estStatus[e] \in Decided \cup Decidable

\* The estimate is decided, or was sent again and may have been reopened.
Settles(e) == estStatus[e] \in Decided \/ sends[e] > 1

\* A request that found its estimate decided, or tells of a decision.
Settled(q) ==
  \/ q.pc = "reading" /\ q.seen \in Decided
  \/ q.pc \in {"auditing", "notifying", "announcing"} /\ q.action \in Decisions

\* A request that found its estimate sent.
FoundOffered(q) ==
  \/ q.pc = "deciding"
  \/ q.pc = "reading" /\ q.seen \in Decided \cup Decidable

\* What a request knows of its estimate stays true.
Knows(q) ==
  /\ Settled(q) => Settles(q.estimate)
  /\ FoundOffered(q) => Offered(q.estimate)
  /\ q.pc = "sending" => ~Offered(q.estimate) \/ sends[q.estimate] > 1

\* Two requests that send one estimate were counted.
SendsCounted ==
  \A r, s \in Requests :
    /\ r # s
    /\ ereq[r].pc = "sending" /\ ereq[s].pc = "sending"
    /\ ereq[r].estimate = ereq[s].estimate
    => sends[ereq[r].estimate] > 1

DecisionInv ==
  /\ \A e \in Estimates : Offered(e) => sends[e] > 0
  /\ DecisionEffectsDecided
  /\ \A r \in Requests : Knows(ereq[r])
  /\ SendsCounted

-----------------------------------------------------------------------------
\* A request that knows something of an estimate names one.
LEMMA KnownEstimates ==
  ASSUME RepairTypeOK, NEW r \in Requests,
         Settled(ereq[r]) \/ FoundOffered(ereq[r]) \/ ereq[r].pc = "sending"
  PROVE  ereq[r].estimate \in Estimates
<1>1. PICK q \in EstimateRequest : q = ereq[r]
  BY DEF RepairTypeOK
<1>2. q.pc \in {"sending", "reading", "deciding", "auditing", "notifying", "announcing"}
  BY <1>1 DEF Settled, FoundOffered
<1> QED BY <1>1, <1>2, EstimateRequestFields

\* What the untouched slots know survives a step that takes no offer back,
\* reopens no decision that was sent once, and offers no estimate that others
\* are about to send.
LEMMA OthersKnow ==
  ASSUME RepairTypeOK, DecisionInv, NEW r \in Requests,
         \A s \in Requests \ {r} : ereq'[s] = ereq[s],
         \A e \in Estimates :
           /\ Offered(e) => Offered(e)'
           /\ Settles(e) => Settles(e)'
           /\ sends[e] > 1 => sends'[e] > 1,
         \A s \in Requests \ {r} : ereq[s].pc = "sending" =>
           LET e == ereq[s].estimate
           IN  ~Offered(e) => (~Offered(e) \/ sends[e] > 1)'
  PROVE  \A s \in Requests \ {r} : Knows(ereq[s])'
<1> SUFFICES ASSUME NEW s \in Requests, s # r PROVE Knows(ereq[s])'
  OBVIOUS
<1>1. Knows(ereq[s]) /\ ereq'[s] = ereq[s]
  BY DEF DecisionInv
<1>2. CASE Settled(ereq[s]) \/ FoundOffered(ereq[s]) \/ ereq[s].pc = "sending"
  <2>1. PICK e \in Estimates : e = ereq[s].estimate
    BY <1>2, KnownEstimates
  <2> QED BY <1>1, <2>1 DEF Knows, Settled, FoundOffered, Offered, Settles
<1>3. CASE ~(Settled(ereq[s]) \/ FoundOffered(ereq[s]) \/ ereq[s].pc = "sending")
  BY <1>1, <1>3 DEF Knows, Settled, FoundOffered
<1> QED BY <1>2, <1>3

\* A step of one slot that leaves the columns alone preserves the invariant if
\* the slot knows what it knows and tells what it knows, and sends nothing.
LEMMA QuietDecision ==
  ASSUME RepairTypeOK, DecisionInv, NEW r \in Requests, NEW state, EGoto(r, state),
         UNCHANGED <<estStatus, sends>>, Knows(ereq[r])', DecisionEffectsDecided',
         state.pc # "sending"
  PROVE  DecisionInv'
<1>1. ereq'[r] = state /\ \A s \in Requests \ {r} : ereq'[s] = ereq[s]
  BY DEF EGoto, RepairTypeOK
<1>2. \A s \in Requests \ {r} : Knows(ereq[s])'
  BY <1>1, OthersKnow DEF Offered, Settles
<1>3. SendsCounted'
  BY <1>1 DEF DecisionInv, SendsCounted
<1>4. \A e \in Estimates : Offered(e)' => sends'[e] > 0
  BY DEF DecisionInv, Offered
<1>5. \A s \in Requests : Knows(ereq[s])'
  BY <1>2
<1> QED BY <1>3, <1>4, <1>5 DEF DecisionInv

\* Nothing is told: nothing wrong is told.
LEMMA NothingTold == ASSUME ESilent PROVE DecisionEffectsDecided'
  BY DEF ESilent, DecisionEffectsDecided

\* Reading an estimate, and what follows it without a write.
LEMMA ReadingKnows ==
  ASSUME RepairInv, RepairTypeOK, DecisionInv, NEW r \in Requests,
         \/ \E e \in Estimates, approved \in BOOLEAN : ReadEstimate(r, e, approved)
         \/ \E e \in Estimates : CheckEdit(r, e)
         \/ CommitEdit(r) \/ RefuseDecision(r) \/ RepeatDecision(r) \/ AllowDecision(r)
         \/ ELose(r)
  PROVE  DecisionInv'
<1>0. Knows(ereq[r]) /\ ereq[r] \in EstimateRequest
  BY DEF DecisionInv, RepairTypeOK
<1>a. ASSUME NEW state, EGoto(r, state) PROVE ereq'[r] = state
  BY <1>a DEF EGoto, RepairTypeOK
<1>1. ASSUME NEW e \in Estimates, NEW approved \in BOOLEAN, ReadEstimate(r, e, approved)
      PROVE  DecisionInv'
  <2>1. ereq'[r] = [pc |-> "reading", estimate |-> e, approved |-> approved,
                    seen |-> estStatus[e]]
    BY <1>1, <1>a DEF ReadEstimate
  <2>2. Knows(ereq[r])'
    BY <1>1, <2>1 DEF ReadEstimate, Knows, Settled, FoundOffered, Offered, Settles
  <2> QED BY <1>1, <2>2, NothingTold, QuietDecision DEF ReadEstimate
<1>2. ASSUME NEW e \in Estimates, CheckEdit(r, e) PROVE DecisionInv'
  <2>1. Knows(ereq[r])'
    BY <1>2, <1>a DEF CheckEdit, Knows, Settled, FoundOffered
  <2> QED BY <1>2, <2>1, NothingTold, QuietDecision DEF CheckEdit
<1>3. CASE CommitEdit(r)
  <2>1. ereq'[r].pc = "auditing" /\ ereq'[r].action \notin Decisions
    BY <1>3, <1>a DEF CommitEdit, EDone, Decisions
  <2>2. Knows(ereq[r])'
    BY <2>1 DEF Knows, Settled, FoundOffered
  <2> QED BY <1>3, <2>2, NothingTold, QuietDecision DEF CommitEdit, EDone
<1>4. CASE RefuseDecision(r) \/ ELose(r)
  <2>1. Knows(ereq[r])'
    BY <1>4, <1>a DEF RefuseDecision, ELose, Idle, Knows, Settled, FoundOffered
  <2> QED BY <1>4, <2>1, NothingTold, QuietDecision DEF RefuseDecision, ELose, Idle
<1>5. CASE RepeatDecision(r)
  <2>1. PICK e \in Estimates : e = ereq[r].estimate
    BY <1>0, <1>5, EstimateRequestFields DEF RepeatDecision
  <2>2. Settles(e)
    BY <1>0, <1>5, <2>1 DEF RepeatDecision, Repeats, Knows, Settled
  <2>3. ereq'[r].pc = "auditing" /\ ereq'[r].estimate = e
    BY <1>5, <1>a, <2>1 DEF RepeatDecision, EDone
  <2>4. Knows(ereq[r])'
    BY <1>5, <2>2, <2>3 DEF RepeatDecision, Knows, Settled, FoundOffered, Settles
  <2> QED BY <1>5, <2>4, NothingTold, QuietDecision DEF RepeatDecision, EDone
<1>6. CASE AllowDecision(r)
  <2>1. PICK e \in Estimates : e = ereq[r].estimate
    BY <1>0, <1>6, EstimateRequestFields DEF AllowDecision
  <2>2. Offered(e)
    BY <1>0, <1>6, <2>1 DEF AllowDecision, Knows, FoundOffered
  <2>3. ereq'[r].pc = "deciding" /\ ereq'[r].estimate = e
    BY <1>6, <1>a, <2>1 DEF AllowDecision
  <2>4. Knows(ereq[r])'
    BY <1>6, <2>2, <2>3 DEF AllowDecision, Knows, Settled, FoundOffered, Offered
  <2> QED BY <1>6, <2>4, NothingTold, QuietDecision DEF AllowDecision
<1> QED BY <1>1, <1>2, <1>3, <1>4, <1>5, <1>6

\* What is audited, queued and announced is what the request knew.
LEMMA TellingKnows ==
  ASSUME RepairTypeOK, DecisionInv, NEW r \in Requests,
         EAudit(r) \/ ENotify(r) \/ EAnnounce(r)
  PROVE  DecisionInv'
<1>1. PICK q \in [pc: {"auditing", "notifying", "announcing"}, estimate: Estimates,
                  action: EstimateAction] : q = ereq[r]
  BY EstimateRequestFields DEF RepairTypeOK, EAudit, ENotify, EAnnounce
<1>2. q.action \in Decisions => Settles(q.estimate)
  BY <1>1 DEF DecisionInv, Knows, Settled
<1>3. PICK state : /\ EGoto(r, state)
                   /\ \/ state = Idle
                      \/ /\ state.pc \in {"notifying", "announcing"}
                         /\ state.estimate = q.estimate /\ state.action = q.action
  BY <1>1 DEF EAudit, ENotify, EAnnounce, AfterEstimateAudit
<1>4. ereq'[r] = state
  BY <1>3 DEF EGoto, RepairTypeOK
<1>5. UNCHANGED <<estStatus, sends>>
  BY DEF EAudit, ENotify, EAnnounce
<1>6. Knows(ereq[r])'
  <2>1. CASE state = Idle
    BY <1>4, <2>1 DEF Knows, Settled, FoundOffered, Idle
  <2>2. CASE state # Idle
    BY <1>2, <1>3, <1>4, <1>5, <2>2 DEF Knows, Settled, FoundOffered, Settles
  <2> QED BY <2>1, <2>2
<1>7. \A f \in estOut' : f.estimate = q.estimate /\ f.action = q.action
  BY <1>1 DEF EAudit, ENotify, EAnnounce, EEmit, ESilent
<1>8. DecisionEffectsDecided'
  BY <1>2, <1>5, <1>7 DEF DecisionEffectsDecided, Decisions, Settles
<1> QED BY <1>3, <1>5, <1>6, <1>8, QuietDecision DEF Idle

\* A new estimate is a draft, and nobody knows it.
LEMMA CreationKnows ==
  ASSUME RepairTypeOK, DecisionInv, NEW r \in Requests,
         NEW e \in Estimates, NEW w \in Orders, CreateEstimate(r, e, w)
  PROVE  DecisionInv'
<1>1. /\ ~Offered(e) /\ ~Offered(e)' /\ estStatus[e] \notin Decided
      /\ \A f \in Estimates \ {e} : estStatus'[f] = estStatus[f]
      /\ sends' = sends
  BY DEF CreateEstimate, RepairTypeOK, Offered, Decided, Decidable
<1>2. /\ ereq'[r].pc = "auditing" /\ ereq'[r].action \notin Decisions
      /\ \A s \in Requests \ {r} : ereq'[s] = ereq[s]
  BY DEF CreateEstimate, EDone, EGoto, RepairTypeOK, Decisions
<1>3. \A f \in Estimates : /\ Offered(f) <=> Offered(f)'
                           /\ Settles(f) => Settles(f)'
  BY <1>1 DEF Offered, Settles
<1>4. \A s \in Requests \ {r} : ereq[s].pc = "sending" => ereq[s].estimate \in Estimates
  BY KnownEstimates
<1>5. \A s \in Requests \ {r} : Knows(ereq[s])'
  BY <1>1, <1>2, <1>3, <1>4, OthersKnow DEF Offered
<1>6. Knows(ereq[r])'
  BY <1>2 DEF Knows, Settled, FoundOffered
<1>7. \A s \in Requests : Knows(ereq[s])'
  BY <1>5, <1>6
<1>8. \A f \in Estimates : Offered(f)' => sends'[f] > 0
  BY <1>1, <1>3 DEF DecisionInv
<1>9. SendsCounted'
  BY <1>1, <1>2 DEF DecisionInv, SendsCounted
<1> QED BY <1>7, <1>8, <1>9, NothingTold DEF CreateEstimate, DecisionInv

\* A request to send counts: the first finds a draft, the next know of it.
LEMMA SendingKnows ==
  ASSUME RepairInv, RepairTypeOK, DecisionInv, NEW r \in Requests,
         NEW e \in Estimates, CheckSend(r, e)
  PROVE  DecisionInv'
<1>1. /\ sends[e] \in Nat /\ sends'[e] = sends[e] + 1
      /\ \A f \in Estimates \ {e} : sends'[f] = sends[f]
      /\ estStatus' = estStatus
  BY DEF CheckSend, RepairTypeOK
<1>2. /\ ereq'[r] = [pc |-> "sending", estimate |-> e]
      /\ \A s \in Requests \ {r} : ereq'[s] = ereq[s]
  BY DEF CheckSend, EGoto, RepairTypeOK
<1>3. \A f \in Estimates : sends[f] \in Nat
  BY DEF RepairTypeOK
<1>4. \A f \in Estimates : /\ Offered(f) <=> Offered(f)'
                           /\ Settles(f) => Settles(f)'
                           /\ sends[f] > 1 => sends'[f] > 1
                           /\ sends[f] > 0 => sends'[f] > 0
  BY <1>1, <1>3 DEF Offered, Settles
<1>5. \A s \in Requests \ {r} : ereq[s].pc = "sending" => ereq[s].estimate \in Estimates
  BY KnownEstimates
<1>6. \A s \in Requests \ {r} : Knows(ereq[s])'
  BY <1>1, <1>2, <1>4, <1>5, OthersKnow DEF Offered
<1>7. Knows(ereq[r])'
  <2>1. Offered(e) => sends'[e] > 1
    BY <1>1 DEF DecisionInv
  <2> QED BY <1>1, <1>2, <2>1 DEF Knows, Settled, FoundOffered, Offered
<1>8. \A s \in Requests : Knows(ereq[s])'
  BY <1>6, <1>7
<1>9. SendsCounted'
  <2>1. ASSUME NEW s \in Requests \ {r}, ereq[s].pc = "sending", ereq[s].estimate = e
        PROVE  sends'[e] > 1
    <3>1. Carries(ereq[s])
      BY DEF RepairInv, EstimateInv
    <3>2. sends[e] > 0
      BY <2>1, <3>1 DEF Carries
    <3> QED BY <1>1, <3>2
  <2>2. ASSUME NEW s \in Requests, NEW t \in Requests, s # t,
               ereq'[s].pc = "sending", ereq'[t].pc = "sending",
               ereq'[s].estimate = ereq'[t].estimate
        PROVE  sends'[ereq'[s].estimate] > 1
    <3>1. CASE s = r \/ t = r
      BY <1>2, <2>1, <2>2, <3>1
    <3>2. CASE s # r /\ t # r
      <4>1. ereq[s].estimate \in Estimates
        BY <1>2, <1>5, <2>2, <3>2
      <4> QED BY <1>2, <1>4, <2>2, <3>2, <4>1 DEF DecisionInv, SendsCounted
    <3> QED BY <3>1, <3>2
  <2> QED BY <2>2 DEF SendsCounted
<1>10. \A f \in Estimates : Offered(f)' => sends'[f] > 0
  BY <1>4 DEF DecisionInv
<1> QED BY <1>8, <1>9, <1>10, NothingTold DEF CheckSend, DecisionInv

\* The UPDATE of a send reopens only what was sent again.
LEMMA SentKnows ==
  ASSUME RepairInv, RepairTypeOK, DecisionInv, NEW r \in Requests, CommitSend(r)
  PROVE  DecisionInv'
<1>0. Knows(ereq[r]) /\ Carries(ereq[r]) /\ ereq[r].pc = "sending"
  BY DEF CommitSend, DecisionInv, RepairInv, EstimateInv
<1>1. PICK e \in Estimates : e = ereq[r].estimate
  BY <1>0, KnownEstimates
<1>2. /\ sends[e] > 0 /\ (~Offered(e) \/ sends[e] > 1)
  BY <1>0, <1>1 DEF Carries, Knows
<1>3. /\ estStatus'[e] = "SENT" /\ sends' = sends
      /\ \A f \in Estimates \ {e} : estStatus'[f] = estStatus[f]
  BY <1>1 DEF CommitSend, RepairTypeOK
<1>4. /\ ereq'[r].pc = "auditing" /\ ereq'[r].action \notin Decisions
      /\ \A s \in Requests \ {r} : ereq'[s] = ereq[s]
  BY DEF CommitSend, EDone, EGoto, RepairTypeOK, Decisions
<1>5. \A f \in Estimates : /\ Offered(f) => Offered(f)'
                           /\ Settles(f) => Settles(f)'
                           /\ f # e => (Offered(f)' => Offered(f))
  BY <1>2, <1>3 DEF Offered, Settles, Decidable
<1>6. ASSUME NEW s \in Requests \ {r}, ereq[s].pc = "sending"
      PROVE  /\ ereq[s].estimate \in Estimates
             /\ ereq[s].estimate = e => sends[e] > 1
  <2>1. ereq[s].estimate \in Estimates
    BY <1>6, KnownEstimates
  <2> QED BY <1>0, <1>1, <1>6, <2>1 DEF DecisionInv, SendsCounted
<1>7. \A s \in Requests \ {r} : Knows(ereq[s])'
  BY <1>3, <1>4, <1>5, <1>6, OthersKnow
<1>8. Knows(ereq[r])'
  BY <1>4 DEF Knows, Settled, FoundOffered
<1>9. \A s \in Requests : Knows(ereq[s])'
  BY <1>7, <1>8
<1>10. SendsCounted'
  BY <1>3, <1>4 DEF DecisionInv, SendsCounted
<1>11. \A f \in Estimates : Offered(f)' => sends'[f] > 0
  BY <1>2, <1>3, <1>5 DEF DecisionInv
<1> QED BY <1>9, <1>10, <1>11, NothingTold DEF CommitSend, DecisionInv

\* A decision decides an estimate that nobody is sending for the first time.
LEMMA DecidingKnows ==
  ASSUME RepairInv, RepairTypeOK, DecisionInv, NEW r \in Requests, CommitDecision(r)
  PROVE  DecisionInv'
<1>0. Knows(ereq[r]) /\ ereq[r].pc = "deciding"
  BY DEF CommitDecision, DecisionInv
<1>1. PICK e \in Estimates : e = ereq[r].estimate
  BY <1>0, KnownEstimates DEF FoundOffered
<1>2. Offered(e)
  BY <1>0, <1>1 DEF Knows, FoundOffered
<1>3. /\ estStatus'[e] \in Decided /\ sends' = sends
      /\ \A f \in Estimates \ {e} : estStatus'[f] = estStatus[f]
  BY <1>1 DEF CommitDecision, RepairTypeOK, Decided
<1>4. /\ ereq'[r].pc = "auditing" /\ ereq'[r].estimate = e
      /\ \A s \in Requests \ {r} : ereq'[s] = ereq[s]
  BY <1>1 DEF CommitDecision, EDone, EGoto, RepairTypeOK
<1>5. \A f \in Estimates : /\ Offered(f) <=> Offered(f)'
                           /\ Settles(f) => Settles(f)'
  BY <1>2, <1>3 DEF Offered, Settles
<1>6. \A s \in Requests \ {r} : ereq[s].pc = "sending" => ereq[s].estimate \in Estimates
  BY KnownEstimates
<1>7. \A s \in Requests \ {r} : Knows(ereq[s])'
  BY <1>3, <1>4, <1>5, <1>6, OthersKnow
<1>8. Knows(ereq[r])'
  BY <1>3, <1>4 DEF Knows, Settled, FoundOffered, Settles
<1>9. \A s \in Requests : Knows(ereq[s])'
  BY <1>7, <1>8
<1>10. SendsCounted'
  BY <1>3, <1>4 DEF DecisionInv, SendsCounted
<1>11. \A f \in Estimates : Offered(f)' => sends'[f] > 0
  BY <1>3, <1>5 DEF DecisionInv
<1> QED BY <1>9, <1>10, <1>11, NothingTold DEF CommitDecision, DecisionInv

-----------------------------------------------------------------------------
\* Nothing was decided and nothing sent.
LEMMA DecisionInit == RepairInit => DecisionInv
  BY DEF RepairInit, DecisionInv, DecisionEffectsDecided, SendsCounted, Knows, Settled,
         FoundOffered, Offered, Decided, Decidable, Idle

\* Every step of the composition keeps what the requests know.
LEMMA DecisionStep == RepairInv /\ DecisionInv /\ [RepairNext]_repairVars => DecisionInv'
<1> SUFFICES ASSUME RepairInv, DecisionInv, [RepairNext]_repairVars PROVE DecisionInv'
  OBVIOUS
<1>0. RepairTypeOK
  BY DEF RepairInv, EstimateInv
<1>1. CASE UNCHANGED <<estStatus, sends, ereq>> /\ (UNCHANGED estOut \/ ESilent)
  <2>1. DecisionEffectsDecided'
    BY <1>1, NothingTold DEF DecisionInv, DecisionEffectsDecided
  <2>2. SendsCounted'
    BY <1>1 DEF DecisionInv, SendsCounted
  <2>3. \A r \in Requests : Knows(ereq[r])'
    BY <1>1 DEF DecisionInv, Knows, Settled, FoundOffered, Offered, Settles
  <2>4. \A e \in Estimates : Offered(e)' => sends'[e] > 0
    BY <1>1 DEF DecisionInv, Offered
  <2> QED BY <2>1, <2>2, <2>3, <2>4 DEF DecisionInv
<1>2. ASSUME NEW r \in Requests, EstimateStep(r) PROVE DecisionInv'
  BY <1>0, <1>2, ReadingKnows, TellingKnows, CreationKnows, SendingKnows, SentKnows,
     DecidingKnows DEF EstimateStep
<1> QED BY <1>1, <1>2 DEF RepairNext, repairVars, estVars, OrderStep

\* Under every interleaving of sends, decisions and losses, an approval or a
\* rejection is audited, notified and announced only for an estimate that is
\* decided, or that was sent a second time.
THEOREM DecisionsAreReal == RepairSpec => []DecisionEffectsDecided
<1>1. DecisionInv => DecisionEffectsDecided
  BY DEF DecisionInv
<1> QED BY <1>1, DecisionInit, DecisionStep, RepairInvariant, PTL DEF RepairSpec

-----------------------------------------------------------------------------
\* One request at a time.
OneAtATime == \A r, s \in Requests : r = s

\* What a request read is what the rows still hold.
Present(q, p) ==
  /\ q.pc = "moving" => status[q.order] = q.from
  /\ p.pc = "editing" => estStatus[p.estimate] = "DRAFT"
  /\ p.pc = "reading" => estStatus[p.estimate] = p.seen
  /\ p.pc = "deciding" => /\ estStatus[p.estimate] \in Decidable
                          /\ status[estOrder[p.estimate]] = p.seenOrder

SerialInv == OneAtATime => \A r \in Requests : Present(req[r], ereq[r])

\* A work order request that reads the status of its order reads the present
\* one; no other is about to move the order.
LEMMA OrderPresent ==
  ASSUME RepairInv, NEW r \in Requests, OrderStep(r)
  PROVE  Present(req[r], ereq[r])'
<1>0. /\ TypeOK /\ ereq'[r] = Idle
  BY DEF RepairInv, EstimateInv, RepairTypeOK, OrderStep
<1>1. ASSUME req'[r].pc # "moving" PROVE Present(req[r], ereq[r])'
  BY <1>0, <1>1 DEF Present, Idle
<1>2. ASSUME NEW w \in Orders, NEW to \in WorkOrderStatus, CheckMove(r, w, to)
      PROVE  Present(req[r], ereq[r])'
  <2>1. req'[r] = [pc |-> "moving", order |-> w, from |-> status[w], to |-> to] /\ status' = status
    BY <1>0, <1>2 DEF CheckMove, Goto, TypeOK, rows
  <2> QED BY <1>0, <2>1 DEF Present, Idle
<1>3. ASSUME NEW pc \in {"notifying", "announcing"}, Goto(r, [req[r] EXCEPT !.pc = pc]),
             req[r].pc \in {"auditing", "notifying"}
      PROVE  req'[r].pc # "moving"
  <2>1. req[r] \in [pc: {"auditing", "notifying", "announcing"}, order: Orders, change: Event]
    BY <1>0, <1>3, RequestFields DEF TypeOK
  <2>2. req'[r] = [req[r] EXCEPT !.pc = pc]
    BY <1>0, <1>3 DEF Goto, TypeOK
  <2> QED BY <2>1, <2>2
<1>4. CASE Audit(r) \/ Notify(r)
  BY <1>1, <1>3, <1>4 DEF Audit, Notify, AfterAudit
<1>5. CASE CountOrders(r) \/ StampNumber(r) \/ RefuseDuplicate(r) \/ Announce(r) \/ Lose(r)
  <2>1. req'[r].pc # "moving"
    BY <1>0, <1>5 DEF CountOrders, StampNumber, RefuseDuplicate, Announce, Lose, Goto, TypeOK, Idle
  <2> QED BY <1>1, <2>1
<1>6. CASE \/ \E w \in Orders : InsertOrder(r, w)
           \/ \E w \in Orders, t \in Technicians : CheckAssign(r, w, t)
           \/ CommitMove(r) \/ CommitAssign(r)
  <2>1. req'[r].pc # "moving"
    BY <1>0, <1>6 DEF InsertOrder, CheckAssign, CommitMove, CommitAssign, Committed, Goto, TypeOK
  <2> QED BY <1>1, <2>1
<1> QED BY <1>2, <1>4, <1>5, <1>6 DEF OrderStep, Step

\* A request about an estimate that goes on without having read anything.
LEMMA BlindPresent ==
  ASSUME NEW r \in Requests, req'[r] = Idle,
         ereq'[r].pc \notin {"editing", "reading", "deciding"}
  PROVE  Present(req[r], ereq[r])'
  BY DEF Present, Idle

\* A request that reads an estimate, and then its order, finds what they are:
\* no work order request runs in between.
LEMMA EstimatePresent ==
  ASSUME RepairInv, NEW r \in Requests, Present(req[r], ereq[r]),
         req[r] = Idle, EstimateStep(r), UNCHANGED req
  PROVE  Present(req[r], ereq[r])'
<1>0. RepairTypeOK /\ req'[r] = Idle
  BY DEF RepairInv, EstimateInv
<1>1. ASSUME NEW e \in Estimates, CheckEdit(r, e) PROVE Present(req[r], ereq[r])'
  <2>1. ereq'[r] = [pc |-> "editing", estimate |-> e] /\ estStatus' = estStatus
    BY <1>0, <1>1 DEF CheckEdit, EGoto, RepairTypeOK
  <2> QED BY <1>0, <1>1, <2>1 DEF Present, Idle, CheckEdit, Editable
<1>2. ASSUME NEW e \in Estimates, NEW approved \in BOOLEAN, ReadEstimate(r, e, approved)
      PROVE  Present(req[r], ereq[r])'
  <2>1. /\ ereq'[r] = [pc |-> "reading", estimate |-> e, approved |-> approved,
                       seen |-> estStatus[e]]
        /\ estStatus' = estStatus
    BY <1>0, <1>2 DEF ReadEstimate, EGoto, RepairTypeOK
  <2> QED BY <1>0, <2>1 DEF Present, Idle
<1>3. CASE AllowDecision(r)
  <2>1. /\ ereq'[r] = [pc |-> "deciding", estimate |-> ereq[r].estimate,
                       approved |-> ereq[r].approved,
                       seenOrder |-> status[estOrder[ereq[r].estimate]]]
        /\ UNCHANGED <<status, estStatus, estOrder>>
    BY <1>0, <1>3 DEF AllowDecision, OrderSeen, EGoto, RepairTypeOK, rows
  <2>2. estStatus[ereq[r].estimate] \in Decidable
    BY <1>3 DEF AllowDecision, Present
  <2> QED BY <1>0, <2>1, <2>2 DEF Present, Idle
<1>4. ASSUME NEW pc \in {"notifying", "announcing"}, EGoto(r, [ereq[r] EXCEPT !.pc = pc]),
             ereq[r].pc \in {"auditing", "notifying"}
      PROVE  Present(req[r], ereq[r])'
  <2>1. ereq[r] \in [pc: {"auditing", "notifying", "announcing"}, estimate: Estimates,
                     action: EstimateAction]
    BY <1>0, <1>4, EstimateRequestFields DEF RepairTypeOK
  <2>2. ereq'[r] = [ereq[r] EXCEPT !.pc = pc]
    BY <1>0, <1>4 DEF EGoto, RepairTypeOK
  <2> QED BY <1>0, <2>1, <2>2, BlindPresent
<1>5. CASE EAudit(r) \/ ENotify(r)
  BY <1>4, <1>5 DEF EAudit, ENotify, AfterEstimateAudit
<1>6. CASE RefuseDecision(r) \/ EAnnounce(r) \/ ELose(r)
  <2>1. ereq'[r].pc \notin {"editing", "reading", "deciding"}
    BY <1>0, <1>6 DEF RefuseDecision, EAnnounce, ELose, EGoto, RepairTypeOK, Idle
  <2> QED BY <1>0, <2>1, BlindPresent
<1>7. CASE \/ \E e \in Estimates, w \in Orders : CreateEstimate(r, e, w)
           \/ \E e \in Estimates : CheckSend(r, e)
           \/ CommitEdit(r) \/ CommitSend(r) \/ RepeatDecision(r) \/ CommitDecision(r)
  <2>1. ereq'[r].pc \notin {"editing", "reading", "deciding"}
    BY <1>0, <1>7 DEF CreateEstimate, CheckSend, CommitEdit, CommitSend, RepeatDecision,
                      CommitDecision, EDone, EGoto, RepairTypeOK
  <2> QED BY <1>0, <2>1, BlindPresent
<1> QED BY <1>1, <1>2, <1>3, <1>5, <1>6, <1>7 DEF EstimateStep

\* With one request at a time nobody changes what it has read.
LEMMA SerialStep == RepairInv /\ SerialInv /\ [RepairNext]_repairVars => SerialInv'
<1> SUFFICES ASSUME RepairInv, SerialInv, [RepairNext]_repairVars, OneAtATime
             PROVE  \A r \in Requests : Present(req[r], ereq[r])'
  BY DEF SerialInv
<1>0. \A r \in Requests : Present(req[r], ereq[r])
  BY DEF SerialInv
<1>1. CASE UNCHANGED <<status, estStatus, estOrder, req, ereq>>
  BY <1>0, <1>1 DEF Present
<1>2. ASSUME NEW r \in Requests, OrderStep(r)
      PROVE  \A s \in Requests : Present(req[s], ereq[s])'
  BY <1>2, OrderPresent DEF OneAtATime
<1>3. ASSUME NEW r \in Requests, req[r] = Idle, EstimateStep(r), UNCHANGED req
      PROVE  \A s \in Requests : Present(req[s], ereq[s])'
  BY <1>0, <1>3, EstimatePresent DEF OneAtATime
<1> QED BY <1>1, <1>2, <1>3 DEF RepairNext, repairVars, estVars, NewYear, vars, rows

\* All invariants of one request at a time, together.
LEMMA SerialInvariant == RepairSpec => [](RepairInv /\ RowInv /\ DecisionInv /\ SerialInv)
<1>1. RepairInit => SerialInv
  BY DEF RepairInit, Init, SerialInv, Present, Idle
<1> QED BY <1>1, SerialStep, RowInit, RowStep, DecisionInit, DecisionStep, RepairInvariant,
           PTL DEF RepairSpec

\* Only an edit that was allowed changes what an estimate offers.
LEMMA FrozenStep ==
  ASSUME OneAtATime, RepairInv, SerialInv, [RepairNext]_repairVars
  PROVE  [\A e \in Estimates :
            estStatus[e] \notin {"ABSENT", "DRAFT"} => revision'[e] = revision[e]]_revision
<1>1. ASSUME NEW r \in Requests, CommitEdit(r), NEW e \in Estimates,
             estStatus[e] \notin {"ABSENT", "DRAFT"}
      PROVE  revision'[e] = revision[e]
  <2>1. estStatus[ereq[r].estimate] = "DRAFT"
    BY <1>1 DEF SerialInv, Present, CommitEdit
  <2> QED BY <1>1, <2>1 DEF CommitEdit, RepairInv, EstimateInv, RepairTypeOK
<1>2. \/ UNCHANGED revision
      \/ \E r \in Requests : CommitEdit(r)
  BY DEF RepairNext, repairVars, estVars, OrderStep, EstimateStep, CreateEstimate, CheckEdit,
         CheckSend, CommitSend, ReadEstimate, RefuseDecision, RepeatDecision, AllowDecision,
         CommitDecision, EAudit, ENotify, EAnnounce, ELose
<1> QED BY <1>1, <1>2

\* The steps that write the status of an estimate.
LEMMA EstimateWrites ==
  ASSUME [RepairNext]_repairVars
  PROVE  \/ UNCHANGED estStatus
         \/ \E r \in Requests :
              \/ \E e \in Estimates, w \in Orders : CreateEstimate(r, e, w)
              \/ CommitSend(r)
              \/ CommitDecision(r)
  BY DEF RepairNext, repairVars, estVars, OrderStep, EstimateStep, CheckEdit, CommitEdit,
         CheckSend, ReadEstimate, RefuseDecision, RepeatDecision, AllowDecision,
         EAudit, ENotify, EAnnounce, ELose

\* Only an estimate that is on offer is decided, and one that was sent once is
\* not sent any more when it is decided.
LEMMA FinalStep ==
  ASSUME OneAtATime, RepairInv, DecisionInv, SerialInv, [RepairNext]_repairVars
  PROVE  [\A e \in Estimates :
            estStatus[e] \in Decided /\ sends[e] = 1 => estStatus'[e] = estStatus[e]]_estStatus
<1>0. RepairTypeOK
  BY DEF RepairInv, EstimateInv
<1> SUFFICES ASSUME NEW e \in Estimates, estStatus[e] \in Decided, sends[e] = 1
             PROVE  estStatus'[e] = estStatus[e]
  OBVIOUS
<1>1. ASSUME NEW r \in Requests, NEW f \in Estimates, NEW w \in Orders, CreateEstimate(r, f, w)
      PROVE  estStatus'[e] = estStatus[e]
  BY <1>0, <1>1 DEF CreateEstimate, Decided, RepairTypeOK
<1>2. ASSUME NEW r \in Requests, CommitSend(r)
      PROVE  estStatus'[e] = estStatus[e]
  <2>1. Knows(ereq[r]) /\ ereq[r].pc = "sending"
    BY <1>2 DEF DecisionInv, CommitSend
  <2>2. ereq[r].estimate # e
    BY <2>1 DEF Knows, Offered
  <2> QED BY <1>0, <1>2, <2>2 DEF CommitSend, RepairTypeOK
<1>3. ASSUME NEW r \in Requests, CommitDecision(r)
      PROVE  estStatus'[e] = estStatus[e]
  <2>1. estStatus[ereq[r].estimate] \in Decidable
    BY <1>3 DEF SerialInv, Present, CommitDecision
  <2>2. ereq[r].estimate # e
    BY <2>1 DEF Decided, Decidable
  <2> QED BY <1>0, <1>3, <2>2 DEF CommitDecision, RepairTypeOK
<1> QED BY <1>1, <1>2, <1>3, EstimateWrites

\* The order an approval finds waiting leaves with it.
LEMMA ApprovalStep ==
  ASSUME OneAtATime, RepairInv, SerialInv, [RepairNext]_repairVars
  PROVE  [\A e \in Estimates :
            /\ estStatus[e] # "APPROVED"
            /\ estStatus'[e] = "APPROVED"
            /\ status[estOrder[e]] = "WAITING_FOR_APPROVAL"
            => status'[estOrder[e]] = "APPROVED"]_<<estStatus, status>>
<1>0. RepairTypeOK
  BY DEF RepairInv, EstimateInv
<1> SUFFICES ASSUME NEW e \in Estimates, estStatus[e] # "APPROVED", estStatus'[e] = "APPROVED",
                    status[estOrder[e]] = "WAITING_FOR_APPROVAL"
             PROVE  status'[estOrder[e]] = "APPROVED"
  OBVIOUS
<1>1. ASSUME NEW r \in Requests, NEW f \in Estimates, NEW w \in Orders, CreateEstimate(r, f, w)
      PROVE  FALSE
  BY <1>0, <1>1 DEF CreateEstimate, RepairTypeOK
<1>2. ASSUME NEW r \in Requests, CommitSend(r)
      PROVE  FALSE
  BY <1>0, <1>2 DEF CommitSend, RepairTypeOK
<1>3. ASSUME NEW r \in Requests, CommitDecision(r)
      PROVE  status'[estOrder[e]] = "APPROVED"
  <2>1. e = ereq[r].estimate /\ ereq[r].approved
    BY <1>0, <1>3 DEF CommitDecision, RepairTypeOK
  <2>2. ereq[r].seenOrder = "WAITING_FOR_APPROVAL"
    BY <1>3, <2>1 DEF SerialInv, Present, CommitDecision
  <2>3. estStatus[e] # "ABSENT" /\ estOrder[e] \in Orders
    BY <1>0, <1>3, <2>1 DEF SerialInv, Present, CommitDecision, Decidable, RepairTypeOK
  <2> QED BY <1>0, <1>3, <2>1, <2>2, <2>3
          DEF CommitDecision, MovesOrder, ApproveOrder, RepairTypeOK, TypeOK
<1> QED BY <1>1, <1>2, <1>3, EstimateWrites

-----------------------------------------------------------------------------
\* With one request at a time a change of status starts from the present one,
\* whichever service makes it.
LEMMA LifecycleStep ==
  ASSUME OneAtATime, RepairInv, RowInv, SerialInv, [RepairNext]_repairVars
  PROVE  [Lifecycle!Next]_Lifecycle!vars
<1>0. RepairTypeOK /\ TypeOK
  BY DEF RepairInv, EstimateInv, RepairTypeOK
<1>a. /\ Lifecycle!CreatedEvent = CreatedEvent
      /\ Lifecycle!WorkOrderStatus = WorkOrderStatus
      /\ Lifecycle!ValidTransitions = ValidTransitions
      /\ \A from, to : Lifecycle!StatusChange(from, to) = StatusChange(from, to)
      /\ \A t : Lifecycle!Assignment(t) = Assignment(t)
  BY DEF CreatedEvent, WorkOrderStatus, ValidTransitions, StatusChange, Assignment,
         Lifecycle!CreatedEvent, Lifecycle!WorkOrderStatus, Lifecycle!ValidTransitions,
         Lifecycle!StatusChange, Lifecycle!Assignment
<1> USE DEF Lifecycle!Next, Lifecycle!vars
<1>1. ASSUME NEW r \in Requests, NEW w \in Orders, InsertOrder(r, w)
      PROVE  Lifecycle!Next
  BY <1>a, <1>1 DEF InsertOrder, Exists, Record, Lifecycle!Create, Lifecycle!Record
<1>2. ASSUME NEW r \in Requests, CommitMove(r)
      PROVE  Lifecycle!Next
  <2>1. PICK w \in Orders, to \in WorkOrderStatus : w = req[r].order /\ to = req[r].to
    BY <1>0, <1>2, RequestFields DEF CommitMove, TypeOK
  <2>2. status[w] = req[r].from
    BY <1>2, <2>1 DEF SerialInv, Present, CommitMove
  <2>3. Grounded(timeline[w], StatusChange(status[w], to))
    BY <1>2, <2>1, <2>2 DEF RepairInv, HistoryInv, RequestsGrounded, CommitMove
  <2>4. <<status[w], to>> \in ValidTransitions
    BY <2>3 DEF Grounded, StatusChange
  <2>5. Lifecycle!Move(w, to)
    BY <1>a, <1>2, <2>1, <2>2, <2>4
       DEF CommitMove, MoveFromRead, MovedStatus, Record, Lifecycle!Move, Lifecycle!Record
  <2> QED BY <1>a, <2>5
<1>3. ASSUME NEW r \in Requests, CommitAssign(r)
      PROVE  Lifecycle!Next
  <2>1. PICK w \in Orders, t \in Technicians : w = req[r].order /\ t = req[r].technician
    BY <1>0, <1>3, RequestFields DEF CommitAssign, TypeOK
  <2>2. Exists(w)
    BY <1>3, <2>1 DEF RowInv, OrdersRead, CommitAssign
  <2>3. Lifecycle!Assign(w, t)
    BY <1>a, <1>3, <2>1, <2>2 DEF CommitAssign, Exists, Record, Lifecycle!Assign, Lifecycle!Record
  <2> QED BY <2>3
<1>4. ASSUME NEW r \in Requests, CommitDecision(r)
      PROVE  [Lifecycle!Next]_Lifecycle!vars
  <2>1. CASE ~MovesOrder(ereq[r])
    BY <1>4, <2>1 DEF CommitDecision, rows
  <2>2. CASE MovesOrder(ereq[r])
    <3>1. PICK e \in Estimates : e = ereq[r].estimate
      BY <1>0, <1>4, EstimateRequestFields DEF CommitDecision, RepairTypeOK
    <3>2. PICK w \in Orders : w = estOrder[e]
      BY <1>0, <1>4, <3>1 DEF SerialInv, Present, CommitDecision, Decidable, RepairTypeOK
    <3>3. status[w] = "WAITING_FOR_APPROVAL"
      BY <1>4, <2>2, <3>1, <3>2 DEF SerialInv, Present, CommitDecision, MovesOrder
    <3>4. Lifecycle!Move(w, "APPROVED")
      BY <1>a, <1>4, <2>2, <3>1, <3>2, <3>3
         DEF CommitDecision, ApproveOrder, Record, ValidTransitions, Lifecycle!Move,
             Lifecycle!Record
    <3> QED BY <1>a, <3>4 DEF WorkOrderStatus
  <2> QED BY <2>1, <2>2
<1>5. \/ UNCHANGED <<status, technician, timeline>>
      \/ \E r \in Requests :
           \/ \E w \in Orders : InsertOrder(r, w)
           \/ CommitMove(r) \/ CommitAssign(r) \/ CommitDecision(r)
  <2>1. ASSUME NEW r \in Requests, EstimateStep(r)
        PROVE  UNCHANGED rows \/ CommitDecision(r)
    BY <2>1 DEF EstimateStep, CreateEstimate, CheckEdit, CommitEdit, CheckSend, CommitSend,
            ReadEstimate, RefuseDecision, RepeatDecision, AllowDecision, EAudit, ENotify,
            EAnnounce, ELose
  <2>2. ASSUME NEW r \in Requests, Step(r)
        PROVE  \/ UNCHANGED rows
               \/ \E w \in Orders : InsertOrder(r, w)
               \/ CommitMove(r) \/ CommitAssign(r)
    BY <2>2 DEF Step, CountOrders, StampNumber, RefuseDuplicate, CheckMove, CheckAssign, Audit,
            Notify, Announce, Lose
  <2> QED BY <2>1, <2>2 DEF RepairNext, repairVars, vars, rows, NewYear, OrderStep
<1> QED BY <1>1, <1>2, <1>3, <1>4, <1>5

\* With one request at a time: the two services together implement the atomic
\* life cycle of a work order, for any number of orders and estimates.
THEOREM OrdersFollowLifecycle == OneAtATime => (RepairSpec => ImplementsLifecycle)
<1> SUFFICES ASSUME OneAtATime PROVE RepairSpec => ImplementsLifecycle
  OBVIOUS
<1>1. RepairInit => Lifecycle!Init
  BY DEF RepairInit, Init, Lifecycle!Init
<1>2. RepairInv /\ RowInv /\ SerialInv /\ [RepairNext]_repairVars
        => [Lifecycle!Next]_Lifecycle!vars
  BY LifecycleStep
<1>3. RepairSpec => Lifecycle!Init /\ [][Lifecycle!Next]_Lifecycle!vars
  BY <1>1, <1>2, SerialInvariant, PTL DEF RepairSpec
<1> QED BY <1>3 DEF ImplementsLifecycle, Lifecycle!Spec

\* With one request at a time: the decision about an estimate that was sent once
\* is never taken back.
THEOREM DecisionsAreFinal == OneAtATime => (RepairSpec => DecisionFinal)
<1> SUFFICES ASSUME OneAtATime PROVE RepairSpec => DecisionFinal
  OBVIOUS
<1>1. RepairInv /\ DecisionInv /\ SerialInv /\ [RepairNext]_repairVars
        => [\A e \in Estimates :
              estStatus[e] \in Decided /\ sends[e] = 1 => estStatus'[e] = estStatus[e]]_estStatus
  BY FinalStep
<1> QED BY <1>1, SerialInvariant, PTL DEF RepairSpec, DecisionFinal

\* With one request at a time: an approval moves the order that waits for it.
THEOREM ApprovalsMoveOrders == OneAtATime => (RepairSpec => ApprovalMovesOrder)
<1> SUFFICES ASSUME OneAtATime PROVE RepairSpec => ApprovalMovesOrder
  OBVIOUS
<1>1. RepairInv /\ SerialInv /\ [RepairNext]_repairVars
        => [\A e \in Estimates :
              /\ estStatus[e] # "APPROVED"
              /\ estStatus'[e] = "APPROVED"
              /\ status[estOrder[e]] = "WAITING_FOR_APPROVAL"
              => status'[estOrder[e]] = "APPROVED"]_<<estStatus, status>>
  BY ApprovalStep
<1> QED BY <1>1, SerialInvariant, PTL DEF RepairSpec, ApprovalMovesOrder

\* With one request at a time: what was sent to the customer is not edited.
THEOREM SentOffersStay == OneAtATime => (RepairSpec => SentContentFrozen)
<1> SUFFICES ASSUME OneAtATime PROVE RepairSpec => SentContentFrozen
  OBVIOUS
<1>1. RepairInv /\ SerialInv /\ [RepairNext]_repairVars
        => [\A e \in Estimates :
              estStatus[e] \notin {"ABSENT", "DRAFT"} => revision'[e] = revision[e]]_revision
  BY FrozenStep
<1> QED BY <1>1, SerialInvariant, PTL DEF RepairSpec, SentContentFrozen
=============================================================================
