----------------------------- MODULE WorkOrders -----------------------------
(***************************************************************************)
(* WorkOrdersService: creating, numbering, moving and assigning the work   *)
(* orders of one tenant.  Every HTTP request is a small process; `req' is  *)
(* its program counter with the locals it carries across an await.  The    *)
(* requests of all API replicas share one PostgreSQL database at READ      *)
(* COMMITTED: a read sees what is committed, and an interactive            *)
(* transaction, whose statements are blind writes under the row lock of    *)
(* the work order, takes effect in one step when it commits.               *)
(* 404 and 400 answers change nothing and are stutters.                    *)
(***************************************************************************)
EXTENDS Repairs, FiniteSets

CONSTANTS Orders,       \* ids a created work order may get (fresh uuids)
          Requests,     \* slots for concurrently running HTTP requests
          Technicians,  \* the users of the tenant
          MaxEvents,    \* bound: no new request once the timelines have so many events
          MaxYear       \* bound: last calendar year, counted from 1

ASSUME OrdersAssumption == IsFiniteSet(Orders)
ASSUME BoundsAssumption == MaxEvents \in Nat /\ MaxYear \in Nat \ {0}

VARIABLES status,      \* work_orders.status, or "ABSENT" before the INSERT
          number,      \* work_orders.workOrderNumber as <<year, seq>>
          technician,  \* work_orders.technicianId, or "UNASSIGNED"
          timeline,    \* the rows of work_order_timeline_events, per order
          out,         \* audit record, job or event of the latest step
          year,        \* the calendar year of the API hosts
          req          \* request slot -> program counter and locals

rows == <<status, number, technician, timeline>>
vars == <<rows, out, year, req>>

-----------------------------------------------------------------------------
Event == {CreatedEvent}
         \cup {StatusChange(p[1], p[2]) : p \in WorkOrderStatus \X WorkOrderStatus}
         \cup {Assignment(t) : t \in Technicians}

Number == (1..MaxYear) \X (Nat \ {0})

Effect == [kind: {"audit", "job", "event"}, order: Orders, change: Event]

Idle == [pc |-> "idle"]

Request ==
  {Idle}
  \cup [pc: {"numbering"}, seq: Nat \ {0}]
  \cup [pc: {"creating"}, number: Number]
  \cup [pc: {"moving"}, order: Orders, from: WorkOrderStatus, to: WorkOrderStatus]
  \cup [pc: {"assigning"}, order: Orders, technician: Technicians]
  \cup [pc: {"auditing", "notifying", "announcing"}, order: Orders, change: Event]

\* work_orders has a row for the order.
Exists(w) == status[w] # "ABSENT"

\* The orders workOrder.count() counts.
Created == {w \in Orders : Exists(w)}

\* How many events the timelines have.
Recorded == Cardinality(UNION {{w} \X DOMAIN timeline[w] : w \in Orders})

Goto(r, state) == req' = [req EXCEPT ![r] = state]

\* The request left its transaction; the steps after the commit follow.
Committed(r, w, change) ==
  Goto(r, [pc |-> "auditing", order |-> w, change |-> change])

Record(w, change) == timeline' = [timeline EXCEPT ![w] = Append(@, change)]

\* Mutant: the status is looked up again when it is told.
ToldPresent(r) == IF req[r].change.type = "STATUS_CHANGE"
                  THEN StatusChange(req[r].change.from, status[req[r].order])
                  ELSE req[r].change

\* The change the request committed, as it was committed.
Told(r) == req[r].change

Emit(kind, r) == out' = {[kind |-> kind, order |-> req[r].order, change |-> Told(r)]}

Silent == out' = {}

\* logEvent and enqueue catch their errors: the record may be missing, and
\* the request goes on all the same.
MayEmit(kind, r) == Emit(kind, r) \/ Silent

-----------------------------------------------------------------------------
Init ==
  /\ status = [w \in Orders |-> "ABSENT"]
  /\ number = [w \in Orders |-> <<0, 0>>]
  /\ technician = [w \in Orders |-> "UNASSIGNED"]
  /\ timeline = [w \in Orders |-> <<>>]
  /\ out = {}
  /\ year = 1
  /\ req = [r \in Requests |-> Idle]

\* Mutant: the number of the last order instead of the next one.
NextSeqOfLast == Cardinality(Created)

\* Mutant: the sequence starts again with every year.
NextSeqOfYear == Cardinality({w \in Created : number[w][1] = year}) + 1

\* generateWorkOrderNumber: one more than the rows there are.
NextSeq == Cardinality(Created) + 1

NumberFree(n) == \A v \in Created : number[v] # n

\* create: the rows are counted outside any transaction.
CountOrders(r) ==
  /\ req[r] = Idle
  /\ Created # Orders
  /\ Goto(r, [pc |-> "numbering", seq |-> NextSeq])
  /\ UNCHANGED <<rows, year>>
  /\ Silent

\* The count came back; the number takes the year of that moment.
StampNumber(r) ==
  /\ req[r].pc = "numbering"
  /\ Goto(r, [pc |-> "creating", number |-> <<year, req[r].seq>>])
  /\ UNCHANGED <<rows, year>>
  /\ Silent

\* The transaction inserts the row and its CREATED timeline event.
InsertOrder(r, w) ==
  /\ req[r].pc = "creating"
  /\ ~Exists(w)
  /\ NumberFree(req[r].number)
  /\ status' = [status EXCEPT ![w] = "RECEIVED"]
  /\ number' = [number EXCEPT ![w] = req[r].number]
  /\ Record(w, CreatedEvent)
  /\ Committed(r, w, CreatedEvent)
  /\ UNCHANGED <<technician, year>>
  /\ Silent

\* @@unique([tenantId, workOrderNumber]) refuses the row; nothing retries.
RefuseDuplicate(r) ==
  /\ req[r].pc = "creating"
  /\ ~NumberFree(req[r].number)
  /\ Goto(r, Idle)
  /\ UNCHANGED <<rows, year>>
  /\ Silent

\* Mutant: any status may follow one that is not final.
MayMoveUnlessFinal(w, to) == status[w] \notin {"ABSENT", "COMPLETED", "CANCELLED"}

MayMove(w, to) == <<status[w], to>> \in ValidTransitions

\* updateStatus: the read and the transition check before the transaction.
CheckMove(r, w, to) ==
  /\ req[r] = Idle
  /\ Exists(w)
  /\ Recorded < MaxEvents
  /\ MayMove(w, to)
  /\ Goto(r, [pc |-> "moving", order |-> w, from |-> status[w], to |-> to])
  /\ UNCHANGED <<rows, year>>
  /\ Silent

\* Mutant: the event starts from the status the row has now.
MoveFromPresent(r) == StatusChange(status[req[r].order], req[r].to)

\* The event starts from the status that was read.
MoveFromRead(r) == StatusChange(req[r].from, req[r].to)

\* The row takes the requested status whatever it is by now.
MovedStatus(r) == req[r].to

CommitMove(r) ==
  LET w == req[r].order
      change == MoveFromRead(r)
  IN /\ req[r].pc = "moving"
     /\ status' = [status EXCEPT ![w] = MovedStatus(r)]
     /\ Record(w, change)
     /\ Committed(r, w, change)
     /\ UNCHANGED <<number, technician, year>>
     /\ Silent

\* assignTechnician: the reads of the order and of a user of the tenant, in one
\* step: neither is ever deleted, and nothing else of them is kept.
CheckAssign(r, w, t) ==
  /\ req[r] = Idle
  /\ Exists(w)
  /\ Recorded < MaxEvents
  /\ Goto(r, [pc |-> "assigning", order |-> w, technician |-> t])
  /\ UNCHANGED <<rows, year>>
  /\ Silent

CommitAssign(r) ==
  LET w == req[r].order
      change == Assignment(req[r].technician)
  IN /\ req[r].pc = "assigning"
     /\ technician' = [technician EXCEPT ![w] = req[r].technician]
     /\ Record(w, change)
     /\ Committed(r, w, change)
     /\ UNCHANGED <<status, number, year>>
     /\ Silent

\* What follows logEvent: only a status change queues a notification job.
AfterAudit(change) ==
  IF change.type = "STATUS_CHANGE" THEN "notifying" ELSE "announcing"

Audit(r) ==
  /\ req[r].pc = "auditing"
  /\ MayEmit("audit", r)
  /\ Goto(r, [req[r] EXCEPT !.pc = AfterAudit(req[r].change)])
  /\ UNCHANGED <<rows, year>>

Notify(r) ==
  /\ req[r].pc = "notifying"
  /\ MayEmit("job", r)
  /\ Goto(r, [req[r] EXCEPT !.pc = "announcing"])
  /\ UNCHANGED <<rows, year>>

\* eventEmitter.emit('workOrder.updated') and the answer to the client.
Announce(r) ==
  /\ req[r].pc = "announcing"
  /\ Emit("event", r)
  /\ Goto(r, Idle)
  /\ UNCHANGED <<rows, year>>

\* The process serving the request dies, or its transaction times out and
\* is rolled back: nothing more of the request happens.
Lose(r) ==
  /\ req[r].pc # "idle"
  /\ Goto(r, Idle)
  /\ UNCHANGED <<rows, year>>
  /\ Silent

\* New Year's Eve.
NewYear ==
  /\ year < MaxYear
  /\ year' = year + 1
  /\ UNCHANGED <<rows, req>>
  /\ Silent

Step(r) ==
  \/ CountOrders(r) \/ StampNumber(r) \/ RefuseDuplicate(r)
  \/ \E w \in Orders : InsertOrder(r, w)
  \/ \E w \in Orders, to \in WorkOrderStatus : CheckMove(r, w, to)
  \/ CommitMove(r)
  \/ \E w \in Orders, t \in Technicians : CheckAssign(r, w, t)
  \/ CommitAssign(r)
  \/ Audit(r) \/ Notify(r) \/ Announce(r) \/ Lose(r)

Next == NewYear \/ \E r \in Requests : Step(r)

Spec == Init /\ [][Next]_vars

-----------------------------------------------------------------------------
\* Every variable has the shape of the columns and locals it stands for.
TypeOK ==
  /\ status \in [Orders -> WorkOrderStatus \cup {"ABSENT"}]
  /\ number \in [Orders -> Number \cup {<<0, 0>>}]
  /\ technician \in [Orders -> Technicians \cup {"UNASSIGNED"}]
  /\ timeline \in [Orders -> Seq(Event)]
  /\ out \subseteq Effect
  /\ year \in 1..MaxYear
  /\ req \in [Requests -> Request]

\* However requests interleave, every status change a timeline records is a
\* legal one, and starts from a status the order had really been in before:
\* updateStatus validates against a read that may be stale by the time the
\* transaction commits, but never against a status that did not exist.
HistoryLegal == \A w \in Orders : LegalLog(timeline[w])

\* No order is repaired, checked, handed over or completed that was never
\* approved, whatever stale writes its history holds.
RepairWasApproved == \A w \in Orders : ApprovedLog(timeline[w])

\* No customer is told to pick up an order that never passed through the
\* quality check, whatever stale writes its history holds.
HandoverWasChecked == \A w \in Orders : CheckedLog(timeline[w])

\* The row and its timeline, written in one transaction by three different
\* operations, agree: the row exists from its CREATED event on, its status is
\* the target of the last change, its technician the last one assigned.
RowMatchesTimeline ==
  \A w \in Orders :
    LET log == timeline[w]
        Last(i, type) == /\ log[i].type = type
                         /\ \A j \in (i + 1)..Len(log) : log[j].type # type
    IN /\ Exists(w) <=> log # <<>>
       /\ Exists(w) => Last(1, "CREATED")
       /\ \A i \in 1..Len(log) :
            /\ Last(i, "STATUS_CHANGE") => status[w] = log[i].to
            /\ Last(i, "TECHNICIAN_ASSIGNED") => technician[w] = log[i].technician
       /\ status[w] \notin {"ABSENT", "RECEIVED"} =>
            \E i \in 1..Len(log) : log[i].type = "STATUS_CHANGE"

\* Whatever numbers racing creates have taken or left out, a create that counts
\* now and meets no other one finds its number free, in whatever year it is
\* stamped: the sequence counts the orders of all years, count() is read
\* outside the transaction, and the year is that of a later moment.
NumbersInStep == \A y \in year..MaxYear : NumberFree(<<y, NextSeq>>)

\* Every audit record, every notification job and every realtime event about
\* an order stands for a change that was committed; a rolled back transaction
\* leaves none, although all of them are written after the transaction.
EffectsTrue ==
  \A e \in out : \E i \in 1..Len(timeline[e.order]) :
    timeline[e.order][i] = e.change

\* With one request at a time the service is the atomic life cycle.
Lifecycle == INSTANCE WorkOrderLifecycle
  WITH Orders <- Orders, Technicians <- Technicians,
       status <- status, technician <- technician, timeline <- timeline
ImplementsLifecycle == Lifecycle!Spec
=============================================================================
