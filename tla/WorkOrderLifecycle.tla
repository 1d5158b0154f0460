-------------------------- MODULE WorkOrderLifecycle --------------------------
(***************************************************************************)
(* What WorkOrdersService promises of each work order: it is created once, *)
(* moves in one step from its present status to a valid successor, takes a *)
(* technician, and its timeline records exactly these steps.               *)
(***************************************************************************)
EXTENDS Repairs

CONSTANTS Orders, Technicians
VARIABLES status, technician, timeline

vars == <<status, technician, timeline>>

Init ==
  /\ status = [w \in Orders |-> "ABSENT"]
  /\ technician = [w \in Orders |-> "UNASSIGNED"]
  /\ timeline = [w \in Orders |-> <<>>]

Record(w, change) == timeline' = [timeline EXCEPT ![w] = Append(@, change)]

Create(w) ==
  /\ status[w] = "ABSENT"
  /\ status' = [status EXCEPT ![w] = "RECEIVED"]
  /\ Record(w, CreatedEvent)
  /\ UNCHANGED technician

Move(w, to) ==
  /\ <<status[w], to>> \in ValidTransitions
  /\ status' = [status EXCEPT ![w] = to]
  /\ Record(w, StatusChange(status[w], to))
  /\ UNCHANGED technician

Assign(w, t) ==
  /\ status[w] # "ABSENT"
  /\ technician' = [technician EXCEPT ![w] = t]
  /\ Record(w, Assignment(t))
  /\ UNCHANGED status

Next == \E w \in Orders :
  \/ Create(w)
  \/ \E to \in WorkOrderStatus : Move(w, to)
  \/ \E t \in Technicians : Assign(w, t)

Spec == Init /\ [][Next]_vars
=============================================================================
