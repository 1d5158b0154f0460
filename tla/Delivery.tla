------------------------------ MODULE Delivery ------------------------------
(***************************************************************************)
(* What the queue and its workers promise of a notification job: it is     *)
(* accepted once, its channels are served in the order the job lists them, *)
(* each for good, and it is reported completed only when all of them are.  *)
(***************************************************************************)
EXTENDS Naturals, Sequences

CONSTANTS Jobs, Channels
VARIABLES outcome,  \* job -> "NONE", "QUEUED", "COMPLETED" or "FAILED"
          served    \* job -> the positions in Channels[job] that are SENT

vars == <<outcome, served>>

Positions(j) == DOMAIN Channels[j]

Init ==
  /\ outcome = [j \in Jobs |-> "NONE"]
  /\ served = [j \in Jobs |-> {}]

Accept(j) ==
  /\ outcome[j] = "NONE"
  /\ outcome' = [outcome EXCEPT ![j] = "QUEUED"]
  /\ UNCHANGED served

\* Also after a failure: a worker that lost its lock may still be at it.
Serve(j, k) ==
  /\ outcome[j] # "NONE"
  /\ k \in Positions(j) \ served[j]
  /\ 1..(k - 1) \subseteq served[j]
  /\ served' = [served EXCEPT ![j] = @ \cup {k}]
  /\ UNCHANGED outcome

Complete(j) ==
  /\ outcome[j] = "QUEUED"
  /\ served[j] = Positions(j)
  /\ outcome' = [outcome EXCEPT ![j] = "COMPLETED"]
  /\ UNCHANGED served

GiveUp(j) ==
  /\ outcome[j] = "QUEUED"
  /\ outcome' = [outcome EXCEPT ![j] = "FAILED"]
  /\ UNCHANGED served

Next == \E j \in Jobs :
  Accept(j) \/ Complete(j) \/ GiveUp(j) \/ \E k \in Positions(j) : Serve(j, k)

Spec == Init /\ [][Next]_vars
=============================================================================
