--------------------------- MODULE InvoiceAccount ---------------------------
(***************************************************************************)
(* What InvoicesService and PaymentsService promise of an invoice: it is   *)
(* issued once; a transaction of the provider pays it once, whatever its   *)
(* status is, and the status then tells whether everything paid so far     *)
(* covers the total; if nothing, or less, was paid so far it stays what it *)
(* was.  The invoice may be voided at any time.                            *)
(***************************************************************************)
EXTENDS Integers

CONSTANTS Invoices, Totals, Transactions, Pays, Amount
VARIABLES status, total,
          paid,      \* invoice -> what it was paid
          recorded   \* transactions that paid

vars == <<status, total, paid, recorded>>

Init ==
  /\ status = [i \in Invoices |-> "ABSENT"]
  /\ total = [i \in Invoices |-> 0]
  /\ paid = [i \in Invoices |-> 0]
  /\ recorded = {}

Issue(i, sum) ==
  /\ status[i] = "ABSENT"
  /\ status' = [status EXCEPT ![i] = "ISSUED"]
  /\ total' = [total EXCEPT ![i] = sum]
  /\ UNCHANGED <<paid, recorded>>

Void(i) ==
  /\ status[i] # "ABSENT"
  /\ status' = [status EXCEPT ![i] = "VOID"]
  /\ UNCHANGED <<total, paid, recorded>>

\* An event without an amount pays the total.
Due(x) == IF Amount[x] = 0 THEN total[Pays[x]] ELSE Amount[x]

Pay(x) ==
  /\ x \notin recorded
  /\ status[Pays[x]] # "ABSENT"
  /\ recorded' = recorded \cup {x}
  /\ paid' = [paid EXCEPT ![Pays[x]] = @ + Due(x)]
  /\ status' = [status EXCEPT ![Pays[x]] =
       IF paid[Pays[x]] + Due(x) >= total[Pays[x]] THEN "PAID"
       ELSE IF paid[Pays[x]] + Due(x) > 0 THEN "PARTIALLY_PAID" ELSE @]
  /\ UNCHANGED total

Next ==
  \/ \E i \in Invoices : Void(i) \/ \E sum \in Totals : Issue(i, sum)
  \/ \E x \in Transactions : Pay(x)

Spec == Init /\ [][Next]_vars
=============================================================================
