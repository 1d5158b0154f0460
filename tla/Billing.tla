------------------------------ MODULE Billing ------------------------------
(***************************************************************************)
(* InvoicesService and PaymentsService: invoices are issued and voided,    *)
(* and a payment provider reports payments by webhooks, which it repeats   *)
(* until one is answered.  processWebhookEvent reads the invoice, looks    *)
(* for the payment, and then records it in a transaction at READ           *)
(* COMMITTED: the sum it takes sees what others committed and its own row. *)
(* The one provider there is reports successes only, so every payment row  *)
(* has status SUCCESS, and a row that is found is a duplicate: the branch  *)
(* that updates a payment of another status is dead code and left out.     *)
(* So is invoiceNumber: an INSERT the unique index refuses is a stutter.   *)
(* Nothing bounds what an invoice adds up to or what an event says it paid *)
(* from below: totals and amounts are integers, of any sign.               *)
(***************************************************************************)
EXTENDS Integers, Sequences, FiniteSets

CONSTANTS Invoices,      \* ids a created invoice may get (fresh uuids)
          Requests,      \* slots for concurrently running HTTP requests
          Totals,        \* what the items of an invoice may add up to
          Transactions,  \* the provider's transactions
          Pays,          \* transaction -> metadata.invoiceId of its events
          Amount,        \* transaction -> amount of its events, 0 if missing or 0
          MaxDeliveries  \* bound: deliveries of the event of one transaction

ASSUME TotalsAssumption == Totals \subseteq Int
ASSUME TransactionsAssumption == /\ Pays \in [Transactions -> Invoices]
                                 /\ Amount \in [Transactions -> Int]
                                 /\ "NONE" \notin Transactions
ASSUME RequestsAssumption == IsFiniteSet(Requests)
ASSUME DeliveriesAssumption == MaxDeliveries \in Nat

VARIABLES status,     \* invoices.status, or "ABSENT" before the INSERT
          total,      \* invoices.total
          payments,   \* the rows of payments, in the order of their commits
          delivered,  \* how often the event of a transaction was delivered
          out,        \* audit record, job or event of the latest step
          req         \* request slot -> program counter and locals

rows == <<status, total, payments>>
vars == <<rows, delivered, out, req>>

-----------------------------------------------------------------------------
\* The statuses of enum InvoiceStatus that the code ever stores.
InvoiceStatus == {"ISSUED", "PARTIALLY_PAID", "PAID", "VOID"}

Payment == [transaction: Transactions, amount: Int]

Action == {"INVOICE_CREATED", "INVOICE_VOIDED", "PAYMENT_SUCCESS"}

Effect == [kind: {"audit", "job", "event"}, action: Action, invoice: Invoices,
           transaction: Transactions \cup {"NONE"}]

Idle == [pc |-> "idle"]

Request ==
  {Idle}
  \cup [pc: {"checking", "paying"}, transaction: Transactions, seen: InvoiceStatus]
  \cup [pc: {"settling"}, transaction: Transactions, seen: InvoiceStatus, paid: Int]
  \cup [pc: {"auditing", "notifying", "announcing"}, action: Action,
        invoice: Invoices, transaction: Transactions \cup {"NONE"}]

Exists(i) == status[i] # "ABSENT"

Goto(r, state) == req' = [req EXCEPT ![r] = state]

Committed(r, action, i, x) ==
  Goto(r, [pc |-> "auditing", action |-> action, invoice |-> i, transaction |-> x])

Emit(kind, r) ==
  out' = {[kind |-> kind, action |-> req[r].action, invoice |-> req[r].invoice,
           transaction |-> req[r].transaction]}

Silent == out' = {}

\* The payment rows an invoice has, and what they add up to: the sum of the
\* first k rows for every k, those of other invoices left out.
PaymentsOf(i) == {k \in 1..Len(payments) : Pays[payments[k].transaction] = i}

Share(row, i) == IF Pays[row.transaction] = i THEN row.amount ELSE 0

RunningTotal(log, i) ==
  LET sum[k \in 0..Len(log)] == IF k = 0 THEN 0 ELSE sum[k - 1] + Share(log[k], i)
  IN sum

TotalPaid(i) == RunningTotal(payments, i)[Len(payments)]

-----------------------------------------------------------------------------
Init ==
  /\ status = [i \in Invoices |-> "ABSENT"]
  /\ total = [i \in Invoices |-> 0]
  /\ payments = <<>>
  /\ delivered = [x \in Transactions |-> 0]
  /\ out = {}
  /\ req = [r \in Requests |-> Idle]

\* create: one INSERT, already ISSUED.
CreateInvoice(r, i, sum) ==
  /\ req[r] = Idle
  /\ ~Exists(i)
  /\ status' = [status EXCEPT ![i] = "ISSUED"]
  /\ total' = [total EXCEPT ![i] = sum]
  /\ Committed(r, "INVOICE_CREATED", i, "NONE")
  /\ Silent
  /\ UNCHANGED <<payments, delivered>>

\* voidInvoice: the look-up tells only that the row exists, which it does for
\* good; the UPDATE voids it whatever its status is.
VoidInvoice(r, i) ==
  /\ req[r] = Idle
  /\ Exists(i)
  /\ status' = [status EXCEPT ![i] = "VOID"]
  /\ Committed(r, "INVOICE_VOIDED", i, "NONE")
  /\ Silent
  /\ UNCHANGED <<total, payments, delivered>>

\* The webhook: the invoice is read ...
Deliver(r, x) ==
  /\ req[r] = Idle
  /\ delivered[x] < MaxDeliveries
  /\ Exists(Pays[x])
  /\ delivered' = [delivered EXCEPT ![x] = @ + 1]
  /\ Goto(r, [pc |-> "checking", transaction |-> x, seen |-> status[Pays[x]]])
  /\ Silent
  /\ UNCHANGED rows

\* Mutant: no idempotency check.
KnownToNobody(x) == FALSE

\* findFirst finds a payment of the transaction.
Known(x) == \E k \in 1..Len(payments) : payments[k].transaction = x

\* ... a payment that is found makes the event a duplicate ...
IgnoreDuplicate(r) ==
  /\ req[r].pc = "checking"
  /\ Known(req[r].transaction)
  /\ Goto(r, Idle)
  /\ Silent
  /\ UNCHANGED <<rows, delivered>>

AcceptPayment(r) ==
  /\ req[r].pc = "checking"
  /\ ~Known(req[r].transaction)
  /\ Goto(r, [req[r] EXCEPT !.pc = "paying"])
  /\ Silent
  /\ UNCHANGED <<rows, delivered>>

\* Mutant: a missing amount is recorded as 0.
PaidAmountGiven(x) == Amount[x]

\* event.amount || invoice.total
PaidAmount(x) == IF Amount[x] = 0 THEN total[Pays[x]] ELSE Amount[x]

\* Mutant: the new row is added to a sum that has it already.
SumTwice(x) == TotalPaid(Pays[x]) + 2 * PaidAmount(x)

\* findMany in the transaction returns the committed rows and the new one.
SumPaid(x) == TotalPaid(Pays[x]) + PaidAmount(x)

\* ... otherwise its transaction inserts the row, which nobody else sees yet,
\* and adds up the payments ...
SumPayments(r) ==
  LET q == req[r]
  IN /\ q.pc = "paying"
     /\ Goto(r, [pc |-> "settling", transaction |-> q.transaction,
                 seen |-> q.seen, paid |-> SumPaid(q.transaction)])
     /\ Silent
     /\ UNCHANGED <<rows, delivered>>

\* Mutant: only a payment in full moves the invoice.
NewStatusInFull(q) ==
  IF q.paid >= total[Pays[q.transaction]] THEN "PAID" ELSE q.seen

\* The status the sum stands for, or the one that was read.
NewStatus(q) ==
  IF q.paid >= total[Pays[q.transaction]] THEN "PAID"
  ELSE IF q.paid > 0 THEN "PARTIALLY_PAID" ELSE q.seen

\* ... and writes the status, if it is not the one that was read, and commits.
CommitPayment(r) ==
  LET q == req[r]
      x == q.transaction
  IN /\ q.pc = "settling"
     /\ payments' = Append(payments, [transaction |-> x, amount |-> PaidAmount(x)])
     /\ status' = [status EXCEPT ![Pays[x]] =
                     IF NewStatus(q) # q.seen THEN NewStatus(q) ELSE @]
     /\ Committed(r, "PAYMENT_SUCCESS", Pays[x], x)
     /\ Silent
     /\ UNCHANGED <<total, delivered>>

\* logEvent catches its errors.  Voiding ends here; the others go on.
Audit(r) ==
  /\ req[r].pc = "auditing"
  /\ Emit("audit", r) \/ Silent
  /\ Goto(r, IF req[r].action = "INVOICE_VOIDED" THEN Idle
             ELSE [req[r] EXCEPT !.pc = "notifying"])
  /\ UNCHANGED <<rows, delivered>>

\* enqueue catches its errors.  Only a payment is announced.
Notify(r) ==
  /\ req[r].pc = "notifying"
  /\ Emit("job", r) \/ Silent
  /\ Goto(r, IF req[r].action = "INVOICE_CREATED" THEN Idle
             ELSE [req[r] EXCEPT !.pc = "announcing"])
  /\ UNCHANGED <<rows, delivered>>

\* emit('payment.received') and the answer to the provider.
Announce(r) ==
  /\ req[r].pc = "announcing"
  /\ Emit("event", r)
  /\ Goto(r, Idle)
  /\ UNCHANGED <<rows, delivered>>

\* The serving process dies, or the transaction is rolled back.
Lose(r) ==
  /\ req[r].pc # "idle"
  /\ Goto(r, Idle)
  /\ Silent
  /\ UNCHANGED <<rows, delivered>>

Step(r) ==
  \/ \E i \in Invoices, sum \in Totals : CreateInvoice(r, i, sum)
  \/ \E i \in Invoices : VoidInvoice(r, i)
  \/ \E x \in Transactions : Deliver(r, x)
  \/ IgnoreDuplicate(r) \/ AcceptPayment(r) \/ SumPayments(r) \/ CommitPayment(r)
  \/ Audit(r) \/ Notify(r) \/ Announce(r) \/ Lose(r)

Next == \E r \in Requests : Step(r)

Spec == Init /\ [][Next]_vars

-----------------------------------------------------------------------------
\* Every variable has the shape of the columns and locals it stands for.
TypeOK ==
  /\ status \in [Invoices -> InvoiceStatus \cup {"ABSENT"}]
  /\ total \in [Invoices -> Totals \cup {0}]
  /\ payments \in Seq(Payment)
  /\ delivered \in [Transactions -> 0..MaxDeliveries]
  /\ out \subseteq Effect
  /\ req \in [Requests -> Request]

\* No event took money back from the invoice.
NothingBack(i) == \A k \in PaymentsOf(i) : payments[k].amount >= 0

\* However webhooks and voids interleave, an invoice that says PAID has
\* payments for its total on record, and one that says PARTIALLY_PAID has
\* some, unless an event with a negative amount was accepted for it.
StatusEarned ==
  \A i \in Invoices : NothingBack(i) =>
    /\ status[i] = "PAID" => TotalPaid(i) >= total[i]
    /\ status[i] = "PARTIALLY_PAID" => TotalPaid(i) > 0

\* An invoice with a payment on record no longer says that it is only issued,
\* whatever status the webhook had read: no payment goes unnoticed, unless an
\* event with a negative amount was accepted for the invoice.
PaymentShows ==
  \A i \in Invoices : NothingBack(i) /\ status[i] = "ISSUED" => PaymentsOf(i) = {}

\* A transaction that is delivered again and again has no more rows than there
\* are requests at a time: deliveries served together may each record it, but
\* not one after the other without end.
DuplicatesOverlap ==
  \A x \in Transactions :
    Cardinality({k \in 1..Len(payments) : payments[k].transaction = x})
      <= Cardinality(Requests)

\* A transaction of the provider is recorded once, however often and however
\* close to each other its event is delivered.
RecordedOnce ==
  \A j, k \in 1..Len(payments) :
    payments[j].transaction = payments[k].transaction => j = k

\* The account of an invoice, as the rows tell it.
Account == INSTANCE InvoiceAccount WITH
  paid <- [i \in Invoices |-> TotalPaid(i)],
  recorded <- {payments[k].transaction : k \in 1..Len(payments)}

\* Since a webhook looked, something of what it read was changed by others: the
\* status, that nobody had recorded its transaction, or the sum.
Overtaken(q) ==
  LET x == q.transaction
  IN q.seen # status[Pays[x]] \/ Known(x) \/ q.paid # SumPaid(x)

\* Every change of invoices and payments is a step of the account: each
\* transaction pays once, its amount joins what is on record, and the status is
\* that of the sum; but for the commit of a webhook that others overtook.
KeepsAccount ==
  [][(\E r \in Requests : CommitPayment(r) /\ Overtaken(req[r])) \/ Account!Next]_rows

\* With one request at a time nobody is overtaken: what the account promises.
ImplementsAccount == Account!Spec
=============================================================================
