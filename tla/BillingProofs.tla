--------------------------- MODULE BillingProofs ---------------------------
(***************************************************************************)
(* For any number of transactions, deliveries and requests at a time: a    *)
(* payment is recorded as often as there are requests at a time, at most;  *)
(* what an invoice says of its payments is true; and with one request at a *)
(* time invoices and payments are an InvoiceAccount.  The sums need        *)
(* induction over the rows, for which a nonempty set of numbers has a      *)
(* least one.                                                              *)
(***************************************************************************)
EXTENDS Billing, FiniteSetTheorems, WellFoundedInduction, TLAPS

\* The shape that matters here: rows have a transaction, and so has every
\* webhook that is being processed.
Webhook == {"checking", "paying", "settling"}

Row == [transaction: Transactions, amount: Int]

Shape ==
  /\ total \in [Invoices -> Int]
  /\ payments \in Seq(Row)
  /\ DOMAIN req = Requests
  /\ \A r \in Requests : req[r].pc \in Webhook => req[r].transaction \in Transactions

\* The rows of a transaction, and the requests that will insert another one.
RowsOf(x) == {k \in 1..Len(payments) : payments[k].transaction = x}

Paying(x) ==
  {r \in Requests : req[r].pc \in {"paying", "settling"} /\ req[r].transaction = x}

\* Every row of a transaction once was a request that had passed the check
\* before the first of them was committed.
OverlapInv ==
  /\ Shape
  /\ \A x \in Transactions :
       Cardinality(RowsOf(x)) + Cardinality(Paying(x)) <= Cardinality(Requests)

-----------------------------------------------------------------------------
\* Both sets can be counted.
LEMMA Countable ==
  ASSUME Shape, NEW x
  PROVE  /\ IsFiniteSet(RowsOf(x)) /\ Cardinality(RowsOf(x)) \in Nat
         /\ IsFiniteSet(Paying(x)) /\ Cardinality(Paying(x)) \in Nat
         /\ Cardinality(Paying(x)) <= Cardinality(Requests)
         /\ Cardinality(Requests) \in Nat
<1>1. Len(payments) \in Nat
  BY DEF Shape
<1>2. IsFiniteSet(1..Len(payments))
  BY <1>1, FS_Interval
<1>3. IsFiniteSet(RowsOf(x))
  BY <1>2, FS_Subset DEF RowsOf
<1>4. IsFiniteSet(Paying(x)) /\ Cardinality(Paying(x)) <= Cardinality(Requests)
  BY RequestsAssumption, FS_Subset DEF Paying
<1> QED BY <1>3, <1>4, RequestsAssumption, FS_CardinalityType

\* A request that goes on changes nothing of the others.
LEMMA Others ==
  ASSUME Shape, NEW r \in Requests, NEW state, Goto(r, state)
  PROVE  /\ DOMAIN req' = Requests
         /\ req'[r] = state
         /\ \A q \in Requests \ {r} : req'[q] = req[q]
  BY DEF Shape, Goto

\* The amount of a payment is a number.
LEMMA AmountInt ==
  ASSUME Shape, NEW x \in Transactions
  PROVE  PaidAmount(x) \in Int
  BY TransactionsAssumption DEF Shape, PaidAmount

\* A step that inserts no payment and lets no request pass the check.
LEMMA QuietStep ==
  ASSUME OverlapInv, UNCHANGED payments, total' \in [Invoices -> Int],
         NEW r \in Requests, NEW state, Goto(r, state),
         state.pc \in Webhook => state.transaction \in Transactions,
         state.pc \in {"paying", "settling"} =>
           req[r].pc \in {"paying", "settling"} /\ state.transaction = req[r].transaction
  PROVE  OverlapInv'
<1>0. Shape
  BY DEF OverlapInv
<1>1. /\ DOMAIN req' = Requests /\ req'[r] = state
      /\ \A q \in Requests \ {r} : req'[q] = req[q]
  BY <1>0, Others
<1>2. Shape'
  BY <1>0, <1>1 DEF Shape
<1>3. ASSUME NEW x \in Transactions
      PROVE  Cardinality(RowsOf(x)') + Cardinality(Paying(x)') <= Cardinality(Requests)
  <2>1. RowsOf(x)' = RowsOf(x)
    BY DEF RowsOf
  <2>2. Paying(x)' \subseteq Paying(x)
    BY <1>1 DEF Paying
  <2>3. Cardinality(Paying(x)') <= Cardinality(Paying(x))
    BY <1>0, <2>2, Countable, FS_Subset
  <2>4. Cardinality(Paying(x)') \in Nat
    BY <1>0, <2>2, Countable, FS_Subset, FS_CardinalityType
  <2>5. Cardinality(RowsOf(x)) + Cardinality(Paying(x)) <= Cardinality(Requests)
    BY DEF OverlapInv
  <2> QED BY <1>0, <2>1, <2>3, <2>4, <2>5, Countable
<1> QED BY <1>2, <1>3 DEF OverlapInv

\* Whoever passes the check found no payment of the transaction.
LEMMA AcceptStep ==
  ASSUME OverlapInv, NEW r \in Requests, AcceptPayment(r)
  PROVE  OverlapInv'
<1> DEFINE state == [req[r] EXCEPT !.pc = "paying"]
<1>0. Shape /\ Goto(r, state) /\ UNCHANGED <<payments, total>>
  BY DEF OverlapInv, AcceptPayment, rows
<1>1. /\ DOMAIN req' = Requests /\ req'[r] = state
      /\ \A q \in Requests \ {r} : req'[q] = req[q]
  BY <1>0, Others
<1>2. state.transaction = req[r].transaction /\ req[r].transaction \in Transactions
  BY <1>0 DEF AcceptPayment, Shape, Webhook
<1>3. Shape'
  BY <1>0, <1>1, <1>2 DEF Shape
<1>4. ASSUME NEW x \in Transactions
      PROVE  Cardinality(RowsOf(x)') + Cardinality(Paying(x)') <= Cardinality(Requests)
  <2>1. RowsOf(x)' = RowsOf(x)
    BY <1>0 DEF RowsOf
  <2>2. CASE x = req[r].transaction
    <3>1. RowsOf(x) = {}
      BY <2>2 DEF AcceptPayment, Known, RowsOf
    <3>2. Cardinality(Paying(x)') \in Nat /\ Cardinality(Paying(x)') <= Cardinality(Requests)
      BY <1>3, RequestsAssumption, FS_Subset, FS_CardinalityType DEF Paying
    <3> QED BY <2>1, <3>1, <3>2, FS_EmptySet
  <2>3. CASE x # req[r].transaction
    <3>1. Paying(x)' = Paying(x)
      BY <1>1, <1>2, <2>3 DEF Paying, AcceptPayment
    <3> QED BY <2>1, <3>1 DEF OverlapInv
  <2> QED BY <2>2, <2>3
<1> QED BY <1>3, <1>4 DEF OverlapInv

\* A commit turns one request that is paying into a row.
LEMMA CommitStep ==
  ASSUME OverlapInv, NEW r \in Requests, CommitPayment(r)
  PROVE  OverlapInv'
<1> DEFINE y == req[r].transaction
           row == [transaction |-> y, amount |-> PaidAmount(y)]
<1>0. Shape /\ req[r].pc = "settling" /\ payments' = Append(payments, row) /\ total' = total
  BY DEF OverlapInv, CommitPayment
<1>1. y \in Transactions /\ row \in Row /\ row.transaction = y
  BY <1>0, AmountInt DEF Shape, Webhook, Row
<1> HIDE DEF row
<1>2. /\ DOMAIN req' = Requests /\ req'[r].pc = "auditing"
      /\ \A q \in Requests \ {r} : req'[q] = req[q]
  BY <1>0, Others DEF CommitPayment, Committed
<1>3. /\ payments' \in Seq(Row) /\ Len(payments) \in Nat
      /\ Len(payments') = Len(payments) + 1
      /\ payments'[Len(payments) + 1].transaction = y
      /\ \A k \in 1..Len(payments) : payments'[k] = payments[k]
  BY <1>0, <1>1 DEF Shape
<1>4. Shape'
  BY <1>0, <1>2, <1>3 DEF Shape, Webhook
<1>5. ASSUME NEW x \in Transactions
      PROVE  Cardinality(RowsOf(x)') + Cardinality(Paying(x)') <= Cardinality(Requests)
  <2>0. Cardinality(RowsOf(x)) + Cardinality(Paying(x)) <= Cardinality(Requests)
    BY DEF OverlapInv
  <2>1. CASE x = y
    <3>1. RowsOf(x)' = RowsOf(x) \cup {Len(payments) + 1}
      BY <1>3, <2>1 DEF RowsOf
    <3>2. Len(payments) + 1 \notin RowsOf(x)
      BY <1>3 DEF RowsOf
    <3>3. Cardinality(RowsOf(x)') = Cardinality(RowsOf(x)) + 1
      BY <1>0, <3>1, <3>2, Countable, FS_AddElement
    <3>4. Paying(x)' = Paying(x) \ {r} /\ r \in Paying(x)
      BY <1>0, <1>2, <2>1 DEF Paying
    <3>5. Cardinality(Paying(x)') = Cardinality(Paying(x)) - 1
      BY <1>0, <3>4, Countable, FS_RemoveElement
    <3> QED BY <1>0, <2>0, <3>3, <3>5, Countable
  <2>2. CASE x # y
    <3>1. RowsOf(x)' = RowsOf(x)
      BY <1>3, <2>2 DEF RowsOf
    <3>2. Paying(x)' = Paying(x)
      BY <1>0, <1>2, <2>2 DEF Paying
    <3> QED BY <2>0, <3>1, <3>2
  <2> QED BY <2>1, <2>2
<1> QED BY <1>4, <1>5 DEF OverlapInv

\* There are neither rows nor webhooks initially.
LEMMA OverlapInit == Init => OverlapInv
<1> SUFFICES ASSUME Init PROVE OverlapInv
  OBVIOUS
<1>1. Shape
  BY DEF Init, Shape, Idle, Webhook, Row
<1>2. \A x \in Transactions : RowsOf(x) = {} /\ Paying(x) = {}
  BY DEF Init, RowsOf, Paying, Idle
<1>3. Cardinality(Requests) \in Nat /\ Cardinality({}) = 0
  BY RequestsAssumption, FS_CardinalityType, FS_EmptySet
<1> QED BY <1>1, <1>2, <1>3 DEF OverlapInv

\* Every step keeps the count.
LEMMA OverlapStep == OverlapInv /\ [Next]_vars => OverlapInv'
<1> SUFFICES ASSUME OverlapInv, [Next]_vars PROVE OverlapInv'
  OBVIOUS
<1>0. Shape
  BY DEF OverlapInv
<1>1. ASSUME NEW r \in Requests, NEW i \in Invoices, NEW sum \in Totals, CreateInvoice(r, i, sum)
      PROVE  OverlapInv'
  <2>1. total' \in [Invoices -> Int]
    BY <1>0, <1>1, TotalsAssumption DEF CreateInvoice, Shape
  <2> QED BY <1>1, <2>1, QuietStep DEF CreateInvoice, Committed, Webhook
<1>2. ASSUME NEW r \in Requests, NEW i \in Invoices, VoidInvoice(r, i)
      PROVE  OverlapInv'
  BY <1>0, <1>2, QuietStep DEF VoidInvoice, Committed, Webhook, Shape
<1>3. ASSUME NEW r \in Requests, NEW x \in Transactions, Deliver(r, x)
      PROVE  OverlapInv'
  BY <1>0, <1>3, QuietStep DEF Deliver, Webhook, Shape, rows
<1>4. ASSUME NEW r \in Requests, IgnoreDuplicate(r) \/ Lose(r)
      PROVE  OverlapInv'
  BY <1>0, <1>4, QuietStep DEF IgnoreDuplicate, Lose, Idle, Webhook, Shape, rows
<1>5. ASSUME NEW r \in Requests, SumPayments(r)
      PROVE  OverlapInv'
  <2>1. req[r].pc = "paying" /\ req[r].transaction \in Transactions
    BY <1>0, <1>5 DEF SumPayments, Shape, Webhook
  <2> QED BY <1>0, <1>5, <2>1, QuietStep DEF SumPayments, Shape, rows
<1>6. ASSUME NEW r \in Requests, Audit(r) \/ Notify(r) \/ Announce(r)
      PROVE  OverlapInv'
  <2>1. UNCHANGED payments /\ total' \in [Invoices -> Int]
    BY <1>0, <1>6 DEF Audit, Notify, Announce, Shape, rows
  <2>2. ASSUME NEW pc \in {"notifying", "announcing"}, Goto(r, [req[r] EXCEPT !.pc = pc])
        PROVE  OverlapInv'
    <3> DEFINE state == [req[r] EXCEPT !.pc = pc]
    <3>1. state.pc = pc \/ state.pc = req[r].pc
      OBVIOUS
    <3>2. state.pc \notin Webhook
      BY <1>6, <3>1 DEF Audit, Notify, Announce, Webhook
    <3> HIDE DEF state
    <3> QED BY <2>1, <2>2, <3>2, QuietStep DEF Webhook, state
  <2>3. CASE Goto(r, Idle)
    BY <2>1, <2>3, QuietStep DEF Idle, Webhook
  <2> QED BY <1>6, <2>2, <2>3 DEF Audit, Notify, Announce
<1>7. CASE UNCHANGED vars
  BY <1>7 DEF vars, rows, OverlapInv, Shape, RowsOf, Paying
<1> QED
  BY <1>1, <1>2, <1>3, <1>4, <1>5, <1>6, <1>7, AcceptStep, CommitStep DEF Next, Step

\* However many deliveries of however many transactions are served at once, only
\* those that were in flight together record a payment again.
THEOREM OnlyOverlapsDuplicate == Spec => []DuplicatesOverlap
<1>1. ASSUME OverlapInv, NEW x \in Transactions
      PROVE  Cardinality({k \in 1..Len(payments) : payments[k].transaction = x})
               <= Cardinality(Requests)
  <2>1. Shape /\ Cardinality(RowsOf(x)) + Cardinality(Paying(x)) <= Cardinality(Requests)
    BY <1>1 DEF OverlapInv
  <2>2. Cardinality(RowsOf(x)) <= Cardinality(Requests)
    BY <2>1, Countable
  <2> QED BY <2>2 DEF RowsOf
<1>2. OverlapInv => DuplicatesOverlap
  BY <1>1 DEF DuplicatesOverlap
<1> QED BY <1>2, OverlapInit, OverlapStep, PTL DEF Spec

-----------------------------------------------------------------------------
\* Induction, as a statement about the set of the numbers it holds for.
LEMMA Induction ==
  ASSUME NEW S, S \subseteq Nat, 0 \in S, \A n \in Nat : n \in S => n + 1 \in S
  PROVE  S = Nat
<1> DEFINE R == OpToRel(<, Nat)
<1>1. IsWellFoundedOn(R, Nat)
  BY NatLessThanWellFounded
<1>2. \A m, n \in Nat : m < n => <<m, n>> \in R
  BY DEF OpToRel
<1> HIDE DEF R
<1> SUFFICES ASSUME Nat \ S # {} PROVE FALSE
  OBVIOUS
<1>3. PICK n \in Nat \ S : \A m \in Nat \ S : ~(<<m, n>> \in R)
  BY <1>1, WFMin
<1>4. n # 0 /\ n - 1 \in Nat /\ n - 1 < n /\ (n - 1) + 1 = n
  BY <1>3
<1>5. n - 1 \in S
  BY <1>2, <1>3, <1>4
<1> QED BY <1>3, <1>4, <1>5

\* What the sums are to be: f[k] is the sum of the first k rows, for k up to n.
AddsUp(f, log, i, n) ==
  f[0] = 0 /\ \A k \in 1..n : f[k] = f[k - 1] + Share(log[k], i)

Sums(g, log, i, n) == g \in [0..n -> Int] /\ AddsUp(g, log, i, n)

\* Such sums exist: those of n rows can be continued by one more.
LEMMA SumsExist ==
  ASSUME NEW i, NEW log \in Seq(Row)
  PROVE  \E g : Sums(g, log, i, Len(log))
<1> DEFINE S == {n \in Nat : n <= Len(log) => \E g : Sums(g, log, i, n)}
<1>0. Len(log) \in Nat
  OBVIOUS
<1>s. ASSUME NEW k \in 1..Len(log)
      PROVE  Share(log[k], i) \in Int
  <2>1. log[k] \in Row
    BY <1>0
  <2> QED BY <2>1 DEF Row, Share
<1>1. \E g : Sums(g, log, i, 0)
  <2>1. Sums([k \in 0..0 |-> 0], log, i, 0)
    BY DEF Sums, AddsUp
  <2> QED BY <2>1
<1>2. ASSUME NEW n \in Nat, n + 1 <= Len(log), NEW g, Sums(g, log, i, n)
      PROVE  \E h : Sums(h, log, i, n + 1)
  <2> DEFINE h == [k \in 0..(n + 1) |-> IF k = n + 1 THEN g[n] + Share(log[n + 1], i) ELSE g[k]]
  <2>1. g[n] \in Int /\ Share(log[n + 1], i) \in Int
    BY <1>0, <1>2, <1>s DEF Sums, AddsUp
  <2>2. h \in [0..(n + 1) -> Int]
    BY <1>2, <2>1 DEF Sums, AddsUp
  <2>3. h[n + 1] = g[n] + Share(log[n + 1], i) /\ \A k \in 0..n : h[k] = g[k]
    OBVIOUS
  <2> HIDE DEF h
  <2>4. ASSUME NEW k \in 1..(n + 1)
        PROVE  h[k] = h[k - 1] + Share(log[k], i)
    <3>1. CASE k = n + 1
      BY <2>3, <3>1
    <3>2. CASE k \in 1..n
      <4>1. k - 1 \in 0..n /\ k \in 0..n
        BY <3>2
      <4> QED BY <1>2, <2>3, <3>2, <4>1 DEF Sums, AddsUp
    <3> QED BY <3>1, <3>2
  <2>5. h[0] = 0
    BY <1>2, <2>3 DEF Sums, AddsUp
  <2>6. Sums(h, log, i, n + 1)
    BY <2>2, <2>4, <2>5 DEF Sums, AddsUp
  <2> QED BY <2>6
<1>3. 0 \in S
  BY <1>1
<1>4. ASSUME NEW n \in Nat, n \in S
      PROVE  n + 1 \in S
  BY <1>0, <1>2, <1>4
<1> HIDE DEF S
<1>5. S = Nat
  BY <1>3, <1>4, Induction DEF S
<1> QED BY <1>0, <1>5 DEF S

\* There is only one way to add up.
LEMMA SumsUnique ==
  ASSUME NEW i, NEW log, NEW n \in Nat, NEW f, NEW g, Sums(g, log, i, n), AddsUp(f, log, i, n)
  PROVE  \A k \in 0..n : f[k] = g[k]
<1> DEFINE S == {k \in Nat : k <= n => f[k] = g[k]}
<1>1. 0 \in S
  BY DEF Sums, AddsUp
<1>2. ASSUME NEW k \in Nat, k \in S
      PROVE  k + 1 \in S
  <2> SUFFICES ASSUME k + 1 <= n PROVE f[k + 1] = g[k + 1]
    OBVIOUS
  <2>1. f[k] = g[k] /\ k + 1 \in 1..n /\ (k + 1) - 1 = k
    BY <1>2
  <2> QED BY <2>1 DEF Sums, AddsUp
<1> HIDE DEF S
<1>3. S = Nat
  BY <1>1, <1>2, Induction DEF S
<1> QED BY <1>3 DEF S

\* Hence the recursive definition defines them.
LEMMA Running ==
  ASSUME NEW i, NEW log \in Seq(Row)
  PROVE  Sums(RunningTotal(log, i), log, i, Len(log))
<1> DEFINE f == RunningTotal(log, i)
<1>0. Len(log) \in Nat
  OBVIOUS
<1>1. PICK g : Sums(g, log, i, Len(log))
  BY SumsExist
<1>2. g = [k \in 0..Len(log) |-> IF k = 0 THEN 0 ELSE g[k - 1] + Share(log[k], i)]
  BY <1>0, <1>1 DEF Sums, AddsUp
<1>3. f = [k \in 0..Len(log) |-> IF k = 0 THEN 0 ELSE f[k - 1] + Share(log[k], i)]
  BY <1>2 DEF RunningTotal
<1> HIDE DEF f
<1>4. AddsUp(f, log, i, Len(log))
  BY <1>0, <1>3 DEF AddsUp
<1>5. \A k \in 0..Len(log) : f[k] = g[k]
  BY <1>0, <1>1, <1>4, SumsUnique
<1>6. f = g
  BY <1>1, <1>3, <1>5 DEF Sums, AddsUp
<1> QED BY <1>1, <1>6 DEF f

\* A row that is added adds its share.
LEMMA TotalAppended ==
  ASSUME NEW i, NEW log \in Seq(Row), NEW row \in Row
  PROVE  /\ RunningTotal(log, i)[Len(log)] \in Int
         /\ RunningTotal(Append(log, row), i)[Len(log) + 1]
              = RunningTotal(log, i)[Len(log)] + Share(row, i)
<1> DEFINE n == Len(log)
           more == Append(log, row)
           f == RunningTotal(more, i)
           g == RunningTotal(log, i)
<1>1. /\ n \in Nat /\ more \in Seq(Row) /\ Len(more) = n + 1
      /\ more[n + 1] = row /\ \A k \in 1..n : more[k] = log[k]
  OBVIOUS
<1> HIDE DEF n, more
<1>2. Sums(f, more, i, n + 1) /\ Sums(g, log, i, n)
  BY <1>1, Running DEF n
<1> HIDE DEF f, g
<1>3. AddsUp(f, log, i, n)
  <2>1. ASSUME NEW k \in 1..n
        PROVE  f[k] = f[k - 1] + Share(log[k], i)
    <3>1. k \in 1..(n + 1) /\ more[k] = log[k]
      BY <1>1
    <3>2. f[k] = f[k - 1] + Share(more[k], i)
      BY <1>2, <3>1 DEF Sums, AddsUp
    <3> QED BY <3>1, <3>2
  <2> QED BY <1>2, <2>1 DEF Sums, AddsUp
<1>4. \A k \in 0..n : f[k] = g[k]
  BY <1>1, <1>2, <1>3, SumsUnique
<1>5. f[n + 1] = f[n] + Share(row, i)
  BY <1>1, <1>2 DEF Sums, AddsUp
<1>6. f[n] = g[n] /\ g[n] \in Int
  BY <1>1, <1>2, <1>4 DEF Sums
<1> QED BY <1>5, <1>6 DEF f, g, n, more

-----------------------------------------------------------------------------
\* Beside the types: only invoices that exist are being paid or were paid.
TypeInv ==
  /\ TypeOK
  /\ \A r \in Requests : req[r].pc \in Webhook => Exists(Pays[req[r].transaction])
  /\ \A k \in 1..Len(payments) : Exists(Pays[payments[k].transaction])

\* What a webhook in flight has read: an invoice that was more than ISSUED is
\* that for good; and a sum covers no less than the row to come and no more than
\* it and the rows there are, unless money goes back.
Sound(q) ==
  \A x \in Transactions : q.pc \in Webhook /\ q.transaction = x =>
    /\ q.seen # "ISSUED" => status[Pays[x]] # "ISSUED"
    /\ q.pc = "settling" /\ NothingBack(Pays[x]) /\ PaidAmount(x) >= 0 =>
         PaidAmount(x) <= q.paid /\ q.paid <= TotalPaid(Pays[x]) + PaidAmount(x)

PaidInv ==
  /\ TypeInv
  /\ \A r \in Requests : Sound(req[r])
  /\ \A i \in Invoices : NothingBack(i) => TotalPaid(i) >= 0
  /\ StatusEarned
  /\ PaymentShows

\* Payments are rows, and what an invoice was paid is a number.
LEMMA TotalInt ==
  ASSUME TypeOK, NEW i
  PROVE  payments \in Seq(Row) /\ TotalPaid(i) \in Int
<1>0. Payment \subseteq Row
  BY DEF Payment, Row
<1>1. payments \in Seq(Row) /\ Len(payments) \in Nat
  BY <1>0 DEF TypeOK
<1>2. Sums(RunningTotal(payments, i), payments, i, Len(payments))
  BY <1>1, Running
<1> QED BY <1>1, <1>2 DEF Sums, TotalPaid

\* What a request carries, by its program counter.
LEMMA Carried ==
  ASSUME TypeOK, NEW r \in Requests
  PROVE  /\ req[r].pc \in Webhook => /\ req[r].transaction \in Transactions
                                     /\ req[r].seen \in InvoiceStatus
         /\ req[r].pc = "settling" => req[r].paid \in Int
         /\ req[r].pc \in {"auditing", "notifying", "announcing"} =>
              req[r] \in [pc: {"auditing", "notifying", "announcing"}, action: Action,
                          invoice: Invoices, transaction: Transactions \cup {"NONE"}]
<1>1. req[r] \in Request
  BY DEF TypeOK
<1> QED BY <1>1 DEF Request, Idle, Webhook

\* Whoever goes on without touching a row, with well-typed locals.
LEMMA TypesGoOn ==
  ASSUME TypeInv, UNCHANGED rows, NEW r \in Requests, NEW state \in Request, Goto(r, state),
         state.pc \in Webhook => Exists(Pays[state.transaction]),
         delivered' \in [Transactions -> 0..MaxDeliveries], out' \subseteq Effect
  PROVE  TypeInv'
<1>1. TypeOK'
  BY DEF TypeInv, TypeOK, Goto, rows
<1>2. req'[r] = state /\ \A q \in Requests \ {r} : req'[q] = req[q]
  BY DEF TypeInv, TypeOK, Goto
<1>3. \A q \in Requests : req'[q].pc \in Webhook => Exists(Pays[req'[q].transaction])
  BY <1>2 DEF TypeInv
<1> QED BY <1>1, <1>3 DEF TypeInv, Exists, rows

\* A committed change of an invoice is told by its request.
LEMMA TypesCommitted ==
  ASSUME TypeInv, NEW r \in Requests, NEW action \in Action, NEW i \in Invoices,
         NEW x \in Transactions \cup {"NONE"}, Committed(r, action, i, x), Silent,
         NEW s \in InvoiceStatus, status' = [status EXCEPT ![i] = s],
         UNCHANGED delivered, total' \in [Invoices -> Totals \cup {0}],
         payments' \in Seq(Payment),
         \A k \in 1..Len(payments') : status'[Pays[payments'[k].transaction]] # "ABSENT"
  PROVE  TypeInv'
<1> DEFINE state == [pc |-> "auditing", action |-> action, invoice |-> i, transaction |-> x]
<1>1. state \in Request
  BY DEF Request
<1>2. TypeOK'
  BY <1>1 DEF TypeInv, TypeOK, Committed, Goto, Silent
<1>3. status'[i] = s /\ \A j \in Invoices \ {i} : status'[j] = status[j]
  BY DEF TypeInv, TypeOK
<1>4. s # "ABSENT"
  BY DEF InvoiceStatus
<1>6. ASSUME NEW q \in Requests, req'[q].pc \in Webhook
      PROVE  status'[Pays[req'[q].transaction]] # "ABSENT"
  <2>1. q # r /\ req'[q] = req[q]
    BY <1>6 DEF TypeInv, TypeOK, Committed, Goto, Webhook
  <2>2. TypeOK /\ req[q].pc \in Webhook /\ Exists(Pays[req[q].transaction])
    BY <1>6, <2>1 DEF TypeInv
  <2>3. req[q].transaction \in Transactions
    BY <2>2, Carried
  <2> QED BY <1>3, <1>4, <2>1, <2>2, <2>3, TransactionsAssumption DEF Exists
<1> QED BY <1>2, <1>6 DEF TypeInv, Exists

\* The amount of a payment is a number, and the row of an invoice that has a
\* total is not of nothing: a missing amount stands for the total.
LEMMA AmountOf ==
  ASSUME TypeOK, NEW x \in Transactions
  PROVE  /\ PaidAmount(x) \in Int /\ total[Pays[x]] \in Int
         /\ PaidAmount(x) = 0 => total[Pays[x]] = 0
<1>1. Pays[x] \in Invoices /\ Amount[x] \in Int
  BY TransactionsAssumption
<1>2. total[Pays[x]] \in Int
  <2>1. total[Pays[x]] \in Totals \/ total[Pays[x]] = 0
    BY <1>1 DEF TypeOK
  <2>2. \A n \in Totals : n \in Int
    BY TotalsAssumption
  <2> QED BY <2>1, <2>2
<1> QED BY <1>1, <1>2 DEF PaidAmount

\* There are neither invoices nor payments initially.
LEMMA TypeInit == Init => TypeInv
  BY DeliveriesAssumption DEF Init, TypeInv, TypeOK, Exists, Request, Idle, Webhook

\* Every step keeps the types.
LEMMA TypeStep == TypeInv /\ [Next]_vars => TypeInv'
<1> SUFFICES ASSUME TypeInv, [Next]_vars PROVE TypeInv'
  OBVIOUS
<1>0. TypeOK
  BY DEF TypeInv
<1>1. ASSUME NEW r \in Requests, NEW i \in Invoices, NEW sum \in Totals, CreateInvoice(r, i, sum)
      PROVE  TypeInv'
  <2>1. total' \in [Invoices -> Totals \cup {0}]
    BY <1>0, <1>1 DEF CreateInvoice, TypeOK
  <2>2. ASSUME NEW k \in 1..Len(payments')
        PROVE  status'[Pays[payments'[k].transaction]] # "ABSENT"
    <3>1. payments' = payments /\ k \in 1..Len(payments) /\ payments[k] \in Payment
      BY <1>0, <1>1 DEF CreateInvoice, TypeOK
    <3>2. Pays[payments[k].transaction] \in Invoices
      BY <3>1, TransactionsAssumption DEF Payment
    <3> QED BY <1>0, <1>1, <3>1, <3>2 DEF CreateInvoice, TypeInv, TypeOK, Exists
  <2>3. payments' \in Seq(Payment)
    BY <1>0, <1>1 DEF CreateInvoice, TypeOK
  <2> QED BY <1>1, <2>1, <2>2, <2>3, TypesCommitted DEF CreateInvoice, InvoiceStatus, Action
<1>2. ASSUME NEW r \in Requests, NEW i \in Invoices, VoidInvoice(r, i)
      PROVE  TypeInv'
  <2>1. total' \in [Invoices -> Totals \cup {0}]
    BY <1>0, <1>2 DEF VoidInvoice, TypeOK
  <2>2. ASSUME NEW k \in 1..Len(payments')
        PROVE  status'[Pays[payments'[k].transaction]] # "ABSENT"
    <3>1. payments' = payments /\ k \in 1..Len(payments) /\ payments[k] \in Payment
      BY <1>0, <1>2 DEF VoidInvoice, TypeOK
    <3>2. Pays[payments[k].transaction] \in Invoices
      BY <3>1, TransactionsAssumption DEF Payment
    <3> QED BY <1>0, <1>2, <3>1, <3>2 DEF VoidInvoice, TypeInv, TypeOK, Exists
  <2>3. payments' \in Seq(Payment)
    BY <1>0, <1>2 DEF VoidInvoice, TypeOK
  <2> QED BY <1>2, <2>1, <2>2, <2>3, TypesCommitted DEF VoidInvoice, InvoiceStatus, Action
<1>3. ASSUME NEW r \in Requests, NEW x \in Transactions, Deliver(r, x)
      PROVE  TypeInv'
  <2> DEFINE state == [pc |-> "checking", transaction |-> x, seen |-> status[Pays[x]]]
  <2>1. status[Pays[x]] \in InvoiceStatus
    BY <1>0, <1>3, TransactionsAssumption DEF Deliver, Exists, TypeOK
  <2>2. state \in Request
    BY <2>1 DEF Request
  <2>3. delivered' \in [Transactions -> 0..MaxDeliveries]
    BY <1>0, <1>3, DeliveriesAssumption DEF Deliver, TypeOK
  <2> QED BY <1>3, <2>2, <2>3, TypesGoOn DEF Deliver, Silent
<1>4. ASSUME NEW r \in Requests, IgnoreDuplicate(r) \/ Lose(r)
      PROVE  TypeInv'
  BY <1>0, <1>4, TypesGoOn DEF IgnoreDuplicate, Lose, Idle, Webhook, Request, Silent, TypeOK
<1>5. ASSUME NEW r \in Requests, AcceptPayment(r)
      PROVE  TypeInv'
  <2> DEFINE state == [req[r] EXCEPT !.pc = "paying"]
  <2>1. req[r] \in [pc: {"checking", "paying"}, transaction: Transactions, seen: InvoiceStatus]
    BY <1>0, <1>5 DEF AcceptPayment, TypeOK, Request, Idle
  <2>2. state \in Request /\ state.transaction = req[r].transaction
    BY <2>1 DEF Request
  <2>3. Exists(Pays[req[r].transaction])
    BY <1>5 DEF AcceptPayment, TypeInv, Webhook
  <2> QED BY <1>0, <1>5, <2>2, <2>3, TypesGoOn DEF AcceptPayment, Silent, TypeOK
<1>6. ASSUME NEW r \in Requests, SumPayments(r)
      PROVE  TypeInv'
  <2> DEFINE x == req[r].transaction
             state == [pc |-> "settling", transaction |-> x, seen |-> req[r].seen, paid |-> SumPaid(x)]
  <2>1. x \in Transactions /\ req[r].seen \in InvoiceStatus /\ Exists(Pays[x])
    BY <1>0, <1>6, Carried DEF SumPayments, TypeInv, Webhook
  <2>2. SumPaid(x) \in Int
    BY <2>1, TotalInt, AmountOf, <1>0 DEF SumPaid
  <2>3. state \in Request
    BY <2>1, <2>2 DEF Request
  <2> HIDE DEF x
  <2> QED BY <1>0, <1>6, <2>1, <2>3, TypesGoOn DEF SumPayments, Silent, TypeOK, x
<1>7. ASSUME NEW r \in Requests, CommitPayment(r)
      PROVE  TypeInv'
  <2> DEFINE x == req[r].transaction
             row == [transaction |-> x, amount |-> PaidAmount(x)]
             s == IF NewStatus(req[r]) # req[r].seen THEN NewStatus(req[r]) ELSE status[Pays[x]]
  <2>1. x \in Transactions /\ req[r].seen \in InvoiceStatus /\ Exists(Pays[x]) /\ Pays[x] \in Invoices
    BY <1>0, <1>7, Carried, TransactionsAssumption DEF CommitPayment, TypeInv, Webhook
  <2>2. s \in InvoiceStatus /\ status' = [status EXCEPT ![Pays[x]] = s]
    BY <1>0, <1>7, <2>1 DEF CommitPayment, NewStatus, InvoiceStatus, TypeOK, Exists
  <2>3. row \in Payment /\ row.transaction = x
    BY <1>0, <2>1, AmountOf DEF Payment
  <2>4. /\ payments' = Append(payments, row)
        /\ Committed(r, "PAYMENT_SUCCESS", Pays[x], x) /\ Silent /\ UNCHANGED <<total, delivered>>
    BY <1>7 DEF CommitPayment
  <2> HIDE DEF x, s, row
  <2>p. payments \in Seq(Payment)
    BY <1>0 DEF TypeOK
  <2>5. payments' \in Seq(Payment)
    BY <2>3, <2>4, <2>p
  <2>6. ASSUME NEW k \in 1..Len(payments')
        PROVE  status'[Pays[payments'[k].transaction]] # "ABSENT"
    <3>1. \A j \in Invoices : Exists(j) => Exists(j)'
      BY <1>0, <2>1, <2>2 DEF TypeOK, Exists, InvoiceStatus
    <3>2. Len(payments) \in Nat /\ Len(payments') = Len(payments) + 1
      BY <1>0, <2>4 DEF TypeOK
    <3>3. CASE k = Len(payments) + 1
      <4>1. payments'[k].transaction = x
        BY <2>3, <2>4, <2>p, <3>3
      <4> QED BY <2>1, <3>1, <4>1 DEF Exists
    <3>4. CASE k \in 1..Len(payments)
      <4>1. payments'[k] = payments[k] /\ payments[k] \in Payment
        BY <2>3, <2>4, <2>p, <3>4
      <4>2. Pays[payments[k].transaction] \in Invoices /\ Exists(Pays[payments[k].transaction])
        BY <3>4, <4>1, TransactionsAssumption DEF TypeInv, Payment
      <4> QED BY <3>1, <4>1, <4>2 DEF Exists
    <3> QED BY <3>2, <3>3, <3>4
  <2>7. total' \in [Invoices -> Totals \cup {0}]
    BY <1>0, <2>4 DEF TypeOK
  <2> QED BY <2>1, <2>2, <2>4, <2>5, <2>6, <2>7, TypesCommitted DEF Action
<1>8. ASSUME NEW r \in Requests, Audit(r) \/ Notify(r) \/ Announce(r)
      PROVE  TypeInv'
  <2>1. req[r] \in [pc: {"auditing", "notifying", "announcing"}, action: Action,
                    invoice: Invoices, transaction: Transactions \cup {"NONE"}]
    BY <1>0, <1>8, Carried DEF Audit, Notify, Announce
  <2>2. out' \subseteq Effect
    BY <1>8, <2>1 DEF Audit, Notify, Announce, Emit, Silent, Effect
  <2>3. UNCHANGED rows /\ delivered' \in [Transactions -> 0..MaxDeliveries]
    BY <1>0, <1>8 DEF Audit, Notify, Announce, TypeOK
  <2>4. ASSUME NEW pc \in {"notifying", "announcing"}, Goto(r, [req[r] EXCEPT !.pc = pc])
        PROVE  TypeInv'
    <3>1. [req[r] EXCEPT !.pc = pc] \in Request /\ [req[r] EXCEPT !.pc = pc].pc = pc
      BY <2>1 DEF Request
    <3> QED BY <2>2, <2>3, <2>4, <3>1, TypesGoOn DEF Webhook
  <2>5. CASE Goto(r, Idle)
    BY <2>2, <2>3, <2>5, TypesGoOn DEF Idle, Webhook, Request
  <2> QED BY <1>8, <2>4, <2>5 DEF Audit, Notify, Announce
<1>9. CASE UNCHANGED vars
  BY <1>9 DEF vars, rows, TypeInv, TypeOK, Exists
<1> QED
  BY <1>1, <1>2, <1>3, <1>4, <1>5, <1>6, <1>7, <1>8, <1>9 DEF Next, Step

\* Whatever is paid, voided or lost in between, and whatever the totals and
\* amounts are: rows, locals and effects have the shape the columns and the
\* messages need.
THEOREM BillingTypeCorrect == Spec => []TypeOK
<1>1. TypeInv => TypeOK
  BY DEF TypeInv
<1> QED BY <1>1, TypeInit, TypeStep, PTL DEF Spec

-----------------------------------------------------------------------------
\* Nothing was paid, nobody pays.
LEMMA PaidInit == Init => PaidInv
<1> SUFFICES ASSUME Init PROVE PaidInv
  OBVIOUS
<1>1. TypeInv
  BY TypeInit
<1>2. \A i \in Invoices : status[i] = "ABSENT"
  BY DEF Init
<1>3. \A r \in Requests : Sound(req[r])
  BY DEF Init, Idle, Sound, Webhook
<1>4. payments = <<>> /\ Len(payments) = 0 /\ payments \in Seq(Row)
  BY DEF Init
<1>5. \A i : TotalPaid(i) = 0
  BY <1>4, Running DEF TotalPaid, Sums, AddsUp
<1> QED BY <1>1, <1>2, <1>3, <1>5 DEF PaidInv, StatusEarned, PaymentShows

\* A step that leaves the rows alone keeps what they say, and what a webhook
\* has read stays true.
LEMMA PaidGoesOn ==
  ASSUME PaidInv, TypeInv', UNCHANGED rows, NEW r \in Requests, NEW state, Goto(r, state),
         Sound(state)
  PROVE  PaidInv'
<1>1. req'[r] = state /\ \A q \in Requests \ {r} : req'[q] = req[q]
  BY DEF PaidInv, TypeInv, TypeOK, Goto
<1>2. \A q \in Requests : Sound(req'[q])
  BY <1>1 DEF PaidInv
<1>3. (\A q \in Requests : Sound(req[q]))'
  BY <1>2 DEF Sound, rows, TotalPaid, PaidAmount, NothingBack, PaymentsOf
<1>4. /\ StatusEarned' /\ PaymentShows'
      /\ (\A i \in Invoices : NothingBack(i) => TotalPaid(i) >= 0)'
  BY DEF PaidInv, StatusEarned, PaymentShows, rows, TotalPaid, PaymentsOf, NothingBack
<1> QED BY <1>3, <1>4 DEF PaidInv

\* An invoice that is created or voided is paid as before; created, it was
\* not paid at all, for it did not exist.
LEMMA PaidUnlessNew ==
  ASSUME PaidInv, TypeInv', NEW r \in Requests, NEW state, Goto(r, state),
         state.pc \notin Webhook, UNCHANGED payments,
         NEW i \in Invoices, NEW s \in {"ISSUED", "VOID"},
         status' = [status EXCEPT ![i] = s], s = "ISSUED" => ~Exists(i),
         \A j \in Invoices \ {i} : total'[j] = total[j],
         Exists(i) => total'[i] = total[i]
  PROVE  PaidInv'
<1>0. TypeOK /\ TypeInv
  BY DEF PaidInv, TypeInv
<1>1. req'[r] = state /\ \A q \in Requests \ {r} : req'[q] = req[q]
  BY <1>0 DEF TypeOK, Goto
<1>2. status'[i] = s /\ \A j \in Invoices \ {i} : status'[j] = status[j]
  BY <1>0 DEF TypeOK
<1>3. \A j : /\ TotalPaid(j)' = TotalPaid(j) /\ PaymentsOf(j)' = PaymentsOf(j)
            /\ NothingBack(j)' = NothingBack(j)
  BY DEF TotalPaid, PaymentsOf, NothingBack
<1>4. ASSUME NEW q \in Requests
      PROVE  Sound(req[q])'
  <2> SUFFICES ASSUME NEW x \in Transactions, req'[q].pc \in Webhook, req'[q].transaction = x
      PROVE  /\ req'[q].seen # "ISSUED" => status'[Pays[x]] # "ISSUED"
             /\ /\ req'[q].pc = "settling"
                /\ NothingBack(Pays[x])'
                /\ PaidAmount(x)' >= 0
                => /\ PaidAmount(x)' <= req'[q].paid
                   /\ req'[q].paid <= TotalPaid(Pays[x])' + PaidAmount(x)'
    BY DEF Sound
  <2>1. req'[q] = req[q] /\ req[q].pc \in Webhook /\ Sound(req[q])
    BY <1>1 DEF PaidInv
  <2>2. Exists(Pays[x]) /\ Pays[x] \in Invoices
    BY <1>0, <2>1, TransactionsAssumption DEF TypeInv
  <2>3. status[Pays[x]] # "ISSUED" => status'[Pays[x]] # "ISSUED"
    BY <1>2, <2>2
  <2>4. total'[Pays[x]] = total[Pays[x]]
    BY <2>2
  <2>5. PaidAmount(x)' = PaidAmount(x)
    BY <2>4 DEF PaidAmount
  <2> QED BY <1>3, <2>1, <2>3, <2>5 DEF Sound
<1>5. StatusEarned'
  <2>1. ASSUME NEW j \in Invoices
        PROVE  NothingBack(j)' =>
                 /\ status'[j] = "PAID" => TotalPaid(j)' >= total'[j]
                 /\ status'[j] = "PARTIALLY_PAID" => TotalPaid(j)' > 0
    <3>1. CASE j = i
      BY <1>2, <3>1
    <3>2. CASE j # i
      BY <1>2, <1>3, <3>2 DEF PaidInv, StatusEarned
    <3> QED BY <3>1, <3>2
  <2> QED BY <2>1 DEF StatusEarned
<1>6. PaymentShows'
  <2>1. ASSUME NEW j \in Invoices, NothingBack(j), status'[j] = "ISSUED"
        PROVE  PaymentsOf(j) = {}
    <3>1. CASE j = i
      <4>1. ~Exists(j)
        BY <1>2, <2>1, <3>1
      <4> QED BY <1>0, <4>1 DEF TypeInv, PaymentsOf
    <3>2. CASE j # i
      BY <1>2, <2>1, <3>2 DEF PaidInv, PaymentShows
    <3> QED BY <3>1, <3>2
  <2> QED BY <1>3, <2>1 DEF PaymentShows
<1>7. \A q \in Requests : Sound(req[q])'
  BY <1>4
<1>8. (\A j \in Invoices : NothingBack(j) => TotalPaid(j) >= 0)'
  BY <1>3 DEF PaidInv
<1> QED BY <1>5, <1>6, <1>7, <1>8 DEF PaidInv

\* A commit adds its row to what is on record: the sum it took covers no more.
LEMMA PaidCommits ==
  ASSUME PaidInv, TypeInv', NEW r \in Requests, CommitPayment(r)
  PROVE  PaidInv'
<1>y. PICK y \in Transactions : y = req[r].transaction
  BY Carried DEF CommitPayment, PaidInv, TypeInv, Webhook
<1> DEFINE j == Pays[y]
           row == [transaction |-> y, amount |-> PaidAmount(y)]
           s == IF NewStatus(req[r]) # req[r].seen THEN NewStatus(req[r]) ELSE status[j]
<1>0. /\ TypeInv /\ TypeOK /\ Sound(req[r])
      /\ req[r].pc = "settling" /\ UNCHANGED total
      /\ payments' = Append(payments, row)
      /\ status' = [status EXCEPT ![j] = s]
  BY <1>y DEF PaidInv, TypeInv, CommitPayment
<1>1. /\ req'[r].pc \notin Webhook
      /\ \A q \in Requests \ {r} : req'[q] = req[q]
  BY <1>0 DEF TypeOK, CommitPayment, Committed, Goto, Webhook
<1>2. Exists(j) /\ req[r].paid \in Int /\ req[r].seen \in InvoiceStatus
  BY <1>0, <1>y, Carried DEF TypeInv, Webhook
<1>3. /\ j \in Invoices /\ PaidAmount(y) \in Int /\ total[j] \in Int
      /\ PaidAmount(y) = 0 => total[j] = 0
  BY <1>0, <1>2, TransactionsAssumption, AmountOf
<1>4. row \in Row /\ row.transaction = y /\ row.amount = PaidAmount(y)
  BY <1>2, <1>3 DEF Row
<1>5. /\ NothingBack(j) /\ PaidAmount(y) >= 0 =>
           PaidAmount(y) <= req[r].paid /\ req[r].paid <= TotalPaid(j) + PaidAmount(y)
      /\ req[r].seen # "ISSUED" => status[j] # "ISSUED"
  BY <1>0, <1>y DEF Sound, Webhook
<1>6. /\ s = "PAID" => req[r].paid >= total[j] \/ status[j] = "PAID"
      /\ s = "PARTIALLY_PAID" => req[r].paid > 0 \/ status[j] = "PARTIALLY_PAID"
      /\ s = "ISSUED" => status[j] = "ISSUED"
  BY <1>y DEF NewStatus
<1>7. s = "ISSUED" => ~(req[r].paid >= total[j]) /\ ~(req[r].paid > 0)
  BY <1>y, <1>5 DEF NewStatus
<1> HIDE DEF row, s, j
<1>8. status'[j] = s /\ \A i \in Invoices \ {j} : status'[i] = status[i]
  BY <1>0, <1>3 DEF TypeOK
<1>9. payments \in Seq(Row) /\ Len(payments) \in Nat /\ \A i : TotalPaid(i) \in Int
  BY <1>0, TotalInt
<1>10. Len(payments') = Len(payments) + 1
  BY <1>0, <1>9
<1>11. \A i : TotalPaid(i)' = TotalPaid(i) + Share(row, i)
  BY <1>0, <1>4, <1>9, <1>10, TotalAppended DEF TotalPaid
<1>12. /\ Share(row, j) = PaidAmount(y)
       /\ \A i : i # j => Share(row, i) = 0
  BY <1>4 DEF Share, j
<1>r. /\ \A k \in 1..Len(payments) : payments'[k] = payments[k]
      /\ payments'[Len(payments) + 1] = row
  BY <1>0, <1>4, <1>9
<1>b. ASSUME NEW i, NothingBack(i)'
      PROVE  NothingBack(i) /\ (i = j => PaidAmount(y) >= 0)
  <2>1. \A k \in 1..Len(payments') :
          Pays[payments'[k].transaction] = i => payments'[k].amount >= 0
    BY <1>b DEF NothingBack, PaymentsOf
  <2>2. \A k \in 1..Len(payments) : k \in 1..Len(payments') /\ payments'[k] = payments[k]
    BY <1>9, <1>10, <1>r
  <2>3. NothingBack(i)
    BY <2>1, <2>2 DEF NothingBack, PaymentsOf
  <2>4. CASE i = j
    <3>1. Len(payments) + 1 \in 1..Len(payments')
      BY <1>9, <1>10
    <3>2. Pays[payments'[Len(payments) + 1].transaction] = i
      BY <1>4, <1>r, <2>4 DEF j
    <3> QED BY <1>4, <1>r, <2>1, <2>3, <3>1, <3>2
  <2> QED BY <2>3, <2>4
<1>13. ASSUME NEW i, NothingBack(i)'
       PROVE  TotalPaid(i)' >= TotalPaid(i)
  <2>1. TotalPaid(i)' = TotalPaid(i) + Share(row, i) /\ TotalPaid(i) \in Int
    BY <1>9, <1>11
  <2>2. CASE i = j
    BY <1>3, <1>12, <1>13, <1>b, <2>1, <2>2
  <2>3. CASE i # j
    BY <1>12, <2>1, <2>3
  <2> QED BY <2>2, <2>3
<1>14. ASSUME NEW q \in Requests
       PROVE  Sound(req[q])'
  <2> SUFFICES ASSUME NEW x \in Transactions, req'[q].pc \in Webhook, req'[q].transaction = x
      PROVE  /\ req'[q].seen # "ISSUED" => status'[Pays[x]] # "ISSUED"
             /\ /\ req'[q].pc = "settling"
                /\ NothingBack(Pays[x])'
                /\ PaidAmount(x)' >= 0
                => /\ PaidAmount(x)' <= req'[q].paid
                   /\ req'[q].paid <= TotalPaid(Pays[x])' + PaidAmount(x)'
    BY DEF Sound
  <2>1. req'[q] = req[q] /\ req[q].pc \in Webhook /\ Sound(req[q])
    BY <1>1 DEF PaidInv
  <2>2. Pays[x] \in Invoices /\ PaidAmount(x) \in Int
    BY <1>0, TransactionsAssumption, AmountOf
  <2>3. status[Pays[x]] # "ISSUED" => status'[Pays[x]] # "ISSUED"
    BY <1>6, <1>8, <2>2
  <2>4. PaidAmount(x)' = PaidAmount(x)
    BY <1>0 DEF PaidAmount
  <2>5. req[q].pc = "settling" => req[q].paid \in Int
    BY <1>0, Carried
  <2> DEFINE i == Pays[x]
  <2>6. TotalPaid(i) \in Int /\ TotalPaid(i)' \in Int
    BY <1>3, <1>9, <1>11, <1>12
  <2>7. NothingBack(i)' => NothingBack(i) /\ TotalPaid(i)' >= TotalPaid(i)
    BY <1>13, <1>b
  <2> QED BY <2>1, <2>2, <2>3, <2>4, <2>5, <2>6, <2>7 DEF Sound
<1>15. ASSUME NEW i \in Invoices, NothingBack(i)'
       PROVE  /\ TotalPaid(i)' >= 0
              /\ status'[i] = "PAID" => TotalPaid(i)' >= total'[i]
              /\ status'[i] = "PARTIALLY_PAID" => TotalPaid(i)' > 0
  <2>0. total[i] \in Int /\ TotalPaid(i) \in Int /\ total'[i] = total[i]
    <3>1. total[i] \in Totals \/ total[i] = 0
      BY <1>0 DEF TypeOK
    <3>2. \A n \in Totals : n \in Int
      BY TotalsAssumption
    <3> QED BY <1>0, <1>9, <3>1, <3>2
  <2>b. /\ NothingBack(i) /\ TotalPaid(i) >= 0
        /\ status[i] = "PAID" => TotalPaid(i) >= total[i]
        /\ status[i] = "PARTIALLY_PAID" => TotalPaid(i) > 0
    BY <1>15, <1>b DEF PaidInv, StatusEarned
  <2>1. CASE i = j
    <3>1. TotalPaid(j)' = TotalPaid(j) + PaidAmount(y) /\ PaidAmount(y) >= 0
      BY <1>11, <1>12, <1>15, <1>b, <2>1
    <3>2. req[r].paid <= TotalPaid(j)' /\ TotalPaid(j)' >= TotalPaid(j)
      BY <1>2, <1>3, <1>5, <2>0, <2>1, <2>b, <3>1
    <3> QED BY <1>2, <1>3, <1>6, <1>8, <2>0, <2>1, <2>b, <3>1, <3>2
  <2>2. CASE i # j
    <3>1. TotalPaid(i)' = TotalPaid(i) /\ status'[i] = status[i]
      BY <1>8, <1>11, <1>12, <2>0, <2>2
    <3> QED BY <2>0, <2>b, <3>1
  <2> QED BY <2>1, <2>2
<1>16. ASSUME NEW i \in Invoices, NothingBack(i)', status'[i] = "ISSUED"
       PROVE  PaymentsOf(i)' = {}
  <2>0. CASE i = j
    <3>1. /\ NothingBack(j) /\ PaidAmount(y) >= 0
          /\ ~(req[r].paid >= total[j]) /\ ~(req[r].paid > 0)
      BY <1>7, <1>8, <1>16, <1>b, <2>0
    <3> QED BY <1>2, <1>3, <1>5, <3>1
  <2>a. CASE i # j
    <3>1. NothingBack(i) /\ status[i] = "ISSUED"
      BY <1>8, <1>16, <1>b, <2>a
    <3>2. \A k \in 1..Len(payments) : Pays[payments[k].transaction] # i
      BY <3>1 DEF PaidInv, PaymentShows, PaymentsOf
    <3>3. Pays[payments'[Len(payments) + 1].transaction] = j
      BY <1>4, <1>r DEF j
    <3>4. \A k \in 1..Len(payments') : Pays[payments'[k].transaction] # i
      BY <1>9, <1>10, <1>r, <2>a, <3>2, <3>3
    <3> QED BY <3>4 DEF PaymentsOf
  <2> QED BY <2>0, <2>a
<1>17. \A q \in Requests : Sound(req[q])'
  BY <1>14
<1>18. /\ StatusEarned' /\ PaymentShows'
       /\ (\A i \in Invoices : NothingBack(i) => TotalPaid(i) >= 0)'
  BY <1>15, <1>16 DEF StatusEarned, PaymentShows
<1> QED BY <1>17, <1>18 DEF PaidInv

\* Every step keeps what invoices say of their payments.
LEMMA PaidStep == PaidInv /\ TypeInv' /\ [Next]_vars => PaidInv'
<1> SUFFICES ASSUME PaidInv, TypeInv', [Next]_vars PROVE PaidInv'
  OBVIOUS
<1>0. TypeInv /\ TypeOK /\ \A r \in Requests : Sound(req[r])
  BY DEF PaidInv, TypeInv
<1>1. ASSUME NEW r \in Requests, NEW i \in Invoices, NEW sum \in Totals, CreateInvoice(r, i, sum)
      PROVE  PaidInv'
  <2>1. \A j \in Invoices \ {i} : total'[j] = total[j]
    BY <1>0, <1>1 DEF CreateInvoice, TypeOK
  <2> QED BY <1>1, <2>1, PaidUnlessNew DEF CreateInvoice, Committed, Webhook
<1>2. ASSUME NEW r \in Requests, NEW i \in Invoices, VoidInvoice(r, i)
      PROVE  PaidInv'
  BY <1>2, PaidUnlessNew DEF VoidInvoice, Committed, Webhook
<1>3. ASSUME NEW r \in Requests, NEW x \in Transactions, Deliver(r, x)
      PROVE  PaidInv'
  <2> DEFINE state == [pc |-> "checking", transaction |-> x, seen |-> status[Pays[x]]]
  <2>1. Sound(state)
    BY DEF Sound
  <2> QED BY <1>3, <2>1, PaidGoesOn DEF Deliver
<1>4. ASSUME NEW r \in Requests, Goto(r, Idle), UNCHANGED rows
      PROVE  PaidInv'
  <2>1. Sound(Idle)
    BY DEF Sound, Idle, Webhook
  <2> QED BY <1>4, <2>1, PaidGoesOn
<1>5. ASSUME NEW r \in Requests, AcceptPayment(r)
      PROVE  PaidInv'
  <2> DEFINE state == [req[r] EXCEPT !.pc = "paying"]
  <2>1. req[r] \in [pc: {"checking", "paying"}, transaction: Transactions, seen: InvoiceStatus]
    BY <1>0, <1>5 DEF AcceptPayment, TypeOK, Request, Idle
  <2>2. /\ state.pc = "paying" /\ state.transaction = req[r].transaction
        /\ state.seen = req[r].seen
    BY <2>1
  <2>3. Sound(state)
    BY <1>0, <1>5, <2>2 DEF Sound, AcceptPayment, Webhook
  <2> QED BY <1>5, <2>3, PaidGoesOn DEF AcceptPayment
<1>6. ASSUME NEW r \in Requests, SumPayments(r)
      PROVE  PaidInv'
  <2> DEFINE x == req[r].transaction
             state == [pc |-> "settling", transaction |-> x, seen |-> req[r].seen, paid |-> SumPaid(x)]
  <2>1. x \in Transactions /\ Exists(Pays[x])
    BY <1>0, <1>6, Carried DEF SumPayments, TypeInv, Webhook
  <2>2. NothingBack(Pays[x]) /\ PaidAmount(x) >= 0 =>
          PaidAmount(x) <= SumPaid(x) /\ SumPaid(x) <= TotalPaid(Pays[x]) + PaidAmount(x)
    BY <1>0, <2>1, TotalInt, AmountOf, TransactionsAssumption DEF SumPaid, PaidInv
  <2>3. req[r].seen # "ISSUED" => status[Pays[x]] # "ISSUED"
    BY <1>0, <1>6, <2>1 DEF SumPayments, Sound, Webhook
  <2>4. Sound(state)
    BY <2>2, <2>3 DEF Sound
  <2> QED BY <1>6, <2>4, PaidGoesOn DEF SumPayments
<1>7. ASSUME NEW r \in Requests, Audit(r) \/ Notify(r) \/ Announce(r)
      PROVE  PaidInv'
  <2>1. req[r] \in [pc: {"auditing", "notifying", "announcing"}, action: Action,
                    invoice: Invoices, transaction: Transactions \cup {"NONE"}]
    BY <1>0, <1>7, Carried DEF Audit, Notify, Announce
  <2>2. UNCHANGED rows
    BY <1>7 DEF Audit, Notify, Announce
  <2>3. ASSUME NEW pc \in {"notifying", "announcing"}, Goto(r, [req[r] EXCEPT !.pc = pc])
        PROVE  PaidInv'
    <3>1. [req[r] EXCEPT !.pc = pc].pc = pc
      BY <2>1
    <3>2. Sound([req[r] EXCEPT !.pc = pc])
      BY <3>1 DEF Sound, Webhook
    <3> QED BY <2>2, <2>3, <3>2, PaidGoesOn
  <2> QED BY <1>4, <1>7, <2>2, <2>3 DEF Audit, Notify, Announce
<1>8. CASE UNCHANGED vars
  BY <1>8 DEF vars, rows, PaidInv, Sound, StatusEarned, PaymentShows, TotalPaid, PaidAmount, PaymentsOf, NothingBack
<1>9. ASSUME NEW r \in Requests, IgnoreDuplicate(r) \/ Lose(r)
      PROVE  PaidInv'
  BY <1>4, <1>9 DEF IgnoreDuplicate, Lose
<1> QED
  BY <1>1, <1>2, <1>3, <1>5, <1>6, <1>7, <1>8, <1>9, PaidCommits DEF Next, Step

\* A paid or partly paid invoice has the rows to show for it, however the
\* webhooks that added them up overlapped.
THEOREM StatusesAreEarned == Spec => []StatusEarned
<1>1. PaidInv => StatusEarned
  BY DEF PaidInv
<1> QED BY <1>1, TypeInit, TypeStep, PaidInit, PaidStep, PTL DEF Spec

\* No payment on record leaves its invoice looking unpaid, whatever status the
\* webhook had read before the others committed.
THEOREM PaymentsAlwaysShow == Spec => []PaymentShows
<1>1. PaidInv => PaymentShows
  BY DEF PaidInv
<1> QED BY <1>1, TypeInit, TypeStep, PaidInit, PaidStep, PTL DEF Spec

-----------------------------------------------------------------------------
\* A payment that nobody overtook joins the account of its invoice.
LEMMA AccountPays ==
  ASSUME PaidInv, NEW r \in Requests, CommitPayment(r), ~Overtaken(req[r])
  PROVE  \E x \in Transactions : Account!Pay(x)
<1>y. PICK x \in Transactions : x = req[r].transaction
  BY Carried DEF CommitPayment, PaidInv, TypeInv, Webhook
<1> DEFINE j == Pays[x]
           row == [transaction |-> x, amount |-> PaidAmount(x)]
<1>0. /\ TypeInv /\ TypeOK
      /\ req[r].pc = "settling" /\ total' = total
      /\ payments' = Append(payments, row)
      /\ status' = [status EXCEPT ![j] =
           IF NewStatus(req[r]) # req[r].seen THEN NewStatus(req[r]) ELSE status[j]]
  BY <1>y DEF PaidInv, TypeInv, CommitPayment
<1>1. Exists(j) /\ j \in Invoices
  BY <1>0, <1>y, TransactionsAssumption DEF TypeInv, Webhook
<1>2. /\ req[r].seen = status[j] /\ ~Known(x)
      /\ req[r].paid = TotalPaid(j) + PaidAmount(x)
  BY <1>0, <1>y DEF Overtaken, SumPaid
<1>3. payments \in Seq(Row) /\ Len(payments) \in Nat /\ PaidAmount(x) \in Int
  BY <1>0, TotalInt, AmountOf
<1>4. row \in Row /\ row.transaction = x /\ row.amount = PaidAmount(x)
  BY <1>3 DEF Row
<1> HIDE DEF row, j
<1>5. /\ Len(payments') = Len(payments) + 1
      /\ payments'[Len(payments) + 1] = row
      /\ \A k \in 1..Len(payments) : payments'[k] = payments[k]
  BY <1>0, <1>3, <1>4
<1>6. \A i : TotalPaid(i)' = TotalPaid(i) + Share(row, i) /\ TotalPaid(i) \in Int
  BY <1>0, <1>3, <1>4, <1>5, TotalAppended, TotalInt DEF TotalPaid
<1>7. Share(row, j) = PaidAmount(x) /\ \A i : i # j => Share(row, i) = 0
  BY <1>4 DEF Share, j
<1>8. PaidAmount(x) = Account!Due(x)
  BY DEF PaidAmount, Account!Due
<1>9. [i \in Invoices |-> TotalPaid(i)]'
        = [[i \in Invoices |-> TotalPaid(i)] EXCEPT ![j] = @ + Account!Due(x)]
  <2>1. \A i \in Invoices : TotalPaid(i)' =
          IF i = j THEN TotalPaid(i) + Account!Due(x) ELSE TotalPaid(i)
    BY <1>6, <1>7, <1>8
  <2> QED BY <1>1, <2>1
<1>10. {payments[k].transaction : k \in 1..Len(payments)}'
         = {payments[k].transaction : k \in 1..Len(payments)} \cup {x}
  BY <1>3, <1>4, <1>5
<1>11. x \notin {payments[k].transaction : k \in 1..Len(payments)}
  BY <1>2 DEF Known
<1>12. NewStatus(req[r]) =
         IF TotalPaid(j) + Account!Due(x) >= total[j] THEN "PAID"
         ELSE IF TotalPaid(j) + Account!Due(x) > 0 THEN "PARTIALLY_PAID" ELSE status[j]
  BY <1>y, <1>2, <1>8 DEF NewStatus, j
<1>13. status' = [status EXCEPT ![j] =
         IF TotalPaid(j) + Account!Due(x) >= total[j] THEN "PAID"
         ELSE IF TotalPaid(j) + Account!Due(x) > 0 THEN "PARTIALLY_PAID" ELSE @]
  BY <1>0, <1>2, <1>12
<1>14. [i \in Invoices |-> TotalPaid(i)][j] = TotalPaid(j)
  BY <1>1
<1>15. status[j] # "ABSENT"
  BY <1>1 DEF Exists
<1> QED
  BY <1>0, <1>9, <1>10, <1>11, <1>13, <1>14, <1>15 DEF Account!Pay, j

\* Every other change is a step of the account, too.
LEMMA AccountStep ==
  ASSUME PaidInv, [Next]_vars
  PROVE  \/ UNCHANGED rows \/ Account!Next
         \/ \E r \in Requests : CommitPayment(r) /\ Overtaken(req[r])
<1>1. ASSUME NEW r \in Requests, NEW i \in Invoices, NEW sum \in Totals, CreateInvoice(r, i, sum)
      PROVE  Account!Issue(i, sum)
  BY <1>1 DEF CreateInvoice, Exists, Account!Issue, TotalPaid
<1>2. ASSUME NEW r \in Requests, NEW i \in Invoices, VoidInvoice(r, i)
      PROVE  Account!Void(i)
  BY <1>2 DEF VoidInvoice, Exists, Account!Void, TotalPaid
<1>3. \/ UNCHANGED rows
      \/ \E r \in Requests :
           \/ \E i \in Invoices, sum \in Totals : CreateInvoice(r, i, sum)
           \/ \E i \in Invoices : VoidInvoice(r, i)
           \/ CommitPayment(r)
  BY DEF Next, Step, vars, Deliver, IgnoreDuplicate, AcceptPayment, SumPayments, Audit, Notify,
         Announce, Lose
<1> QED BY <1>1, <1>2, <1>3, AccountPays DEF Account!Next

\* However webhooks, voids and losses interleave: what is committed is what the
\* account of an invoice allows, unless the webhook that commits was overtaken.
THEOREM AccountsAreKept == Spec => KeepsAccount
<1>1. PaidInv /\ [Next]_vars =>
        [(\E r \in Requests : CommitPayment(r) /\ Overtaken(req[r])) \/ Account!Next]_rows
  BY AccountStep
<1> QED BY <1>1, TypeInit, TypeStep, PaidInit, PaidStep, PTL DEF Spec, KeepsAccount

-----------------------------------------------------------------------------
\* One request at a time.
OneAtATime == \A r, s \in Requests : r = s

\* What a webhook has read is what the rows still hold: the status, that nobody
\* recorded its transaction, and the sum.
Current(q) ==
  \A x \in Transactions : q.pc \in Webhook /\ q.transaction = x =>
    /\ q.seen = status[Pays[x]]
    /\ q.pc \in {"paying", "settling"} => ~Known(x)
    /\ q.pc = "settling" => q.paid = TotalPaid(Pays[x]) + PaidAmount(x)

SerialInv == OneAtATime => \A r \in Requests : Current(req[r])

\* A request that is no webhook, or none any more, has read nothing that counts.
LEMMA NothingRead ==
  ASSUME NEW r \in Requests, req'[r].pc \notin Webhook
  PROVE  Current(req[r])'
  BY DEF Current

\* The request that makes a step reads what the rows hold then, and what it read
\* before nobody else changed.
LEMMA CurrentStep ==
  ASSUME TypeInv, NEW r \in Requests, Current(req[r]), Step(r)
  PROVE  Current(req[r])'
<1>0. TypeOK
  BY DEF TypeInv
<1>1. ASSUME NEW state, Goto(r, state)
      PROVE  req'[r] = state
  BY <1>0, <1>1 DEF TypeOK, Goto
<1>2. ASSUME NEW i \in Invoices, NEW sum \in Totals, CreateInvoice(r, i, sum)
      PROVE  Current(req[r])'
  BY <1>1, <1>2, NothingRead DEF CreateInvoice, Committed, Webhook
<1>3. ASSUME NEW i \in Invoices, VoidInvoice(r, i)
      PROVE  Current(req[r])'
  BY <1>1, <1>3, NothingRead DEF VoidInvoice, Committed, Webhook
<1>4. CASE CommitPayment(r)
  BY <1>1, <1>4, NothingRead DEF CommitPayment, Committed, Webhook
<1>5. CASE IgnoreDuplicate(r) \/ Lose(r)
  BY <1>1, <1>5, NothingRead DEF IgnoreDuplicate, Lose, Idle, Webhook
<1>6. CASE Audit(r) \/ Notify(r) \/ Announce(r)
  <2>1. req[r] \in [pc: {"auditing", "notifying", "announcing"}, action: Action,
                    invoice: Invoices, transaction: Transactions \cup {"NONE"}]
    BY <1>0, <1>6, Carried DEF Audit, Notify, Announce
  <2>2. \A pc \in {"notifying", "announcing"} : [req[r] EXCEPT !.pc = pc].pc = pc
    BY <2>1
  <2>3. \/ Goto(r, Idle)
        \/ \E pc \in {"notifying", "announcing"} : Goto(r, [req[r] EXCEPT !.pc = pc])
    BY <1>6 DEF Audit, Notify, Announce
  <2>4. ASSUME NEW pc \in {"notifying", "announcing"}, Goto(r, [req[r] EXCEPT !.pc = pc])
        PROVE  req'[r].pc \notin Webhook
    <3>1. req'[r] = [req[r] EXCEPT !.pc = pc]
      BY <1>1, <2>4
    <3> QED BY <2>2, <3>1 DEF Webhook
  <2>5. CASE Goto(r, Idle)
    <3>1. req'[r] = Idle
      BY <1>1, <2>5
    <3> QED BY <3>1, NothingRead DEF Idle, Webhook
  <2> QED BY <2>3, <2>4, <2>5, NothingRead
<1>7. ASSUME NEW x \in Transactions, Deliver(r, x)
      PROVE  Current(req[r])'
  <2>1. /\ req'[r] = [pc |-> "checking", transaction |-> x, seen |-> status[Pays[x]]]
        /\ status' = status
    BY <1>1, <1>7 DEF Deliver, rows
  <2> QED BY <2>1 DEF Current
<1>8. CASE AcceptPayment(r)
  <2>1. req[r] \in [pc: {"checking", "paying"}, transaction: Transactions, seen: InvoiceStatus]
    BY <1>0, <1>8 DEF AcceptPayment, TypeOK, Request, Idle
  <2>2. /\ req'[r].pc = "paying" /\ req'[r].transaction = req[r].transaction
        /\ req'[r].seen = req[r].seen
    BY <1>1, <1>8, <2>1 DEF AcceptPayment
  <2>3. /\ UNCHANGED <<status, payments>> /\ ~Known(req[r].transaction)
        /\ req[r].pc = "checking"
    BY <1>8 DEF AcceptPayment, rows
  <2> QED BY <2>2, <2>3 DEF Current, Known, Webhook
<1>9. CASE SumPayments(r)
  <2> DEFINE y == req[r].transaction
  <2>1. /\ req'[r] = [pc |-> "settling", transaction |-> y, seen |-> req[r].seen, paid |-> SumPaid(y)]
        /\ UNCHANGED <<status, total, payments>> /\ req[r].pc = "paying"
    BY <1>1, <1>9 DEF SumPayments, rows
  <2> QED BY <2>1 DEF Current, Known, Webhook, SumPaid, TotalPaid, PaidAmount
<1> QED
  BY <1>2, <1>3, <1>4, <1>5, <1>6, <1>7, <1>8, <1>9 DEF Step

\* With one request at a time nobody else has anything in hand.
LEMMA SerialStep == TypeInv /\ SerialInv /\ [Next]_vars => SerialInv'
<1> SUFFICES ASSUME TypeInv, SerialInv, [Next]_vars, OneAtATime
             PROVE  \A r \in Requests : Current(req[r])'
  BY DEF SerialInv, OneAtATime
<1>1. \A r \in Requests : Current(req[r])
  BY DEF SerialInv
<1>2. CASE UNCHANGED vars
  BY <1>1, <1>2 DEF vars, rows, Current, Known, TotalPaid, PaidAmount
<1>3. ASSUME NEW r \in Requests, Step(r)
      PROVE  \A q \in Requests : Current(req[q])'
  <2>1. Current(req[r])'
    BY <1>1, <1>3, CurrentStep
  <2> QED BY <2>1 DEF OneAtATime
<1> QED BY <1>2, <1>3 DEF Next

\* So nobody is overtaken.
LEMMA NobodyOvertaken ==
  ASSUME OneAtATime, TypeInv, SerialInv, NEW r \in Requests, CommitPayment(r)
  PROVE  ~Overtaken(req[r])
<1>1. req[r].pc = "settling" /\ req[r].transaction \in Transactions
  BY Carried DEF CommitPayment, TypeInv, Webhook
<1> QED BY <1>1 DEF SerialInv, Current, Overtaken, SumPaid, Webhook

\* When every request is served before the next one begins: invoices and
\* payments are the account they should be - each transaction of the provider
\* pays once, and the status is that of the sum - for any number of invoices,
\* transactions and deliveries, wherever a request is lost.
THEOREM InvoicesAreAccounts == OneAtATime => (Spec => ImplementsAccount)
<1> SUFFICES ASSUME OneAtATime PROVE Spec => ImplementsAccount
  OBVIOUS
<1>1. Init => Account!Init
  <2> SUFFICES ASSUME Init PROVE Account!Init
    OBVIOUS
  <2>1. payments = <<>> /\ Len(payments) = 0
    BY DEF Init
  <2>2. payments \in Seq(Row)
    BY <2>1
  <2>3. \A i : TotalPaid(i) = 0
    BY <2>1, <2>2, Running DEF TotalPaid, Sums, AddsUp
  <2>4. {payments[k].transaction : k \in 1..Len(payments)} = {}
    BY <2>1
  <2> QED BY <2>3, <2>4 DEF Init, Account!Init
<1>2. Init => SerialInv
  BY DEF Init, SerialInv, Current, Idle, Webhook
<1>3. PaidInv /\ SerialInv /\ [Next]_vars => [Account!Next]_Account!vars
  <2> SUFFICES ASSUME PaidInv, SerialInv, [Next]_vars PROVE [Account!Next]_Account!vars
    OBVIOUS
  <2>1. UNCHANGED rows \/ Account!Next
    BY AccountStep, NobodyOvertaken DEF PaidInv
  <2>2. UNCHANGED rows => UNCHANGED Account!vars
    BY DEF rows, Account!vars, TotalPaid
  <2> QED BY <2>1, <2>2
<1>4. PaidInv => TypeInv
  BY DEF PaidInv
<1>5. Spec => Account!Init /\ [][Account!Next]_Account!vars
  BY <1>1, <1>2, <1>3, <1>4, TypeInit, TypeStep, PaidInit, PaidStep, SerialStep, PTL DEF Spec
<1> QED BY <1>5 DEF ImplementsAccount, Account!Spec
=============================================================================
