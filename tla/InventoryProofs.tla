-------------------------- MODULE InventoryProofs --------------------------
(***************************************************************************)
(* For any number of parts, clients and adjustments, any quantities and    *)
(* any width of the column: the stock is what the ledger adds up to.       *)
(***************************************************************************)
EXTENDS Inventory, TLAPS

\* The row lock belongs to the request that is between its increment and its
\* commit, and to nobody else.
LockHeld ==
  \A p \in Parts : lock[p] # "FREE" =>
    req[lock[p]].pc = "adjusted" /\ req[lock[p]].part = p

\* One part's stock is explained by its ledger.
Explains(run, log, total) ==
  /\ run \in [0..Len(log) -> 0..MaxStock]
  /\ run[0] = 0
  /\ \A i \in 1..Len(log) : run[i] = run[i - 1] + log[i]
  /\ run[Len(log)] = total

StockInv == TypeOK /\ LockHeld /\ ResultIsCurrent /\ LedgerExplainsStock

-----------------------------------------------------------------------------
\* What a request slot carries, by its program counter.
LEMMA RequestFields ==
  ASSUME NEW q \in Request
  PROVE  /\ q.pc = "creating" => q.number \in Number
         /\ q.pc = "updating" => q.part \in Parts /\ q.number \in PartNumbers \cup {"KEEP"}
         /\ q.pc = "adjusting" => q.part \in Parts /\ q.quantity \in Quantities
         /\ q.pc = "adjusted" => /\ q.part \in Parts
                                 /\ q.quantity \in Quantities
                                 /\ q.result \in StockColumn
         /\ q.pc = "auditing" => /\ q.part \in Parts
                                 /\ q.action \in AuditAction
                                 /\ q.quantity \in Quantities \cup {0}
<1>1. CASE q = Idle
  BY <1>1 DEF Idle
<1>2. CASE q \in [pc: {"creating"}, number: Number]
  BY <1>2
<1>3. CASE q \in [pc: {"updating"}, part: Parts, number: PartNumbers \cup {"KEEP"},
                  seenStock: 0..MaxStock]
  BY <1>3
<1>4. CASE q \in [pc: {"adjusting"}, part: Parts, quantity: Quantities]
  BY <1>4
<1>5. CASE q \in [pc: {"adjusted"}, part: Parts, quantity: Quantities, result: StockColumn]
  BY <1>5
<1>6. CASE q \in [pc: {"auditing"}, part: Parts, action: AuditAction,
                  quantity: Quantities \cup {0}]
  BY <1>6
<1> QED BY <1>1, <1>2, <1>3, <1>4, <1>5, <1>6 DEF Request

\* A movement that leaves the stock within the column extends the explanation.
LEMMA ExplainsAppend ==
  ASSUME NEW log \in Seq(Quantities), NEW total \in 0..MaxStock,
         NEW run, Explains(run, log, total),
         NEW quantity \in Quantities, total + quantity \in 0..MaxStock
  PROVE  \E longer : Explains(longer, log \o <<quantity>>, total + quantity)
<1> DEFINE n == Len(log)
           new == log \o <<quantity>>
           longer == [i \in 0..(n + 1) |-> IF i = n + 1 THEN total + quantity ELSE run[i]]
<1>1. n \in Nat /\ Len(new) = n + 1 /\ new[n + 1] = quantity
  OBVIOUS
<1>2. \A i \in 1..n : new[i] = log[i]
  OBVIOUS
<1>3. run \in [0..n -> 0..MaxStock] /\ run[0] = 0 /\ run[n] = total
  BY DEF Explains
<1>4. longer \in [0..(n + 1) -> 0..MaxStock]
  BY <1>1, <1>3
<1>5. longer[0] = 0 /\ longer[n] = total /\ longer[n + 1] = total + quantity
  BY <1>1, <1>3
<1>6. \A i \in 1..n : longer[i] = longer[i - 1] + new[i]
  <2> SUFFICES ASSUME NEW i \in 1..n PROVE longer[i] = longer[i - 1] + new[i]
    OBVIOUS
  <2>1. longer[i] = run[i] /\ longer[i - 1] = run[i - 1]
    BY <1>1
  <2> QED BY <1>2, <2>1 DEF Explains
<1>7. \A i \in 1..(n + 1) : longer[i] = longer[i - 1] + new[i]
  <2> HIDE DEF longer, new
  <2> QED BY <1>1, <1>5, <1>6
<1>8. Explains(longer, new, total + quantity)
  <2> HIDE DEF longer, new
  <2> QED BY <1>1, <1>4, <1>5, <1>7 DEF Explains
<1> QED BY <1>8

\* The ledger property, part by part.
LEMMA ExplainsAll ==
  LedgerExplainsStock <=> \A p \in Parts : \E run : Explains(run, ledger[p], stock[p])
  BY DEF LedgerExplainsStock, Explains

-----------------------------------------------------------------------------
\* Types hold initially.
LEMMA TypeInit == Init => TypeOK
  BY MaxStockAssumption DEF Init, TypeOK, Request

\* Every step preserves the types.
LEMMA TypeStep == StockInv /\ [Next]_vars => TypeOK'
<1> SUFFICES ASSUME StockInv, [Next]_vars PROVE TypeOK'
  OBVIOUS
<1>0. TypeOK
  BY DEF StockInv
<1> USE <1>0 DEF TypeOK
<1>1. ASSUME NEW r \in Requests, NEW n \in Number, CheckCreate(r, n) PROVE TypeOK'
  BY <1>1 DEF CheckCreate, Goto, Silent, rows, Request
<1>2. ASSUME NEW r \in Requests, NEW p \in Parts, NEW n \in PartNumbers \cup {"KEEP"},
             CheckUpdate(r, p, n)
      PROVE  TypeOK'
  <2>1. [pc |-> "updating", part |-> p, number |-> n, seenStock |-> stock[p]] \in Request
    BY DEF Request
  <2> QED BY <1>2, <2>1 DEF CheckUpdate, Goto, Silent, rows
<1>3. ASSUME NEW r \in Requests, NEW p \in Parts, NEW quantity \in Quantities,
             CheckAdjust(r, p, quantity)
      PROVE  TypeOK'
  BY <1>3 DEF CheckAdjust, Goto, Silent, rows, Request
<1>4. ASSUME NEW r \in Requests, NEW p \in Parts, InsertPart(r, p) PROVE TypeOK'
  <2>1. req[r].number \in Number
    BY <1>4, RequestFields DEF InsertPart
  <2>2. [pc |-> "auditing", part |-> p, action |-> "PART_CREATED", quantity |-> 0] \in Request
    BY DEF Request, AuditAction
  <2> QED BY <1>4, <2>1, <2>2 DEF InsertPart, Committed, Goto, Silent
<1>5. ASSUME NEW r \in Requests, RefuseInsert(r) \/ RefuseUpdate(r) \/ Overflow(r)
      PROVE  TypeOK'
  <2>1. Idle \in Request
    BY DEF Request
  <2> QED BY <1>5, <2>1 DEF RefuseInsert, RefuseUpdate, Overflow, Goto, Silent, rows
<1>6. ASSUME NEW r \in Requests, UpdatePart(r) PROVE TypeOK'
  <2>1. req[r].part \in Parts /\ req[r].number \in PartNumbers \cup {"KEEP"}
    BY <1>6, RequestFields DEF UpdatePart
  <2>2. [pc |-> "auditing", part |-> req[r].part, action |-> "PART_UPDATED",
         quantity |-> 0] \in Request
    BY <2>1 DEF Request, AuditAction
  <2>3. partNumber' \in [Parts -> Number \cup {"ABSENT"}]
    BY <1>6, <2>1 DEF UpdatePart, Number
  <2> QED BY <1>6, <2>2, <2>3 DEF UpdatePart, UpdatedStock, Committed, Goto, Silent
<1>7. ASSUME NEW r \in Requests, Increment(r) PROVE TypeOK'
  <2>1. req[r].part \in Parts /\ req[r].quantity \in Quantities
    BY <1>7, RequestFields DEF Increment
  <2>2. [pc |-> "adjusted", part |-> req[r].part, quantity |-> req[r].quantity,
         result |-> stock[req[r].part] + req[r].quantity] \in Request
    BY <1>7, <2>1 DEF Increment, Request
  <2> QED BY <1>7, <2>1, <2>2 DEF Increment, Goto, Silent, rows
<1>8. ASSUME NEW r \in Requests, CommitAdjust(r) PROVE TypeOK'
  <2>1. /\ req[r].part \in Parts
        /\ req[r].quantity \in Quantities
        /\ req[r].result \in StockColumn
    BY <1>8, RequestFields DEF CommitAdjust
  <2>2. req[r].result \in 0..MaxStock
    BY <1>8, <2>1, MaxStockAssumption DEF CommitAdjust, Enough, StockColumn
  <2>3. [pc |-> "auditing", part |-> req[r].part, action |-> "STOCK_ADJUSTED",
         quantity |-> req[r].quantity] \in Request
    BY <2>1 DEF Request, AuditAction
  <2>4. ledger' \in [Parts -> Seq(Quantities)]
    BY <1>8, <2>1 DEF CommitAdjust, LedgerRow
  <2> QED BY <1>8, <2>1, <2>2, <2>3, <2>4 DEF CommitAdjust, Committed, Goto, Silent
<1>9. ASSUME NEW r \in Requests, RefuseAdjust(r) \/ Lose(r) PROVE TypeOK'
  <2>1. Idle \in Request
    BY DEF Request
  <2>2. Released(r) \in [Parts -> Requests \cup {"FREE"}]
    BY DEF Released
  <2> QED BY <1>9, <2>1, <2>2 DEF RefuseAdjust, Lose, Goto, Silent, rows
<1>10. ASSUME NEW r \in Requests, Audit(r) PROVE TypeOK'
  <2>1. [part |-> req[r].part, action |-> req[r].action, quantity |-> req[r].quantity]
          \in AuditRecord
    BY <1>10, RequestFields DEF Audit, AuditRecord
  <2>2. Idle \in Request
    BY DEF Request
  <2> QED BY <1>10, <2>1, <2>2 DEF Audit, Goto, Silent, rows
<1>11. CASE UNCHANGED vars
  BY <1>11 DEF vars
<1> QED
  BY <1>1, <1>2, <1>3, <1>4, <1>5, <1>6, <1>7, <1>8, <1>9, <1>10, <1>11
  DEF Next, Begin, Advance

-----------------------------------------------------------------------------
\* The stock invariant holds initially: no part, no stock, no ledger.
LEMMA StockInit == Init => StockInv
<1> SUFFICES ASSUME Init PROVE StockInv
  OBVIOUS
<1>1. TypeOK
  BY TypeInit
<1>2. LockHeld /\ ResultIsCurrent
  BY DEF Init, LockHeld, ResultIsCurrent, Idle
<1>3. ASSUME NEW p \in Parts PROVE \E run : Explains(run, ledger[p], stock[p])
  <2>1. ledger[p] = <<>> /\ stock[p] = 0 /\ Len(<<>>) = 0
    BY DEF Init
  <2>2. [i \in 0..0 |-> 0] \in [0..Len(<<>>) -> 0..MaxStock]
    BY <2>1, MaxStockAssumption
  <2>3. Explains([i \in 0..0 |-> 0], <<>>, 0)
    BY <2>1, <2>2 DEF Explains
  <2> QED BY <2>1, <2>3
<1> QED BY <1>1, <1>2, <1>3, ExplainsAll DEF StockInv

\* A request that neither takes nor gives up a row, and moves no stock.
LEMMA QuietStep ==
  ASSUME StockInv, TypeOK', NEW r \in Requests, NEW state,
         req[r].pc # "adjusted", state.pc # "adjusted", Goto(r, state),
         UNCHANGED <<stock, ledger, lock>>
  PROVE  StockInv'
<1>1. /\ req'[r] = state
      /\ \A q \in Requests \ {r} : req'[q] = req[q]
  BY DEF Goto, StockInv, TypeOK
<1>2. ASSUME NEW p \in Parts, lock'[p] # "FREE"
      PROVE  req'[lock'[p]].pc = "adjusted" /\ req'[lock'[p]].part = p
  <2>1. lock'[p] = lock[p] /\ lock[p] \in Requests
    BY <1>2 DEF StockInv, TypeOK
  <2>2. req[lock[p]].pc = "adjusted" /\ req[lock[p]].part = p
    BY <1>2, <2>1 DEF StockInv, LockHeld
  <2>3. lock[p] # r
    BY <2>2
  <2> QED BY <1>1, <2>1, <2>2, <2>3
<1>3. ResultIsCurrent'
  BY <1>1 DEF StockInv, ResultIsCurrent
<1>4. LedgerExplainsStock'
  BY DEF StockInv, LedgerExplainsStock
<1> QED BY <1>2, <1>3, <1>4 DEF StockInv, LockHeld

\* A transaction that is rolled back gives its row free and moves no stock.
LEMMA RollbackStep ==
  ASSUME StockInv, TypeOK', NEW r \in Requests,
         lock' = Released(r), Goto(r, Idle), UNCHANGED <<stock, ledger>>
  PROVE  StockInv'
<1>1. /\ req'[r] = Idle /\ Idle.pc # "adjusted"
      /\ \A q \in Requests \ {r} : req'[q] = req[q]
  BY DEF Goto, StockInv, TypeOK, Idle
<1>2. \A p \in Parts : lock'[p] = IF lock[p] = r THEN "FREE" ELSE lock[p]
  BY DEF Released
<1>3. LockHeld'
  BY <1>1, <1>2 DEF StockInv, LockHeld, TypeOK
<1>4. ResultIsCurrent'
  <2> SUFFICES ASSUME NEW q \in Requests, req'[q].pc = "adjusted"
               PROVE  /\ lock'[req'[q].part] = q
                      /\ req'[q].result = stock'[req'[q].part] + req'[q].quantity
    BY DEF ResultIsCurrent
  <2>1. q # r /\ req'[q] = req[q]
    BY <1>1
  <2>2. req[q].part \in Parts
    BY <2>1, RequestFields DEF StockInv, TypeOK
  <2> QED BY <1>2, <2>1, <2>2 DEF StockInv, ResultIsCurrent
<1>5. LedgerExplainsStock'
  BY DEF StockInv, LedgerExplainsStock
<1> QED BY <1>3, <1>4, <1>5 DEF StockInv

\* Taking the lock: the row was free, so no other request has a result for it.
LEMMA IncrementStep ==
  ASSUME StockInv, TypeOK', NEW r \in Requests, Increment(r)
  PROVE  StockInv'
<1>1. PICK p \in Parts : p = req[r].part
  BY RequestFields DEF StockInv, TypeOK, Increment
<1>2. /\ lock[p] = "FREE" /\ lock' = [lock EXCEPT ![p] = r]
      /\ req[r].pc = "adjusting"
      /\ UNCHANGED <<stock, ledger>>
  BY <1>1 DEF Increment, RowFree, rows
<1>3. /\ lock'[p] = r
      /\ \A o \in Parts \ {p} : lock'[o] = lock[o]
  BY <1>2 DEF StockInv, TypeOK
<1>4. /\ req'[r].pc = "adjusted" /\ req'[r].part = p
      /\ req'[r].result = stock[p] + req'[r].quantity
      /\ \A q \in Requests \ {r} : req'[q] = req[q]
  BY <1>1 DEF Increment, Goto, StockInv, TypeOK
<1>5. LockHeld'
  BY <1>2, <1>3, <1>4, RequestsAssumption DEF StockInv, LockHeld, TypeOK
<1>6. ResultIsCurrent'
  <2> SUFFICES ASSUME NEW q \in Requests, req'[q].pc = "adjusted"
               PROVE  /\ lock'[req'[q].part] = q
                      /\ req'[q].result = stock'[req'[q].part] + req'[q].quantity
    BY DEF ResultIsCurrent
  <2>1. CASE q = r
    BY <1>2, <1>3, <1>4, <2>1
  <2>2. CASE q # r
    <3>1. req'[q] = req[q] /\ req[q].part \in Parts /\ lock[req[q].part] = q
      BY <1>4, <2>2, RequestFields DEF StockInv, TypeOK, ResultIsCurrent
    <3>2. req[q].part # p
      BY <1>2, <3>1, RequestsAssumption
    <3> QED BY <1>2, <1>3, <3>1, <3>2 DEF StockInv, ResultIsCurrent
  <2> QED BY <2>1, <2>2
<1>7. LedgerExplainsStock'
  BY <1>2 DEF StockInv, LedgerExplainsStock
<1> QED BY <1>5, <1>6, <1>7 DEF StockInv

\* The commit moves the stock by exactly what it adds to the ledger, because
\* the result it writes is still the current stock plus the quantity.
LEMMA CommitStep ==
  ASSUME StockInv, TypeOK', NEW r \in Requests, CommitAdjust(r)
  PROVE  StockInv'
<1>1. PICK p \in Parts, quantity \in Quantities, result \in StockColumn :
        /\ p = req[r].part /\ quantity = req[r].quantity
        /\ result = req[r].result
  BY RequestFields DEF StockInv, TypeOK, CommitAdjust
<1>2. /\ lock[p] = r /\ result = stock[p] + quantity
      /\ result \in 0..MaxStock
  BY <1>1, MaxStockAssumption
  DEF StockInv, ResultIsCurrent, CommitAdjust, Enough, StockColumn
<1>3. /\ stock' = [stock EXCEPT ![p] = result]
      /\ ledger' = [ledger EXCEPT ![p] = @ \o <<quantity>>]
      /\ lock' = [lock EXCEPT ![p] = "FREE"]
  BY <1>1 DEF CommitAdjust, LedgerRow
<1>4. /\ stock'[p] = result /\ lock'[p] = "FREE"
      /\ ledger'[p] = ledger[p] \o <<quantity>>
      /\ \A o \in Parts \ {p} :
           stock'[o] = stock[o] /\ lock'[o] = lock[o] /\ ledger'[o] = ledger[o]
  BY <1>3 DEF StockInv, TypeOK
<1>5. /\ req'[r].pc = "auditing"
      /\ \A q \in Requests \ {r} : req'[q] = req[q]
  BY DEF CommitAdjust, Committed, Goto, StockInv, TypeOK
<1>6. LockHeld'
  <2> SUFFICES ASSUME NEW o \in Parts, lock'[o] # "FREE"
               PROVE  req'[lock'[o]].pc = "adjusted" /\ req'[lock'[o]].part = o
    BY DEF LockHeld
  <2>1. o # p /\ lock'[o] = lock[o] /\ lock[o] \in Requests
    BY <1>4 DEF StockInv, TypeOK
  <2>2. req[lock[o]].pc = "adjusted" /\ req[lock[o]].part = o
    BY <2>1 DEF StockInv, LockHeld
  <2>3. lock[o] # r
    BY <1>1, <2>1, <2>2
  <2> QED BY <1>5, <2>1, <2>2, <2>3
<1>7. ResultIsCurrent'
  <2> SUFFICES ASSUME NEW q \in Requests, req'[q].pc = "adjusted"
               PROVE  /\ lock'[req'[q].part] = q
                      /\ req'[q].result = stock'[req'[q].part] + req'[q].quantity
    BY DEF ResultIsCurrent
  <2>1. q # r /\ req'[q] = req[q]
    BY <1>5
  <2>2. req[q].part \in Parts /\ lock[req[q].part] = q
    BY <2>1, RequestFields DEF StockInv, TypeOK, ResultIsCurrent
  <2>3. req[q].part # p
    BY <1>2, <2>1, <2>2
  <2> QED BY <1>4, <2>1, <2>2, <2>3 DEF StockInv, ResultIsCurrent
<1>8. LedgerExplainsStock'
  <2>1. \E run : Explains(run, ledger[p], stock[p])
    BY ExplainsAll DEF StockInv
  <2>2. ledger[p] \in Seq(Quantities) /\ stock[p] \in 0..MaxStock
    BY DEF StockInv, TypeOK
  <2>3. \E run : Explains(run, ledger'[p], stock'[p])
    BY <1>2, <1>4, <2>1, <2>2, ExplainsAppend
  <2>4. \A o \in Parts : \E run : Explains(run, ledger'[o], stock'[o])
    BY <1>4, <2>3, ExplainsAll DEF StockInv
  <2> QED BY <2>4 DEF LedgerExplainsStock, Explains
<1> QED BY <1>6, <1>7, <1>8 DEF StockInv

\* Every step preserves the stock invariant.
LEMMA StockStep == StockInv /\ [Next]_vars => StockInv'
<1> SUFFICES ASSUME StockInv, [Next]_vars PROVE StockInv'
  OBVIOUS
<1>0. TypeOK'
  BY TypeStep
<1>1. ASSUME NEW r \in Requests, Begin(r) PROVE StockInv'
  <2>1. req[r] = Idle /\ UNCHANGED <<stock, ledger, lock>>
    BY <1>1 DEF Begin, CheckCreate, CheckUpdate, CheckAdjust, rows
  <2>3. Idle.pc # "adjusted"
    BY DEF Idle
  <2>2. \E state : state.pc # "adjusted" /\ Goto(r, state)
    BY <1>1 DEF Begin, CheckCreate, CheckUpdate, CheckAdjust
  <2> QED BY <1>0, <2>1, <2>2, <2>3, QuietStep
<1>2. ASSUME NEW r \in Requests, NEW p \in Parts, InsertPart(r, p) PROVE StockInv'
  BY <1>0, <1>2, QuietStep DEF InsertPart, Committed, Goto
<1>3. ASSUME NEW r \in Requests, RefuseInsert(r) \/ RefuseUpdate(r) \/ Overflow(r)
      PROVE  StockInv'
  <2>1. req[r].pc # "adjusted" /\ Idle.pc # "adjusted" /\ Goto(r, Idle)
    BY <1>3 DEF RefuseInsert, RefuseUpdate, Overflow, Idle
  <2>2. UNCHANGED <<stock, ledger, lock>>
    BY <1>3 DEF RefuseInsert, RefuseUpdate, Overflow, rows
  <2> QED BY <1>0, <2>1, <2>2, QuietStep
<1>4. ASSUME NEW r \in Requests, UpdatePart(r) PROVE StockInv'
  BY <1>0, <1>4, QuietStep DEF UpdatePart, UpdatedStock, Committed, Goto
<1>5. ASSUME NEW r \in Requests, Increment(r) PROVE StockInv'
  BY <1>0, <1>5, IncrementStep
<1>6. ASSUME NEW r \in Requests, CommitAdjust(r) PROVE StockInv'
  BY <1>0, <1>6, CommitStep
<1>7. ASSUME NEW r \in Requests, RefuseAdjust(r) \/ Lose(r) PROVE StockInv'
  BY <1>0, <1>7, RollbackStep DEF RefuseAdjust, Lose, rows
<1>8. ASSUME NEW r \in Requests, Audit(r) PROVE StockInv'
  BY <1>0, <1>8, QuietStep DEF Audit, Idle, rows
<1>9. CASE UNCHANGED vars
  BY <1>0, <1>9 DEF vars, StockInv, LockHeld, ResultIsCurrent, LedgerExplainsStock
<1> QED
  BY <1>1, <1>2, <1>3, <1>4, <1>5, <1>6, <1>7, <1>8, <1>9 DEF Next, Advance

\* The invariant of every instance of the inventory.
THEOREM StockInvariant == Spec => []StockInv
  BY StockInit, StockStep, PTL DEF Spec

\* TypeOK is an invariant for every instance; in particular no committed
\* stock is negative or beyond the column.
THEOREM InventoryTypeCorrect == Spec => []TypeOK
<1>1. StockInv => TypeOK
  BY DEF StockInv
<1> QED BY <1>1, StockInvariant, PTL

\* Under every interleaving of adjustments, edits, refusals, overflows and
\* crashes the stock is what the ledger adds up to, and always was.
THEOREM StockIsExplained == Spec => []LedgerExplainsStock
<1>1. StockInv => LedgerExplainsStock
  BY DEF StockInv
<1> QED BY <1>1, StockInvariant, PTL

\* The quantity adjustStock looks at stays current until it commits.
THEOREM ResultStaysCurrent == Spec => []ResultIsCurrent
<1>1. StockInv => ResultIsCurrent
  BY DEF StockInv
<1> QED BY <1>1, StockInvariant, PTL
-----------------------------------------------------------------------------
\* What an adjustment is about to record, and what it records, is in the ledger.
Logged(log, quantity) == \E i \in 1..Len(log) : log[i] = quantity

AuditInv ==
  /\ AuditTrue
  /\ \A r \in Requests : req[r].pc = "auditing" /\ req[r].action = "STOCK_ADJUSTED" =>
       Logged(ledger[req[r].part], req[r].quantity)

\* The ledger of a part grows by what is appended.
LEMMA LedgerGrows ==
  ASSUME NEW log \in Seq(Quantities), NEW quantity \in Quantities
  PROVE  LET new == log \o <<quantity>>
         IN  /\ \E i \in 1..Len(new) : new[i] = quantity
             /\ \A x : (\E i \in 1..Len(log) : log[i] = x)
                         => \E i \in 1..Len(new) : new[i] = x
<1> DEFINE new == log \o <<quantity>>
<1>1. Len(new) = Len(log) + 1 /\ new[Len(log) + 1] = quantity /\ Len(log) \in Nat
  OBVIOUS
<1>2. \A i \in 1..Len(log) : new[i] = log[i]
  OBVIOUS
<1> HIDE DEF new
<1>3. \A i \in 1..Len(log) : i \in 1..Len(new)
  BY <1>1
<1>4. Len(log) + 1 \in 1..Len(new)
  BY <1>1
<1>5. /\ \E i \in 1..Len(new) : new[i] = quantity
      /\ \A x : (\E i \in 1..Len(log) : log[i] = x) => \E i \in 1..Len(new) : new[i] = x
  BY <1>1, <1>2, <1>3, <1>4
<1> QED BY <1>5 DEF new

\* Nothing leaves the ledger.
LEMMA LedgerKept ==
  ASSUME StockInv, [Next]_vars, NEW p \in Parts, NEW x, Logged(ledger[p], x)
  PROVE  Logged(ledger'[p], x)
<1>1. ASSUME NEW r \in Requests, CommitAdjust(r) PROVE Logged(ledger'[p], x)
  <2>1. PICK o \in Parts, quantity \in Quantities :
          o = req[r].part /\ quantity = req[r].quantity
    BY <1>1, RequestFields DEF CommitAdjust, StockInv, TypeOK
  <2>2. ledger' = [ledger EXCEPT ![o] = @ \o <<quantity>>]
    BY <1>1, <2>1 DEF CommitAdjust, LedgerRow
  <2>3. ledger[o] \in Seq(Quantities) /\ ledger'[o] = ledger[o] \o <<quantity>>
    BY <2>2 DEF StockInv, TypeOK
  <2>4. CASE p = o
    BY <2>3, <2>4, LedgerGrows DEF Logged
  <2>5. CASE p # o
    BY <2>2, <2>5 DEF Logged, StockInv, TypeOK
  <2> QED BY <2>4, <2>5
<1>2. CASE UNCHANGED ledger
  BY <1>2 DEF Logged
<1> QED BY <1>1, <1>2 DEF Next, vars, rows, Begin, CheckCreate, CheckUpdate, CheckAdjust,
          Advance, InsertPart, RefuseInsert, UpdatePart, RefuseUpdate, Increment, Overflow,
          RefuseAdjust, Audit, Lose

\* Every step records only what happened.
LEMMA AuditStep == StockInv /\ AuditInv /\ [Next]_vars => AuditInv'
<1> SUFFICES ASSUME StockInv, AuditInv, [Next]_vars PROVE AuditInv'
  OBVIOUS
<1>0. TypeOK
  BY DEF StockInv
<1>a. ASSUME NEW r \in Requests, req[r].pc = "auditing", req[r].action = "STOCK_ADJUSTED"
      PROVE  /\ Logged(ledger[req[r].part], req[r].quantity)
             /\ \A q \in Requests : req'[q] = req[r] => Logged(ledger'[req'[q].part], req'[q].quantity)
  <2>1. PICK p \in Parts : p = req[r].part
    BY <1>0, <1>a, RequestFields DEF TypeOK
  <2>2. Logged(ledger[p], req[r].quantity)
    BY <1>a, <2>1 DEF AuditInv
  <2>3. Logged(ledger'[p], req[r].quantity)
    BY <2>2, LedgerKept
  <2> QED BY <2>1, <2>2, <2>3 DEF Logged
<1>b. ASSUME NEW r \in Requests, NEW state, Goto(r, state),
             NEW q \in Requests, req'[q].pc = "auditing", req'[q].action = "STOCK_ADJUSTED",
             state.pc = "auditing" => state.action # "STOCK_ADJUSTED"
      PROVE  Logged(ledger'[req'[q].part], req'[q].quantity)
  <2>1. req'[q] = req[q]
    BY <1>0, <1>b DEF Goto, TypeOK
  <2> QED BY <1>a, <1>b, <2>1
<1>1. ASSUME NEW q \in Requests, req'[q].pc = "auditing", req'[q].action = "STOCK_ADJUSTED"
      PROVE  Logged(ledger'[req'[q].part], req'[q].quantity)
  <2>1. ASSUME NEW r \in Requests, CommitAdjust(r)
        PROVE  Logged(ledger'[req'[q].part], req'[q].quantity)
    <3>1. PICK p \in Parts, quantity \in Quantities :
            p = req[r].part /\ quantity = req[r].quantity
      BY <1>0, <2>1, RequestFields DEF CommitAdjust, TypeOK
    <3>2. Goto(r, [pc |-> "auditing", part |-> p, action |-> "STOCK_ADJUSTED",
                   quantity |-> quantity])
      BY <2>1, <3>1 DEF CommitAdjust, Committed
    <3>3. CASE q # r
      <4>1. req'[q] = req[q]
        BY <1>0, <3>2, <3>3 DEF Goto, TypeOK
      <4> QED BY <1>1, <1>a, <4>1
    <3>4. CASE q = r
      <4>1. req'[q].part = p /\ req'[q].quantity = quantity
        BY <1>0, <3>2, <3>4 DEF Goto, TypeOK
      <4>2. ledger[p] \in Seq(Quantities) /\ ledger'[p] = ledger[p] \o <<quantity>>
        BY <1>0, <2>1, <3>1 DEF CommitAdjust, LedgerRow, TypeOK
      <4>3. Logged(ledger'[p], quantity)
        BY <4>2, LedgerGrows DEF Logged
      <4> QED BY <4>1, <4>3 DEF Logged
    <3> QED BY <3>3, <3>4
  <2>2. ASSUME NEW r \in Requests, Begin(r) PROVE Logged(ledger'[req'[q].part], req'[q].quantity)
    <3>1. \E state : state.pc # "auditing" /\ Goto(r, state)
      BY <2>2 DEF Begin, CheckCreate, CheckUpdate, CheckAdjust
    <3> QED BY <1>1, <1>b, <3>1
  <2>3. ASSUME NEW r \in Requests, UpdatePart(r) \/ \E p \in Parts : InsertPart(r, p)
        PROVE  Logged(ledger'[req'[q].part], req'[q].quantity)
    <3>1. \E state : state.action # "STOCK_ADJUSTED" /\ Goto(r, state)
      BY <2>3 DEF UpdatePart, InsertPart, Committed
    <3> QED BY <1>1, <1>b, <3>1
  <2>4. ASSUME NEW r \in Requests,
               \/ RefuseInsert(r) \/ RefuseUpdate(r) \/ Overflow(r) \/ RefuseAdjust(r)
               \/ Audit(r) \/ Lose(r)
        PROVE  Logged(ledger'[req'[q].part], req'[q].quantity)
    BY <1>1, <1>b, <2>4
       DEF RefuseInsert, RefuseUpdate, Overflow, RefuseAdjust, Audit, Lose, Idle
  <2>5. ASSUME NEW r \in Requests, Increment(r)
        PROVE  Logged(ledger'[req'[q].part], req'[q].quantity)
    BY <1>1, <1>b, <2>5 DEF Increment
  <2>6. CASE UNCHANGED vars
    BY <1>1, <1>a, <2>6 DEF vars
  <2> QED BY <2>1, <2>2, <2>3, <2>4, <2>5, <2>6 DEF Next, Advance
<1>2. AuditTrue'
  <2> SUFFICES ASSUME NEW a \in out', a.action = "STOCK_ADJUSTED"
               PROVE  Logged(ledger'[a.part], a.quantity)
    BY DEF AuditTrue, Logged
  <2>1. ASSUME NEW r \in Requests, Audit(r) PROVE Logged(ledger'[a.part], a.quantity)
    <3>1. /\ a.part = req[r].part /\ a.quantity = req[r].quantity
          /\ req[r].pc = "auditing" /\ req[r].action = "STOCK_ADJUSTED"
      BY <2>1 DEF Audit, Silent
    <3>2. Logged(ledger[req[r].part], req[r].quantity) /\ UNCHANGED ledger
      BY <1>a, <2>1, <3>1 DEF Audit, rows
    <3> QED BY <3>1, <3>2 DEF Logged
  <2>2. CASE UNCHANGED vars
    BY <2>2 DEF vars, AuditInv, AuditTrue, Logged
  <2>3. CASE Silent
    BY <2>3 DEF Silent
  <2> QED BY <2>1, <2>2, <2>3
          DEF Next, Begin, CheckCreate, CheckUpdate, CheckAdjust, Advance, InsertPart,
              RefuseInsert, UpdatePart, RefuseUpdate, Increment, Overflow, CommitAdjust,
              RefuseAdjust, Lose
<1> QED BY <1>1, <1>2 DEF AuditInv, Logged

\* For every instance a STOCK_ADJUSTED record stands for a movement of the ledger.
THEOREM AdjustmentsHappened == Spec => []AuditTrue
<1>1. Init => AuditInv
  BY DEF Init, AuditInv, AuditTrue, Idle
<1>2. AuditInv => AuditTrue
  BY DEF AuditInv
<1> QED BY <1>1, <1>2, AuditStep, StockInvariant, PTL DEF Spec

-----------------------------------------------------------------------------
\* Rows are never deleted: what a request has looked up is there when it writes.
FoundThere ==
  \A r \in Requests : req[r].pc \in {"updating", "adjusting", "adjusted"} =>
    partNumber[req[r].part] # "ABSENT"

\* A step that keeps what is there, whose request goes on with a part it found.
LEMMA FoundGoesOn ==
  ASSUME TypeOK, FoundThere,
         \A p \in Parts : partNumber[p] # "ABSENT" => partNumber'[p] # "ABSENT",
         NEW r \in Requests, NEW state, Goto(r, state),
         state.pc \in {"updating", "adjusting", "adjusted"} =>
           state.part \in Parts /\ partNumber[state.part] # "ABSENT"
  PROVE  FoundThere'
<1>1. req'[r] = state /\ \A s \in Requests \ {r} : req'[s] = req[s]
  BY DEF TypeOK, Goto
<1>2. \A s \in Requests : req[s].pc \in {"updating", "adjusting", "adjusted"} => req[s].part \in Parts
  BY RequestFields DEF TypeOK
<1> QED BY <1>1, <1>2 DEF FoundThere

\* Nothing that is written makes a part absent.
LEMMA FoundStep == TypeOK /\ FoundThere /\ [Next]_vars => FoundThere'
<1> SUFFICES ASSUME TypeOK, FoundThere, [Next]_vars PROVE FoundThere'
  OBVIOUS
<1>0. \A r \in Requests : req[r] \in Request
  BY DEF TypeOK
<1>1. ASSUME NEW r \in Requests, NEW n \in Number, CheckCreate(r, n)
      PROVE  FoundThere'
  BY <1>1, FoundGoesOn DEF CheckCreate, rows
<1>2. ASSUME NEW r \in Requests, NEW p \in Parts, NEW n \in PartNumbers \cup {"KEEP"},
             CheckUpdate(r, p, n)
      PROVE  FoundThere'
  BY <1>2, FoundGoesOn DEF CheckUpdate, rows, Stored
<1>3. ASSUME NEW r \in Requests, NEW p \in Parts, NEW quantity \in Quantities,
             CheckAdjust(r, p, quantity)
      PROVE  FoundThere'
  BY <1>3, FoundGoesOn DEF CheckAdjust, rows, Stored
<1>4. ASSUME NEW r \in Requests, NEW p \in Parts, InsertPart(r, p)
      PROVE  FoundThere'
  <2>1. req[r].number # "ABSENT"
    BY <1>0, <1>4, RequestFields, PartNumbersAssumption DEF InsertPart, Number
  <2>2. \A o \in Parts : partNumber[o] # "ABSENT" => partNumber'[o] # "ABSENT"
    BY <1>4, <2>1 DEF InsertPart, TypeOK
  <2> QED BY <1>4, <2>2, FoundGoesOn DEF InsertPart, Committed
<1>5. ASSUME NEW r \in Requests, UpdatePart(r)
      PROVE  FoundThere'
  <2>1. req[r].part \in Parts /\ req[r].number \in PartNumbers \cup {"KEEP"}
    BY <1>0, <1>5, RequestFields DEF UpdatePart
  <2>2. \A o \in Parts : partNumber[o] # "ABSENT" => partNumber'[o] # "ABSENT"
    BY <1>5, <2>1, PartNumbersAssumption DEF UpdatePart, TypeOK
  <2> QED BY <1>5, <2>2, FoundGoesOn DEF UpdatePart, Committed
<1>6. ASSUME NEW r \in Requests, Increment(r)
      PROVE  FoundThere'
  <2>1. req[r].part \in Parts /\ partNumber[req[r].part] # "ABSENT"
    BY <1>0, <1>6, RequestFields DEF Increment, FoundThere
  <2> QED BY <1>6, <2>1, FoundGoesOn DEF Increment, rows
<1>7. ASSUME NEW r \in Requests, CommitAdjust(r)
      PROVE  FoundThere'
  BY <1>7, FoundGoesOn DEF CommitAdjust, Committed
<1>8. ASSUME NEW r \in Requests,
             \/ RefuseInsert(r) \/ RefuseUpdate(r) \/ Overflow(r) \/ RefuseAdjust(r)
             \/ Audit(r) \/ Lose(r)
      PROVE  FoundThere'
  <2>1. Goto(r, Idle) /\ UNCHANGED partNumber
    BY <1>8 DEF RefuseInsert, RefuseUpdate, Overflow, RefuseAdjust, Audit, Lose, rows
  <2> QED BY <2>1, FoundGoesOn DEF Idle
<1>9. CASE UNCHANGED vars
  BY <1>9 DEF vars, rows, FoundThere
<1> QED
  BY <1>1, <1>2, <1>3, <1>4, <1>5, <1>6, <1>7, <1>8, <1>9 DEF Next, Begin, Advance

\* A number that is free among the stored parts is free among all.
LEMMA NumberWrites ==
  ASSUME NEW p \in Parts, NEW n, NumberFree(p, n),
         partNumber' = [partNumber EXCEPT ![p] = n], UNCHANGED <<stock, ledger>>
  PROVE  Rooms!Write(p, n)
  BY PartNumbersAssumption DEF NumberFree, Stored, Rooms!Write

\* A commit of an adjustment is a movement of the stock of that moment.
LEMMA CommitMoves ==
  ASSUME StockInv, FoundThere, NEW r \in Requests, CommitAdjust(r)
  PROVE  \E p \in Parts, quantity \in Quantities : Rooms!Move(p, quantity)
<1> DEFINE p == req[r].part
           quantity == req[r].quantity
<1>0. TypeOK /\ req[r].pc = "adjusted"
  BY DEF StockInv, CommitAdjust
<1>1. p \in Parts /\ quantity \in Quantities /\ req[r].result \in StockColumn
  BY <1>0, RequestFields DEF TypeOK
<1>2. req[r].result = stock[p] + quantity /\ req[r].result >= 0
  BY <1>0 DEF StockInv, ResultIsCurrent, CommitAdjust, Enough
<1>3. stock[p] + quantity \in 0..MaxStock
  BY <1>1, <1>2, MaxStockAssumption DEF StockColumn
<1>4. partNumber[p] # "ABSENT"
  BY <1>0 DEF FoundThere
<1>5. stock' = [stock EXCEPT ![p] = @ + quantity]
  BY <1>2 DEF CommitAdjust
<1>6. ledger[p] \in Seq(Quantities)
  BY <1>0, <1>1 DEF TypeOK
<1>7. ledger[p] \o <<quantity>> = Append(ledger[p], quantity)
  BY <1>1, <1>6
<1>8. ledger' = [ledger EXCEPT ![p] = Append(@, quantity)]
  BY <1>7 DEF CommitAdjust, LedgerRow
<1>9. partNumber' = partNumber
  BY DEF CommitAdjust
<1> QED BY <1>1, <1>3, <1>4, <1>5, <1>8, <1>9 DEF Rooms!Move

\* Every step of the service is a step of the stockroom, or none.
LEMMA StockroomStep ==
  ASSUME StockInv, FoundThere, [Next]_vars
  PROVE  [Rooms!Next]_Rooms!vars
<1>0. TypeOK /\ \A r \in Requests : req[r] \in Request
  BY DEF StockInv, TypeOK
<1>1. ASSUME NEW r \in Requests, NEW p \in Parts, InsertPart(r, p)
      PROVE  \E n \in PartNumbers \cup {"NULL"} : Rooms!Create(p, n)
  <2>1. req[r].number \in PartNumbers \cup {"NULL"}
    BY <1>0, <1>1, RequestFields DEF InsertPart, Number
  <2>2. Rooms!Write(p, req[r].number)
    BY <1>1, NumberWrites DEF InsertPart
  <2>3. partNumber[p] = "ABSENT"
    BY <1>1 DEF InsertPart, Stored
  <2> QED BY <2>1, <2>2, <2>3 DEF Rooms!Create
<1>2. ASSUME NEW r \in Requests, UpdatePart(r)
      PROVE  \/ UNCHANGED Rooms!vars
             \/ \E p \in Parts, n \in PartNumbers : Rooms!Renumber(p, n)
  <2>1. /\ req[r].part \in Parts /\ req[r].number \in PartNumbers \cup {"KEEP"}
        /\ partNumber[req[r].part] # "ABSENT"
    BY <1>0, <1>2, RequestFields DEF UpdatePart, FoundThere
  <2>2. UNCHANGED <<stock, ledger>> /\ NumberFree(req[r].part, req[r].number)
    BY <1>2 DEF UpdatePart, UpdatedStock
  <2>3. CASE req[r].number = "KEEP"
    <3>1. partNumber' = partNumber
      BY <1>0, <1>2, <2>1, <2>3 DEF UpdatePart, TypeOK
    <3> QED BY <2>2, <3>1 DEF Rooms!vars
  <2>4. CASE req[r].number # "KEEP"
    <3>1. partNumber' = [partNumber EXCEPT ![req[r].part] = req[r].number]
      BY <1>2, <2>4 DEF UpdatePart
    <3>2. Rooms!Write(req[r].part, req[r].number)
      BY <2>1, <2>2, <3>1, NumberWrites
    <3> QED BY <2>1, <2>4, <3>2 DEF Rooms!Renumber
  <2> QED BY <2>3, <2>4
<1>3. \/ UNCHANGED <<partNumber, stock, ledger>>
      \/ \E r \in Requests :
           (\E p \in Parts : InsertPart(r, p)) \/ UpdatePart(r) \/ CommitAdjust(r)
  BY DEF Next, vars, rows, Begin, CheckCreate, CheckUpdate, CheckAdjust, Advance,
         RefuseInsert, RefuseUpdate, Increment, Overflow, RefuseAdjust, Audit, Lose
<1>4. CASE UNCHANGED <<partNumber, stock, ledger>>
  BY <1>4 DEF Rooms!vars
<1> QED BY <1>1, <1>2, <1>3, <1>4, CommitMoves DEF Rooms!Next

\* For any number of parts, clients and adjustments, however they interleave and
\* are refused or rolled back: every commit is one atomic step of the stockroom.
THEOREM StockroomImplemented == Spec => ImplementsStockroom
<1>1. Init => Rooms!Init
  BY DEF Init, Rooms!Init
<1>2. Init => FoundThere
  BY DEF Init, FoundThere, Idle
<1>3. StockInv /\ FoundThere /\ [Next]_vars => [Rooms!Next]_Rooms!vars
  BY StockroomStep
<1>4. StockInv => TypeOK
  BY DEF StockInv
<1>5. Spec => Rooms!Init /\ [][Rooms!Next]_Rooms!vars
  BY <1>1, <1>2, <1>3, <1>4, FoundStep, StockInvariant, PTL DEF Spec
<1> QED BY <1>5 DEF ImplementsStockroom, Rooms!Spec
=============================================================================
