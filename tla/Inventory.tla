----------------------------- MODULE Inventory -----------------------------
(***************************************************************************)
(* PartsService: the parts of one tenant, their stock and the ledger of    *)
(* stock movements.  adjustStock is an interactive transaction: the atomic *)
(* increment takes the row lock and returns the new quantity, the service  *)
(* looks at it, and only then the ledger row is inserted and everything is *)
(* committed.  Others read the committed row meanwhile, and wait to write  *)
(* it.  404 and 400 answers before any write change nothing.               *)
(***************************************************************************)
EXTENDS Integers, Sequences, FiniteSets

CONSTANTS Parts,        \* ids a created part may get (fresh uuids)
          PartNumbers,  \* the values of the optional partNumber
          Requests,     \* slots for concurrently running HTTP requests
          Quantities,   \* the adjustments clients ask for
          MaxStock,     \* the largest value of the 32-bit column
          MaxLedger     \* bound: no new adjustment of a part after so many

ASSUME RequestsAssumption == "FREE" \notin Requests
ASSUME PartNumbersAssumption == "ABSENT" \notin PartNumbers
ASSUME QuantitiesAssumption == Quantities \subseteq Int
ASSUME MaxStockAssumption == MaxStock \in Nat
ASSUME MaxLedgerAssumption == MaxLedger \in Nat

VARIABLES partNumber,  \* parts.partNumber, "NULL", or "ABSENT" without a row
          stock,       \* parts.stockQuantity, as committed
          ledger,      \* inventory_transactions.quantity of the part
          lock,        \* the request whose transaction holds the row, or "FREE"
          out,         \* the audit record written by the latest step
          req          \* request slot -> program counter and locals

vars == <<partNumber, stock, ledger, lock, out, req>>
rows == <<partNumber, stock, ledger>>

-----------------------------------------------------------------------------
Idle == [pc |-> "idle"]
Number == PartNumbers \cup {"NULL"}
AuditAction == {"PART_CREATED", "PART_UPDATED", "STOCK_ADJUSTED"}
AuditRecord == [part: Parts, action: AuditAction, quantity: Quantities \cup {0}]

\* What the column can hold.
StockColumn == -(MaxStock + 1)..MaxStock

Request ==
  {Idle}
  \cup [pc: {"creating"}, number: Number]
  \cup [pc: {"updating"}, part: Parts, number: PartNumbers \cup {"KEEP"},
        seenStock: 0..MaxStock]
  \cup [pc: {"adjusting"}, part: Parts, quantity: Quantities]
  \cup [pc: {"adjusted"}, part: Parts, quantity: Quantities,
        result: StockColumn]
  \cup [pc: {"auditing"}, part: Parts, action: AuditAction,
        quantity: Quantities \cup {0}]

Stored == {p \in Parts : partNumber[p] # "ABSENT"}

\* No other part of the tenant has the number; NULLs do not collide.  The look-ups
\* ask for it, and so does the unique index when the row is written.
NumberFree(p, n) ==
  n \in PartNumbers => \A o \in Stored \ {p} : partNumber[o] # n

Goto(r, state) == req' = [req EXCEPT ![r] = state]

Committed(r, p, action, quantity) ==
  Goto(r, [pc |-> "auditing", part |-> p, action |-> action, quantity |-> quantity])

Silent == out' = {}

-----------------------------------------------------------------------------
Init ==
  /\ partNumber = [p \in Parts |-> "ABSENT"]
  /\ stock = [p \in Parts |-> 0]
  /\ ledger = [p \in Parts |-> <<>>]
  /\ lock = [p \in Parts |-> "FREE"]
  /\ out = {}
  /\ req = [r \in Requests |-> Idle]

\* Bound: there is an id left for every create that is under way.
IdLeft == Cardinality({r \in Requests : req[r].pc = "creating"})
            < Cardinality(Parts \ Stored)

\* create: the look-up of the number, if there is one ...
CheckCreate(r, n) ==
  /\ req[r] = Idle
  /\ IdLeft
  /\ \A p \in Stored : n \in PartNumbers => partNumber[p] # n
  /\ Goto(r, [pc |-> "creating", number |-> n])
  /\ Silent
  /\ UNCHANGED <<rows, lock>>

\* ... the INSERT, of a part without stock: the DTO has no stockQuantity ...
InsertPart(r, p) ==
  /\ req[r].pc = "creating"
  /\ p \notin Stored
  /\ NumberFree(p, req[r].number)
  /\ partNumber' = [partNumber EXCEPT ![p] = req[r].number]
  /\ Committed(r, p, "PART_CREATED", 0)
  /\ Silent
  /\ UNCHANGED <<stock, ledger, lock>>

\* ... which the unique index may refuse in spite of the look-up.
RefuseInsert(r) ==
  /\ req[r].pc = "creating"
  /\ \E p \in Parts \ Stored : ~NumberFree(p, req[r].number)
  /\ Goto(r, Idle)
  /\ Silent
  /\ UNCHANGED <<rows, lock>>

\* update: the look-ups; `existing' holds the stock of that moment ...
CheckUpdate(r, p, n) ==
  /\ req[r] = Idle
  /\ p \in Stored
  /\ NumberFree(p, n)
  /\ Goto(r, [pc |-> "updating", part |-> p, number |-> n, seenStock |-> stock[p]])
  /\ Silent
  /\ UNCHANGED <<rows, lock>>

\* Mutant: the whole row that was read is written back.
UpdatedStockAsRead(q) == [stock EXCEPT ![q.part] = q.seenStock]

\* The DTO has no stockQuantity, so the UPDATE leaves the column alone.
UpdatedStock(q) == stock

\* ... and the UPDATE of the columns that were given, under the row lock.
UpdatePart(r) ==
  LET q == req[r]
  IN /\ q.pc = "updating"
     /\ lock[q.part] = "FREE"
     /\ NumberFree(q.part, q.number)
     /\ partNumber' = [partNumber EXCEPT ![q.part] =
                         IF q.number = "KEEP" THEN @ ELSE q.number]
     /\ stock' = UpdatedStock(q)
     /\ Committed(r, q.part, "PART_UPDATED", 0)
     /\ Silent
     /\ UNCHANGED <<ledger, lock>>

RefuseUpdate(r) ==
  /\ req[r].pc = "updating"
  /\ lock[req[r].part] = "FREE"
  /\ ~NumberFree(req[r].part, req[r].number)
  /\ Goto(r, Idle)
  /\ Silent
  /\ UNCHANGED <<rows, lock>>

\* adjustStock: findOne.
CheckAdjust(r, p, quantity) ==
  /\ req[r] = Idle
  /\ p \in Stored
  /\ Len(ledger[p]) < MaxLedger
  /\ Goto(r, [pc |-> "adjusting", part |-> p, quantity |-> quantity])
  /\ Silent
  /\ UNCHANGED <<rows, lock>>

\* Mutant: an UPDATE that does not wait for the row.
RowFreeUnchecked(p) == TRUE

RowFree(p) == lock[p] = "FREE"

\* UPDATE ... SET "stockQuantity" = "stockQuantity" + $1: the row is locked,
\* and its latest committed value is incremented.
Increment(r) ==
  LET q == req[r]
  IN /\ q.pc = "adjusting"
     /\ RowFree(q.part)
     /\ stock[q.part] + q.quantity \in StockColumn
     /\ lock' = [lock EXCEPT ![q.part] = r]
     /\ Goto(r, [pc |-> "adjusted", part |-> q.part, quantity |-> q.quantity,
                 result |-> stock[q.part] + q.quantity])
     /\ Silent
     /\ UNCHANGED rows

\* "integer out of range": the transaction is rolled back.
Overflow(r) ==
  /\ req[r].pc = "adjusting"
  /\ RowFree(req[r].part)
  /\ stock[req[r].part] + req[r].quantity \notin StockColumn
  /\ Goto(r, Idle)
  /\ Silent
  /\ UNCHANGED <<rows, lock>>

\* Mutant: a row is left out of the ledger when nothing was moved out.
LedgerRowOfRemoval(q) == IF q.quantity < 0 THEN <<q.quantity>> ELSE <<>>

LedgerRow(q) == <<q.quantity>>

\* Mutant: the sign of the result is not looked at.
EnoughUnchecked(result) == TRUE

Enough(result) == result >= 0

\* The ledger row is inserted and the transaction commits.
CommitAdjust(r) ==
  LET q == req[r]
  IN /\ q.pc = "adjusted"
     /\ Enough(q.result)
     /\ stock' = [stock EXCEPT ![q.part] = q.result]
     /\ ledger' = [ledger EXCEPT ![q.part] = @ \o LedgerRow(q)]
     /\ lock' = [lock EXCEPT ![q.part] = "FREE"]
     /\ Committed(r, q.part, "STOCK_ADJUSTED", q.quantity)
     /\ Silent
     /\ UNCHANGED partNumber

\* Mutant: the transaction is abandoned without a ROLLBACK.
ReleasedNothing(r) == lock

\* A ROLLBACK gives the rows of the request free.
Released(r) == [p \in Parts |-> IF lock[p] = r THEN "FREE" ELSE lock[p]]

\* 'Cannot reduce stock below 0': the exception rolls the increment back.
RefuseAdjust(r) ==
  /\ req[r].pc = "adjusted"
  /\ ~Enough(req[r].result)
  /\ lock' = Released(r)
  /\ Goto(r, Idle)
  /\ Silent
  /\ UNCHANGED rows

\* logEvent catches its errors: the record may be missing.
Audit(r) ==
  LET q == req[r]
  IN /\ q.pc = "auditing"
     /\ \/ out' = {[part |-> q.part, action |-> q.action, quantity |-> q.quantity]}
        \/ Silent
     /\ Goto(r, Idle)
     /\ UNCHANGED <<rows, lock>>

\* The serving process dies, the transaction times out, or the database
\* refuses a quantity that is not an integer: what is open is rolled back.
Lose(r) ==
  /\ req[r].pc # "idle"
  /\ lock' = Released(r)
  /\ Goto(r, Idle)
  /\ Silent
  /\ UNCHANGED rows

\* A request arrives and passes the checks before its first write.
Begin(r) ==
  \/ \E n \in Number : CheckCreate(r, n)
  \/ \E p \in Parts, n \in PartNumbers \cup {"KEEP"} : CheckUpdate(r, p, n)
  \/ \E p \in Parts, quantity \in Quantities : CheckAdjust(r, p, quantity)

\* The request takes its next step.
Advance(r) ==
  \/ \E p \in Parts : InsertPart(r, p)
  \/ RefuseInsert(r) \/ UpdatePart(r) \/ RefuseUpdate(r)
  \/ Increment(r) \/ Overflow(r) \/ CommitAdjust(r) \/ RefuseAdjust(r)
  \/ Audit(r)

Next == \E r \in Requests : Begin(r) \/ Advance(r) \/ Lose(r)

Spec == Init /\ [][Next]_vars

\* A running request goes on, and PostgreSQL serves the waiters of a row lock
\* in turn: who waits for a row that is free again and again gets it.
Fairness == \A r \in Requests : SF_vars(Advance(r))

FairSpec == Spec /\ Fairness

-----------------------------------------------------------------------------
\* Every variable has the shape of the columns and locals it stands for.
TypeOK ==
  /\ partNumber \in [Parts -> Number \cup {"ABSENT"}]
  /\ stock \in [Parts -> 0..MaxStock]
  /\ ledger \in [Parts -> Seq(Quantities)]
  /\ lock \in [Parts -> Requests \cup {"FREE"}]
  /\ out \subseteq AuditRecord
  /\ req \in [Requests -> Request]

\* The committed stock of every part is what its ledger adds up to, starting
\* from nothing, and no prefix of the ledger ever went below zero or above
\* the column: concurrent adjustments, refusals, overflows, roll-backs and
\* concurrent edits of the part lose no movement and invent none.
LedgerExplainsStock ==
  \A p \in Parts :
    \E run \in [0..Len(ledger[p]) -> 0..MaxStock] :
      /\ run[0] = 0
      /\ \A i \in 1..Len(ledger[p]) : run[i] = run[i - 1] + ledger[p][i]
      /\ run[Len(ledger[p])] = stock[p]

\* The quantity a transaction was given back is still the stock it changes:
\* the row lock keeps every other writer away until it commits.
ResultIsCurrent ==
  \A r \in Requests : req[r].pc = "adjusted" =>
    /\ lock[req[r].part] = r
    /\ req[r].result = stock[req[r].part] + req[r].quantity

\* A STOCK_ADJUSTED record stands for a committed movement.
AuditTrue ==
  \A a \in out : a.action = "STOCK_ADJUSTED" =>
    \E i \in 1..Len(ledger[a.part]) : ledger[a.part][i] = a.quantity

\* However requests interleave, are refused or rolled back: what they commit are
\* the atomic steps of Stockroom - a movement starts from the stock of its own
\* moment and is in the ledger, and a number that is written is nobody else's -
\* although the service has looked at both in earlier statements.
Rooms == INSTANCE Stockroom

ImplementsStockroom == Rooms!Spec

\* Every request is answered: no row stays locked by a request that ended,
\* and nobody waits for a row for ever.
Answered == \A r \in Requests : (req[r] # Idle) ~> (req[r] = Idle)
=============================================================================
