----------------------------- MODULE PageProofs -----------------------------
(***************************************************************************)
(* Of every page, for any number of changes, polls and writes of others:   *)
(* a spinner waits for something that will clear it, and a page shows what *)
(* its own user changed, or will with a fetch that no answer has overtaken.*)
(***************************************************************************)
EXTENDS Pages, TLAPS

-----------------------------------------------------------------------------
\* What the pages have in common: no cell belongs to two loads, a change is
\* followed by the loads of the cells it writes, and a load that sets isLoading
\* clears it, as one that the page begins with does when it mounts with a spinner.
CellsIn(p, l) == UNION {p.loads[l][i] : i \in DOMAIN p.loads[l]}

Separate(p) ==
  \A l, m \in DOMAIN p.loads : l # m => CellsIn(p, l) \cap CellsIn(p, m) = {}

Refreshed(p) ==
  \A h \in DOMAIN p.changes :
    /\ p.changes[h].then \subseteq DOMAIN p.loads
    /\ \A l \in DOMAIN p.loads :
         p.changes[h].writes \cap CellsIn(p, l) # {} => l \in p.changes[h].then

Cleared(g) ==
  LET p == AllPages[g]
  IN p.spins \subseteq p.ends /\ (p.ends = {} \/ p.ends \cap p.mounts # {} \/ g = "customers")

\* The loads that a timer or a poll begins, and where the search is read.
Special(g) ==
  LET p == AllPages[g]
  IN /\ g = "customers" => "customers" \in DOMAIN p.loads
     /\ g = "bell" => "bell" \in DOMAIN p.loads
     /\ \A l \in DOMAIN p.loads : "query" \in CellsIn(p, l) => g = "customers" /\ l = "customers"

WellMade(g) ==
  LET p == AllPages[g]
  IN /\ p.mounts \subseteq DOMAIN p.loads
     /\ \A l \in DOMAIN p.loads : DOMAIN p.loads[l] \subseteq Nat
     /\ Separate(p) /\ Refreshed(p) /\ Cleared(g) /\ Special(g)

\* A page with one load and one stage of queries.
Simple(g, l, cells) ==
  LET p == AllPages[g]
  IN /\ p.loads = [x \in {l} |-> <<cells>>]
     /\ p.mounts \subseteq {l}
     /\ \A h \in DOMAIN p.changes :
          /\ p.changes[h].then \subseteq {l}
          /\ p.changes[h].writes \cap cells # {} => p.changes[h].then = {l}
     /\ p.spins \subseteq p.ends /\ p.ends \subseteq {l}
     /\ p.ends = {} \/ p.mounts = {l} \/ g = "customers"
     /\ g = "customers" => l = "customers"
     /\ g = "bell" => l = "bell"
     /\ "query" \in cells => g = "customers" /\ l = "customers"

\* A page with one load is well made.
LEMMA OneLoad ==
  ASSUME NEW g \in DOMAIN AllPages, NEW l, NEW cells, Simple(g, l, cells)
  PROVE  WellMade(g)
<1> DEFINE p == AllPages[g]
<1>1. /\ DOMAIN p.loads = {l} /\ p.loads[l] = <<cells>> /\ DOMAIN p.loads[l] = {1}
      /\ p.loads[l][1] = cells
  BY DEF Simple
<1>2. CellsIn(p, l) = cells
  BY <1>1 DEF CellsIn
<1> HIDE DEF p
<1>3. Separate(p) /\ Refreshed(p)
  BY <1>1, <1>2 DEF Separate, Refreshed, Simple, p
<1>4. Cleared(g)
  BY <1>1 DEF Cleared, Simple, p
<1>5. Special(g)
  BY <1>1, <1>2 DEF Special, Simple, p
<1> QED BY <1>1, <1>3, <1>4, <1>5 DEF WellMade, Simple, p

\* The page of a work order has three loads, one of two stages.
LEMMA WorkOrderMade == WellMade("workOrder")
<1> DEFINE p == AllPages["workOrder"]
<1>0. p = WorkOrderDetailsPage
  BY DEF AllPages
<1>1. /\ DOMAIN p.loads = {"order", "diagnosis", "estimates"}
      /\ p.mounts = {"order", "diagnosis", "estimates"}
      /\ p.loads["order"] = <<{"order"}, {"timeline"}>>
      /\ p.loads["diagnosis"] = <<{"diagnosis"}>>
      /\ p.loads["estimates"] = <<{"estimates"}>>
      /\ p.spins = {"order"} /\ p.ends = {"order"}
  BY <1>0 DEF WorkOrderDetailsPage, FindOneOrder
<1>2. /\ DOMAIN p.changes = {"status", "assign", "diagnose", "estimate", "send", "invoice"}
      /\ p.changes["status"] = Change({"order", "timeline"}, {"order"})
      /\ p.changes["assign"] = Change({"order", "timeline"}, {"order"})
      /\ p.changes["diagnose"] = Change({"diagnosis"}, {"diagnosis"})
      /\ p.changes["estimate"] = Change({"estimates"}, {"estimates"})
      /\ p.changes["send"] = Change({"estimates"}, {"estimates"})
      /\ p.changes["invoice"] = Change({}, {})
  BY <1>0 DEF WorkOrderDetailsPage
<1> HIDE DEF p
<1>3. /\ CellsIn(p, "order") = {"order", "timeline"}
      /\ CellsIn(p, "diagnosis") = {"diagnosis"}
      /\ CellsIn(p, "estimates") = {"estimates"}
  BY <1>1 DEF CellsIn
<1>4. Separate(p)
  BY <1>1, <1>3 DEF Separate
<1>5. Refreshed(p)
  BY <1>1, <1>2, <1>3 DEF Refreshed, Change
<1>6. Cleared("workOrder")
  BY <1>1 DEF Cleared, p
<1>7. Special("workOrder")
  BY <1>1, <1>3 DEF Special, p
<1>8. \A l \in DOMAIN p.loads : DOMAIN p.loads[l] \subseteq Nat
  BY <1>1
<1> QED BY <1>1, <1>4, <1>5, <1>6, <1>7, <1>8 DEF WellMade, p

\* The dashboard has one load of five stages.
LEMMA DashboardMade == WellMade("dashboard")
<1> DEFINE p == AllPages["dashboard"]
<1>0. p = DashboardPage
  BY DEF AllPages
<1>1. /\ DOMAIN p.loads = {"metrics"} /\ p.mounts = {"metrics"} /\ DOMAIN p.changes = {}
      /\ p.loads["metrics"] = DashboardMetrics
      /\ p.spins = {} /\ p.ends = {"metrics"}
  BY <1>0 DEF DashboardPage, NoChange
<1>2. /\ DOMAIN DashboardMetrics = 1..5
      /\ DashboardMetrics[1] =
           {"today", "month", "revenue", "pending", "statuses", "workload", "usage"}
      /\ DashboardMetrics[2] = {"average"} /\ DashboardMetrics[3] = {"lowStock"}
      /\ DashboardMetrics[4] = {"technicians"} /\ DashboardMetrics[5] = {"parts"}
  BY DEF DashboardMetrics
<1> HIDE DEF p
<1>3. "query" \notin CellsIn(p, "metrics")
  BY <1>1, <1>2 DEF CellsIn
<1>4. Separate(p) /\ Refreshed(p)
  BY <1>1 DEF Separate, Refreshed
<1>5. Cleared("dashboard")
  BY <1>1 DEF Cleared, p
<1>6. Special("dashboard")
  BY <1>1, <1>3 DEF Special, p
<1> QED BY <1>1, <1>2, <1>4, <1>5, <1>6 DEF WellMade, p

\* Every page is made like that.
LEMMA PagesMade == \A g \in DOMAIN AllPages : WellMade(g)
<1>1. DOMAIN AllPages = {"workOrders", "workOrder", "dashboard", "estimate", "invoices", "parts",
                         "suppliers", "requests", "newRequest", "customers", "customer", "bell"}
  BY DEF AllPages
<1>2. WellMade("workOrders")
  <2> DEFINE p == AllPages["workOrders"]
  <2>1. /\ p.loads = [x \in {"list"} |-> <<{"orders"}>>]
        /\ p.mounts = {"list"}
        /\ p.spins = {} /\ p.ends = {"list"}
        /\ DOMAIN p.changes = {}
    BY DEF AllPages, WorkOrdersPage, Lists, NoChange
  <2>2. Simple("workOrders", "list", {"orders"})
    BY <2>1 DEF Simple
  <2> QED BY <1>1, <2>2, OneLoad
<1>3. WellMade("estimate")
  <2> DEFINE p == AllPages["estimate"]
  <2>1. /\ p.loads = [x \in {"estimate"} |-> <<{"estimate"}>>]
        /\ p.mounts = {"estimate"}
        /\ p.spins = {"estimate"} /\ p.ends = {"estimate"}
        /\ DOMAIN p.changes = {"decide"}
        /\ p.changes["decide"] = Change({"estimate"}, {"estimate"})
    BY DEF AllPages, CustomerEstimateReviewPage, Lists
  <2>2. Simple("estimate", "estimate", {"estimate"})
    BY <2>1 DEF Simple, Change
  <2> QED BY <1>1, <2>2, OneLoad
<1>4. WellMade("invoices")
  <2> DEFINE p == AllPages["invoices"]
  <2>1. /\ p.loads = [x \in {"invoices"} |-> <<{"invoices"}>>]
        /\ p.mounts = {"invoices"}
        /\ p.spins = {} /\ p.ends = {"invoices"}
        /\ DOMAIN p.changes = {"pay"}
        /\ p.changes["pay"] = Change({"invoices"}, {"invoices"})
    BY DEF AllPages, InvoicesPage, Lists
  <2>2. Simple("invoices", "invoices", {"invoices"})
    BY <2>1 DEF Simple, Change
  <2> QED BY <1>1, <2>2, OneLoad
<1>5. WellMade("parts")
  <2> DEFINE p == AllPages["parts"]
  <2>1. /\ p.loads = [x \in {"stock"} |-> <<{"stock", "alert", "suppliers"}>>]
        /\ p.mounts = {"stock"}
        /\ p.spins = {} /\ p.ends = {"stock"}
        /\ DOMAIN p.changes = {"save", "adjust"}
        /\ p.changes["save"] = Change({"stock", "alert"}, {"stock"})
        /\ p.changes["adjust"] = Change({"stock", "alert"}, {"stock"})
    BY DEF AllPages, PartsList, Lists
  <2>2. Simple("parts", "stock", {"stock", "alert", "suppliers"})
    BY <2>1 DEF Simple, Change
  <2> QED BY <1>1, <2>2, OneLoad
<1>6. WellMade("suppliers")
  <2> DEFINE p == AllPages["suppliers"]
  <2>1. /\ p.loads = [x \in {"suppliers"} |-> <<{"suppliers"}>>]
        /\ p.mounts = {"suppliers"}
        /\ p.spins = {} /\ p.ends = {"suppliers"}
        /\ DOMAIN p.changes = {"save"}
        /\ p.changes["save"] = Change({"suppliers"}, {"suppliers"})
    BY DEF AllPages, SuppliersList, Lists
  <2>2. Simple("suppliers", "suppliers", {"suppliers"})
    BY <2>1 DEF Simple, Change
  <2> QED BY <1>1, <2>2, OneLoad
<1>7. WellMade("requests")
  <2> DEFINE p == AllPages["requests"]
  <2>1. /\ p.loads = [x \in {"requests"} |-> <<{"requests"}>>]
        /\ p.mounts = {"requests"}
        /\ p.spins = {"requests"} /\ p.ends = {"requests"}
        /\ DOMAIN p.changes = {"state"}
        /\ p.changes["state"] = Change({"requests"}, {"requests"})
    BY DEF AllPages, ServiceRequestsPage, Lists
  <2>2. Simple("requests", "requests", {"requests"})
    BY <2>1 DEF Simple, Change
  <2> QED BY <1>1, <2>2, OneLoad
<1>8. WellMade("newRequest")
  <2> DEFINE p == AllPages["newRequest"]
  <2>1. /\ p.loads = [x \in {"assets"} |-> <<{"assets"}>>]
        /\ p.mounts = {"assets"}
        /\ p.spins = {} /\ p.ends = {"assets"}
        /\ DOMAIN p.changes = {"submit"}
        /\ p.changes["submit"] = Change({}, {})
    BY DEF AllPages, ServiceRequestForm, Lists
  <2>2. Simple("newRequest", "assets", {"assets"})
    BY <2>1 DEF Simple, Change
  <2> QED BY <1>1, <2>2, OneLoad
<1>9. WellMade("customers")
  <2> DEFINE p == AllPages["customers"]
  <2>1. /\ p.loads = [x \in {"customers"} |-> <<{"query", "customers"}>>]
        /\ p.mounts = {}
        /\ p.spins = {"customers"} /\ p.ends = {"customers"}
        /\ DOMAIN p.changes = {}
    BY DEF AllPages, CustomersPage, Lists, NoChange
  <2>2. Simple("customers", "customers", {"query", "customers"})
    BY <2>1 DEF Simple
  <2> QED BY <1>1, <2>2, OneLoad
<1>10. WellMade("customer")
  <2> DEFINE p == AllPages["customer"]
  <2>1. /\ p.loads = [x \in {"profile"} |-> <<{"profile"}>>]
        /\ p.mounts = {"profile"}
        /\ p.spins = {} /\ p.ends = {"profile"}
        /\ DOMAIN p.changes = {}
    BY DEF AllPages, CustomerProfilePage, Lists, NoChange
  <2>2. Simple("customer", "profile", {"profile"})
    BY <2>1 DEF Simple
  <2> QED BY <1>1, <2>2, OneLoad
<1>11. WellMade("bell")
  <2> DEFINE p == AllPages["bell"]
  <2>1. /\ p.loads = [x \in {"bell"} |-> <<{"bell"}>>]
        /\ p.mounts = {"bell"}
        /\ p.spins = {} /\ p.ends = {}
        /\ DOMAIN p.changes = {}
    BY DEF AllPages, NotificationDropdown, Lists, NoChange
  <2>2. Simple("bell", "bell", {"bell"})
    BY <2>1 DEF Simple
  <2> QED BY <1>1, <2>2, OneLoad
<1> QED
  BY <1>1, <1>2, <1>3, <1>4, <1>5, <1>6, <1>7, <1>8, <1>9, <1>10, <1>11,
     WorkOrderMade, DashboardMade

-----------------------------------------------------------------------------
\* What is on its way is between its beginning and now.
TypesHold ==
  /\ page \in DOMAIN AllPages
  /\ now \in Nat
  /\ timer \in BOOLEAN /\ (timer => page = "customers")
  /\ shown \in [Cells -> Nat] /\ promised \in [Cells -> 0..now]
  /\ begun \in [Loads -> Nat] /\ latest \in [Loads -> Nat]
  /\ \A l \in Loads : latest[l] <= begun[l]

FetchesHold ==
  \A f \in fetches :
    /\ f = [load |-> f.load, nth |-> f.nth, since |-> f.since, read |-> f.read]
    /\ f.load \in Loads
    /\ f.nth \in 1..begun[f.load]
    /\ f.since \in 0..now
    /\ DOMAIN f.read \subseteq CellsOf(f.load)
    /\ \A c \in DOMAIN f.read : f.read[c] \in f.since..now

PressesHold ==
  \A k \in presses :
    /\ k = [change |-> k.change, nth |-> k.nth, at |-> k.at]
    /\ k.change \in DOMAIN This.changes /\ k.at \in 0..now

PageInv == TypesHold /\ FetchesHold /\ PressesHold

\* A fetch that will show a change: none that began later has ended.
Coming(l, c) ==
  \E f \in fetches : f.load = l /\ f.since >= promised[c] /\ f.nth > latest[l]

Searching(c) == c = "query" /\ timer

Settled(l, c) ==
  Unreadable(c) \/ l \in excused \/ Searching(c) \/ shown[c] >= promised[c] \/ Coming(l, c)

\* A fetch that is too old for a change is followed by one that is not, or was.
Followed(f, c) ==
  \/ f.since >= promised[c] \/ Searching(c)
  \/ latest[f.load] > f.nth
  \/ \E g \in fetches : g.load = f.load /\ g.since >= promised[c] /\ g.nth > f.nth

OwnChangeInv ==
  /\ PageInv
  /\ \A f \in fetches : \A c \in CellsOf(f.load) : Followed(f, c)
  /\ \A l \in Loads : \A c \in CellsOf(l) : Settled(l, c)

-----------------------------------------------------------------------------
\* The facts about the page that is open, and that it stays open.
LEMMA ThisPage ==
  ASSUME page \in DOMAIN AllPages
  PROVE  /\ This.mounts \subseteq Loads
         /\ \A l \in Loads : CellsOf(l) \subseteq Cells /\ DOMAIN This.loads[l] \subseteq Nat
         /\ \A l, m \in Loads : l # m => CellsOf(l) \cap CellsOf(m) = {}
         /\ \A h \in DOMAIN This.changes :
              /\ Refetched(h) \subseteq Loads
              /\ \A l \in Loads :
                   This.changes[h].writes \cap CellsOf(l) # {} => l \in Refetched(h)
         /\ This.spins \subseteq This.ends
         /\ This.ends = {} \/ This.ends \cap This.mounts # {} \/ page = "customers"
         /\ page = "customers" => "customers" \in Loads
         /\ page = "bell" => "bell" \in Loads
         /\ \A l \in Loads : "query" \in CellsOf(l) => page = "customers" /\ l = "customers"
<1>1. WellMade(page)
  BY PagesMade
<1>2. \A l : CellsOf(l) = CellsIn(This, l)
  BY DEF CellsOf, CellsIn
<1>3. \A l \in Loads : CellsOf(l) \subseteq Cells
  BY DEF Cells
<1> QED
  BY <1>1, <1>2, <1>3 DEF WellMade, Separate, Refreshed, Cleared, Special, Loads, This, Refetched

\* A page that stays open keeps its loads and cells.
LEMMA SamePage ==
  ASSUME page' = page
  PROVE  /\ This' = This /\ Loads' = Loads /\ Cells' = Cells
         /\ \A l : CellsOf(l)' = CellsOf(l)
         /\ \A c : Unreadable(c)' = Unreadable(c)
  BY DEF This, Loads, Cells, CellsOf, Unreadable

\* What a page that begins some loads has in flight then.
LEMMA Begun ==
  ASSUME PageInv, NEW ls, ls \subseteq Loads, Begin(ls), UNCHANGED <<page, now>>
  PROVE  /\ begun' \in [Loads -> Nat] /\ \A l \in Loads : begun[l] <= begun'[l]
         /\ FetchesHold'
         /\ fetches \subseteq fetches'
         /\ \A l \in ls : \E f \in fetches' :
              f.load = l /\ f.since = now /\ f.nth = begun[l] + 1
         /\ \A f \in fetches' \ fetches : f.since = now
<1>1. page \in DOMAIN AllPages /\ now \in Nat /\ begun \in [Loads -> Nat] /\ FetchesHold
  BY DEF PageInv, TypesHold
<1>2. /\ fetches' = fetches \cup {Fetch(l) : l \in ls}
      /\ begun' = [l \in Loads |-> begun[l] + (IF l \in ls THEN 1 ELSE 0)]
  BY DEF Begin
<1>3. begun' \in [Loads -> Nat] /\ \A l \in Loads : begun[l] <= begun'[l]
  BY <1>1, <1>2
<1>4. \A l \in ls : begun'[l] = begun[l] + 1
  BY <1>1, <1>2
<1>5. \A l \in ls :
        /\ Fetch(l) = [load |-> Fetch(l).load, nth |-> Fetch(l).nth, since |-> Fetch(l).since,
                       read |-> Fetch(l).read]
        /\ Fetch(l).load = l /\ Fetch(l).nth = begun[l] + 1 /\ Fetch(l).since = now
        /\ DOMAIN Fetch(l).read \subseteq CellsOf(l)
        /\ \A c \in DOMAIN Fetch(l).read : Fetch(l).read[c] = now
  BY DEF Fetch
<1>6. ASSUME NEW f \in fetches'
      PROVE  /\ f = [load |-> f.load, nth |-> f.nth, since |-> f.since, read |-> f.read]
             /\ f.load \in Loads
             /\ f.nth \in 1..begun'[f.load]
             /\ f.since \in 0..now
             /\ DOMAIN f.read \subseteq CellsOf(f.load)
             /\ \A c \in DOMAIN f.read : f.read[c] \in f.since..now
  <2>1. CASE f \in fetches
    <3>1. f.load \in Loads /\ f.nth \in 1..begun[f.load]
      BY <1>1, <2>1 DEF FetchesHold
    <3>2. f.nth \in 1..begun'[f.load]
      BY <1>1, <1>3, <3>1
    <3> QED BY <1>1, <2>1, <3>2 DEF FetchesHold
  <2>2. CASE f \notin fetches
    <3>1. PICK l \in ls : f = Fetch(l)
      BY <1>2, <2>2
    <3> QED BY <1>1, <1>3, <1>4, <1>5, <3>1
  <2> QED BY <2>1, <2>2
<1>7. FetchesHold'
  BY <1>6, SamePage DEF FetchesHold
<1>8. \A l \in ls : Fetch(l) \in fetches'
  BY <1>2
<1>9. \A f \in fetches' \ fetches : f.since = now
  BY <1>2, <1>5
<1> QED BY <1>2, <1>3, <1>5, <1>7, <1>8, <1>9

\* What a page has in flight when it mounts was begun at moment 1.
LEMMA PageInit == Init => PageInv
<1> SUFFICES ASSUME Init PROVE PageInv
  OBVIOUS
<1>1. page \in DOMAIN AllPages
  BY DEF Init
<1>2. This.mounts \subseteq Loads
  BY <1>1, ThisPage
<1>t. timer \in BOOLEAN /\ (timer => page = "customers")
  BY Zenon DEF Init
<1>3. TypesHold
  BY <1>1, <1>t DEF Init, TypesHold
<1>4. ASSUME NEW f \in fetches
      PROVE  /\ f = [load |-> f.load, nth |-> f.nth, since |-> f.since, read |-> f.read]
             /\ f.load \in This.mounts /\ f.nth = 1 /\ f.since = 1 /\ DOMAIN f.read = {}
  BY DEF Init
<1>5. FetchesHold
  BY <1>2, <1>4 DEF Init, FetchesHold
<1>6. PressesHold
  BY DEF Init, PressesHold
<1> QED BY <1>3, <1>5, <1>6 DEF PageInv

\* A step without a new fetch: time may go on, changes may be asked for, served
\* or told, fetches may end.
LEMMA PageGoesOn ==
  ASSUME PageInv, page' = page, now' \in {now, now + 1}, fetches' \subseteq fetches,
         begun' = begun, latest' = latest,
         timer' \in BOOLEAN, timer' => page = "customers",
         shown' \in [Cells -> Nat], promised' \in [Cells -> 0..now'], PressesHold'
  PROVE  PageInv'
<1>0. TypesHold /\ FetchesHold /\ now \in Nat /\ now' \in Nat /\ now <= now'
  BY DEF PageInv, TypesHold
<1>1. TypesHold'
  BY <1>0, SamePage DEF TypesHold
<1>2. ASSUME NEW f \in fetches'
      PROVE  /\ f = [load |-> f.load, nth |-> f.nth, since |-> f.since, read |-> f.read]
             /\ f.load \in Loads
             /\ f.nth \in 1..begun[f.load]
             /\ f.since \in 0..now'
             /\ DOMAIN f.read \subseteq CellsOf(f.load)
             /\ \A c \in DOMAIN f.read : f.read[c] \in f.since..now'
  <2>1. /\ f = [load |-> f.load, nth |-> f.nth, since |-> f.since, read |-> f.read]
        /\ f.load \in Loads
        /\ f.nth \in 1..begun[f.load]
        /\ f.since \in 0..now
        /\ DOMAIN f.read \subseteq CellsOf(f.load)
        /\ \A c \in DOMAIN f.read : f.read[c] \in f.since..now
    BY <1>0 DEF FetchesHold
  <2> QED BY <1>0, <2>1
<1>3. FetchesHold'
  BY <1>2, SamePage DEF FetchesHold
<1> QED BY <1>1, <1>3 DEF PageInv

\* Changes that are asked for stay well-typed as time goes on.
LEMMA PressesGoOn ==
  ASSUME PageInv, page' = page, now' \in {now, now + 1}, presses' \subseteq presses
  PROVE  PressesHold'
<1>1. now \in Nat /\ PressesHold
  BY DEF PageInv, TypesHold
<1>2. \A n \in 0..now : n \in 0..now'
  BY <1>1
<1> QED BY <1>1, <1>2, SamePage DEF PressesHold

\* What a query adds to its fetch: the cell was due, its stage was.
Extended(f, g, c) ==
  /\ g = [load |-> g.load, nth |-> g.nth, since |-> g.since, read |-> g.read]
  /\ g.load = f.load /\ g.nth = f.nth /\ g.since = f.since
  /\ DOMAIN g.read = DOMAIN f.read \cup {c}
  /\ g.read[c] = now
  /\ \A d \in DOMAIN f.read : g.read[d] = f.read[d]

Due(f, c) ==
  /\ c \notin DOMAIN f.read
  /\ \E i \in DOMAIN This.loads[f.load] :
       /\ c \in This.loads[f.load][i]
       /\ \A k \in 1..(i - 1) : This.loads[f.load][k] \subseteq DOMAIN f.read

\* A query that runs adds one due cell to its fetch and leaves the rest of it.
LEMMA ReadParts ==
  ASSUME PageInv, NEW f \in fetches, Read(f)
  PROVE  \E c \in CellsOf(f.load) : \E g :
           Due(f, c) /\ Extended(f, g, c) /\ fetches' = (fetches \ {f}) \cup {g}
<1> DEFINE G(c) == [f EXCEPT !.read = [d \in DOMAIN f.read \cup {c} |-> IF d = c THEN now ELSE @[d]]]
<1>1. f = [load |-> f.load, nth |-> f.nth, since |-> f.since, read |-> f.read]
  BY DEF PageInv, FetchesHold
<1>2. PICK c \in Readable(f) : fetches' = (fetches \ {f}) \cup {G(c)}
  BY DEF Read
<1>3. Due(f, c)
  <2> DEFINE stages == This.loads[f.load]
             due == {j \in DOMAIN stages : \A k \in 1..(j - 1) : stages[k] \subseteq DOMAIN f.read}
  <2>0. Readable(f) = (UNION {stages[i] : i \in due}) \ DOMAIN f.read
    BY DEF Readable
  <2> HIDE DEF due
  <2>1. c \notin DOMAIN f.read /\ c \in UNION {stages[i] : i \in due}
    BY <1>2, <2>0
  <2>2. PICK i \in due : c \in stages[i]
    BY <2>1
  <2> QED BY <2>1, <2>2 DEF Due, due
<1>4. c \in CellsOf(f.load)
  BY <1>3 DEF Due, CellsOf
<1>5. G(c) = [load |-> f.load, nth |-> f.nth, since |-> f.since,
              read |-> [d \in DOMAIN f.read \cup {c} |-> IF d = c THEN now ELSE f.read[d]]]
  BY <1>1
<1>6. Extended(f, G(c), c)
  BY <1>3, <1>5 DEF Extended, Due
<1> QED BY <1>2, <1>3, <1>4, <1>6

\* A query reads at the present moment, which is after its fetch began.
LEMMA PageReads ==
  ASSUME PageInv, NEW f \in fetches, Read(f)
  PROVE  PageInv'
<1>0. TypesHold /\ FetchesHold /\ now \in Nat
  BY DEF PageInv, TypesHold
<1>1. UNCHANGED <<page, now, seen, presses, pressed, begun, history>>
  BY DEF Read
<1>2. TypesHold' /\ PressesHold'
  BY <1>1, SamePage DEF PageInv, TypesHold, PressesHold, seen, history
<1>c. PICK c \in CellsOf(f.load) : \E g :
        Due(f, c) /\ Extended(f, g, c) /\ fetches' = (fetches \ {f}) \cup {g}
  BY ReadParts
<1>3. PICK g : Due(f, c) /\ Extended(f, g, c) /\ fetches' = (fetches \ {f}) \cup {g}
  BY <1>c
<1>4. /\ f.load \in Loads /\ f.nth \in 1..begun[f.load] /\ f.since \in 0..now
      /\ DOMAIN f.read \subseteq CellsOf(f.load)
      /\ \A d \in DOMAIN f.read : f.read[d] \in f.since..now
  BY <1>0 DEF FetchesHold
<1>5. /\ g = [load |-> g.load, nth |-> g.nth, since |-> g.since, read |-> g.read]
      /\ g.load \in Loads /\ g.nth \in 1..begun[g.load] /\ g.since \in 0..now
      /\ DOMAIN g.read \subseteq CellsOf(g.load)
      /\ \A d \in DOMAIN g.read : g.read[d] \in g.since..now
  BY <1>0, <1>3, <1>4 DEF Extended
<1>6. FetchesHold'
  BY <1>0, <1>1, <1>3, <1>5, SamePage DEF FetchesHold
<1> QED BY <1>2, <1>6 DEF PageInv

\* A step that begins loads.
LEMMA PageBegins ==
  ASSUME PageInv, NEW ls, ls \subseteq Loads, Begin(ls), UNCHANGED <<page, now, shown, latest>>,
         timer' \in BOOLEAN, timer' => timer, promised' \in [Cells -> 0..now],
         presses' \subseteq presses
  PROVE  PageInv'
<1>1. /\ begun' \in [Loads -> Nat] /\ \A l \in Loads : begun[l] <= begun'[l]
      /\ FetchesHold'
  BY Begun
<1>2. PressesHold'
  BY PressesGoOn
<1>3. \A l \in Loads : latest'[l] <= begun'[l]
  BY <1>1 DEF PageInv, TypesHold
<1>4. TypesHold'
  BY <1>1, <1>3, SamePage DEF PageInv, TypesHold
<1> QED BY <1>1, <1>2, <1>4 DEF PageInv

\* A fetch that ends leaves the page and the others in order.
LEMMA PageEnds ==
  ASSUME PageInv, NEW f \in fetches, NEW ok \in BOOLEAN, End(f, ok), shown' \in [Cells -> Nat]
  PROVE  PageInv'
<1>0. TypesHold /\ FetchesHold
  BY DEF PageInv
<1>1. /\ fetches' = fetches \ {f}
      /\ latest' = [latest EXCEPT ![f.load] = IF f.nth > @ THEN f.nth ELSE @]
      /\ UNCHANGED <<page, now, timer, presses, pressed, begun, promised>>
  BY DEF End
<1>2. f.load \in Loads /\ f.nth \in 1..begun[f.load]
  BY <1>0 DEF FetchesHold
<1>3. latest' \in [Loads -> Nat] /\ \A l \in Loads : latest'[l] <= begun[l]
  BY <1>0, <1>1, <1>2 DEF TypesHold
<1>4. TypesHold'
  BY <1>0, <1>1, <1>3, SamePage DEF TypesHold
<1>5. FetchesHold' /\ PressesHold'
  BY <1>0, <1>1, SamePage DEF PageInv, FetchesHold, PressesHold
<1> QED BY <1>4, <1>5 DEF PageInv

\* Every step keeps the page and what is on its way in order.
LEMMA PageStep == PageInv /\ [Next]_vars => PageInv'
<1> SUFFICES ASSUME PageInv, [Next]_vars PROVE PageInv'
  OBVIOUS
<1>0. /\ TypesHold /\ FetchesHold /\ PressesHold
      /\ page \in DOMAIN AllPages /\ now \in Nat /\ timer \in BOOLEAN
      /\ shown \in [Cells -> Nat] /\ promised \in [Cells -> 0..now]
  BY DEF PageInv, TypesHold
<1>1. ASSUME NEW f \in fetches, Answer(f)
      PROVE  PageInv'
  <2>1. \A c \in DOMAIN f.read : f.read[c] \in Nat
    BY <1>0 DEF FetchesHold
  <2>2. shown' \in [Cells -> Nat]
    BY <1>0, <1>1, <2>1 DEF Answer
  <2> QED BY <1>1, <2>2, PageEnds DEF Answer
<1>2. ASSUME NEW f \in fetches, Fail(f)
      PROVE  PageInv'
  BY <1>0, <1>2, PageEnds DEF Fail
<1>3. CASE Press
  <2>1. PICK c \in DOMAIN This.changes :
          presses' = presses \cup {[change |-> c, nth |-> pressed + 1, at |-> 0]}
    BY <1>3 DEF Press
  <2>2. UNCHANGED <<page, now, seen, fetches, begun, history>>
    BY <1>3 DEF Press
  <2>3. PressesHold'
    BY <1>0, <2>1, <2>2, SamePage DEF PressesHold
  <2> QED BY <1>0, <2>2, <2>3, PageGoesOn DEF seen, history, TypesHold
<1>4. ASSUME NEW k \in presses, Serve(k)
      PROVE  PageInv'
  <2>1. UNCHANGED <<page, seen, fetches, pressed, begun, history>> /\ now' = now + 1
    BY <1>4 DEF Serve
  <2>2. presses' = (presses \ {k}) \cup {[k EXCEPT !.at = now + 1]}
    BY <1>4 DEF Serve
  <2>3. /\ k = [change |-> k.change, nth |-> k.nth, at |-> k.at]
        /\ k.change \in DOMAIN This.changes
    BY <1>0 DEF PressesHold
  <2>4. [k EXCEPT !.at = now + 1] = [change |-> k.change, nth |-> k.nth, at |-> now + 1]
    BY <2>3
  <2>5. \A n \in 0..now : n \in 0..(now + 1)
    BY <1>0
  <2>6. PressesHold'
    BY <1>0, <2>1, <2>2, <2>3, <2>4, <2>5, SamePage DEF PressesHold
  <2>7. promised' \in [Cells -> 0..now']
    BY <1>0, <2>1, <2>5 DEF history
  <2> QED BY <1>0, <2>1, <2>6, <2>7, PageGoesOn DEF seen, history, TypesHold
<1>5. ASSUME NEW k \in presses, Succeed(k)
      PROVE  PageInv'
  <2>1. /\ Begin(Refetched(k.change)) /\ presses' = presses \ {k}
        /\ promised' = [c \in Cells |->
             IF c \in This.changes[k.change].writes /\ k.at > promised[c] THEN k.at ELSE promised[c]]
        /\ UNCHANGED <<page, now, shown, timer, pressed, latest, excused>>
    BY <1>5 DEF Succeed
  <2>2. k.change \in DOMAIN This.changes /\ k.at \in 0..now
    BY <1>0 DEF PressesHold
  <2>3. Refetched(k.change) \subseteq Loads
    BY <1>0, <2>2, ThisPage
  <2>4. promised' \in [Cells -> 0..now]
    BY <1>0, <2>1, <2>2
  <2> QED BY <1>0, <2>1, <2>3, <2>4, PageBegins
<1>6. ASSUME NEW k \in presses, Alert(k)
      PROVE  PageInv'
  <2>1. presses' \subseteq presses /\ UNCHANGED <<page, now, seen, fetches, pressed, begun, history>>
    BY <1>6 DEF Alert
  <2>2. PressesHold'
    BY <2>1, PressesGoOn
  <2> QED BY <1>0, <2>1, <2>2, PageGoesOn DEF seen, history, TypesHold
<1>7. CASE Others
  <2>1. UNCHANGED <<page, seen, calls, history>> /\ now' = now + 1
    BY <1>7 DEF Others
  <2>2. PressesHold' /\ promised' \in [Cells -> 0..now']
    BY <1>0, <2>1, PressesGoOn DEF calls, history
  <2> QED BY <1>0, <2>1, <2>2, PageGoesOn DEF seen, calls, history, TypesHold
<1>8. CASE Type
  <2>1. /\ page = "customers" /\ now' = now + 1 /\ timer' = TRUE
        /\ promised' = [promised EXCEPT !["query"] = now + 1]
        /\ UNCHANGED <<page, shown, loading, calls, latest, excused>>
    BY <1>8 DEF Type
  <2>p. now + 1 \in 0..now' /\ \A n \in 0..now : n \in 0..now'
    BY <1>0, <2>1
  <2>t. promised' \in [Cells -> 0..now']
    BY <1>0, <2>1, <2>p
  <2>2. PressesHold' /\ promised' \in [Cells -> 0..now']
    BY <2>1, <2>t, PressesGoOn DEF calls
  <2> QED BY <1>0, <2>1, <2>2, PageGoesOn DEF calls
<1>9. CASE Timeout
  <2>1. /\ timer /\ timer' = FALSE /\ Begin({"customers"})
        /\ UNCHANGED <<page, now, shown, presses, pressed, history>>
    BY <1>9 DEF Timeout
  <2>2. {"customers"} \subseteq Loads
    BY <1>0, <2>1, ThisPage DEF TypesHold
  <2> QED BY <1>0, <2>1, <2>2, PageBegins DEF history
<1>10. CASE Poll
  <2>1. /\ page = "bell" /\ Begin({"bell"})
        /\ UNCHANGED <<page, now, seen, presses, pressed, history>>
    BY <1>10 DEF Poll
  <2>2. {"bell"} \subseteq Loads
    BY <1>0, <2>1, ThisPage
  <2> QED BY <1>0, <2>1, <2>2, PageBegins DEF seen, history
<1>11. CASE UNCHANGED vars
  BY <1>0, <1>11, SamePage
     DEF vars, seen, calls, history, PageInv, TypesHold, FetchesHold, PressesHold
<1> QED
  BY <1>1, <1>2, <1>3, <1>4, <1>5, <1>6, <1>7, <1>8, <1>9, <1>10, <1>11, PageReads
     DEF Next, Load

-----------------------------------------------------------------------------
\* The loads a page begins clear the spinner they set.
LEMMA SpinnerBegins ==
  ASSUME PageInv, NoOrphanSpinner, NEW ls, ls \subseteq Loads, Begin(ls), page' = page,
         loading' = loading \/ loading' = Spinning(ls),
         timer' = timer \/ "customers" \in ls \cap This.ends
  PROVE  NoOrphanSpinner'
<1>1. This' = This /\ This.spins \subseteq This.ends
  BY SamePage, ThisPage DEF PageInv, TypesHold
<1>2. fetches' = fetches \cup {Fetch(l) : l \in ls} /\ \A l : Fetch(l).load = l
  BY DEF Begin, Fetch
<1>3. \A l \in ls \cap This.ends : \E f \in fetches' : f.load \in This.ends
  BY <1>2
<1> QED BY <1>1, <1>2, <1>3 DEF NoOrphanSpinner, Spinning

\* The end of a load that could clear the spinner clears it.
LEMMA SpinnerStops ==
  ASSUME NoOrphanSpinner, NEW f \in fetches, NEW ok, End(f, ok)
  PROVE  NoOrphanSpinner'
<1>1. /\ fetches' = fetches \ {f} /\ timer' = timer /\ This' = This
      /\ loading' = (loading /\ f.load \notin This.ends)
  BY SamePage DEF End, Loading
<1> QED BY <1>1 DEF NoOrphanSpinner

\* The spinner of a page that mounts waits for its first loads, or for the timer.
LEMMA SpinnerInit == Init => NoOrphanSpinner
<1> SUFFICES ASSUME Init, loading PROVE timer \/ \E f \in fetches : f.load \in This.ends
  BY DEF NoOrphanSpinner
<1>1. This.ends # {} /\ (page = "customers" => timer)
  BY Zenon DEF Init
<1>2. CASE page = "customers"
  BY <1>1, <1>2
<1>3. CASE page # "customers"
  <2>1. PICK l \in This.mounts : l \in This.ends
    BY <1>1, <1>3, ThisPage DEF Init
  <2>2. [load |-> l, nth |-> 1, since |-> 1, read |-> [c \in {} |-> 0]] \in fetches
    BY <2>1 DEF Init
  <2> QED BY <2>1, <2>2
<1> QED BY <1>2, <1>3

\* No step leaves a spinner that nothing will clear.
LEMMA SpinnerStep == PageInv /\ NoOrphanSpinner /\ [Next]_vars => NoOrphanSpinner'
<1> SUFFICES ASSUME PageInv, NoOrphanSpinner, [Next]_vars PROVE NoOrphanSpinner'
  OBVIOUS
<1>0. page \in DOMAIN AllPages
  BY DEF PageInv, TypesHold
<1>1. ASSUME NEW f \in fetches, Read(f)
      PROVE  NoOrphanSpinner'
  <2>1. PICK c \in CellsOf(f.load) : \E g :
          Due(f, c) /\ Extended(f, g, c) /\ fetches' = (fetches \ {f}) \cup {g}
    BY <1>1, ReadParts
  <2>2. PICK g : g.load = f.load /\ fetches' = (fetches \ {f}) \cup {g}
    BY <2>1 DEF Extended
  <2>3. UNCHANGED <<loading, timer>> /\ This' = This
    BY <1>1, SamePage DEF Read, seen
  <2> QED BY <2>2, <2>3 DEF NoOrphanSpinner
<1>2. ASSUME NEW f \in fetches, Answer(f) \/ Fail(f)
      PROVE  NoOrphanSpinner'
  BY <1>2, SpinnerStops DEF Answer, Fail
<1>3. ASSUME UNCHANGED <<page, loading, fetches>>, timer' = timer \/ timer'
      PROVE  NoOrphanSpinner'
  BY <1>3, SamePage DEF NoOrphanSpinner
<1>4. CASE Press \/ Others \/ Type \/ UNCHANGED vars
  BY <1>3, <1>4 DEF Press, Others, Type, vars, seen, calls
<1>5. ASSUME NEW k \in presses, Serve(k) \/ Alert(k)
      PROVE  NoOrphanSpinner'
  BY <1>3, <1>5 DEF Serve, Alert, seen
<1>6. ASSUME NEW k \in presses, Succeed(k)
      PROVE  NoOrphanSpinner'
  <2>1. Refetched(k.change) \subseteq Loads
    BY <1>0, ThisPage DEF PageInv, PressesHold
  <2> QED BY <1>6, <2>1, SpinnerBegins DEF Succeed
<1>7. CASE Timeout
  <2>0. page = "customers"
    BY <1>7 DEF Timeout, PageInv, TypesHold
  <2>2. AllPages["customers"].ends = {"customers"}
    BY DEF AllPages, CustomersPage, Lists
  <2>1. This.ends = {"customers"} /\ {"customers"} \subseteq Loads
    BY <1>0, <2>0, <2>2, ThisPage DEF This
  <2> QED BY <1>7, <2>1, SpinnerBegins DEF Timeout
<1>8. CASE Poll
  <2>1. {"bell"} \subseteq Loads
    BY <1>0, <1>8, ThisPage DEF Poll
  <2> QED BY <1>8, <2>1, SpinnerBegins DEF Poll, seen
<1> QED BY <1>1, <1>2, <1>4, <1>5, <1>6, <1>7, <1>8 DEF Next, Load

\* Whatever fails, and with or without a time limit: a page shows its spinner only
\* while a load that will clear it is in flight, or the timer that begins one runs.
THEOREM SpinnersWait == Spec => []NoOrphanSpinner
<1> QED BY PageInit, PageStep, SpinnerInit, SpinnerStep, PTL DEF Spec

-----------------------------------------------------------------------------
\* Nothing was promised yet.
LEMMA OwnInit == Init => OwnChangeInv
<1> SUFFICES ASSUME Init PROVE OwnChangeInv
  OBVIOUS
<1>1. PageInv
  BY PageInit
<1>2. \A l \in Loads : CellsOf(l) \subseteq Cells
  BY <1>1, ThisPage DEF PageInv, TypesHold
<1>3. \A l \in Loads : \A c \in CellsOf(l) : promised[c] = 0 /\ shown[c] = 0
  BY <1>2 DEF Init
<1>4. \A f \in fetches : f.load \in Loads /\ f.since \in Nat
  BY <1>1 DEF PageInv, FetchesHold, TypesHold
<1>5. \A f \in fetches : \A c \in CellsOf(f.load) : Followed(f, c)
  BY <1>3, <1>4 DEF Followed
<1>6. \A l \in Loads : \A c \in CellsOf(l) : Settled(l, c)
  BY <1>3 DEF Settled
<1> QED BY <1>1, <1>5, <1>6 DEF OwnChangeInv

\* A step that neither begins nor ends a fetch and promises nothing.
LEMMA OwnGoesOn ==
  ASSUME OwnChangeInv, PageInv', UNCHANGED <<page, shown, promised, latest, excused, timer>>,
         \A f \in fetches' : \E g \in fetches : f.load = g.load /\ f.nth = g.nth /\ f.since = g.since,
         \A g \in fetches : \E f \in fetches' : f.load = g.load /\ f.nth = g.nth /\ f.since = g.since
  PROVE  OwnChangeInv'
<1>1. ASSUME NEW f \in fetches', NEW c \in CellsOf(f.load)
      PROVE  \/ f.since >= promised[c] \/ Searching(c)
             \/ latest[f.load] > f.nth
             \/ \E g \in fetches' : g.load = f.load /\ g.since >= promised[c] /\ g.nth > f.nth
  <2>1. PICK h \in fetches : f.load = h.load /\ f.nth = h.nth /\ f.since = h.since
    OBVIOUS
  <2>2. Followed(h, c)
    BY <2>1 DEF OwnChangeInv
  <2> QED BY <2>1, <2>2 DEF Followed
<1>2. \A l, c : Coming(l, c) =>
        \E f \in fetches' : f.load = l /\ f.since >= promised[c] /\ f.nth > latest[l]
  BY DEF Coming
<1>3. \A f \in fetches' : \A c \in CellsOf(f.load)' : Followed(f, c)'
  BY <1>1, SamePage DEF Followed, Searching
<1>4. \A l \in Loads' : \A c \in CellsOf(l)' : Settled(l, c)'
  BY <1>2, SamePage DEF OwnChangeInv, Settled, Coming, Searching
<1> QED BY <1>3, <1>4 DEF OwnChangeInv

\* A step that begins loads: those of every cell whose promise it raises.
LEMMA OwnBegins ==
  ASSUME OwnChangeInv, PageInv', NEW ls, ls \subseteq Loads, Begin(ls),
         UNCHANGED <<page, now, shown, latest, excused>>,
         \A l \in Loads \ ls : \A c \in CellsOf(l) :
           promised'[c] = promised[c] /\ Searching(c)' = Searching(c)
  PROVE  OwnChangeInv'
<1>0. PageInv /\ page \in DOMAIN AllPages /\ now \in Nat /\ FetchesHold
  BY DEF OwnChangeInv, PageInv, TypesHold
<1>1. /\ fetches \subseteq fetches'
      /\ \A l \in ls : \E f \in fetches' :
           f.load = l /\ f.since = now /\ f.nth = begun[l] + 1
      /\ \A f \in fetches' \ fetches : f.since = now
  BY <1>0, Begun
<1>2. ASSUME NEW l \in Loads, NEW c \in CellsOf(l)
      PROVE  promised'[c] \in Nat /\ now >= promised'[c]
  <2>1. c \in Cells'
    BY <1>0, ThisPage, SamePage
  <2>2. promised'[c] \in 0..now'
    BY <2>1 DEF PageInv, TypesHold
  <2> QED BY <1>0, <2>2
<1>3. ASSUME NEW f \in fetches', NEW c \in CellsOf(f.load)
      PROVE  Followed(f, c)'
  <2>0. f.load \in Loads
    BY SamePage DEF PageInv, FetchesHold
  <2>1. CASE f \notin fetches
    BY <1>1, <1>2, <2>0, <2>1 DEF Followed
  <2>2. CASE f \in fetches /\ f.load \in ls
    <3>1. PICK g \in fetches' : g.load = f.load /\ g.since = now /\ g.nth = begun[f.load] + 1
      BY <1>1, <2>2
    <3>2. f.nth \in 1..begun[f.load] /\ begun[f.load] \in Nat
      BY <1>0, <2>0, <2>2 DEF FetchesHold, PageInv, TypesHold
    <3>3. g.since >= promised'[c] /\ g.nth > f.nth
      BY <1>2, <2>0, <3>1, <3>2
    <3> QED BY <3>1, <3>3 DEF Followed
  <2>3. CASE f \in fetches /\ f.load \notin ls
    <3>1. promised'[c] = promised[c] /\ Searching(c)' = Searching(c)
      BY <2>0, <2>3
    <3>2. Followed(f, c)
      BY <2>3 DEF OwnChangeInv
    <3> QED BY <1>1, <3>1, <3>2 DEF Followed
  <2> QED BY <2>1, <2>2, <2>3
<1>4. ASSUME NEW l \in Loads, NEW c \in CellsOf(l)
      PROVE  Settled(l, c)'
  <2>1. CASE l \in ls
    <3>1. PICK f \in fetches' : f.load = l /\ f.since = now /\ f.nth = begun[l] + 1
      BY <1>1, <2>1
    <3>2. latest'[l] <= begun[l] /\ begun[l] \in Nat /\ latest'[l] \in Nat
      BY <1>0 DEF PageInv, TypesHold
    <3>3. f.since >= promised'[c] /\ f.nth > latest'[l]
      BY <1>2, <3>1, <3>2
    <3>4. Coming(l, c)'
      BY <3>1, <3>3 DEF Coming
    <3> QED BY <3>4 DEF Settled
  <2>2. CASE l \notin ls
    <3>1. promised'[c] = promised[c] /\ Searching(c)' = Searching(c) /\ Unreadable(c)' = Unreadable(c)
      BY <2>2, SamePage
    <3>2. Settled(l, c)
      BY DEF OwnChangeInv
    <3>3. Coming(l, c) => Coming(l, c)'
      BY <1>1, <3>1 DEF Coming
    <3> QED BY <3>1, <3>2, <3>3 DEF Settled
  <2> QED BY <2>1, <2>2
<1>5. \A f \in fetches' : \A c \in CellsOf(f.load)' : Followed(f, c)'
  BY <1>3, SamePage
<1>6. \A l \in Loads' : \A c \in CellsOf(l)' : Settled(l, c)'
  BY <1>4, SamePage
<1> QED BY <1>5, <1>6 DEF OwnChangeInv

\* A fetch that ends was followed if it is too old, and shows the change if not;
\* if it is itself older than one that has ended, the page is excused.
LEMMA OwnEnds ==
  ASSUME OwnChangeInv, PageInv', NEW f \in fetches, NEW ok \in BOOLEAN, End(f, ok),
         \A l \in Loads \ {f.load} : \A c \in CellsOf(l) : shown'[c] = shown[c],
         ~ok => shown' = shown,
         ok => \A c \in CellsOf(f.load) : ~Unreadable(c) => shown'[c] \in Nat /\ shown'[c] >= f.since
  PROVE  OwnChangeInv'
<1> DEFINE m == f.load
<1>0. /\ fetches' = fetches \ {f}
      /\ latest' = [latest EXCEPT ![m] = IF f.nth > @ THEN f.nth ELSE @]
      /\ excused' = IF ok /\ f.nth > latest[m] THEN excused \ {m}
                    ELSE IF ok \/ f.nth > latest[m] THEN excused \cup {m} ELSE excused
      /\ UNCHANGED <<page, now, timer, presses, pressed, begun, promised>>
  BY DEF End
<1>1. /\ page \in DOMAIN AllPages /\ now \in Nat
      /\ m \in Loads /\ f.nth \in Nat /\ latest \in [Loads -> Nat] /\ latest[m] \in Nat
      /\ f.since \in Nat
      /\ promised \in [Cells -> 0..now]
  BY DEF OwnChangeInv, PageInv, TypesHold, FetchesHold
<1>2. /\ latest'[m] = IF f.nth > latest[m] THEN f.nth ELSE latest[m]
      /\ \A l \in Loads \ {m} : latest'[l] = latest[l]
  BY <1>0, <1>1
<1>3. \A g \in fetches : g.load \in Loads /\ g.nth \in Nat /\ g.since \in Nat
  BY <1>1 DEF OwnChangeInv, PageInv, FetchesHold, TypesHold
<1> HIDE DEF m
<1>4. ASSUME NEW h \in fetches', NEW c \in CellsOf(h.load)
      PROVE  \/ h.since >= promised[c] \/ Searching(c)
             \/ latest'[h.load] > h.nth
             \/ \E g \in fetches' : g.load = h.load /\ g.since >= promised[c] /\ g.nth > h.nth
  <2>1. h \in fetches /\ Followed(h, c)
    BY <1>0 DEF OwnChangeInv
  <2>2. latest[h.load] > h.nth => latest'[h.load] > h.nth
    BY <1>1, <1>2, <1>3, <2>1
  <2>3. ASSUME NEW g \in fetches, g.load = h.load, g.nth > h.nth, g = f
        PROVE  latest'[h.load] > h.nth
    BY <1>1, <1>2, <1>3, <2>1, <2>3 DEF m
  <2>4. \A g \in fetches : g # f => g \in fetches'
    BY <1>0
  <2> QED BY <2>1, <2>2, <2>3, <2>4 DEF Followed
<1>5. ASSUME NEW l \in Loads, NEW c \in CellsOf(l)
      PROVE  \/ Unreadable(c) \/ l \in excused' \/ Searching(c)
             \/ shown'[c] >= promised[c]
             \/ \E g \in fetches' : g.load = l /\ g.since >= promised[c] /\ g.nth > latest'[l]
  <2>0. Settled(l, c)
    BY DEF OwnChangeInv
  <2>c. promised[c] \in Nat
    BY <1>1, ThisPage
  <2>1. CASE l # m
    <3>1. shown'[c] = shown[c] /\ latest'[l] = latest[l] /\ (l \in excused => l \in excused')
      BY <1>0, <1>2, <2>1 DEF m
    <3>2. \A g \in fetches : g.load = l => g \in fetches'
      BY <1>0, <2>1 DEF m
    <3> QED BY <2>0, <3>1, <3>2 DEF Settled, Coming
  <2>2. CASE l = m /\ ok /\ f.nth > latest[m]
    <3>1. latest'[l] = f.nth
      BY <1>2, <2>2
    <3>2. CASE f.since >= promised[c]
      <4>1. Unreadable(c) \/ (shown'[c] \in Nat /\ shown'[c] >= f.since)
        BY <2>2 DEF m
      <4> QED BY <1>1, <2>c, <3>2, <4>1
    <3>3. CASE ~(f.since >= promised[c])
      <4>1. Followed(f, c)
        BY <2>2 DEF OwnChangeInv, m
      <4>2. ~(latest[m] > f.nth)
        BY <1>1, <2>2
      <4>3. SUFFICES ASSUME ~Searching(c)
                     PROVE  \E g \in fetches' : g.load = l /\ g.since >= promised[c] /\ g.nth > latest'[l]
        OBVIOUS
      <4>4. PICK g \in fetches : g.load = f.load /\ g.since >= promised[c] /\ g.nth > f.nth
        BY <3>3, <4>1, <4>2, <4>3 DEF Followed, m
      <4>5. g \in fetches'
        BY <1>0, <1>1, <4>4
      <4> QED BY <2>2, <3>1, <4>4, <4>5 DEF m
    <3> QED BY <3>2, <3>3
  <2>3. CASE l = m /\ ok /\ ~(f.nth > latest[m])
    BY <1>0, <2>3
  <2>4. CASE l = m /\ ~ok /\ f.nth > latest[m]
    BY <1>0, <2>4
  <2>5. CASE l = m /\ ~ok /\ ~(f.nth > latest[m])
    <3>1. latest'[l] = latest[l] /\ excused' = excused /\ shown' = shown
      BY <1>0, <1>2, <2>5
    <3>2. \A g \in fetches : g.nth > latest[l] => g \in fetches'
      BY <1>0, <2>5
    <3> QED BY <2>0, <3>1, <3>2 DEF Settled, Coming
  <2> QED BY <2>1, <2>2, <2>3, <2>4, <2>5
<1>6. \A h \in fetches' : \A c \in CellsOf(h.load)' : Followed(h, c)'
  BY <1>0, <1>4, SamePage DEF Followed, Searching
<1>7. \A l \in Loads' : \A c \in CellsOf(l)' : Settled(l, c)'
  BY <1>0, <1>5, SamePage DEF Settled, Coming, Searching
<1> QED BY <1>6, <1>7 DEF OwnChangeInv

\* Another search: the field's cell waits for the timer, nothing else changes.
LEMMA OwnTypes ==
  ASSUME OwnChangeInv, PageInv', Type
  PROVE  OwnChangeInv'
<1>0. /\ page \in DOMAIN AllPages
      /\ promised \in [Cells -> 0..now]
      /\ promised' = [promised EXCEPT !["query"] = now + 1]
      /\ timer' = TRUE
      /\ UNCHANGED <<page, shown, fetches, latest, excused>>
  BY DEF Type, calls, OwnChangeInv, PageInv, TypesHold
<1>1. \A c \in Cells : c # "query" => promised'[c] = promised[c] /\ ~Searching(c)
  BY <1>0 DEF Searching
<1>2. \A c : c = "query" => Searching(c)'
  BY <1>0 DEF Searching
<1>3. \A l \in Loads : CellsOf(l) \subseteq Cells
  BY <1>0, ThisPage
<1>4. \A f \in fetches : f.load \in Loads
  BY DEF OwnChangeInv, PageInv, FetchesHold
<1>5. ASSUME NEW f \in fetches', NEW c \in CellsOf(f.load)
      PROVE  Followed(f, c)'
  <2>1. CASE c = "query"
    BY <1>2, <2>1 DEF Followed
  <2>2. CASE c # "query"
    <3>1. promised'[c] = promised[c] /\ ~Searching(c) /\ Followed(f, c)
      BY <1>0, <1>1, <1>3, <1>4, <2>2 DEF OwnChangeInv
    <3> QED BY <1>0, <3>1 DEF Followed
  <2> QED BY <2>1, <2>2
<1>6. ASSUME NEW l \in Loads, NEW c \in CellsOf(l)
      PROVE  Settled(l, c)'
  <2>1. CASE c = "query"
    BY <1>2, <2>1 DEF Settled
  <2>2. CASE c # "query"
    <3>1. promised'[c] = promised[c] /\ ~Searching(c) /\ Settled(l, c)
      BY <1>1, <1>3, <2>2 DEF OwnChangeInv
    <3>2. Coming(l, c) => Coming(l, c)'
      BY <1>0, <3>1 DEF Coming
    <3> QED BY <1>0, <3>1, <3>2, SamePage DEF Settled
  <2> QED BY <2>1, <2>2
<1>7. \A f \in fetches' : \A c \in CellsOf(f.load)' : Followed(f, c)'
  BY <1>0, <1>5, SamePage
<1>8. \A l \in Loads' : \A c \in CellsOf(l)' : Settled(l, c)'
  BY <1>0, <1>6, SamePage
<1> QED BY <1>7, <1>8 DEF OwnChangeInv

\* An answer shows what was read after its fetch began.
LEMMA OwnAnswered ==
  ASSUME OwnChangeInv, PageInv', NEW f \in fetches, Answer(f)
  PROVE  OwnChangeInv'
<1>0. /\ page \in DOMAIN AllPages /\ FetchesHold /\ shown \in [Cells -> Nat] /\ now \in Nat
      /\ End(f, TRUE) /\ CellsOf(f.load) = DOMAIN f.read
      /\ shown' = [c \in Cells |-> IF c \in DOMAIN f.read /\ ~Unreadable(c) THEN f.read[c]
                                    ELSE shown[c]]
  BY DEF Answer, OwnChangeInv, PageInv, TypesHold
<1>1. f.load \in Loads /\ f.since \in 0..now /\ \A c \in DOMAIN f.read : f.read[c] \in f.since..now
  BY <1>0 DEF FetchesHold
<1>2. /\ \A l \in Loads : CellsOf(l) \subseteq Cells
      /\ \A l \in Loads \ {f.load} : CellsOf(l) \cap CellsOf(f.load) = {}
  BY <1>0, <1>1, ThisPage
<1>3. \A l \in Loads \ {f.load} : \A c \in CellsOf(l) : shown'[c] = shown[c]
  BY <1>0, <1>2
<1>4. \A c \in CellsOf(f.load) : ~Unreadable(c) => shown'[c] \in Nat /\ shown'[c] >= f.since
  BY <1>0, <1>1, <1>2
<1> QED BY <1>0, <1>3, <1>4, OwnEnds

\* The loads that follow a change are those of every cell it wrote.
LEMMA OwnSucceeds ==
  ASSUME OwnChangeInv, PageInv', NEW k \in presses, Succeed(k)
  PROVE  OwnChangeInv'
<1>0. /\ page \in DOMAIN AllPages /\ promised \in [Cells -> 0..now]
      /\ k.change \in DOMAIN This.changes
      /\ Begin(Refetched(k.change))
      /\ promised' = [c \in Cells |->
           IF c \in This.changes[k.change].writes /\ k.at > promised[c] THEN k.at ELSE promised[c]]
      /\ UNCHANGED <<page, now, shown, timer, pressed, latest, excused>>
  BY DEF Succeed, OwnChangeInv, PageInv, TypesHold, PressesHold
<1> DEFINE ls == Refetched(k.change)
           W == This.changes[k.change].writes
<1>1. /\ ls \subseteq Loads
      /\ \A l \in Loads : CellsOf(l) \subseteq Cells
      /\ \A l \in Loads : W \cap CellsOf(l) # {} => l \in ls
  BY <1>0, ThisPage
<1>2. \A l \in Loads \ ls : \A c \in CellsOf(l) : c \in Cells /\ c \notin W
  BY <1>1
<1>3. \A l \in Loads \ ls : \A c \in CellsOf(l) :
        promised'[c] = promised[c] /\ Searching(c)' = Searching(c)
  BY <1>0, <1>2 DEF Searching
<1> QED BY <1>0, <1>1, <1>3, OwnBegins

\* Every step of a page keeps the promises to its user.
LEMMA OwnStep == OwnChangeInv /\ PageInv' /\ [Next]_vars => OwnChangeInv'
<1> SUFFICES ASSUME OwnChangeInv, PageInv', [Next]_vars PROVE OwnChangeInv'
  OBVIOUS
<1>0. PageInv /\ page \in DOMAIN AllPages
  BY DEF OwnChangeInv, PageInv, TypesHold
<1>1. ASSUME NEW f \in fetches, Read(f)
      PROVE  OwnChangeInv'
  <2>1. UNCHANGED <<page, shown, promised, latest, excused, timer>>
    BY <1>1 DEF Read, seen, history
  <2>2. PICK c \in CellsOf(f.load) : \E g :
          Due(f, c) /\ Extended(f, g, c) /\ fetches' = (fetches \ {f}) \cup {g}
    BY <1>0, <1>1, ReadParts
  <2>3. PICK g : Extended(f, g, c) /\ fetches' = (fetches \ {f}) \cup {g}
    BY <2>2
  <2>4. f.load = g.load /\ f.nth = g.nth /\ f.since = g.since
    BY <2>3 DEF Extended
  <2> QED BY <2>1, <2>3, <2>4, OwnGoesOn
<1>2. ASSUME NEW f \in fetches, Fail(f)
      PROVE  OwnChangeInv'
  <2>1. shown' = shown /\ End(f, FALSE)
    BY <1>2 DEF Fail
  <2> QED BY <2>1, OwnEnds
<1>3. ASSUME UNCHANGED <<page, shown, promised, latest, excused, timer, fetches>>
      PROVE  OwnChangeInv'
  BY <1>3, OwnGoesOn
<1>4. CASE Press \/ Others \/ UNCHANGED vars
  BY <1>3, <1>4 DEF Press, Others, vars, seen, calls, history
<1>5. ASSUME NEW k \in presses, Serve(k) \/ Alert(k)
      PROVE  OwnChangeInv'
  BY <1>3, <1>5 DEF Serve, Alert, seen, history
<1>6. CASE Timeout
  <2>1. /\ Begin({"customers"}) /\ timer /\ ~timer'
        /\ UNCHANGED <<page, now, shown, presses, pressed, promised, latest, excused>>
    BY <1>6, <1>0 DEF Timeout, history, PageInv, TypesHold
  <2>2. {"customers"} \subseteq Loads
    BY <1>0, <2>1, ThisPage DEF PageInv, TypesHold
  <2>3. \A l \in Loads \ {"customers"} : \A c \in CellsOf(l) : c # "query"
    BY <1>0, ThisPage
  <2>4. \A l \in Loads \ {"customers"} : \A c \in CellsOf(l) :
          promised'[c] = promised[c] /\ Searching(c)' = Searching(c)
    BY <2>1, <2>3 DEF Searching
  <2> QED BY <2>1, <2>2, <2>4, OwnBegins
<1>7. CASE Poll
  <2>1. /\ Begin({"bell"}) /\ page = "bell"
        /\ UNCHANGED <<page, now, shown, timer, promised, latest, excused>>
    BY <1>7 DEF Poll, seen, history
  <2>2. {"bell"} \subseteq Loads
    BY <1>0, <2>1, ThisPage
  <2>3. \A l \in Loads \ {"bell"} : \A c \in CellsOf(l) :
          promised'[c] = promised[c] /\ Searching(c)' = Searching(c)
    BY <2>1 DEF Searching
  <2> QED BY <2>1, <2>2, <2>3, OwnBegins
<1>8. CASE Load
  BY <1>1, <1>2, <1>8, OwnAnswered DEF Load
<1>9. CASE \E k \in presses : Serve(k) \/ Succeed(k) \/ Alert(k)
  BY <1>5, <1>9, OwnSucceeds
<1> QED BY <1>4, <1>6, <1>7, <1>8, <1>9, OwnTypes DEF Next

\* However many changes, polls, failures and writes of others there are, and in
\* whatever order their answers arrive: what its user changed is on the page, or
\* a fetch that nothing has overtaken will bring it, unless the page is excused.
THEOREM OwnChangesShow == Spec => []ShowsOwnChange
<1>1. OwnChangeInv => ShowsOwnChange
  BY DEF OwnChangeInv, Settled, Coming, Searching, ShowsOwnChange
<1> QED BY <1>1, PageInit, PageStep, OwnInit, OwnStep, PTL DEF Spec
=============================================================================
