------------------------------- MODULE Pages -------------------------------
(***************************************************************************)
(* The pages of the web client between their calls.  A page fetches what   *)
(* it shows when it mounts, and again after a change of its own that the   *)
(* API acknowledged; nothing orders the answers of two fetches, and what   *)
(* other people change reaches it by no event (see the README).  Data are  *)
(* abstracted to the moment at which they were read: the moment is the     *)
(* number of writes that anybody has committed.  A fetch that consists of  *)
(* several queries reads them at several moments, stage after stage, the   *)
(* queries of one stage in any order.                                      *)
(***************************************************************************)
EXTENDS Naturals, Sequences, FiniteSets

CONSTANTS MaxNow,     \* bound on the writes of all people
          MaxPresses, \* bound on the changes one page asks for
          MaxPolls    \* bound on the fetches of a page that polls

VARIABLES page,      \* the page that is open
          now,       \* the present moment
          shown,     \* cell -> the moment it was read at, 0 while empty
          loading,   \* isLoading
          timer,     \* the timeout of the search field is pending
          fetches,   \* fetches in flight
          presses,   \* changes in flight
          pressed,   \* how many changes were asked for
          begun,     \* load -> how many fetches of it were begun
          promised,  \* history: cell -> the last acknowledged change of it
          latest,    \* history: load -> the last fetch, as begun, that ended
          excused    \* history: loads that failed or were overtaken since

seen == <<shown, loading, timer>>
calls == <<fetches, presses, pressed, begun>>
history == <<promised, latest, excused>>
vars == <<page, now, seen, calls, history>>

-----------------------------------------------------------------------------
\* loads: what a fetch reads, stage by stage; mounts: the loads a page begins
\* with; spins, ends: the loads that set and clear isLoading; changes: the
\* cells a change writes and the loads the page begins when it succeeded.
Lists(l, cells, changes) ==
  [loads |-> [x \in {l} |-> <<cells>>], mounts |-> {l}, spins |-> {}, ends |-> {l},
   changes |-> changes]
Change(writes, then) == [writes |-> writes, then |-> then]
NoChange == [x \in {} |-> {}]

WorkOrdersPage == Lists("list", {"orders"}, NoChange)

\* findOne reads the row first and the timeline in a second query.
FindOneOrder == <<{"order"}, {"timeline"}>>

WorkOrderDetailsPage ==
  [loads |-> [order |-> FindOneOrder,
              diagnosis |-> <<{"diagnosis"}>>, estimates |-> <<{"estimates"}>>],
   mounts |-> {"order", "diagnosis", "estimates"}, spins |-> {"order"}, ends |-> {"order"},
   changes |-> [status |-> Change({"order", "timeline"}, {"order"}),
                assign |-> Change({"order", "timeline"}, {"order"}),
                diagnose |-> Change({"diagnosis"}, {"diagnosis"}),
                estimate |-> Change({"estimates"}, {"estimates"}),
                send |-> Change({"estimates"}, {"estimates"}),
                invoice |-> Change({}, {})]]

\* getDashboardMetrics: seven queries at once, then one after the other.
DashboardMetrics ==
  <<{"today", "month", "revenue", "pending", "statuses", "workload", "usage"},
    {"average"}, {"lowStock"}, {"technicians"}, {"parts"}>>

DashboardPage ==
  [loads |-> [metrics |-> DashboardMetrics],
   mounts |-> {"metrics"}, spins |-> {}, ends |-> {"metrics"}, changes |-> NoChange]

CustomerEstimateReviewPage ==
  [Lists("estimate", {"estimate"}, [decide |-> Change({"estimate"}, {"estimate"})])
     EXCEPT !.spins = {"estimate"}]

InvoicesPage == Lists("invoices", {"invoices"}, [pay |-> Change({"invoices"}, {"invoices"})])

PartsList == Lists("stock", {"stock", "alert", "suppliers"},
  [save |-> Change({"stock", "alert"}, {"stock"}), adjust |-> Change({"stock", "alert"}, {"stock"})])

SuppliersList == Lists("suppliers", {"suppliers"},
  [save |-> Change({"suppliers"}, {"suppliers"})])

ServiceRequestsPage ==
  [Lists("requests", {"requests"}, [state |-> Change({"requests"}, {"requests"})])
     EXCEPT !.spins = {"requests"}]

ServiceRequestForm == Lists("assets", {"assets"}, [submit |-> Change({}, {})])

\* Nothing is fetched before the timer of the search field fires.
CustomersPage ==
  [Lists("customers", {"query", "customers"}, NoChange)
     EXCEPT !.mounts = {}, !.spins = {"customers"}]

CustomerProfilePage == Lists("profile", {"profile"}, NoChange)

NotificationDropdown == [Lists("bell", {"bell"}, NoChange) EXCEPT !.ends = {}]

AllPages ==
  [workOrders |-> WorkOrdersPage, workOrder |-> WorkOrderDetailsPage, dashboard |-> DashboardPage,
   estimate |-> CustomerEstimateReviewPage, invoices |-> InvoicesPage, parts |-> PartsList,
   suppliers |-> SuppliersList, requests |-> ServiceRequestsPage, newRequest |-> ServiceRequestForm,
   customers |-> CustomersPage, customer |-> CustomerProfilePage, bell |-> NotificationDropdown]
This == AllPages[page]

CellsOf(l) == UNION {This.loads[l][i] : i \in DOMAIN This.loads[l]}
Loads == DOMAIN This.loads
Cells == UNION {CellsOf(l) : l \in Loads}

\* The controls of these stay on the screen while they load.
Usable == ~loading \/ page \in {"parts", "suppliers", "customers"}

\* TransformInterceptor wraps these answers, which their pages expect bare:
\* the alert and the profile stay empty, the dashboard fails to render.
Unreadable(c) == c \in {"alert", "profile"} \/ page = "dashboard"

\* No route of the API serves what these call.
Unserved == {"send", "pay"}

\* The search parameters are read when the fetch is sent.
Fetch(l) == [load |-> l, nth |-> begun[l] + 1, since |-> now,
             read |-> [c \in CellsOf(l) \cap {"query"} |-> now]]

Begin(ls) ==
  /\ fetches' = fetches \cup {Fetch(l) : l \in ls}
  /\ begun' = [l \in Loads |-> begun[l] + (IF l \in ls THEN 1 ELSE 0)]

\* isLoading once the loads ls were begun.
Spinning(ls) == loading \/ ls \cap This.spins # {}

Init ==
  /\ page \in DOMAIN AllPages
  /\ now = 1
  /\ shown = [c \in Cells |-> 0]
  /\ loading = (This.ends # {})
  /\ timer = (page = "customers")
  /\ fetches = {[load |-> l, nth |-> 1, since |-> 1, read |-> [c \in {} |-> 0]] : l \in This.mounts}
  /\ presses = {} /\ pressed = 0
  /\ begun = [l \in Loads |-> IF l \in This.mounts THEN 1 ELSE 0]
  /\ promised = [c \in Cells |-> 0]
  /\ latest = [l \in Loads |-> 0]
  /\ excused = {}

-----------------------------------------------------------------------------
\* A query of a fetch may run when those of the earlier stages have.
Readable(f) ==
  LET stages == This.loads[f.load]
  IN (UNION {stages[i] : i \in {j \in DOMAIN stages :
        \A k \in 1..(j - 1) : stages[k] \subseteq DOMAIN f.read}}) \ DOMAIN f.read

Read(f) ==
  /\ \E c \in Readable(f) :
       fetches' = (fetches \ {f}) \cup
                  {[f EXCEPT !.read = [d \in DOMAIN f.read \cup {c} |-> IF d = c THEN now ELSE @[d]]]}
  /\ UNCHANGED <<page, now, seen, presses, pressed, begun, history>>

\* isLoading cleared at the end of the try.
LoadingUnlessShown(f, ok) == loading /\ ~(ok /\ f.load \in This.ends)

\* The finally of a load.
Loading(f, ok) == loading /\ f.load \notin This.ends

\* A fetch is over.  What the page then shows is excused for being old if its
\* last fetch failed, or was followed by the answer of an earlier one.
End(f, ok) ==
  /\ fetches' = fetches \ {f}
  /\ loading' = Loading(f, ok)
  /\ latest' = [latest EXCEPT ![f.load] = IF f.nth > @ THEN f.nth ELSE @]
  /\ excused' = IF ok /\ f.nth > latest[f.load] THEN excused \ {f.load}
                ELSE IF ok \/ f.nth > latest[f.load] THEN excused \cup {f.load} ELSE excused
  /\ UNCHANGED <<page, now, timer, presses, pressed, begun, promised>>

\* The answer arrives, complete, whatever was answered before.
Answer(f) ==
  /\ CellsOf(f.load) = DOMAIN f.read
  /\ shown' = [c \in Cells |-> IF c \in DOMAIN f.read /\ ~Unreadable(c) THEN f.read[c] ELSE shown[c]]
  /\ End(f, TRUE)

\* An error or the client's time limit; the catch only logs it.
Fail(f) == UNCHANGED shown /\ End(f, FALSE)

\* Somebody presses a button or submits a form, whose validation is passed.
Press ==
  /\ Usable /\ pressed < MaxPresses
  /\ \E c \in DOMAIN This.changes :
       presses' = presses \cup {[change |-> c, nth |-> pressed + 1, at |-> 0]}
  /\ pressed' = pressed + 1
  /\ UNCHANGED <<page, now, seen, fetches, begun, history>>

\* The API commits the change.
Serve(k) ==
  /\ k.at = 0 /\ k.change \notin Unserved
  /\ now < MaxNow /\ now' = now + 1
  /\ presses' = (presses \ {k}) \cup {[k EXCEPT !.at = now + 1]}
  /\ UNCHANGED <<page, seen, fetches, pressed, begun, history>>

\* One handler forgets to refresh.
RefetchedUnlessAssigned(c) == IF c = "assign" THEN {} ELSE This.changes[c].then

\* The loads begun after a change.
Refetched(c) == This.changes[c].then

\* The success arrives: the page begins its loads.
Succeed(k) ==
  /\ k.at > 0
  /\ presses' = presses \ {k}
  /\ Begin(Refetched(k.change))
  /\ loading' = Spinning(Refetched(k.change))
  /\ promised' = [c \in Cells |->
       IF c \in This.changes[k.change].writes /\ k.at > promised[c] THEN k.at ELSE promised[c]]
  /\ UNCHANGED <<page, now, shown, timer, pressed, latest, excused>>

\* A refusal, or no answer to what may have been committed: an alert, no load.
Alert(k) ==
  /\ presses' = presses \ {k}
  /\ UNCHANGED <<page, now, seen, fetches, pressed, begun, history>>

\* Anybody else changes anything.
Others ==
  /\ now < MaxNow /\ now' = now + 1
  /\ UNCHANGED <<page, seen, calls, history>>

\* Another search or another page of the list; a pending timer is restarted.
Type ==
  /\ page = "customers"
  /\ now < MaxNow /\ now' = now + 1
  /\ timer' = TRUE
  /\ promised' = [promised EXCEPT !["query"] = now + 1]
  /\ UNCHANGED <<page, shown, loading, calls, latest, excused>>

Timeout ==
  /\ timer /\ timer' = FALSE
  /\ Begin({"customers"})
  /\ loading' = Spinning({"customers"})
  /\ UNCHANGED <<page, now, shown, presses, pressed, history>>

\* setInterval does not wait for the answer of the call before.
Poll ==
  /\ page = "bell" /\ begun["bell"] < MaxPolls
  /\ Begin({"bell"})
  /\ UNCHANGED <<page, now, seen, presses, pressed, history>>

\* A fetch is answered or ends in an error.
Load == \E f \in fetches : Read(f) \/ Answer(f) \/ Fail(f)

Next ==
  \/ Load
  \/ Press
  \/ \E k \in presses : Serve(k) \/ Succeed(k) \/ Alert(k)
  \/ Others
  \/ Type \/ Timeout \/ Poll

\* These pages call fetch directly, which waits for ever.
Unlimited == {"customers", "customer"}

\* The client's time limit ends every fetch of the other pages, and there are
\* finitely many within the bounds; timers fire.
Fairness == WF_vars(page \notin Unlimited /\ Load) /\ WF_vars(Timeout)
Spec == Init /\ [][Next]_vars /\ Fairness

-----------------------------------------------------------------------------
\* A change the API acknowledged is on the page, or will be with a fetch that
\* began after it: only a fetch that fails, or is overtaken by the answer of an
\* earlier one, leaves the page with the old data (handleStatusChange,
\* onSuccess of the forms, the effect of the search field).
ShowsOwnChange == \A l \in Loads : \A c \in CellsOf(l) :
  \/ Unreadable(c) \/ l \in excused
  \/ shown[c] >= promised[c]
  \/ \E f \in fetches : f.load = l /\ f.since >= promised[c]
  \/ c = "query" /\ timer

\* A spinner waits for something that will clear it: a load of the page in flight,
\* or the timer that begins one, on the pages without a time limit too.
NoOrphanSpinner == loading => timer \/ \E f \in fetches : f.load \in This.ends

\* No page whose calls have a time limit is left with its spinner, whatever fails.
SpinnerEnds == page \notin Unlimited => []<>~loading
=============================================================================
