--------------------------- MODULE Notifications ---------------------------
(***************************************************************************)
(* The notification queue: NotificationsService.enqueue adds a job, and    *)
(* the workers of notification.processor.ts serve its channels in order,   *)
(* keeping one row of `notifications` per channel.  BullMQ is modelled     *)
(* from how it is configured: an attempt that throws is retried up to      *)
(* `attempts` times; a worker holds a lock on its job, and a job whose     *)
(* lock lapses (the worker died, or only lost touch with Redis) is given   *)
(* to another worker, once, while the first may go on working.  Back-off   *)
(* delays are unordered time and left out.  A row is named by the worker   *)
(* that inserted it: an insert follows a look-up that found none.          *)
(***************************************************************************)
EXTENDS Naturals, Sequences, FiniteSets

CONSTANTS Jobs,       \* ids BullMQ gives to added jobs
          Workers,    \* worker processes, each working at one job at a time
          Kind,       \* job -> what it tells
          Attempts,   \* the option attempts of queue.add
          MaxStalled  \* BullMQ's maxStalledCount, left at its default

\* The names under which the service queues jobs; a repair that is completed is
\* told apart from other status changes.
Kinds == {"estimate.sent", "estimate.approved", "repair.status_changed",
          "repair.completed", "invoice.issued", "payment.received"}

ASSUME KindAssumption == Kind \in [Jobs -> Kinds]
ASSUME LimitsAssumption == Attempts \in Nat \ {0} /\ MaxStalled \in Nat
ASSUME WorkersAssumption == "NONE" \notin Workers

VARIABLES state,    \* job -> where BullMQ keeps it
          owner,    \* job -> the worker whose lock it carries, or "NONE"
          made,     \* job -> attemptsMade
          stalls,   \* job -> how often its lock lapsed
          rows,     \* <<job, channel, inserter>> -> status of the row, or "ABSENT"
          mails,    \* history: job -> e-mails sent
          run,      \* worker -> program counter and locals of the processor
          closing   \* worker -> failed jobs whose 'failed' handler is under way

queue == <<state, owner, made, stalls>>
vars == <<queue, rows, mails, run, closing>>

-----------------------------------------------------------------------------
Channel == {"EMAIL", "IN_APP"}

\* The channels the queue... methods ask for.
Channels == [j \in Jobs |->
  IF Kind[j] \in {"estimate.approved", "repair.status_changed"}
  THEN <<"IN_APP">> ELSE <<"EMAIL", "IN_APP">>]

Idle == [pc |-> "idle"]

Run == {Idle}
  \cup [pc: {"finding", "creating", "ending", "failing"}, job: Jobs, at: 1..3]
  \cup [pc: {"delivering", "marking"}, job: Jobs, at: 1..2, row: Workers]

At(w, pc) == run[w].pc = pc
Job(w) == run[w].job
Goto(w, s) == run' = [run EXCEPT ![w] = s]
Row(w, v) == <<Job(w), Channels[Job(w)][run[w].at], v>>

\* The loop over the channels: serve position k of job j, or leave the loop.
LoopAt(j, k) ==
  [pc |-> IF k \in DOMAIN Channels[j] THEN "finding" ELSE "ending", job |-> j, at |-> k]

\* An e-mail is sent, an in-app notification only has to be marked.
DeliverTo(w, v) ==
  [pc |-> IF Channels[Job(w)][run[w].at] = "EMAIL" THEN "delivering" ELSE "marking",
   job |-> Job(w), at |-> run[w].at, row |-> v]

Working == {"finding", "creating", "delivering", "marking"}

-----------------------------------------------------------------------------
Init ==
  /\ state = [j \in Jobs |-> "ABSENT"]
  /\ owner = [j \in Jobs |-> "NONE"]
  /\ made = [j \in Jobs |-> 0]
  /\ stalls = [j \in Jobs |-> 0]
  /\ rows = [n \in Jobs \X Channel \X Workers |-> "ABSENT"]
  /\ mails = [j \in Jobs |-> 0]
  /\ run = [w \in Workers |-> Idle]
  /\ closing = [w \in Workers |-> {}]

\* enqueue; when queue.add throws, the job is lost and nothing happens.
Enqueue(j) ==
  /\ state[j] = "ABSENT"
  /\ state' = [state EXCEPT ![j] = "WAITING"]
  /\ UNCHANGED <<owner, made, stalls, rows, mails, run, closing>>

Take(w, j) ==
  /\ run[w] = Idle
  /\ state[j] = "WAITING"
  /\ state' = [state EXCEPT ![j] = "ACTIVE"]
  /\ owner' = [owner EXCEPT ![j] = w]
  /\ Goto(w, LoopAt(j, 1))
  /\ UNCHANGED <<made, stalls, rows, mails, closing>>

\* Mutant: the row found is delivered again whatever its status is.
FoundResent(w, v) == DeliverTo(w, v)

\* What follows the row that was found: nothing more if it is SENT.
Found(w, v) ==
  IF rows[Row(w, v)] = "SENT" THEN LoopAt(Job(w), run[w].at + 1) ELSE DeliverTo(w, v)

\* findFirst by job id and channel, without an order: any row that matches.
Find(w) ==
  /\ At(w, "finding")
  /\ LET matching == {v \in Workers : rows[Row(w, v)] # "ABSENT"}
     IN  \/ matching = {} /\ Goto(w, [run[w] EXCEPT !.pc = "creating"])
         \/ \E v \in matching : Goto(w, Found(w, v))
  /\ UNCHANGED <<queue, rows, mails, closing>>

Create(w) ==
  /\ At(w, "creating")
  /\ rows' = [rows EXCEPT ![Row(w, w)] = "PENDING"]
  /\ Goto(w, DeliverTo(w, w))
  /\ UNCHANGED <<queue, mails, closing>>

SendEmail(w) ==
  /\ At(w, "delivering")
  /\ mails' = [mails EXCEPT ![Job(w)] = @ + 1]
  /\ Goto(w, [run[w] EXCEPT !.pc = "marking"])
  /\ UNCHANGED <<queue, rows, closing>>

MarkSent(w) ==
  /\ At(w, "marking")
  /\ rows' = [rows EXCEPT ![Row(w, run[w].row)] = "SENT"]
  /\ Goto(w, LoopAt(Job(w), run[w].at + 1))
  /\ UNCHANGED <<queue, mails, closing>>

\* The processor returned; a worker without the lock cannot complete the job.
Complete(w) ==
  /\ At(w, "ending")
  /\ IF owner[Job(w)] = w
     THEN /\ state' = [state EXCEPT ![Job(w)] = "COMPLETED"]
          /\ owner' = [owner EXCEPT ![Job(w)] = "NONE"]
     ELSE UNCHANGED <<state, owner>>
  /\ Goto(w, Idle)
  /\ UNCHANGED <<made, stalls, rows, mails, closing>>

\* Mutant: the error is logged but not thrown again.
AfterErrorSwallowed(w) == LoopAt(Job(w), run[w].at + 1)

\* Mutant: the channel is tried again on the spot.
AfterErrorRetried(w) == LoopAt(Job(w), run[w].at)

AfterError(w) == [pc |-> "failing", job |-> Job(w), at |-> run[w].at]

\* The database or the e-mail provider fails: no channel after this one is served.
Throw(w) ==
  /\ run[w].pc \in Working
  /\ Goto(w, AfterError(w))
  /\ UNCHANGED <<queue, rows, mails, closing>>

\* Mutant: the handler does not look at attemptsMade.
LastAttemptAny(j) == TRUE

\* attemptsMade >= attempts, in the 'failed' handler.
LastAttempt(j) == made[j] + 1 >= Attempts

Retried(j) == IF made[j] + 1 >= Attempts THEN "FAILED" ELSE "WAITING"

\* BullMQ counts the attempt and calls the 'failed' handler, which it does not wait for.
Fail(w) ==
  LET j == Job(w) IN
  /\ At(w, "failing")
  /\ IF owner[j] = w
     THEN /\ made' = [made EXCEPT ![j] = @ + 1]
          /\ state' = [state EXCEPT ![j] = Retried(j)]
          /\ owner' = [owner EXCEPT ![j] = "NONE"]
          /\ closing' = [closing EXCEPT ![w] = IF LastAttempt(j) THEN @ \cup {j} ELSE @]
     ELSE UNCHANGED <<made, state, owner, closing>>
  /\ Goto(w, Idle)
  /\ UNCHANGED <<stalls, rows, mails>>

Closed(status) == IF status = "PENDING" THEN "FAILED" ELSE status

\* The handler's updateMany; when the database refuses it, it only logs.
CloseRows(w, j) ==
  /\ j \in closing[w]
  /\ \/ rows' = [n \in DOMAIN rows |-> IF n[1] = j THEN Closed(rows[n]) ELSE rows[n]]
     \/ UNCHANGED rows
  /\ closing' = [closing EXCEPT ![w] = @ \ {j}]
  /\ UNCHANGED <<queue, mails, run>>

\* The worker process dies and is started again; its lock stays until it lapses.
Crash(w) ==
  /\ run[w] # Idle \/ closing[w] # {}
  /\ Goto(w, Idle)
  /\ closing' = [closing EXCEPT ![w] = {}]
  /\ UNCHANGED <<queue, rows, mails>>

Serving(w, j) == run[w] # Idle /\ Job(w) = j

\* The lock lapses: the job waits again, or has failed if it did so too often.
Lapse(j) ==
  /\ state[j] = "ACTIVE"
  /\ stalls' = [stalls EXCEPT ![j] = @ + 1]
  /\ state' = [state EXCEPT ![j] = IF stalls[j] < MaxStalled THEN "WAITING" ELSE "FAILED"]
  /\ owner' = [owner EXCEPT ![j] = "NONE"]
  /\ UNCHANGED <<made, rows, mails, run, closing>>

Reclaim(j) == state[j] = "ACTIVE" /\ ~Serving(owner[j], j) /\ Lapse(j)
Stall(j) == state[j] = "ACTIVE" /\ Serving(owner[j], j) /\ Lapse(j)

Work(w) ==
  Find(w) \/ Create(w) \/ SendEmail(w) \/ MarkSent(w) \/ Complete(w) \/ Fail(w)

Next ==
  \/ \E j \in Jobs : Enqueue(j) \/ Reclaim(j) \/ Stall(j)
  \/ \E w \in Workers : Work(w) \/ Throw(w) \/ Crash(w)
  \/ \E w \in Workers, j \in Jobs : Take(w, j) \/ CloseRows(w, j)

\* Running code goes on, an idle worker takes a job that waits, and BullMQ looks
\* for abandoned locks; nothing is assumed of clients, failures or crashes.
Fairness ==
  /\ \A w \in Workers : WF_vars(Work(w))
  /\ \A j \in Jobs : WF_vars(\E w \in Workers : Take(w, j)) /\ WF_vars(Reclaim(j))

Spec == Init /\ [][Next]_vars /\ Fairness

-----------------------------------------------------------------------------
\* Types: queue, rows and processors stay in the values the code can store.
TypeOK ==
  /\ state \in [Jobs -> {"ABSENT", "WAITING", "ACTIVE", "COMPLETED", "FAILED"}]
  /\ owner \in [Jobs -> Workers \cup {"NONE"}]
  /\ made \in [Jobs -> 0..Attempts]
  /\ stalls \in [Jobs -> 0..(MaxStalled + 1)]
  /\ rows \in [Jobs \X Channel \X Workers -> {"ABSENT", "PENDING", "SENT", "FAILED"}]
  /\ mails \in [Jobs -> Nat]
  /\ run \in [Workers -> Run]
  /\ closing \in [Workers -> SUBSET Jobs]

\* The 'failed' handler acts after the last attempt only: a notification is
\* FAILED only if its job is over with all attempts used up, so no attempt that
\* is still to come meets a row that was given up, although handlers run late.
FailedMeansOver ==
  \A j \in Jobs :
    (\E c \in Channel, v \in Workers : rows[<<j, c, v>>] = "FAILED")
      => state[j] = "FAILED" /\ made[j] = Attempts

\* Retries are idempotent: as long as a job never stalled, no attempt e-mails a
\* customer whose e-mail an earlier attempt has marked SENT, whichever later
\* channel made that attempt fail.
NoMailAfterSent ==
  [][\A j \in Jobs : mails'[j] > mails[j] /\ stalls[j] = 0
       => \A v \in Workers : rows[<<j, "EMAIL", v>>] # "SENT"]_vars

\* Through retries, duplicate rows and workers without a lock the queue keeps
\* the promise of Delivery: channels are served in order and for good, and a job
\* completes only with all of them SENT.
Promise == INSTANCE Delivery WITH
  outcome <- [j \in Jobs |->
    CASE state[j] = "ABSENT" -> "NONE"
      [] state[j] \in {"WAITING", "ACTIVE"} -> "QUEUED"
      [] OTHER -> state[j]],
  served <- [j \in Jobs |-> {k \in DOMAIN Channels[j] :
    \E v \in Workers : rows[<<j, Channels[j][k], v>>] = "SENT"}]
KeepsPromise == Promise!Spec

\* No job is stuck: whatever fails or dies, an accepted job ends.
JobsEnd == \A j \in Jobs :
  state[j] = "WAITING" ~> state[j] \in {"COMPLETED", "FAILED"}
=============================================================================
