------------------------- MODULE NotificationProofs -------------------------
(***************************************************************************)
(* For any number of jobs, workers, attempts and lapsed locks: the types   *)
(* of the notification queue, what a FAILED notification stands for, that  *)
(* retries repeat no e-mail, and that the queue implements Delivery.       *)
(***************************************************************************)
EXTENDS Notifications, TLAPS

Pending == {"ABSENT", "WAITING", "ACTIVE"}

\* A job that is not over has attempts and lapses to spare, and carries a lock
\* only while it is active.
QueueInv == \A j \in Jobs :
  /\ state[j] \in Pending => made[j] < Attempts /\ stalls[j] <= MaxStalled
  /\ owner[j] # "NONE" => state[j] = "ACTIVE"

\* A worker in the loop is at one of the channels of a job that was accepted.
LoopInv == \A w \in Workers :
  /\ run[w] # Idle => state[Job(w)] # "ABSENT"
  /\ run[w].pc \in Working => run[w].at \in DOMAIN Channels[Job(w)]

Typed == TypeOK /\ QueueInv /\ LoopInv

-----------------------------------------------------------------------------
\* A job has one channel or both, the e-mail first.
LEMMA ChannelsKnown ==
  ASSUME NEW j \in Jobs
  PROVE  /\ DOMAIN Channels[j] \in {1..1, 1..2}
         /\ \A k \in DOMAIN Channels[j] : Channels[j][k] \in Channel
         /\ \A k, l \in DOMAIN Channels[j] : Channels[j][k] = Channels[j][l] => k = l
<1>1. CASE Channels[j] = <<"IN_APP">>
  BY <1>1 DEF Channel
<1>2. CASE Channels[j] = <<"EMAIL", "IN_APP">>
  BY <1>2 DEF Channel
<1> QED BY <1>1, <1>2 DEF Channels

\* What a processor carries, by its program counter.
LEMMA RunFields ==
  ASSUME NEW q \in Run
  PROVE  /\ q # Idle <=> q.pc # "idle"
         /\ q # Idle => q.job \in Jobs
         /\ q.pc \in {"finding", "creating", "ending", "failing"} =>
              /\ q.at \in 1..3
              /\ q = [pc |-> q.pc, job |-> q.job, at |-> q.at]
         /\ q.pc \in {"delivering", "marking"} =>
              /\ q.at \in 1..2 /\ q.row \in Workers
              /\ q = [pc |-> q.pc, job |-> q.job, at |-> q.at, row |-> q.row]
  BY DEF Run, Idle

\* Where the loop goes on.
LEMMA LoopFields ==
  ASSUME NEW j \in Jobs, NEW k \in 1..3
  PROVE  /\ LoopAt(j, k) \in Run /\ LoopAt(j, k) # Idle
         /\ LoopAt(j, k).job = j /\ LoopAt(j, k).at = k
         /\ LoopAt(j, k).pc = IF k \in DOMAIN Channels[j] THEN "finding" ELSE "ending"
  BY DEF LoopAt, Run, Idle

\* What a delivery starts with.
LEMMA DeliverFields ==
  ASSUME TypeOK, NEW w \in Workers, NEW v \in Workers, run[w].pc \in Working,
         run[w].at \in DOMAIN Channels[Job(w)]
  PROVE  /\ DeliverTo(w, v) \in Run /\ DeliverTo(w, v) # Idle
         /\ DeliverTo(w, v).pc = IF Channels[Job(w)][run[w].at] = "EMAIL"
                                 THEN "delivering" ELSE "marking"
         /\ DeliverTo(w, v).job = Job(w) /\ DeliverTo(w, v).at = run[w].at
         /\ DeliverTo(w, v).row = v
<1>1. PICK q \in Run : q = run[w]
  BY DEF TypeOK
<1>2. q.job \in Jobs
  BY <1>1, RunFields DEF Working
<1>3. q.at \in 1..2
  BY <1>1, <1>2, ChannelsKnown DEF Job
<1> QED BY <1>1, <1>2, <1>3 DEF DeliverTo, Job, Run, Idle

LEMMA TypedInit == Init => Typed
  BY KindAssumption, LimitsAssumption
     DEF Init, Typed, TypeOK, QueueInv, LoopInv, Run, Idle, Working, Pending

-----------------------------------------------------------------------------
\* A step that moves one processor on keeps the types, if where it goes to is
\* in the loop of the same job.
LEMMA RunMoved ==
  ASSUME Typed, NEW w \in Workers, NEW q \in Run, Goto(w, q),
         \A j \in Jobs : state[j] # "ABSENT" => state'[j] # "ABSENT",
         q # Idle => state'[q.job] # "ABSENT",
         q.pc \in Working => q.at \in DOMAIN Channels[q.job]
  PROVE  run' \in [Workers -> Run] /\ LoopInv'
<1>1. /\ run' \in [Workers -> Run] /\ run'[w] = q
      /\ \A v \in Workers \ {w} : run'[v] = run[v]
  BY DEF Goto, Typed, TypeOK
<1>2. ASSUME NEW v \in Workers
      PROVE  /\ run'[v] # Idle => state'[run'[v].job] # "ABSENT"
             /\ run'[v].pc \in Working => run'[v].at \in DOMAIN Channels[run'[v].job]
  <2>1. CASE v = w
    BY <1>1, <2>1
  <2>2. CASE v # w
    <3>1. run[v] # Idle => run[v].job \in Jobs
      BY RunFields DEF Typed, TypeOK
    <3> QED BY <1>1, <2>2, <3>1 DEF Typed, LoopInv, Job
  <2> QED BY <2>1, <2>2
<1> QED BY <1>1, <1>2 DEF LoopInv, Job

\* The processor's own statements.
LEMMA WorkTyped ==
  ASSUME Typed, NEW w \in Workers,
         Find(w) \/ Create(w) \/ SendEmail(w) \/ MarkSent(w) \/ Throw(w) \/ Crash(w)
  PROVE  Typed'
<1>0. TypeOK /\ QueueInv /\ LoopInv
  BY DEF Typed
<1>1. PICK q \in Run : q = run[w]
  BY <1>0 DEF TypeOK
<1>2. QueueInv'
  BY <1>0 DEF Find, Create, SendEmail, MarkSent, Throw, Crash, queue, QueueInv
<1>3. state' = state
  BY DEF Find, Create, SendEmail, MarkSent, Throw, Crash, queue
<1>4. q.pc \in Working =>
        /\ q.job \in Jobs /\ state[q.job] # "ABSENT"
        /\ q.at \in DOMAIN Channels[q.job] /\ q.at \in 1..2 /\ q.at + 1 \in 1..3
        /\ Channels[q.job][q.at] \in Channel
  <2> SUFFICES ASSUME q.pc \in Working
               PROVE  /\ q.job \in Jobs /\ state[q.job] # "ABSENT"
                      /\ q.at \in DOMAIN Channels[q.job] /\ q.at \in 1..2
                      /\ q.at + 1 \in 1..3 /\ Channels[q.job][q.at] \in Channel
    OBVIOUS
  <2>1. q.job \in Jobs /\ q # Idle
    BY RunFields DEF Working
  <2>2. state[q.job] # "ABSENT" /\ q.at \in DOMAIN Channels[q.job]
    BY <1>0, <1>1, <2>1 DEF LoopInv, Job
  <2>3. q.at \in 1..2 /\ Channels[q.job][q.at] \in Channel
    BY <2>1, <2>2, ChannelsKnown
  <2> QED BY <2>1, <2>2, <2>3
<1>5. PICK s \in Run : /\ Goto(w, s)
                       /\ s # Idle => state[s.job] # "ABSENT"
                       /\ s.pc \in Working => s.at \in DOMAIN Channels[s.job]
  <2>1. CASE Find(w)
    <3>1. q.pc \in Working /\ q.pc = "finding"
      BY <1>1, <2>1 DEF Find, At, Working
    <3>2. [q EXCEPT !.pc = "creating"] =
            [pc |-> "creating", job |-> q.job, at |-> q.at]
      BY <3>1, RunFields
    <3>3. CASE Goto(w, [run[w] EXCEPT !.pc = "creating"])
      <4>1. [pc |-> "creating", job |-> q.job, at |-> q.at] \in Run
        BY <1>4, <3>1 DEF Run
      <4> QED BY <1>1, <1>4, <3>1, <3>2, <3>3, <4>1
    <3>4. ASSUME NEW v \in Workers, Goto(w, Found(w, v))
          PROVE  \E s \in Run : /\ Goto(w, s)
                                /\ s # Idle => state[s.job] # "ABSENT"
                                /\ s.pc \in Working => s.at \in DOMAIN Channels[s.job]
      <4>1. CASE Found(w, v) = LoopAt(q.job, q.at + 1)
        BY <1>4, <3>1, <3>4, <4>1, LoopFields DEF Working
      <4>2. CASE Found(w, v) = DeliverTo(w, v)
        BY <1>0, <1>1, <1>4, <3>1, <3>4, <4>2, DeliverFields DEF Job
      <4> QED BY <1>1, <4>1, <4>2 DEF Found, Job
    <3> QED BY <2>1, <3>3, <3>4 DEF Find
  <2>2. CASE Create(w)
    <3>1. q.pc \in Working
      BY <1>1, <2>2 DEF Create, At, Working
    <3> QED BY <1>0, <1>1, <1>4, <2>2, <3>1, DeliverFields DEF Create, Job
  <2>3. CASE SendEmail(w)
    <3>1. q.pc \in Working /\ q.pc = "delivering"
      BY <1>1, <2>3 DEF SendEmail, At, Working
    <3>2. [q EXCEPT !.pc = "marking"] =
            [pc |-> "marking", job |-> q.job, at |-> q.at, row |-> q.row]
      BY <3>1, RunFields
    <3>3. [pc |-> "marking", job |-> q.job, at |-> q.at, row |-> q.row] \in Run
      BY <1>4, <3>1, RunFields DEF Run
    <3> QED BY <1>1, <1>4, <2>3, <3>1, <3>2, <3>3 DEF SendEmail
  <2>4. CASE MarkSent(w)
    <3>1. q.pc \in Working
      BY <1>1, <2>4 DEF MarkSent, At, Working
    <3> QED BY <1>1, <1>4, <2>4, <3>1, LoopFields DEF MarkSent, Job, Working
  <2>5. CASE Throw(w)
    <3>1. q.pc \in Working
      BY <1>1, <2>5 DEF Throw
    <3>2. AfterError(w) = [pc |-> "failing", job |-> q.job, at |-> q.at]
      BY <1>1 DEF AfterError, Job
    <3>3. [pc |-> "failing", job |-> q.job, at |-> q.at] \in Run
      BY <1>4, <3>1 DEF Run
    <3> QED BY <1>4, <2>5, <3>1, <3>2, <3>3 DEF Throw, Working
  <2>6. CASE Crash(w)
    BY <2>6 DEF Crash, Run, Idle, Working
  <2> QED BY <2>1, <2>2, <2>3, <2>4, <2>5, <2>6
<1>6. run' \in [Workers -> Run] /\ LoopInv'
  BY <1>3, <1>5, RunMoved
<1>7. rows' \in [Jobs \X Channel \X Workers -> {"ABSENT", "PENDING", "SENT", "FAILED"}]
  BY <1>0 DEF Find, Create, SendEmail, MarkSent, Throw, Crash, TypeOK
<1>8. mails' \in [Jobs -> Nat]
  BY <1>0, <1>1, <1>4 DEF Find, Create, SendEmail, MarkSent, Throw, Crash, TypeOK, At, Working, Job
<1>9. closing' \in [Workers -> SUBSET Jobs] /\ UNCHANGED queue
  BY <1>0 DEF Find, Create, SendEmail, MarkSent, Throw, Crash, TypeOK
<1> QED BY <1>0, <1>2, <1>6, <1>7, <1>8, <1>9 DEF Typed, TypeOK, queue

\* A step of the queue that touches one job keeps the types.
LEMMA JobMoved ==
  ASSUME Typed, NEW j \in Jobs,
         NEW s \in {"WAITING", "ACTIVE", "COMPLETED", "FAILED"},
         NEW o \in Workers \cup {"NONE"}, NEW m \in 0..Attempts, NEW l \in 0..(MaxStalled + 1),
         state' = [state EXCEPT ![j] = s], owner' = [owner EXCEPT ![j] = o],
         made' = [made EXCEPT ![j] = m], stalls' = [stalls EXCEPT ![j] = l],
         s \in Pending => m < Attempts /\ l <= MaxStalled,
         o # "NONE" => s = "ACTIVE"
  PROVE  /\ QueueInv'
         /\ state' \in [Jobs -> {"ABSENT", "WAITING", "ACTIVE", "COMPLETED", "FAILED"}]
         /\ owner' \in [Jobs -> Workers \cup {"NONE"}]
         /\ made' \in [Jobs -> 0..Attempts]
         /\ stalls' \in [Jobs -> 0..(MaxStalled + 1)]
         /\ \A i \in Jobs : state[i] # "ABSENT" => state'[i] # "ABSENT"
         /\ state'[j] = s
  BY DEF Typed, TypeOK, QueueInv

\* What the queue does with its jobs.
LEMMA QueueTyped ==
  ASSUME Typed, NEW j \in Jobs,
         \/ Enqueue(j) \/ Lapse(j)
         \/ \E w \in Workers :
              Take(w, j) \/ (Job(w) = j /\ (Complete(w) \/ Fail(w)))
  PROVE  Typed'
<1>0. TypeOK /\ QueueInv /\ LoopInv
  BY DEF Typed
<1>a. /\ state[j] \in {"ABSENT", "WAITING", "ACTIVE", "COMPLETED", "FAILED"}
      /\ owner[j] \in Workers \cup {"NONE"}
      /\ made[j] \in 0..Attempts /\ stalls[j] \in 0..(MaxStalled + 1)
      /\ state[j] \in Pending => made[j] < Attempts /\ stalls[j] <= MaxStalled
      /\ owner[j] # "NONE" => state[j] = "ACTIVE"
  BY <1>0 DEF TypeOK, QueueInv
<1>b. /\ state = [state EXCEPT ![j] = state[j]] /\ owner = [owner EXCEPT ![j] = owner[j]]
      /\ made = [made EXCEPT ![j] = made[j]] /\ stalls = [stalls EXCEPT ![j] = stalls[j]]
  BY <1>0 DEF TypeOK
<1>c. Idle \in Run /\ "NONE" \in Workers \cup {"NONE"}
  BY DEF Run
<1>1. CASE Enqueue(j)
  <2>1. /\ QueueInv'
        /\ state' \in [Jobs -> {"ABSENT", "WAITING", "ACTIVE", "COMPLETED", "FAILED"}]
        /\ \A i \in Jobs : state[i] # "ABSENT" => state'[i] # "ABSENT"
    <3>1. /\ state' = [state EXCEPT ![j] = "WAITING"] /\ owner' = [owner EXCEPT ![j] = "NONE"]
          /\ made' = [made EXCEPT ![j] = made[j]] /\ stalls' = [stalls EXCEPT ![j] = stalls[j]]
      BY <1>a, <1>b, <1>1 DEF Enqueue
    <3>2. made[j] < Attempts /\ stalls[j] <= MaxStalled
      BY <1>a, <1>1 DEF Enqueue, Pending
    <3> QED BY <1>a, <1>c, <3>1, <3>2, JobMoved
  <2>2. LoopInv'
    <3>1. \A w \in Workers : run[w] # Idle => Job(w) \in Jobs
      BY <1>0, RunFields DEF TypeOK, Job
    <3> QED BY <1>0, <1>1, <2>1, <3>1 DEF Enqueue, LoopInv, Job
  <2> QED BY <1>0, <1>1, <2>1, <2>2 DEF Enqueue, Typed, TypeOK
<1>2. CASE Lapse(j)
  <2>1. PICK s \in {"WAITING", "FAILED"} :
          /\ s = IF stalls[j] < MaxStalled THEN "WAITING" ELSE "FAILED"
          /\ state' = [state EXCEPT ![j] = s]
    BY <1>2 DEF Lapse
  <2>2. PICK l \in 0..(MaxStalled + 1) :
          /\ l = stalls[j] + 1
          /\ stalls' = [stalls EXCEPT ![j] = l]
    <3>1. stalls[j] <= MaxStalled
      BY <1>a, <1>2 DEF Lapse, Pending
    <3>2. stalls[j] + 1 \in 0..(MaxStalled + 1)
      BY <1>a, <3>1, LimitsAssumption
    <3> QED BY <1>2, <3>2 DEF Lapse
  <2>3. s = "WAITING" => l <= MaxStalled
    BY <1>a, <2>1, <2>2, LimitsAssumption
  <2>4. made[j] < Attempts
    BY <1>a, <1>2 DEF Lapse, Pending
  <2>5. /\ QueueInv'
        /\ state' \in [Jobs -> {"ABSENT", "WAITING", "ACTIVE", "COMPLETED", "FAILED"}]
        /\ owner' \in [Jobs -> Workers \cup {"NONE"}]
        /\ stalls' \in [Jobs -> 0..(MaxStalled + 1)]
        /\ \A i \in Jobs : state[i] # "ABSENT" => state'[i] # "ABSENT"
    <3>1. owner' = [owner EXCEPT ![j] = "NONE"] /\ made' = [made EXCEPT ![j] = made[j]]
      BY <1>b, <1>2 DEF Lapse
    <3>2. s \in {"WAITING", "ACTIVE", "COMPLETED", "FAILED"}
      OBVIOUS
    <3>3. s \in Pending => made[j] < Attempts /\ l <= MaxStalled
      BY <2>3, <2>4 DEF Pending
    <3> QED BY <1>a, <1>c, <2>1, <2>2, <3>1, <3>2, <3>3, JobMoved
  <2>6. LoopInv'
    <3>1. \A w \in Workers : run[w] # Idle => Job(w) \in Jobs
      BY <1>0, RunFields DEF TypeOK, Job
    <3> QED BY <1>0, <1>2, <2>5, <3>1 DEF Lapse, LoopInv, Job
  <2> QED BY <1>0, <1>2, <2>5, <2>6 DEF Lapse, Typed, TypeOK
<1>3. ASSUME NEW w \in Workers, Take(w, j) PROVE Typed'
  <2>1. /\ QueueInv'
        /\ state' \in [Jobs -> {"ABSENT", "WAITING", "ACTIVE", "COMPLETED", "FAILED"}]
        /\ owner' \in [Jobs -> Workers \cup {"NONE"}]
        /\ \A i \in Jobs : state[i] # "ABSENT" => state'[i] # "ABSENT"
        /\ state'[j] = "ACTIVE"
    <3>1. /\ state' = [state EXCEPT ![j] = "ACTIVE"] /\ owner' = [owner EXCEPT ![j] = w]
          /\ made' = [made EXCEPT ![j] = made[j]] /\ stalls' = [stalls EXCEPT ![j] = stalls[j]]
      BY <1>b, <1>3 DEF Take
    <3>2. made[j] < Attempts /\ stalls[j] <= MaxStalled
      BY <1>a, <1>3 DEF Take, Pending
    <3> QED BY <1>a, <3>1, <3>2, JobMoved
  <2>2. LoopAt(j, 1) \in Run
    BY LoopFields
  <2>3. LoopAt(j, 1).job = j /\
        (LoopAt(j, 1).pc \in Working => LoopAt(j, 1).at \in DOMAIN Channels[j])
    BY LoopFields DEF Working
  <2>4. run' \in [Workers -> Run] /\ LoopInv'
    BY <1>3, <2>1, <2>2, <2>3, RunMoved DEF Take
  <2> QED BY <1>0, <1>3, <2>1, <2>4 DEF Take, Typed, TypeOK
<1>4. ASSUME NEW w \in Workers, Job(w) = j, Complete(w) PROVE Typed'
  <2>1. /\ QueueInv'
        /\ state' \in [Jobs -> {"ABSENT", "WAITING", "ACTIVE", "COMPLETED", "FAILED"}]
        /\ owner' \in [Jobs -> Workers \cup {"NONE"}]
        /\ \A i \in Jobs : state[i] # "ABSENT" => state'[i] # "ABSENT"
    <3>1. CASE owner[j] = w
      BY <1>a, <1>b, <1>c, <1>4, <3>1, JobMoved DEF Complete, Pending
    <3>2. CASE owner[j] # w
      BY <1>0, <1>4, <3>2 DEF Complete, QueueInv, TypeOK
    <3> QED BY <3>1, <3>2
  <2>2. run' \in [Workers -> Run] /\ LoopInv'
    BY <1>c, <1>4, <2>1, RunMoved DEF Complete, Idle, Working
  <2> QED BY <1>0, <1>4, <2>1, <2>2 DEF Complete, Typed, TypeOK
<1>5. ASSUME NEW w \in Workers, Job(w) = j, Fail(w) PROVE Typed'
  <2>1. /\ QueueInv'
        /\ state' \in [Jobs -> {"ABSENT", "WAITING", "ACTIVE", "COMPLETED", "FAILED"}]
        /\ owner' \in [Jobs -> Workers \cup {"NONE"}]
        /\ made' \in [Jobs -> 0..Attempts]
        /\ \A i \in Jobs : state[i] # "ABSENT" => state'[i] # "ABSENT"
    <3>1. CASE owner[j] = w
      <4>1. state[j] = "ACTIVE" /\ made[j] < Attempts /\ stalls[j] <= MaxStalled
        BY <1>a, <3>1, WorkersAssumption DEF Pending
      <4>2. PICK m \in 0..Attempts : m = made[j] + 1
        BY <1>a, <4>1, LimitsAssumption
      <4>3. PICK s \in {"FAILED", "WAITING"} :
              s = Retried(j) /\ (s = "WAITING" => m < Attempts)
        BY <1>a, <4>2, LimitsAssumption DEF Retried
      <4>4. /\ made' = [made EXCEPT ![j] = m] /\ state' = [state EXCEPT ![j] = s]
            /\ owner' = [owner EXCEPT ![j] = "NONE"]
            /\ stalls' = [stalls EXCEPT ![j] = stalls[j]]
        BY <1>b, <1>5, <3>1, <4>2, <4>3 DEF Fail
      <4>5. s \in Pending => m < Attempts /\ stalls[j] <= MaxStalled
        BY <4>1, <4>3 DEF Pending
      <4>6. s \in {"WAITING", "ACTIVE", "COMPLETED", "FAILED"}
        OBVIOUS
      <4> QED BY <1>a, <1>c, <4>4, <4>5, <4>6, JobMoved
    <3>2. CASE owner[j] # w
      BY <1>0, <1>5, <3>2 DEF Fail, QueueInv, TypeOK
    <3> QED BY <3>1, <3>2
  <2>2. run' \in [Workers -> Run] /\ LoopInv'
    BY <1>c, <1>5, <2>1, RunMoved DEF Fail, Idle, Working
  <2>3. closing' \in [Workers -> SUBSET Jobs]
    BY <1>0, <1>5 DEF Fail, TypeOK
  <2> QED BY <1>0, <1>5, <2>1, <2>2, <2>3 DEF Fail, Typed, TypeOK
<1> QED BY <1>1, <1>2, <1>3, <1>4, <1>5

\* Rows that the handler closes keep their type.
LEMMA CloseTyped ==
  ASSUME Typed, NEW w \in Workers, NEW j \in Jobs, CloseRows(w, j) PROVE Typed'
<1>1. rows' \in [Jobs \X Channel \X Workers -> {"ABSENT", "PENDING", "SENT", "FAILED"}]
  BY DEF CloseRows, Closed, Typed, TypeOK
<1>2. closing' \in [Workers -> SUBSET Jobs]
  BY DEF CloseRows, Typed, TypeOK
<1> QED BY <1>1, <1>2 DEF CloseRows, Typed, TypeOK, QueueInv, LoopInv, queue, Job

\* A processor that ends or fails is at a job.
LEMMA BusyJob ==
  ASSUME TypeOK, NEW w \in Workers, run[w].pc # "idle" PROVE Job(w) \in Jobs
  BY RunFields DEF TypeOK, Job

LEMMA TypedStep == Typed /\ [Next]_vars => Typed'
<1> SUFFICES ASSUME Typed, [Next]_vars PROVE Typed'
  OBVIOUS
<1>1. ASSUME NEW w \in Workers, Complete(w) \/ Fail(w) PROVE Typed'
  <2>1. Job(w) \in Jobs
    BY <1>1, BusyJob DEF Complete, Fail, At, Typed
  <2> QED BY <1>1, <2>1, QueueTyped
<1>2. CASE UNCHANGED vars
  BY <1>2 DEF vars, queue, Typed, TypeOK, QueueInv, LoopInv, Job
<1> QED BY <1>1, <1>2, WorkTyped, QueueTyped, CloseTyped DEF Next, Work, Reclaim, Stall

-----------------------------------------------------------------------------
\* Who writes a row.
LEMMA RowWrites ==
  ASSUME Typed, [Next]_vars, NEW j \in Jobs, NEW c \in Channel, NEW v \in Workers
  PROVE  \/ rows'[<<j, c, v>>] = rows[<<j, c, v>>]
         \/ /\ Create(v) /\ Job(v) = j /\ Channels[j][run[v].at] = c
            /\ rows'[<<j, c, v>>] = "PENDING"
         \/ /\ rows'[<<j, c, v>>] = "SENT"
            /\ \E w \in Workers : /\ MarkSent(w) /\ Job(w) = j /\ run[w].row = v
                                  /\ Channels[j][run[w].at] = c
         \/ /\ rows'[<<j, c, v>>] = Closed(rows[<<j, c, v>>])
            /\ \E w \in Workers : j \in closing[w]
<1> DEFINE n == <<j, c, v>>
<1>0. n \in Jobs \X Channel \X Workers /\ n \in DOMAIN rows
  BY DEF Typed, TypeOK
<1>1. ASSUME NEW w \in Workers, Create(w), rows'[n] # rows[n]
      PROVE  /\ w = v /\ Job(v) = j /\ Channels[j][run[v].at] = c /\ rows'[n] = "PENDING"
  <2>1. n = Row(w, w)
    BY <1>0, <1>1 DEF Create, Typed, TypeOK
  <2>2. rows'[n] = "PENDING"
    BY <1>0, <1>1, <2>1 DEF Create, Typed, TypeOK
  <2> QED BY <2>1, <2>2 DEF Row
<1>2. ASSUME NEW w \in Workers, MarkSent(w), rows'[n] # rows[n]
      PROVE  /\ Job(w) = j /\ run[w].row = v /\ Channels[j][run[w].at] = c
             /\ rows'[n] = "SENT"
  <2>1. n = Row(w, run[w].row)
    BY <1>0, <1>2 DEF MarkSent, Typed, TypeOK
  <2>2. rows'[n] = "SENT"
    BY <1>0, <1>2, <2>1 DEF MarkSent, Typed, TypeOK
  <2> QED BY <2>1, <2>2 DEF Row
<1>3. ASSUME NEW w \in Workers, NEW i \in Jobs, CloseRows(w, i), rows'[n] # rows[n]
      PROVE  i = j /\ j \in closing[w] /\ rows'[n] = Closed(rows[n])
  <2>1. rows' = [m \in DOMAIN rows |-> IF m[1] = i THEN Closed(rows[m]) ELSE rows[m]]
    BY <1>3 DEF CloseRows
  <2>2. rows'[n] = IF n[1] = i THEN Closed(rows[n]) ELSE rows[n]
    BY <1>0, <2>1
  <2>3. n[1] = j
    OBVIOUS
  <2> QED BY <1>3, <2>2, <2>3 DEF CloseRows
<1>4. CASE UNCHANGED rows
  BY <1>4
<1> QED BY <1>1, <1>2, <1>3, <1>4
        DEF Next, vars, Enqueue, Take, Reclaim, Stall, Lapse, Work, Find, SendEmail,
            Complete, Fail, Throw, Crash

\* A job with all attempts used up.
Over(j) == state[j] = "FAILED" /\ made[j] = Attempts

FailedInv == FailedMeansOver /\ \A w \in Workers : \A j \in closing[w] : Over(j)

\* It stays over, whoever still works at it.
LEMMA OverStays ==
  ASSUME Typed, [Next]_vars, NEW j \in Jobs, Over(j) PROVE Over(j)'
<1>1. owner[j] = "NONE" /\ owner[j] \notin Workers
  BY WorkersAssumption DEF Over, Typed, QueueInv
<1>2. CASE UNCHANGED <<state, made>>
  BY <1>2 DEF Over
<1>3. ASSUME NEW i \in Jobs, \/ Enqueue(i) \/ Lapse(i)
                             \/ \E w \in Workers : Take(w, i)
      PROVE  Over(j)'
  BY <1>3 DEF Enqueue, Lapse, Take, Over, Typed, TypeOK
<1>4. ASSUME NEW w \in Workers, Complete(w) \/ Fail(w) PROVE Over(j)'
  <2>1. CASE Job(w) = j
    BY <1>1, <1>4, <2>1 DEF Complete, Fail, Over
  <2>2. CASE Job(w) # j
    BY <1>4, <2>2 DEF Complete, Fail, Over, Typed, TypeOK
  <2> QED BY <2>1, <2>2
<1> QED BY <1>2, <1>3, <1>4
        DEF Next, vars, queue, Reclaim, Stall, Work, Find, Create, SendEmail, MarkSent,
            Throw, Crash, CloseRows

\* The handler is called after the last attempt, and closes rows while the job is over.
LEMMA FailedStep == Typed /\ FailedInv /\ [Next]_vars => FailedInv'
<1> SUFFICES ASSUME Typed, FailedInv, [Next]_vars PROVE FailedInv'
  OBVIOUS
<1>0. TypeOK /\ \A w \in Workers : closing[w] \subseteq Jobs
  BY DEF Typed, TypeOK
<1>1. ASSUME NEW w \in Workers, NEW j \in closing'[w] PROVE Over(j)'
  <2>1. ASSUME NEW u \in Workers, Fail(u), j \notin closing[w] PROVE j \in Jobs /\ Over(j)'
    <3>1. /\ owner[Job(u)] = u /\ LastAttempt(Job(u))
          /\ closing' = [closing EXCEPT ![u] = closing[u] \cup {Job(u)}]
      <4>1. owner[Job(u)] = u
        BY <1>1, <2>1 DEF Fail
      <4>2. closing' = [closing EXCEPT ![u] =
              IF LastAttempt(Job(u)) THEN closing[u] \cup {Job(u)} ELSE closing[u]]
        BY <2>1, <4>1 DEF Fail
      <4>3. LastAttempt(Job(u))
        BY <1>0, <1>1, <2>1, <4>2 DEF TypeOK
      <4> QED BY <4>1, <4>2, <4>3
    <3>2. j = Job(u)
      BY <1>0, <1>1, <2>1, <3>1 DEF TypeOK
    <3>3. j \in Jobs
      BY <1>0, <2>1, <3>2, BusyJob DEF Fail, At
    <3>4. made[j] \in 0..Attempts /\ made[j] < Attempts
      BY <3>1, <3>2, <3>3, WorkersAssumption DEF Typed, TypeOK, QueueInv, Pending
    <3>5. made[j] + 1 = Attempts
      BY <3>1, <3>2, <3>4, LimitsAssumption DEF LastAttempt
    <3>6. made'[j] = Attempts /\ state'[j] = "FAILED"
      BY <1>0, <2>1, <3>1, <3>2, <3>3, <3>5, LimitsAssumption DEF Fail, Retried, TypeOK
    <3> QED BY <3>3, <3>6 DEF Over
  <2>2. CASE j \in closing[w]
    BY <1>0, <2>2, OverStays DEF FailedInv
  <2>3. CASE j \notin closing[w]
    <3>1. \E u \in Workers : Fail(u)
      BY <1>0, <1>1, <2>3
         DEF Next, vars, Enqueue, Take, Reclaim, Stall, Lapse, Work, Find, Create, SendEmail,
             MarkSent, Complete, Throw, Crash, CloseRows, TypeOK
    <3> QED BY <2>1, <2>3, <3>1
  <2> QED BY <2>2, <2>3
<1>2. ASSUME NEW j \in Jobs, NEW c \in Channel, NEW v \in Workers,
             rows'[<<j, c, v>>] = "FAILED"
      PROVE  Over(j)'
  <2>1. rows[<<j, c, v>>] = "FAILED" \/ \E w \in Workers : j \in closing[w]
    BY <1>2, RowWrites
  <2>2. Over(j)
    BY <2>1 DEF FailedInv, FailedMeansOver, Over
  <2> QED BY <2>2, OverStays
<1> QED BY <1>1, <1>2 DEF FailedInv, FailedMeansOver, Over

\* A position of a job is served when some row of it is SENT.
Delivered(j, k) == \E v \in Workers : rows[<<j, Channels[j][k], v>>] = "SENT"

\* What processor q of worker w relies on: the channels before its own are
\* served, the row it is about to insert is not there, the one it delivers is.
Serves(w, q) ==
  /\ q.pc \in Working => \A k \in 1..(q.at - 1) : Delivered(q.job, k)
  /\ q.pc = "ending" => \A k \in DOMAIN Channels[q.job] : Delivered(q.job, k)
  /\ q.pc = "creating" => rows[<<q.job, Channels[q.job][q.at], w>>] = "ABSENT"
  /\ q.pc \in {"delivering", "marking"} =>
       rows[<<q.job, Channels[q.job][q.at], q.row>>] # "ABSENT"

ServeInv == \A w \in Workers : Serves(w, run[w])

-----------------------------------------------------------------------------
\* What a worker in the loop is at.
LEMMA AtChannel ==
  ASSUME Typed, NEW w \in Workers, run[w].pc \in Working
  PROVE  /\ Job(w) \in Jobs /\ run[w].at \in DOMAIN Channels[Job(w)]
         /\ Channels[Job(w)][run[w].at] \in Channel
         /\ run[w].at \in 1..2 /\ \A k \in 1..(run[w].at - 1) : k \in DOMAIN Channels[Job(w)]
<1>1. Job(w) \in Jobs
  BY BusyJob DEF Typed, Working
<1>2. run[w].at \in DOMAIN Channels[Job(w)]
  BY DEF Typed, LoopInv
<1> QED BY <1>1, <1>2, ChannelsKnown

\* Rows that are SENT stay SENT, rows that are stored stay stored.
LEMMA RowsStay ==
  ASSUME Typed, ServeInv, [Next]_vars, NEW j \in Jobs, NEW c \in Channel, NEW v \in Workers
  PROVE  /\ rows[<<j, c, v>>] = "SENT" => rows'[<<j, c, v>>] = "SENT"
         /\ rows[<<j, c, v>>] # "ABSENT" => rows'[<<j, c, v>>] # "ABSENT"
<1>1. ASSUME Create(v), Job(v) = j, Channels[j][run[v].at] = c
      PROVE  rows[<<j, c, v>>] = "ABSENT"
  BY <1>1 DEF Create, At, Job, ServeInv, Serves
<1>2. Closed("SENT") = "SENT"
  BY DEF Closed
<1>3. rows[<<j, c, v>>] # "ABSENT" => Closed(rows[<<j, c, v>>]) # "ABSENT"
  BY DEF Closed
<1> QED BY <1>1, <1>2, <1>3, RowWrites

\* What is served stays served.
LEMMA DeliveredStays ==
  ASSUME Typed, ServeInv, [Next]_vars, NEW j \in Jobs, NEW k \in DOMAIN Channels[j],
         Delivered(j, k)
  PROVE  Delivered(j, k)'
<1>1. PICK c \in Channel : c = Channels[j][k]
  BY ChannelsKnown
<1>2. PICK v \in Workers : rows[<<j, c, v>>] = "SENT"
  BY <1>1 DEF Delivered
<1>3. rows'[<<j, c, v>>] = "SENT"
  BY <1>2, RowsStay
<1> QED BY <1>1, <1>3 DEF Delivered

\* Nobody inserts a row in another worker's name.
LEMMA AbsentStays ==
  ASSUME Typed, ServeInv, [Next]_vars, NEW w \in Workers, At(w, "creating"), ~Create(w),
         NEW j \in Jobs, j = Job(w), NEW c \in Channel, c = Channels[j][run[w].at]
  PROVE  rows'[<<j, c, w>>] = "ABSENT"
<1>1. rows[<<j, c, w>>] = "ABSENT"
  BY DEF ServeInv, Serves, At, Job
<1>2. ASSUME NEW u \in Workers, MarkSent(u), Job(u) = j, run[u].row = w,
             Channels[j][run[u].at] = c
      PROVE  FALSE
  BY <1>1, <1>2 DEF MarkSent, At, ServeInv, Serves, Job
<1>3. Closed("ABSENT") = "ABSENT"
  BY DEF Closed
<1> QED BY <1>1, <1>2, <1>3, RowWrites

\* A processor that did not move relies on the same.
LEMMA ServesKept ==
  ASSUME Typed, ServeInv, [Next]_vars, NEW w \in Workers, run'[w] = run[w]
  PROVE  Serves(w, run[w])'
<1>0. Serves(w, run[w])
  BY DEF ServeInv
<1>1. PICK q \in Run : q = run[w] /\ q = run'[w]
  BY DEF Typed, TypeOK
<1>2. CASE q.pc \in Working
  <2>1. PICK j \in Jobs, c \in Channel :
          /\ j = q.job /\ c = Channels[j][q.at] /\ q.at \in DOMAIN Channels[j]
          /\ \A k \in 1..(q.at - 1) : k \in DOMAIN Channels[j]
    BY <1>1, <1>2, AtChannel DEF Job
  <2>2. \A k \in 1..(q.at - 1) : Delivered(j, k)'
    BY <1>0, <1>1, <1>2, <2>1, DeliveredStays DEF Serves
  <2>3. q.pc = "creating" => rows'[<<j, c, w>>] = "ABSENT"
    <3>1. ~Create(w)
      BY <1>1, <1>2, AtChannel, DeliverFields DEF Create, At, Goto, Typed, TypeOK
    <3> QED BY <1>1, <2>1, <3>1, AbsentStays DEF At, Job
  <2>4. q.pc \in {"delivering", "marking"} => rows'[<<j, c, q.row>>] # "ABSENT"
    <3>1. q.pc \in {"delivering", "marking"} => q.row \in Workers
      BY RunFields
    <3> QED BY <1>0, <1>1, <2>1, <3>1, RowsStay DEF Serves
  <2> QED BY <1>1, <1>2, <2>1, <2>2, <2>3, <2>4 DEF Serves, Working, Delivered
<1>3. CASE q.pc = "ending"
  <2>1. PICK j \in Jobs : j = q.job
    BY <1>3, RunFields DEF Idle
  <2>2. \A k \in DOMAIN Channels[j] : Delivered(j, k)'
    BY <1>0, <1>1, <1>3, <2>1, DeliveredStays DEF Serves
  <2> QED BY <1>1, <1>3, <2>1, <2>2 DEF Serves, Working, Delivered
<1>4. CASE q.pc \notin Working \cup {"ending"}
  BY <1>1, <1>4 DEF Serves, Working
<1> QED BY <1>2, <1>3, <1>4

\* A processor is moved by its own worker only.
LEMMA WhoMoves ==
  ASSUME Typed, [Next]_vars, NEW w \in Workers, run'[w] # run[w]
  PROVE  (\E j \in Jobs : Take(w, j)) \/ Work(w) \/ Throw(w) \/ Crash(w)
<1>1. ASSUME NEW u \in Workers, NEW s, Goto(u, s) PROVE u = w
  BY <1>1 DEF Goto, Typed, TypeOK
<1>2. ASSUME NEW u \in Workers, Work(u) \/ Throw(u) \/ Crash(u) PROVE u = w
  BY <1>1, <1>2
     DEF Work, Find, Create, SendEmail, MarkSent, Complete, Fail, Throw, Crash
<1>3. ASSUME NEW u \in Workers, NEW j \in Jobs, Take(u, j) PROVE u = w
  BY <1>1, <1>3 DEF Take
<1>4. ASSUME NEW u \in Workers, NEW j \in Jobs, CloseRows(u, j) PROVE FALSE
  BY <1>4 DEF CloseRows
<1>5. ASSUME NEW j \in Jobs, Enqueue(j) \/ Reclaim(j) \/ Stall(j) PROVE FALSE
  BY <1>5 DEF Enqueue, Reclaim, Stall, Lapse
<1> QED BY <1>2, <1>3, <1>4, <1>5 DEF Next, vars

\* Going on with the next channel when those before it are served.
LEMMA LoopServes ==
  ASSUME Typed', NEW w \in Workers, NEW j \in Jobs, NEW k \in 1..3, run'[w] = LoopAt(j, k),
         \A l \in 1..(k - 1) : l \in DOMAIN Channels[j] => Delivered(j, l)',
         \A l \in 1..(k - 1) : l \in DOMAIN Channels[j]
  PROVE  Serves(w, run[w])'
<1>1. /\ run'[w].job = j /\ run'[w].at = k
      /\ run'[w].pc = IF k \in DOMAIN Channels[j] THEN "finding" ELSE "ending"
  BY LoopFields
<1>2. k \notin DOMAIN Channels[j] => \A l \in DOMAIN Channels[j] : l \in 1..(k - 1)
  BY ChannelsKnown
<1> QED BY <1>1, <1>2 DEF Serves, Delivered, Working

\* Delivering a row that is there, when the channels before it are served.
LEMMA DeliverServes ==
  ASSUME Typed, NEW w \in Workers, NEW v \in Workers, run[w].pc \in Working,
         run'[w] = DeliverTo(w, v),
         NEW j \in Jobs, j = Job(w), NEW k \in 1..2, k = run[w].at,
         \A l \in 1..(k - 1) : Delivered(j, l)', rows'[<<j, Channels[j][k], v>>] # "ABSENT"
  PROVE  Serves(w, run[w])'
<1>1. /\ run'[w].job = j /\ run'[w].at = k /\ run'[w].row = v
      /\ run'[w].pc \in {"delivering", "marking"}
  BY AtChannel, DeliverFields DEF Typed
<1> QED BY <1>1 DEF Serves, Delivered, Working

\* Every statement of a processor leaves it with what the next one relies on.
LEMMA ServesMoved ==
  ASSUME Typed, Typed', ServeInv, [Next]_vars, NEW w \in Workers, run'[w] # run[w]
  PROVE  Serves(w, run[w])'
<1>a. ASSUME NEW s, Goto(w, s) PROVE run'[w] = s
  BY <1>a DEF Goto, Typed, TypeOK
<1>b. Serves(w, run[w])
  BY DEF ServeInv
<1>c. ASSUME run'[w].pc \in {"idle", "failing"} PROVE Serves(w, run[w])'
  BY <1>c DEF Serves, Working
<1>d. ASSUME run[w].pc \in Working, NEW j \in Jobs, j = Job(w), NEW k \in 1..2, k = run[w].at
      PROVE  \A l \in 1..(k - 1) : Delivered(j, l)'
  <2>1. \A l \in 1..(k - 1) : l \in DOMAIN Channels[j]
    BY <1>d, AtChannel
  <2> QED BY <1>b, <1>d, <2>1, DeliveredStays DEF Serves, Job
<1>e. ASSUME run[w].pc \in Working, run'[w] = LoopAt(Job(w), run[w].at + 1),
             NEW v \in Workers, rows'[Row(w, v)] = "SENT"
      PROVE  Serves(w, run[w])'
  <2>1. PICK j \in Jobs, k \in 1..2 : /\ j = Job(w) /\ k = run[w].at
                                      /\ k \in DOMAIN Channels[j]
                                      /\ \A l \in 1..(k - 1) : l \in DOMAIN Channels[j]
    BY <1>e, AtChannel
  <2>2. Delivered(j, k)'
    BY <1>e, <2>1 DEF Delivered, Row
  <2>3. \A l \in 1..(k - 1) : Delivered(j, l)'
    BY <1>d, <1>e, <2>1
  <2>4. k + 1 \in 1..3 /\ \A l \in 1..((k + 1) - 1) : l \in 1..(k - 1) \/ l = k
    OBVIOUS
  <2>5. \A l \in 1..((k + 1) - 1) : l \in DOMAIN Channels[j] /\ Delivered(j, l)'
    BY <2>1, <2>2, <2>3, <2>4
  <2> QED BY <1>e, <2>1, <2>4, <2>5, LoopServes
<1>1. ASSUME NEW j \in Jobs, Take(w, j) PROVE Serves(w, run[w])'
  <2>1. run'[w] = LoopAt(j, 1)
    BY <1>1, <1>a DEF Take
  <2> QED BY <2>1, LoopServes
<1>2. CASE Find(w)
  <2>0. run[w].pc \in Working /\ run[w].pc = "finding" /\ UNCHANGED rows
    BY <1>2 DEF Find, At, Working
  <2>1. CASE /\ {v \in Workers : rows[Row(w, v)] # "ABSENT"} = {}
             /\ Goto(w, [run[w] EXCEPT !.pc = "creating"])
    <3>1. PICK q \in Run : q = run[w]
      BY DEF Typed, TypeOK
    <3>2. /\ run'[w].pc = "creating" /\ run'[w].job = q.job /\ run'[w].at = q.at
      BY <1>a, <2>0, <2>1, <3>1, RunFields
    <3>3. rows'[<<q.job, Channels[q.job][q.at], w>>] = "ABSENT"
      BY <2>0, <2>1, <3>1 DEF Row, Job
    <3>5. q.job \in Jobs /\ q.at \in 1..2
      BY <2>0, <3>1, AtChannel DEF Job
    <3>4. \A l \in 1..(q.at - 1) : Delivered(q.job, l)'
      BY <1>d, <2>0, <3>1, <3>5 DEF Job
    <3> QED BY <3>2, <3>3, <3>4, <3>5 DEF Serves, Working, Delivered
  <2>2. ASSUME NEW v \in Workers, rows[Row(w, v)] # "ABSENT", Goto(w, Found(w, v))
        PROVE  Serves(w, run[w])'
    <3>1. CASE rows[Row(w, v)] = "SENT"
      <4>1. run'[w] = LoopAt(Job(w), run[w].at + 1)
        BY <1>a, <2>2, <3>1 DEF Found
      <4>2. rows'[Row(w, v)] = "SENT"
        BY <2>0, <3>1
      <4> QED BY <1>e, <2>0, <4>1, <4>2
    <3>2. CASE rows[Row(w, v)] # "SENT"
      <4>1. run'[w] = DeliverTo(w, v)
        BY <1>a, <2>2, <3>2 DEF Found
      <4>2. rows'[<<Job(w), Channels[Job(w)][run[w].at], v>>] # "ABSENT"
        BY <2>0, <2>2 DEF Row
      <4>3. Job(w) \in Jobs /\ run[w].at \in 1..2
        BY <2>0, AtChannel
      <4> QED BY <1>d, <2>0, <4>1, <4>2, <4>3, DeliverServes
    <3> QED BY <3>1, <3>2
  <2> QED BY <1>2, <2>1, <2>2 DEF Find
<1>3. CASE Create(w)
  <2>0. run[w].pc \in Working
    BY <1>3 DEF Create, At, Working
  <2>1. run'[w] = DeliverTo(w, w)
    BY <1>3, <1>a DEF Create
  <2>2. <<Job(w), Channels[Job(w)][run[w].at], w>> \in Jobs \X Channel \X Workers
    BY <2>0, AtChannel
  <2>3. rows'[<<Job(w), Channels[Job(w)][run[w].at], w>>] # "ABSENT"
    BY <1>3, <2>2 DEF Create, Row, Typed, TypeOK
  <2>4. Job(w) \in Jobs /\ run[w].at \in 1..2
    BY <2>0, AtChannel
  <2> QED BY <1>d, <2>0, <2>1, <2>3, <2>4, DeliverServes
<1>4. CASE SendEmail(w)
  <2>0. run[w].pc \in Working /\ run[w].pc = "delivering" /\ UNCHANGED rows
    BY <1>4 DEF SendEmail, At, Working
  <2>1. PICK q \in Run : q = run[w]
    BY DEF Typed, TypeOK
  <2>2. run'[w].pc = "marking" /\ run'[w].job = q.job /\ run'[w].at = q.at /\ run'[w].row = q.row
    BY <1>4, <1>a, <2>0, <2>1, RunFields DEF SendEmail
  <2>3. q.job \in Jobs /\ q.at \in 1..2
    BY <2>0, <2>1, AtChannel DEF Job
  <2> QED BY <1>b, <1>d, <2>0, <2>1, <2>2, <2>3 DEF Serves, Working, Delivered, Job
<1>5. CASE MarkSent(w)
  <2>0. run[w].pc \in Working
    BY <1>5 DEF MarkSent, At, Working
  <2>1. run'[w] = LoopAt(Job(w), run[w].at + 1)
    BY <1>5, <1>a DEF MarkSent
  <2>2. run[w].row \in Workers
    BY <1>5, RunFields DEF MarkSent, At, Typed, TypeOK
  <2>3. Row(w, run[w].row) \in Jobs \X Channel \X Workers
    BY <2>0, <2>2, AtChannel DEF Row
  <2>4. rows'[Row(w, run[w].row)] = "SENT"
    BY <1>5, <2>3 DEF MarkSent, Typed, TypeOK
  <2> QED BY <1>e, <2>0, <2>1, <2>2, <2>4
<1>6. CASE Complete(w) \/ Fail(w) \/ Throw(w) \/ Crash(w)
  <2>1. run'[w].pc \in {"idle", "failing"}
    BY <1>6, <1>a DEF Complete, Fail, Throw, Crash, AfterError, Idle
  <2> QED BY <1>c, <2>1
<1> QED BY <1>1, <1>2, <1>3, <1>4, <1>5, <1>6, WhoMoves DEF Work

LEMMA ServeStep == Typed /\ ServeInv /\ [Next]_vars => ServeInv'
<1> SUFFICES ASSUME Typed, ServeInv, [Next]_vars, NEW w \in Workers PROVE Serves(w, run[w])'
  BY DEF ServeInv
<1>1. Typed'
  BY TypedStep
<1> QED BY <1>1, ServesKept, ServesMoved

\* The invariants of the queue, for every instance.
LEMMA QueueInvariant == Spec => [](Typed /\ FailedInv /\ ServeInv)
<1>1. Init => Typed /\ FailedInv /\ ServeInv
  <2>1. Init => FailedInv
    BY DEF Init, FailedInv, FailedMeansOver
  <2>2. Init => ServeInv
    BY DEF Init, ServeInv, Serves, Idle, Working
  <2> QED BY <2>1, <2>2, TypedInit
<1>2. Typed /\ FailedInv /\ ServeInv /\ [Next]_vars => (Typed /\ FailedInv /\ ServeInv)'
  BY TypedStep, FailedStep, ServeStep
<1> QED BY <1>1, <1>2, PTL DEF Spec

\* The types of the queue, its rows and its processors.
THEOREM NotificationTypeCorrect == Spec => []TypeOK
<1>1. Typed => TypeOK
  BY DEF Typed
<1> QED BY <1>1, QueueInvariant, PTL

\* However late its handler runs, a notification is FAILED only when its job is
\* over with all attempts used up: no attempt meets a row that was given up.
THEOREM FailuresAreFinal == Spec => []FailedMeansOver
<1>1. FailedInv => FailedMeansOver
  BY DEF FailedInv
<1> QED BY <1>1, QueueInvariant, PTL

-----------------------------------------------------------------------------
\* The state of Delivery that a state of the queue stands for.
Outcome == [j \in Jobs |->
    CASE state[j] = "ABSENT" -> "NONE"
      [] state[j] \in {"WAITING", "ACTIVE"} -> "QUEUED"
      [] OTHER -> state[j]]
Served == [j \in Jobs |-> {k \in DOMAIN Channels[j] :
    \E v \in Workers : rows[<<j, Channels[j][k], v>>] = "SENT"}]

LEMMA ServedMeans ==
  ASSUME NEW j \in Jobs, NEW k
  PROVE  k \in Served[j] <=> k \in DOMAIN Channels[j] /\ Delivered(j, k)
  BY DEF Served, Delivered

\* Only MarkSent serves a channel.
LEMMA ServedSame ==
  ASSUME Typed, ServeInv, [Next]_vars, \A w \in Workers : ~MarkSent(w)
  PROVE  Served' = Served
<1>1. ASSUME NEW j \in Jobs, NEW k \in DOMAIN Channels[j]
      PROVE  Delivered(j, k)' <=> Delivered(j, k)
  <2>1. PICK c \in Channel : c = Channels[j][k]
    BY ChannelsKnown
  <2>2. ASSUME NEW v \in Workers, rows'[<<j, c, v>>] = "SENT"
        PROVE  rows[<<j, c, v>>] = "SENT"
    <3>1. Closed(rows[<<j, c, v>>]) = "SENT" => rows[<<j, c, v>>] = "SENT"
      BY DEF Closed
    <3> QED BY <2>2, <3>1, RowWrites
  <2> QED BY <2>1, <2>2, DeliveredStays DEF Delivered
<1> QED BY <1>1 DEF Served, Delivered

\* MarkSent serves the channel its worker is at.
LEMMA ServedMarked ==
  ASSUME Typed, ServeInv, [Next]_vars, NEW w \in Workers, MarkSent(w),
         NEW j \in Jobs, j = Job(w), NEW k \in 1..2, k = run[w].at
  PROVE  Served' = [Served EXCEPT ![j] = @ \cup {k}]
<1>0. run[w].pc \in Working /\ run[w].row \in Workers
  BY RunFields DEF MarkSent, At, Working, Typed, TypeOK
<1>1. k \in DOMAIN Channels[j] /\ Channels[j][k] \in Channel
  BY <1>0, AtChannel
<1>2. rows' = [rows EXCEPT ![<<j, Channels[j][k], run[w].row>>] = "SENT"]
  BY DEF MarkSent, Row
<1>3. <<j, Channels[j][k], run[w].row>> \in Jobs \X Channel \X Workers
  BY <1>0, <1>1
<1>4. Delivered(j, k)'
  BY <1>0, <1>2, <1>3 DEF Delivered, Typed, TypeOK
<1>5. ASSUME NEW i \in Jobs, NEW l \in DOMAIN Channels[i], i # j \/ l # k
      PROVE  Delivered(i, l)' <=> Delivered(i, l)
  <2>1. PICK c \in Channel : c = Channels[i][l]
    BY ChannelsKnown
  <2>2. i = j => c # Channels[j][k]
    BY <1>1, <1>5, <2>1, ChannelsKnown
  <2>3. \A v \in Workers : rows'[<<i, c, v>>] = rows[<<i, c, v>>]
    BY <1>2, <1>3, <2>2 DEF Typed, TypeOK
  <2> QED BY <2>1, <2>3 DEF Delivered
<1>6. ASSUME NEW i \in Jobs PROVE Served'[i] = IF i = j THEN Served[i] \cup {k} ELSE Served[i]
  <2>1. ASSUME NEW l PROVE l \in Served'[i] <=> l \in Served[i] \/ (i = j /\ l = k)
    <3>1. l \in Served'[i] <=> l \in DOMAIN Channels[i] /\ Delivered(i, l)'
      BY DEF Served, Delivered
    <3> QED BY <1>1, <1>4, <1>5, <3>1, ServedMeans
  <2> QED BY <2>1
<1> QED BY <1>6 DEF Served

\* What the state of one job stands for, and that the others stay.
LEMMA OutcomeMoved ==
  ASSUME TypeOK, NEW j \in Jobs,
         NEW s \in {"WAITING", "ACTIVE", "COMPLETED", "FAILED"},
         state' = [state EXCEPT ![j] = s]
  PROVE  Outcome' = [Outcome EXCEPT ![j] = IF s \in {"WAITING", "ACTIVE"} THEN "QUEUED" ELSE s]
  BY DEF Outcome, TypeOK

LEMMA OutcomeSame == ASSUME UNCHANGED state PROVE Outcome' = Outcome
  BY DEF Outcome

LEMMA PromiseInit == Init => Promise!Init
<1> SUFFICES ASSUME Init PROVE Promise!Init
  OBVIOUS
<1>1. ASSUME NEW j \in Jobs, NEW k \in DOMAIN Channels[j], NEW v \in Workers
      PROVE  rows[<<j, Channels[j][k], v>>] # "SENT"
  BY <1>1, ChannelsKnown DEF Init
<1>2. \A j \in Jobs : state[j] = "ABSENT"
  BY DEF Init
<1> QED BY <1>1, <1>2 DEF Promise!Init

\* Every step of the queue is a step of Delivery, or none.
LEMMA PromiseStep ==
  Typed /\ ServeInv /\ [Next]_vars => [Promise!Next]_Promise!vars
<1> SUFFICES ASSUME Typed, ServeInv, [Next]_vars PROVE [Promise!Next]_Promise!vars
  OBVIOUS
<1> USE DEF Outcome, Served
<1>0. TypeOK /\ QueueInv
  BY DEF Typed
<1>a. CASE Outcome' = Outcome /\ Served' = Served
  BY <1>a DEF Promise!vars
<1>b. ASSUME NEW j \in Jobs, Outcome[j] = "NONE",
             Outcome' = [Outcome EXCEPT ![j] = "QUEUED"], Served' = Served
      PROVE  Promise!Next
  BY <1>b DEF Promise!Next, Promise!Accept
<1>c. ASSUME NEW j \in Jobs, Outcome[j] = "QUEUED",
             Outcome' = [Outcome EXCEPT ![j] = "FAILED"], Served' = Served
      PROVE  Promise!Next
  BY <1>c DEF Promise!Next, Promise!GiveUp
<1>d. ASSUME NEW j \in Jobs, Outcome[j] = "QUEUED", Served[j] = DOMAIN Channels[j],
             Outcome' = [Outcome EXCEPT ![j] = "COMPLETED"], Served' = Served
      PROVE  Promise!Next
  BY <1>d DEF Promise!Next, Promise!Complete, Promise!Positions
<1>e. ASSUME NEW j \in Jobs, Outcome[j] # "NONE", NEW k \in DOMAIN Channels[j] \ Served[j],
             1..(k - 1) \subseteq Served[j],
             Outcome' = Outcome, Served' = [Served EXCEPT ![j] = @ \cup {k}]
      PROVE  Promise!Next
  BY <1>e DEF Promise!Next, Promise!Serve, Promise!Positions
<1>f. ASSUME NEW j \in Jobs, state[j] \in {"WAITING", "ACTIVE"},
             NEW s \in {"WAITING", "ACTIVE", "FAILED"}, state' = [state EXCEPT ![j] = s],
             Served' = Served
      PROVE  [Promise!Next]_Promise!vars
  <2>1. Outcome[j] = "QUEUED"
    BY <1>f
  <2>2. Outcome' = [Outcome EXCEPT ![j] = IF s \in {"WAITING", "ACTIVE"} THEN "QUEUED" ELSE s]
    BY <1>0, <1>f, OutcomeMoved
  <2>3. CASE s = "FAILED"
    BY <1>c, <1>f, <2>1, <2>2, <2>3
  <2>4. CASE s # "FAILED"
    <3>1. Outcome' = [Outcome EXCEPT ![j] = Outcome[j]]
      BY <1>f, <2>1, <2>2, <2>4
    <3>2. Outcome' = Outcome
      BY <3>1
    <3> QED BY <1>a, <1>f, <3>2
  <2> QED BY <2>3, <2>4
<1> HIDE DEF Outcome, Served
<1>1. ASSUME NEW w \in Workers, MarkSent(w) PROVE [Promise!Next]_Promise!vars
  <2>1. run[w].pc \in Working /\ run[w].pc = "marking"
    BY <1>1 DEF MarkSent, At, Working
  <2>2. PICK j \in Jobs, k \in 1..2 :
          /\ j = Job(w) /\ k = run[w].at /\ k \in DOMAIN Channels[j]
          /\ \A l \in 1..(k - 1) : l \in DOMAIN Channels[j]
    BY <2>1, AtChannel
  <2>3. Served' = [Served EXCEPT ![j] = @ \cup {k}]
    BY <1>1, <2>2, ServedMarked
  <2>4. Outcome' = Outcome
    BY <1>1, OutcomeSame DEF MarkSent, queue
  <2>5. state[j] # "ABSENT"
    BY <2>1, <2>2 DEF Typed, LoopInv, Idle
  <2>6. Outcome[j] # "NONE"
    BY <1>0, <2>5 DEF Outcome, TypeOK
  <2>7. 1..(k - 1) \subseteq Served[j]
    BY <2>1, <2>2, ServedMeans DEF ServeInv, Serves, Job
  <2>8. CASE k \in Served[j]
    <3>1. Served[j] \cup {k} = Served[j]
      BY <2>8
    <3>2. Served' = Served
      BY <2>3, <3>1 DEF Served
    <3> QED BY <1>a, <2>4, <3>2
  <2>9. CASE k \notin Served[j]
    BY <1>e, <2>2, <2>3, <2>4, <2>6, <2>7, <2>9
  <2> QED BY <2>8, <2>9
<1>2. ASSUME \A w \in Workers : ~MarkSent(w) PROVE [Promise!Next]_Promise!vars
  <2>0. Served' = Served
    BY <1>2, ServedSame
  <2>1. CASE UNCHANGED state
    BY <1>a, <2>0, <2>1, OutcomeSame
  <2>2. ASSUME NEW j \in Jobs, Enqueue(j) PROVE [Promise!Next]_Promise!vars
    <3>1. state' = [state EXCEPT ![j] = "WAITING"]
      BY <2>2 DEF Enqueue
    <3>2. Outcome' = [Outcome EXCEPT ![j] = "QUEUED"]
      BY <1>0, <3>1, OutcomeMoved
    <3>3. Outcome[j] = "NONE"
      BY <2>2 DEF Enqueue, Outcome
    <3> QED BY <1>b, <2>0, <3>2, <3>3
  <2>3. ASSUME NEW j \in Jobs, Lapse(j) PROVE [Promise!Next]_Promise!vars
    <3>1. PICK s \in {"WAITING", "ACTIVE", "FAILED"} : state' = [state EXCEPT ![j] = s]
      BY <2>3 DEF Lapse
    <3> QED BY <1>f, <2>0, <2>3, <3>1 DEF Lapse
  <2>4. ASSUME NEW w \in Workers, NEW j \in Jobs, Take(w, j)
        PROVE  [Promise!Next]_Promise!vars
    BY <1>f, <2>0, <2>4 DEF Take
  <2>5. ASSUME NEW w \in Workers, Complete(w), NEW j \in Jobs, j = Job(w), owner[j] = w
        PROVE  [Promise!Next]_Promise!vars
    <3>1. state[j] = "ACTIVE"
      BY <1>0, <2>5, WorkersAssumption DEF QueueInv
    <3>2. state' = [state EXCEPT ![j] = "COMPLETED"]
      BY <2>5 DEF Complete
    <3>3. Outcome' = [Outcome EXCEPT ![j] = "COMPLETED"]
      BY <1>0, <3>2, OutcomeMoved
    <3>4. Outcome[j] = "QUEUED"
      BY <3>1 DEF Outcome
    <3>5. \A k \in DOMAIN Channels[j] : Delivered(j, k)
      BY <2>5 DEF Complete, At, ServeInv, Serves, Job
    <3>6. Served[j] = DOMAIN Channels[j]
      BY <3>5 DEF Served, Delivered
    <3> QED BY <1>d, <2>0, <3>3, <3>4, <3>6
  <2>6. ASSUME NEW w \in Workers, Fail(w), NEW j \in Jobs, j = Job(w), owner[j] = w
        PROVE  [Promise!Next]_Promise!vars
    <3>1. state[j] = "ACTIVE"
      BY <1>0, <2>6, WorkersAssumption DEF QueueInv
    <3>2. PICK s \in {"WAITING", "ACTIVE", "FAILED"} : state' = [state EXCEPT ![j] = s]
      BY <2>6 DEF Fail, Retried
    <3> QED BY <1>f, <2>0, <3>1, <3>2
  <2>7. ASSUME NEW w \in Workers, Complete(w) \/ Fail(w) PROVE [Promise!Next]_Promise!vars
    <3>1. Job(w) \in Jobs
      BY <1>0, <2>7, BusyJob DEF Complete, Fail, At
    <3>2. CASE owner[Job(w)] = w
      BY <2>5, <2>6, <2>7, <3>1, <3>2
    <3>3. CASE owner[Job(w)] # w
      BY <2>1, <2>7, <3>3 DEF Complete, Fail
    <3> QED BY <3>2, <3>3
  <2> QED BY <2>1, <2>2, <2>3, <2>4, <2>7
          DEF Next, vars, queue, Reclaim, Stall, Work, Find, Create, SendEmail, MarkSent,
              Throw, Crash, CloseRows
<1> QED BY <1>1, <1>2

\* Through retries, duplicate rows, crashes and workers without a lock, for any
\* number of them, the queue implements Delivery: channels are served in order
\* and for good, and a job completes only with all of them SENT.
THEOREM QueueKeepsPromise == Spec => KeepsPromise
<1>1. Spec => Promise!Init /\ [][Promise!Next]_Promise!vars
  BY PromiseInit, PromiseStep, QueueInvariant, PTL DEF Spec
<1> QED BY <1>1 DEF KeepsPromise, Promise!Spec

-----------------------------------------------------------------------------
\* As long as the job of a processor never stalled, its worker holds the lock; a
\* row that is to be inserted is the first of its channel, and an e-mail that is
\* to be sent has no row that is SENT.
Lone(w, q) ==
  /\ q # Idle /\ stalls[q.job] = 0 => owner[q.job] = w
  /\ q.pc = "creating" /\ stalls[q.job] = 0 =>
       \A v \in Workers : rows[<<q.job, Channels[q.job][q.at], v>>] = "ABSENT"
  /\ q.pc = "delivering" /\ stalls[q.job] = 0 =>
       rows[<<q.job, Channels[q.job][q.at], q.row>>] # "SENT"
  /\ q.pc = "delivering" => Channels[q.job][q.at] = "EMAIL"

\* A job that never stalled has one row per channel.
OneRow == \A j \in Jobs : stalls[j] = 0 =>
  \A c \in Channel : \A u, v \in Workers :
    rows[<<j, c, u>>] # "ABSENT" /\ rows[<<j, c, v>>] # "ABSENT" => u = v

LoneInv == OneRow /\ \A w \in Workers : Lone(w, run[w])

QueueSafe == Typed /\ ServeInv /\ LoneInv

\* Lapses are counted.
LEMMA StallsGrow ==
  ASSUME Typed, [Next]_vars, NEW j \in Jobs, stalls'[j] = 0
  PROVE  stalls[j] = 0 /\ ~Lapse(j)
<1>1. ASSUME NEW i \in Jobs, Lapse(i) PROVE i # j /\ stalls[j] = 0
  <2>1. stalls[i] \in Nat /\ stalls'[i] = stalls[i] + 1
    BY <1>1, LimitsAssumption DEF Lapse, Typed, TypeOK
  <2> QED BY <1>1, <2>1 DEF Lapse, Typed, TypeOK
<1> QED BY <1>1
        DEF Next, vars, queue, Enqueue, Take, Reclaim, Stall, Work, Find, Create, SendEmail,
            MarkSent, Complete, Fail, Throw, Crash, CloseRows

\* The statements of a processor move it.
LEMMA StatementsMove ==
  ASSUME Typed, NEW w \in Workers,
         Create(w) \/ MarkSent(w) \/ Complete(w) \/ Fail(w)
  PROVE  run'[w] # run[w]
<1>1. CASE Create(w)
  <2>1. run[w].pc \in Working /\ run[w].pc = "creating"
    BY <1>1 DEF Create, At, Working
  <2>2. DeliverTo(w, w).pc # "creating"
    BY <2>1, AtChannel, DeliverFields DEF Typed
  <2> QED BY <1>1, <2>1, <2>2 DEF Create, Goto, Typed, TypeOK
<1>2. CASE MarkSent(w)
  <2>1. run[w].pc \in Working /\ run[w].pc = "marking"
    BY <1>2 DEF MarkSent, At, Working
  <2>2. LoopAt(Job(w), run[w].at + 1).pc # "marking"
    BY DEF LoopAt
  <2> QED BY <1>2, <2>1, <2>2 DEF MarkSent, Goto, Typed, TypeOK
<1>3. CASE Complete(w) \/ Fail(w)
  BY <1>3 DEF Complete, Fail, At, Goto, Typed, TypeOK, Idle
<1> QED BY <1>1, <1>2, <1>3

\* A processor that did not move still holds the lock of a job that never stalled.
LEMMA LockKept ==
  ASSUME QueueSafe, [Next]_vars, NEW w \in Workers, run'[w] = run[w], run[w] # Idle,
         NEW j \in Jobs, j = Job(w), stalls'[j] = 0
  PROVE  owner[j] = w /\ owner'[j] = w
<1>0. Typed /\ stalls[j] = 0 /\ ~Lapse(j)
  BY StallsGrow DEF QueueSafe
<1>1. owner[j] = w
  BY <1>0 DEF QueueSafe, LoneInv, Lone, Job
<1>2. state[j] = "ACTIVE"
  BY <1>0, <1>1, WorkersAssumption DEF Typed, QueueInv
<1>3. ASSUME NEW u \in Workers, NEW i \in Jobs, Take(u, i) PROVE owner'[j] = w
  BY <1>0, <1>1, <1>2, <1>3 DEF Take, Typed, TypeOK
<1>4. ASSUME NEW u \in Workers, Complete(u) \/ Fail(u) PROVE owner'[j] = w
  <2>1. u # w
    BY <1>0, <1>4, StatementsMove
  <2>2. CASE Job(u) = j
    BY <1>1, <1>4, <2>1, <2>2 DEF Complete, Fail
  <2>3. CASE Job(u) # j
    BY <1>0, <1>1, <1>4, <2>3 DEF Complete, Fail, Typed, TypeOK
  <2> QED BY <2>2, <2>3
<1>5. ASSUME NEW i \in Jobs, Lapse(i) PROVE owner'[j] = w
  BY <1>0, <1>1, <1>5 DEF Lapse, Typed, TypeOK
<1>6. CASE UNCHANGED owner
  BY <1>1, <1>6
<1> QED BY <1>1, <1>3, <1>4, <1>5, <1>6
        DEF Next, vars, queue, Enqueue, Reclaim, Stall, Work, Find, Create, SendEmail,
            MarkSent, Throw, Crash, CloseRows

\* Nobody else inserts or marks a row of a job that never stalled.
LEMMA LoneWriter ==
  ASSUME QueueSafe, NEW j \in Jobs, stalls[j] = 0, NEW w \in Workers, owner[j] = w,
         NEW u \in Workers, Job(u) = j, Create(u) \/ MarkSent(u)
  PROVE  u = w
<1>1. run[u] # Idle
  BY DEF Create, MarkSent, At, Idle
<1> QED BY <1>1 DEF QueueSafe, LoneInv, Lone, Job

\* A processor that did not move is as lone as it was.
LEMMA LoneKept ==
  ASSUME QueueSafe, [Next]_vars, NEW w \in Workers, run'[w] = run[w]
  PROVE  Lone(w, run[w])'
<1>1. PICK q \in Run : q = run[w] /\ q = run'[w]
  BY DEF QueueSafe, Typed, TypeOK
<1>2. CASE q = Idle
  BY <1>1, <1>2 DEF Lone, Idle
<1>3. CASE q # Idle
  <2>1. PICK j \in Jobs : j = q.job /\ j = Job(w)
    BY <1>1, <1>3, RunFields DEF Job
  <2>2. Lone(w, q) /\ Typed
    BY <1>1 DEF QueueSafe, LoneInv
  <2>3. CASE stalls'[j] # 0
    BY <1>1, <2>1, <2>2, <2>3 DEF Lone
  <2>4. CASE stalls'[j] = 0
    <3>1. stalls[j] = 0 /\ owner[j] = w /\ owner'[j] = w
      BY <1>1, <1>3, <2>1, <2>2, <2>4, LockKept, StallsGrow
    <3>2. ASSUME NEW u \in Workers, Create(u) \/ MarkSent(u), Job(u) = j PROVE FALSE
      BY <1>1, <2>2, <3>1, <3>2, LoneWriter, StatementsMove
    <3>3. CASE q.pc \notin {"creating", "delivering"}
      BY <1>1, <2>1, <3>1, <3>3 DEF Lone
    <3>4. CASE q.pc \in {"creating", "delivering"}
      <4>1. PICK c \in Channel : c = Channels[j][q.at]
        BY <1>1, <2>1, <2>2, <3>4, AtChannel DEF Working
      <4>2. ASSUME NEW v \in Workers
            PROVE  \/ rows'[<<j, c, v>>] = rows[<<j, c, v>>]
                   \/ rows'[<<j, c, v>>] = Closed(rows[<<j, c, v>>])
        BY <2>2, <3>2, RowWrites
      <4>3. \A status : /\ status = "ABSENT" => Closed(status) = "ABSENT"
                        /\ status # "SENT" => Closed(status) # "SENT"
        BY DEF Closed
      <4>4. q.pc = "creating" => \A v \in Workers : rows'[<<j, c, v>>] = "ABSENT"
        BY <2>1, <2>2, <3>1, <4>1, <4>2, <4>3 DEF Lone
      <4>5. q.pc = "delivering" => rows'[<<j, c, q.row>>] # "SENT" /\ c = "EMAIL"
        <5>1. q.pc = "delivering" => q.row \in Workers
          BY RunFields
        <5> QED BY <2>1, <2>2, <3>1, <4>1, <4>2, <4>3, <5>1 DEF Lone
      <4> QED BY <1>1, <2>1, <3>1, <4>1, <4>4, <4>5 DEF Lone
    <3> QED BY <3>3, <3>4
  <2> QED BY <2>3, <2>4
<1> QED BY <1>2, <1>3

\* A processor that stays at its job keeps the lock with it.
LEMMA LoneLock ==
  ASSUME QueueSafe, [Next]_vars, NEW w \in Workers, run[w] # Idle, UNCHANGED <<owner, stalls>>,
         run'[w].job = run[w].job
  PROVE  stalls'[run'[w].job] = 0 => owner'[run'[w].job] = w
<1>1. PICK j \in Jobs : j = run[w].job
  BY RunFields DEF QueueSafe, Typed, TypeOK
<1> QED BY <1>1 DEF QueueSafe, LoneInv, Lone

\* Every statement of a processor leaves it lone.
LEMMA LoneMoved ==
  ASSUME QueueSafe, [Next]_vars, NEW w \in Workers, run'[w] # run[w]
  PROVE  Lone(w, run[w])'
<1>0. Typed /\ TypeOK
  BY DEF QueueSafe, Typed
<1>a. ASSUME NEW s, Goto(w, s) PROVE run'[w] = s
  BY <1>0, <1>a DEF Goto, TypeOK
<1>b. ASSUME run'[w].pc \notin {"creating", "delivering"}, run'[w].job = run[w].job,
             run[w] # Idle, UNCHANGED <<owner, stalls>>
      PROVE  Lone(w, run[w])'
  BY <1>b, LoneLock DEF Lone
<1>c. ASSUME NEW v \in Workers, run[w].pc \in Working, run'[w] = DeliverTo(w, v),
             UNCHANGED <<owner, stalls>>,
             rows'[<<Job(w), Channels[Job(w)][run[w].at], v>>] # "SENT"
      PROVE  Lone(w, run[w])'
  <2>1. /\ run'[w] # Idle /\ run'[w].job = Job(w) /\ run'[w].at = run[w].at /\ run'[w].row = v
        /\ run'[w].pc = IF Channels[Job(w)][run[w].at] = "EMAIL"
                        THEN "delivering" ELSE "marking"
    BY <1>0, <1>c, AtChannel, DeliverFields
  <2>2. PICK j \in Jobs, k \in 1..2 : j = Job(w) /\ k = run[w].at
    BY <1>0, <1>c, AtChannel
  <2>3. stalls'[j] = 0 => owner'[j] = w
    BY <1>c, <2>1, <2>2, LoneLock DEF Idle, Working, Job
  <2> QED BY <1>c, <2>1, <2>2, <2>3 DEF Lone
<1>d. ASSUME run[w].pc \in Working, run'[w] = LoopAt(Job(w), run[w].at + 1),
             UNCHANGED <<owner, stalls>>
      PROVE  Lone(w, run[w])'
  <2>1. run'[w].pc \notin {"creating", "delivering"} /\ run'[w].job = run[w].job
    BY <1>d DEF LoopAt, Job
  <2> QED BY <1>b, <1>d, <2>1 DEF Idle, Working
<1>1. ASSUME NEW j \in Jobs, Take(w, j) PROVE Lone(w, run[w])'
  <2>1. run'[w].pc \notin {"creating", "delivering"} /\ run'[w].job = j
    BY <1>1, <1>a DEF Take, LoopAt
  <2>2. owner'[j] = w
    BY <1>0, <1>1 DEF Take, TypeOK
  <2> QED BY <2>1, <2>2 DEF Lone
<1>2. CASE Find(w)
  <2>0. /\ run[w].pc \in Working /\ run[w].pc = "finding" /\ run[w] # Idle
        /\ UNCHANGED <<rows, owner, stalls>>
    BY <1>2 DEF Find, At, Working, queue, Idle
  <2>1. CASE /\ {v \in Workers : rows[Row(w, v)] # "ABSENT"} = {}
             /\ Goto(w, [run[w] EXCEPT !.pc = "creating"])
    <3>1. PICK q \in Run : q = run[w]
      BY <1>0 DEF TypeOK
    <3>2. run'[w].pc = "creating" /\ run'[w].job = q.job /\ run'[w].at = q.at
      BY <1>a, <2>0, <2>1, <3>1, RunFields
    <3>3. \A v \in Workers : rows'[<<q.job, Channels[q.job][q.at], v>>] = "ABSENT"
      BY <2>0, <2>1, <3>1 DEF Row, Job
    <3>4. stalls'[q.job] = 0 => owner'[q.job] = w
      BY <2>0, <3>1, <3>2, LoneLock
    <3> QED BY <3>2, <3>3, <3>4 DEF Lone
  <2>2. ASSUME NEW v \in Workers, Goto(w, Found(w, v)) PROVE Lone(w, run[w])'
    <3>1. CASE rows[Row(w, v)] = "SENT"
      BY <1>a, <1>d, <2>0, <2>2, <3>1 DEF Found
    <3>2. CASE rows[Row(w, v)] # "SENT"
      BY <1>a, <1>c, <2>0, <2>2, <3>2 DEF Found, Row
    <3> QED BY <3>1, <3>2
  <2> QED BY <1>2, <2>1, <2>2 DEF Find
<1>3. CASE Create(w)
  <2>0. run[w].pc \in Working /\ UNCHANGED <<owner, stalls>>
    BY <1>3 DEF Create, At, Working, queue
  <2>1. <<Job(w), Channels[Job(w)][run[w].at], w>> \in Jobs \X Channel \X Workers
    BY <1>0, <2>0, AtChannel
  <2>2. rows'[<<Job(w), Channels[Job(w)][run[w].at], w>>] = "PENDING"
    BY <1>0, <1>3, <2>1 DEF Create, Row, TypeOK
  <2> QED BY <1>3, <1>a, <1>c, <2>0, <2>2 DEF Create
<1>4. CASE SendEmail(w)
  <2>0. /\ run[w].pc = "delivering" /\ run[w] # Idle /\ UNCHANGED <<owner, stalls>>
    BY <1>4 DEF SendEmail, At, Idle, queue
  <2>1. PICK q \in Run : q = run[w]
    BY <1>0 DEF TypeOK
  <2>2. run'[w].pc = "marking" /\ run'[w].job = q.job
    BY <1>4, <1>a, <2>0, <2>1, RunFields DEF SendEmail
  <2> QED BY <1>b, <2>0, <2>1, <2>2
<1>5. CASE MarkSent(w)
  BY <1>5, <1>a, <1>d DEF MarkSent, At, Working, queue
<1>6. CASE Throw(w)
  BY <1>6, <1>a, <1>b DEF Throw, AfterError, Working, Idle, queue, Job
<1>7. CASE Complete(w) \/ Fail(w) \/ Crash(w)
  <2>1. run'[w] = Idle
    BY <1>7, <1>a DEF Complete, Fail, Crash
  <2> QED BY <2>1 DEF Lone, Idle
<1> QED BY <1>0, <1>1, <1>2, <1>3, <1>4, <1>5, <1>6, <1>7, WhoMoves DEF Work

\* A second row would need a second worker.
LEMMA OneRowKept == QueueSafe /\ [Next]_vars => OneRow'
<1> SUFFICES ASSUME QueueSafe, [Next]_vars, NEW j \in Jobs, stalls'[j] = 0,
                    NEW c \in Channel, NEW u \in Workers, NEW v \in Workers,
                    rows'[<<j, c, u>>] # "ABSENT", rows'[<<j, c, v>>] # "ABSENT"
             PROVE  u = v
  BY DEF OneRow
<1>0. Typed /\ ServeInv /\ stalls[j] = 0
  BY StallsGrow DEF QueueSafe
<1>1. ASSUME NEW x \in Workers, rows'[<<j, c, x>>] # "ABSENT", rows[<<j, c, x>>] = "ABSENT"
      PROVE  Create(x) /\ Job(x) = j /\ Channels[j][run[x].at] = c
  <2>1. ASSUME NEW y \in Workers, MarkSent(y), Job(y) = j, run[y].row = x,
               Channels[j][run[y].at] = c
        PROVE  FALSE
    BY <1>0, <1>1, <2>1 DEF MarkSent, At, ServeInv, Serves, Job
  <2>2. Closed("ABSENT") = "ABSENT"
    BY DEF Closed
  <2> QED BY <1>0, <1>1, <2>1, <2>2, RowWrites
<1>2. ASSUME NEW x \in Workers, Create(x), Job(x) = j, Channels[j][run[x].at] = c,
             NEW y \in Workers, rows'[<<j, c, y>>] # "ABSENT"
      PROVE  x = y
  <2>1. rows[<<j, c, y>>] = "ABSENT"
    BY <1>0, <1>2 DEF Create, At, Idle, QueueSafe, LoneInv, Lone, Job
  <2>2. Create(y)
    BY <1>1, <1>2, <2>1
  <2>3. run'[y] # run[y]
    BY <1>0, <2>2, StatementsMove
  <2> QED BY <1>0, <1>2, <2>3 DEF Create, Goto, Typed, TypeOK
<1>3. CASE rows[<<j, c, u>>] # "ABSENT" /\ rows[<<j, c, v>>] # "ABSENT"
  BY <1>0, <1>3 DEF QueueSafe, LoneInv, OneRow
<1>4. CASE rows[<<j, c, u>>] = "ABSENT"
  BY <1>1, <1>2, <1>4
<1>5. CASE rows[<<j, c, v>>] = "ABSENT"
  BY <1>1, <1>2, <1>5
<1> QED BY <1>3, <1>4, <1>5

LEMMA LoneStep == QueueSafe /\ [Next]_vars => QueueSafe'
<1> SUFFICES ASSUME QueueSafe, [Next]_vars PROVE QueueSafe'
  OBVIOUS
<1>1. Typed' /\ ServeInv'
  BY TypedStep, ServeStep DEF QueueSafe
<1>2. \A w \in Workers : Lone(w, run[w])'
  BY LoneKept, LoneMoved
<1> QED BY <1>1, <1>2, OneRowKept DEF QueueSafe, LoneInv

\* Only SendEmail sends, and of a job that never stalled it knows the only row.
LEMMA MailsOnce ==
  ASSUME QueueSafe, [Next]_vars, NEW j \in Jobs, mails'[j] > mails[j], stalls[j] = 0,
         NEW v \in Workers
  PROVE  rows[<<j, "EMAIL", v>>] # "SENT"
<1>0. Typed /\ mails[j] \in Nat
  BY DEF QueueSafe, Typed, TypeOK
<1>a. mails'[j] # mails[j]
  BY <1>0
<1>1. PICK w \in Workers : SendEmail(w)
  BY <1>a DEF Next, vars, queue, Enqueue, Take, Reclaim, Stall, Lapse, Work, Find, Create,
         MarkSent, Complete, Fail, Throw, Crash, CloseRows
<1>2. Job(w) = j
  BY <1>0, <1>1 DEF SendEmail, Typed, TypeOK
<1>3. PICK q \in Run : q = run[w] /\ q.pc = "delivering"
  BY <1>0, <1>1 DEF SendEmail, At, Typed, TypeOK
<1>4. /\ Channels[j][q.at] = "EMAIL" /\ rows[<<j, "EMAIL", q.row>>] # "SENT"
      /\ rows[<<j, "EMAIL", q.row>>] # "ABSENT"
  BY <1>2, <1>3 DEF QueueSafe, LoneInv, Lone, ServeInv, Serves, Job
<1>5. q.row \in Workers
  BY <1>3, RunFields
<1> QED BY <1>4, <1>5 DEF QueueSafe, LoneInv, OneRow, Channel

\* For any number of attempts and workers: while its job never stalled, an e-mail
\* that some attempt has marked SENT is not sent again by a later one.
THEOREM RetriesDoNotRepeat == Spec => NoMailAfterSent
<1> DEFINE Once == \A j \in Jobs : mails'[j] > mails[j] /\ stalls[j] = 0
       => \A v \in Workers : rows[<<j, "EMAIL", v>>] # "SENT"
<1>1. Init => QueueSafe
  <2>1. Init => LoneInv
    BY DEF Init, LoneInv, OneRow, Lone, Idle
  <2>2. Init => ServeInv
    BY DEF Init, ServeInv, Serves, Idle, Working
  <2> QED BY <2>1, <2>2, TypedInit DEF QueueSafe
<1>2. QueueSafe /\ [Next]_vars => [Once]_vars
  BY MailsOnce
<1>3. Spec => [][Once]_vars
  BY <1>1, <1>2, LoneStep, PTL DEF Spec
<1> QED BY <1>3 DEF NoMailAfterSent
=============================================================================
